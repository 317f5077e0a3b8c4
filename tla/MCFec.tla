------------------------------- MODULE MCFec -------------------------------
(***************************************************************************)
(* Instances of Fec for TLC: a block and one index beyond it.              *)
(***************************************************************************)
EXTENDS Fec

MCIndices == 0..Block
=============================================================================
