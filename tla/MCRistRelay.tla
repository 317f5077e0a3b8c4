---------------------------- MODULE MCRistRelay ----------------------------
(***************************************************************************)
(* Instances of RistRelay for TLC.                                         *)
(***************************************************************************)
EXTENDS RistRelay
=============================================================================
