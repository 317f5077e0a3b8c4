-------------------------------- MODULE Fec --------------------------------
(***************************************************************************)
(* The ST 2022-1 recoverability model and oracle (fec/fec.go).  A run has  *)
(* two parts, one after the other:                                         *)
(*                                                                         *)
(*   the receiver, which is not in the repository, repairs losses with the *)
(*   parity of columns and rows in whatever order packets reach it, and,   *)
(*   unless retransmission is suppressed, gets lost packets sent again; it *)
(*   may stop at any point and then reports what it delivered and how many *)
(*   packets it repaired;                                                  *)
(*                                                                         *)
(*   the oracle, which decodes the same losses (Recover, smallest index    *)
(*   first, with a count of losses per line) and grades the report.        *)
(*                                                                         *)
(* Lists of indices are sets: both results are sorted in the end, and      *)
(* duplicates are ignored by the code.                                     *)
(***************************************************************************)
EXTENDS Integers, FiniteSets

CONSTANTS
  L, D,     \* columns and rows of the matrix
  Indices   \* indices that may be reported lost, out of range ones too

ASSUME MatrixAssumption == L \in Nat \ {0} /\ D \in Nat \ {0}
ASSUME IndicesAssumption == Indices \subseteq Int

VARIABLES
  twoD,      \* row parity is present
  lost,      \* the realized drop list
  isolated,  \* ARQIsolated: no retransmissions in this run
  rx,        \* receiver: media packets it still misses
  repaired,  \* receiver: packets it repaired by FEC
  claimed,   \* ClaimedFEC of the report (-1: unknown)
  out,       \* oracle: losses not recovered yet
  colCount, rowCount,  \* oracle: their number per line
  recovered, \* oracle: losses recovered
  pc         \* receive, filter, decode, graded

rxVars == <<rx, repaired, claimed>>
decodeVars == <<out, colCount, rowCount, recovered>>
vars == <<twoD, lost, isolated, rxVars, decodeVars, pc>>

Block == L * D
Cols == 0..(L - 1)
Rows == 0..(D - 1)

\* Mutant: the packets of a column are neighbours.
colAdjacent(i) == (i \div D) % L

col(i) == i % L
row(i) == i \div L

InBlock(S) == {i \in S : i >= 0 /\ i < Block}

\* Losses of S in the same column, or row, as i.
InCol(S, i) == {j \in S : col(j) = col(i)}
InRow(S, i) == {j \in S : row(j) = row(i)}

Init ==
  /\ twoD \in BOOLEAN /\ isolated \in BOOLEAN
  /\ lost \in SUBSET Indices
  /\ rx = InBlock(lost) /\ repaired = 0 /\ claimed = -1
  /\ out = {} /\ recovered = {}
  /\ colCount = [c \in Cols |-> 0] /\ rowCount = [r \in Rows |-> 0]
  /\ pc = "receive"
-----------------------------------------------------------------------------
(***************************************************************************)
(* The receiver.                                                           *)
(***************************************************************************)
Repairable(i) == InCol(rx, i) = {i} \/ (twoD /\ InRow(rx, i) = {i})

RxRepair(i) ==
  /\ pc = "receive"
  /\ i \in rx /\ Repairable(i)
  /\ rx' = rx \ {i}
  /\ repaired' = repaired + 1
  /\ UNCHANGED <<twoD, lost, isolated, claimed, decodeVars, pc>>

RxRetransmitted(i) ==
  /\ pc = "receive" /\ ~isolated
  /\ i \in rx
  /\ rx' = rx \ {i}
  /\ UNCHANGED <<twoD, lost, isolated, repaired, claimed, decodeVars, pc>>

\* The run is over; the repair count may not be available.
Report ==
  /\ pc = "receive"
  /\ claimed' \in {repaired, -1}
  /\ pc' = "filter"
  /\ UNCHANGED <<twoD, lost, isolated, rx, repaired, decodeVars>>
-----------------------------------------------------------------------------
(***************************************************************************)
(* Recover.                                                                *)
(***************************************************************************)
\* Keep the indices in range and count them per line.
Filter ==
  /\ pc = "filter"
  /\ out' = InBlock(lost)
  /\ colCount' = [c \in Cols |-> Cardinality({i \in InBlock(lost) : col(i) = c})]
  /\ rowCount' = [r \in Rows |-> Cardinality({i \in InBlock(lost) : row(i) = r})]
  /\ recovered' = {}
  /\ pc' = "decode"
  /\ UNCHANGED <<twoD, lost, isolated, rxVars>>

\* Mutant: row parity is never used.
AloneInColumn(i) == colCount[col(i)] = 1

\* Alone in its column or, in 2-D, in its row.
Alone(i) == colCount[col(i)] = 1 \/ (twoD /\ rowCount[row(i)] = 1)

\* Mutant: the count of the row is left as it was.
DecodeKeepsRow ==
  /\ pc = "decode"
  /\ \E next \in out :
       /\ Alone(next) /\ \A i \in out : Alone(i) => next <= i
       /\ out' = out \ {next}
       /\ colCount' = [colCount EXCEPT ![col(next)] = @ - 1]
       /\ recovered' = recovered \cup {next}
  /\ UNCHANGED <<twoD, lost, isolated, rxVars, rowCount, pc>>

\* Recover the smallest loss that is alone.
Decode ==
  /\ pc = "decode"
  /\ \E next \in out :
       /\ Alone(next) /\ \A i \in out : Alone(i) => next <= i
       /\ out' = out \ {next}
       /\ colCount' = [colCount EXCEPT ![col(next)] = @ - 1]
       /\ rowCount' = [rowCount EXCEPT ![row(next)] = @ - 1]
       /\ recovered' = recovered \cup {next}
  /\ UNCHANGED <<twoD, lost, isolated, rxVars, pc>>

\* None is: what is left is the residual, and the run is graded.
Graded ==
  /\ pc = "decode"
  /\ \A i \in out : ~Alone(i)
  /\ pc' = "graded"
  /\ UNCHANGED <<twoD, lost, isolated, rxVars, decodeVars>>
-----------------------------------------------------------------------------
(***************************************************************************)
(* Evaluate: the two graders that can go wrong.                            *)
(***************************************************************************)
Total == Block
Delivered == Total - Cardinality(rx)

\* The most that a receiver without retransmissions can deliver.
Ceiling == Total - Cardinality(out)

fecRecoverySound ==
  IF \/ claimed >= 0 /\ claimed > Cardinality(recovered)
     \/ isolated /\ Delivered > Ceiling
  THEN "fail" ELSE "pass"

fecRecoveryEffective ==
  IF recovered = {} \/ Delivered >= Ceiling THEN "pass" ELSE "warn"

Next ==
  \/ \E i \in rx : RxRepair(i) \/ RxRetransmitted(i)
  \/ Report \/ Filter \/ Decode \/ Graded
  \/ pc = "graded" /\ UNCHANGED vars

Spec == Init /\ [][Next]_vars
-----------------------------------------------------------------------------
(***************************************************************************)
(* Properties.                                                             *)
(***************************************************************************)
TypeOK ==
  /\ twoD \in BOOLEAN /\ isolated \in BOOLEAN
  /\ lost \subseteq Indices
  /\ rx \subseteq InBlock(lost) /\ repaired \in Nat /\ claimed \in Nat \cup {-1}
  /\ out \subseteq InBlock(lost) /\ recovered \subseteq InBlock(lost)
  /\ colCount \in [Cols -> Int] /\ rowCount \in [Rows -> Int]
  /\ pc \in {"receive", "filter", "decode", "graded"}

\* Losses none of which parity can repair, whatever becomes of the others: each
\* shares its column, and in 2-D its row, with another one.
Stuck(S) ==
  \A i \in S :
    /\ \E j \in S : j # i /\ col(j) = col(i)
    /\ twoD => \E j \in S : j # i /\ row(j) = row(i)

\* The residual is exactly what no order of repairs can recover: it is stuck
\* itself and contains every stuck set of losses.  So neither the smallest-first
\* order nor the line counts of Recover have a part in the result.
ResidualIsLargest ==
  pc = "graded" =>
    /\ Stuck(out)
    /\ \A S \in SUBSET InBlock(lost) : Stuck(S) => S \subseteq out
    /\ out \cup recovered = InBlock(lost) /\ out \cap recovered = {}

\* The point of the interleaving: a burst of up to L losses in a row is
\* recovered in full, wherever it starts in the block.
BurstsRecovered ==
  \A a, b \in 0..(Block - 1) :
    pc = "graded" /\ lost = a..b /\ b - a < L => out = {}

\* An honest receiver gets the grades it deserves, however it ordered its repairs:
\* with retransmissions suppressed it is never accused, wherever it stopped, by the
\* bounds that the oracle computes in an order of its own; and if it has repaired
\* all that it can, it is graded effective (fecRecoverySound, fecRecoveryEffective).
HonestGraded ==
  pc = "graded" =>
    /\ isolated => fecRecoverySound = "pass"
    /\ (\A i \in rx : ~Repairable(i)) => fecRecoveryEffective = "pass"
=============================================================================
