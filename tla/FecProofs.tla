----------------------------- MODULE FecProofs -----------------------------
(***************************************************************************)
(* The residual that Recover computes is the largest stuck set of losses,  *)
(* bursts are recovered and honest receivers are graded as they should be, *)
(* for every matrix and every set of losses.                               *)
(***************************************************************************)
EXTENDS Fec, FiniteSetTheorems, TLAPS

\* The size of a block.
LEMMA BlockType == Block \in Nat
  BY MatrixAssumption DEF Block

\* The column of a packet.
LEMMA ColType == \A i \in Nat : col(i) \in Cols
  BY MatrixAssumption DEF col, Cols

\* The row of a packet of the block.
LEMMA RowType == \A i \in 0..(Block - 1) : row(i) \in Rows
<1> SUFFICES ASSUME NEW i \in 0..(Block - 1) PROVE row(i) \in Rows
  OBVIOUS
<1> DEFINE q == i \div L
<1>1. q \in Nat /\ L * q <= i
  BY MatrixAssumption, BlockType
<1>2. q < D
  <2> SUFFICES ASSUME q >= D PROVE FALSE
    BY <1>1, MatrixAssumption
  <2>1. L * q >= L * D
    BY <1>1, MatrixAssumption
  <2> QED
    BY <2>1, <1>1, MatrixAssumption DEF Block
<1> QED
  BY <1>1, <1>2, MatrixAssumption DEF row, Rows

\* The losses of one block are finitely many.
LEMMA BlockFinite ==
  ASSUME NEW S, S \subseteq InBlock(Int)
  PROVE  IsFiniteSet(S) /\ S \subseteq 0..(Block - 1)
<1>1. S \subseteq 0..(Block - 1)
  BY BlockType DEF InBlock
<1>2. IsFiniteSet(0..(Block - 1))
  BY BlockType, FS_Interval
<1> QED
  BY <1>1, <1>2, FS_Subset

\* A set of losses that contains i has one element exactly if it is {i}.
LEMMA AloneMeans ==
  ASSUME NEW T, IsFiniteSet(T), NEW i \in T
  PROVE  Cardinality(T) = 1 <=> \A j \in T : j = i
<1>1. Cardinality(T) = 1 => \E x : T = {x}
  BY FS_Singleton
<1>2. (\A j \in T : j = i) => T = {i}
  OBVIOUS
<1>3. Cardinality({i}) = 1
  BY FS_Singleton
<1> QED
  BY <1>1, <1>2, <1>3

\* The number of losses of S in column, and row, c.
AtCol(S, c) == Cardinality({i \in S : col(i) = c})
AtRow(S, c) == Cardinality({i \in S : row(i) = c})

\* What removing one loss does to the number of losses in a column and a row.
LEMMA CountRemoved ==
  ASSUME NEW S, IsFiniteSet(S), NEW n \in S, NEW c
  PROVE  /\ AtCol(S \ {n}, c) = AtCol(S, c) - (IF col(n) = c THEN 1 ELSE 0)
         /\ AtRow(S \ {n}, c) = AtRow(S, c) - (IF row(n) = c THEN 1 ELSE 0)
<1> DEFINE C == {i \in S : col(i) = c}
           R == {i \in S : row(i) = c}
<1>1. /\ IsFiniteSet(C) /\ Cardinality(C) \in Nat
      /\ IsFiniteSet(R) /\ Cardinality(R) \in Nat
  BY FS_Subset, FS_CardinalityType
<1>2. /\ {i \in S \ {n} : col(i) = c} = C \ {n}
      /\ {i \in S \ {n} : row(i) = c} = R \ {n}
  OBVIOUS
<1>3. /\ Cardinality(C \ {n}) = IF n \in C THEN Cardinality(C) - 1 ELSE Cardinality(C)
      /\ Cardinality(R \ {n}) = IF n \in R THEN Cardinality(R) - 1 ELSE Cardinality(R)
  BY <1>1, FS_RemoveElement
<1>4. (n \in C <=> col(n) = c) /\ (n \in R <=> row(n) = c)
  OBVIOUS
<1>5. /\ Cardinality(C \ {n}) = Cardinality(C) - (IF col(n) = c THEN 1 ELSE 0)
      /\ Cardinality(R \ {n}) = Cardinality(R) - (IF row(n) = c THEN 1 ELSE 0)
  <2> HIDE DEF C, R
  <2> QED BY <1>1, <1>3, <1>4
<1> QED
  BY <1>2, <1>5, Zenon DEF AtCol, AtRow
-----------------------------------------------------------------------------
(***************************************************************************)
(* The inductive invariant of the decoder.  The counts are the numbers of  *)
(* outstanding losses on the lines, so Alone means what it says; a stuck   *)
(* set never has a member that is alone, so it is never touched; and when  *)
(* the decoder stops, nothing that is left is alone.                       *)
(***************************************************************************)
CountsExact ==
  /\ colCount = [c \in Cols |-> AtCol(out, c)]
  /\ rowCount = [r \in Rows |-> AtRow(out, r)]

StuckKept == \A S \in SUBSET InBlock(lost) : Stuck(S) => S \subseteq out

Partitioned == out \cup recovered = InBlock(lost) /\ out \cap recovered = {}

DecodeInv ==
  /\ TypeOK
  /\ pc \in {"decode", "graded"} => CountsExact /\ StuckKept /\ Partitioned
  /\ pc = "graded" => \A i \in out : ~Alone(i)

\* With exact counts, a loss is alone when no other one shares its line.
LEMMA AloneExact ==
  ASSUME TypeOK, CountsExact, NEW i \in out
  PROVE  Alone(i) <=> \/ \A j \in out : col(j) = col(i) => j = i
                      \/ twoD /\ \A j \in out : row(j) = row(i) => j = i
<1>1. out \subseteq InBlock(Int)
  BY IndicesAssumption DEF TypeOK, InBlock
<1>2. IsFiniteSet(out) /\ i \in 0..(Block - 1) /\ i \in Nat
  BY <1>1, BlockFinite, BlockType
<1>3. col(i) \in Cols /\ row(i) \in Rows
  BY <1>2, ColType, RowType
<1> DEFINE C == {j \in out : col(j) = col(i)}
           R == {j \in out : row(j) = row(i)}
<1>4. IsFiniteSet(C) /\ IsFiniteSet(R) /\ i \in C /\ i \in R
  BY <1>2, FS_Subset
<1>5. colCount[col(i)] = Cardinality(C) /\ rowCount[row(i)] = Cardinality(R)
  BY <1>3 DEF CountsExact, AtCol, AtRow
<1>6. /\ Cardinality(C) = 1 <=> \A j \in C : j = i
      /\ Cardinality(R) = 1 <=> \A j \in R : j = i
  <2> HIDE DEF C, R
  <2> QED BY <1>4, AloneMeans
<1> QED
  BY <1>5, <1>6 DEF Alone

\* Before decoding there is nothing to keep.
LEMMA DecodeInit == Init => DecodeInv
<1> SUFFICES ASSUME Init PROVE DecodeInv
  OBVIOUS
<1>1. TypeOK
  BY DEF Init, TypeOK, InBlock
<1> QED
  BY <1>1 DEF Init, DecodeInv

\* One removal of Recover's loop, and the steps around it.
LEMMA DecodeStep == DecodeInv /\ [Next]_vars => DecodeInv'
<1> SUFFICES ASSUME DecodeInv, [Next]_vars PROVE DecodeInv'
  OBVIOUS
<1> USE DEF DecodeInv
<1>1. CASE \E i \in rx : RxRepair(i) \/ RxRetransmitted(i)
  <2>1. TypeOK' /\ pc = "receive" /\ pc' = "receive"
    BY <1>1 DEF TypeOK, RxRepair, RxRetransmitted, decodeVars, InBlock
  <2> QED BY <2>1
<1>2. CASE Report
  <2>1. TypeOK' /\ pc' = "filter"
    BY <1>2 DEF TypeOK, Report, decodeVars, InBlock
  <2> QED BY <2>1
<1>3. CASE Filter
  <2>1. /\ out' = InBlock(lost) /\ lost' = lost /\ twoD' = twoD
        /\ recovered' = {} /\ pc' = "decode"
    BY <1>3 DEF Filter
  <2>2. CountsExact'
    BY <1>3, <2>1 DEF Filter, CountsExact, AtCol, AtRow
  <2>3. StuckKept' /\ Partitioned'
    BY <2>1 DEF StuckKept, Partitioned, InBlock
  <2>4. InBlock(lost) \subseteq InBlock(Int)
    BY IndicesAssumption DEF TypeOK, InBlock
  <2>5. IsFiniteSet(InBlock(lost))
    BY <2>4, BlockFinite
  <2>6. /\ \A c \in Cols : Cardinality({i \in InBlock(lost) : col(i) = c}) \in Int
        /\ \A r \in Rows : Cardinality({i \in InBlock(lost) : row(i) = r}) \in Int
    BY <2>5, FS_Subset, FS_CardinalityType
  <2>7. colCount' \in [Cols -> Int] /\ rowCount' \in [Rows -> Int]
    BY <1>3, <2>6 DEF Filter
  <2>8. TypeOK'
    BY <1>3, <2>1, <2>7 DEF Filter, TypeOK, rxVars, InBlock
  <2> QED BY <2>1, <2>2, <2>3, <2>8
<1>4. CASE Decode
  <2>1. PICK next \in out :
          /\ Alone(next)
          /\ out' = out \ {next}
          /\ colCount' = [colCount EXCEPT ![col(next)] = @ - 1]
          /\ rowCount' = [rowCount EXCEPT ![row(next)] = @ - 1]
          /\ recovered' = recovered \cup {next}
    BY <1>4 DEF Decode
  <2>2. /\ lost' = lost /\ twoD' = twoD /\ pc = "decode" /\ pc' = "decode"
        /\ isolated' = isolated /\ UNCHANGED rxVars
    BY <1>4 DEF Decode
  <2>3. CountsExact /\ StuckKept /\ Partitioned /\ TypeOK
    BY <2>2
  <2>4. out \subseteq InBlock(Int)
    BY <2>3, IndicesAssumption DEF TypeOK, InBlock
  <2>5. IsFiniteSet(out) /\ col(next) \in Cols /\ row(next) \in Rows
    BY <2>4, BlockFinite, BlockType, ColType, RowType
  <2>6. TypeOK'
    <3>1. colCount' \in [Cols -> Int]
      BY <2>1, <2>3, <2>5 DEF TypeOK
    <3>2. rowCount' \in [Rows -> Int]
      BY <2>1, <2>3, <2>5 DEF TypeOK
    <3>3. out' \subseteq InBlock(lost) /\ recovered' \subseteq InBlock(lost)
      BY <2>1, <2>3 DEF TypeOK
    <3> QED
      BY <2>2, <2>3, <3>1, <3>2, <3>3 DEF TypeOK, rxVars, InBlock
  <2>7. CountsExact'
    <3>1. \A c : /\ AtCol(out', c) = AtCol(out, c) - (IF col(next) = c THEN 1 ELSE 0)
                 /\ AtRow(out', c) = AtRow(out, c) - (IF row(next) = c THEN 1 ELSE 0)
      BY <2>1, <2>5, CountRemoved
    <3>2. /\ \A c \in Cols : colCount[c] \in Int
          /\ \A r \in Rows : rowCount[r] \in Int
      BY <2>3 DEF TypeOK
    <3>3. /\ \A c \in Cols : colCount[c] = AtCol(out, c)
          /\ \A r \in Rows : rowCount[r] = AtRow(out, r)
      BY <2>3 DEF CountsExact
    <3>4. \A c \in Cols : colCount'[c] = colCount[c] - (IF col(next) = c THEN 1 ELSE 0)
      BY <2>1, <2>3, <2>5, <3>2 DEF TypeOK
    <3>5. \A r \in Rows : rowCount'[r] = rowCount[r] - (IF row(next) = r THEN 1 ELSE 0)
      BY <2>1, <2>3, <2>5, <3>2 DEF TypeOK
    <3>6. /\ \A c \in Cols : colCount'[c] = AtCol(out', c)
          /\ \A r \in Rows : rowCount'[r] = AtRow(out', r)
      BY <3>1, <3>3, <3>4, <3>5
    <3>7. colCount' = [c \in Cols |-> colCount'[c]] /\ rowCount' = [r \in Rows |-> rowCount'[r]]
      BY <2>6 DEF TypeOK
    <3> QED BY <3>6, <3>7 DEF CountsExact
  <2>8. StuckKept'
    <3> SUFFICES ASSUME NEW S \in SUBSET InBlock(lost), Stuck(S), next \in S
                 PROVE  FALSE
      BY <2>1, <2>2, <2>3 DEF StuckKept, Stuck
    <3>1. S \subseteq out
      BY <2>3 DEF StuckKept
    <3> QED
      BY <3>1, <2>1, <2>3, AloneExact DEF Stuck
  <2>9. Partitioned'
    BY <2>1, <2>2, <2>3 DEF Partitioned
  <2> QED BY <2>2, <2>6, <2>7, <2>8, <2>9
<1>5. CASE Graded
  <2>1. /\ pc = "decode" /\ pc' = "graded" /\ \A i \in out : ~Alone(i)
        /\ UNCHANGED <<twoD, lost, isolated, rxVars, decodeVars>>
    BY <1>5 DEF Graded
  <2>2. TypeOK'
    BY <2>1 DEF TypeOK, rxVars, decodeVars, InBlock
  <2>3. CountsExact' /\ StuckKept' /\ Partitioned'
    BY <2>1 DEF CountsExact, StuckKept, Partitioned, Stuck, decodeVars
  <2>4. \A i \in out' : ~Alone(i)'
    BY <2>1 DEF Alone, decodeVars
  <2> QED BY <2>1, <2>2, <2>3, <2>4 DEF Alone
<1>6. CASE UNCHANGED vars
  <2>1. TypeOK'
    BY <1>6 DEF TypeOK, vars, rxVars, decodeVars, InBlock
  <2>2. /\ CountsExact' <=> CountsExact
        /\ StuckKept' <=> StuckKept
        /\ Partitioned' <=> Partitioned
        /\ pc' = pc /\ out' = out
    BY <1>6 DEF CountsExact, StuckKept, Partitioned, Stuck, vars, decodeVars
  <2>3. (\A i \in out : ~Alone(i)) <=> \A i \in out' : ~Alone(i)'
    BY <1>6 DEF Alone, vars, decodeVars
  <2> QED BY <2>1, <2>2, <2>3 DEF Alone
<1> QED
  BY <1>1, <1>2, <1>3, <1>4, <1>5, <1>6 DEF Next

\* When the run is graded, the residual is the largest set of losses that no
\* sequence of repairs can reduce, and the rest is recovered: the result of
\* Recover does not depend on the order in which it decodes.
THEOREM ResidualExact == Spec => []ResidualIsLargest
<1>1. DecodeInv => ResidualIsLargest
  <2> SUFFICES ASSUME DecodeInv, pc = "graded"
               PROVE  /\ Stuck(out) /\ StuckKept /\ Partitioned
    BY DEF ResidualIsLargest, StuckKept, Partitioned
  <2>1. TypeOK /\ CountsExact /\ StuckKept /\ Partitioned /\ \A i \in out : ~Alone(i)
    BY DEF DecodeInv
  <2>2. Stuck(out)
    BY <2>1, AloneExact DEF Stuck
  <2> QED BY <2>1, <2>2
<1> QED
  BY <1>1, DecodeInit, DecodeStep, PTL DEF Spec

\* Two losses in one column are at least a row apart.
LEMMA ColumnApart ==
  ASSUME NEW i \in Nat, NEW j \in Nat, col(i) = col(j), i < j
  PROVE  j - i >= L
<1> DEFINE p == i \div L
           q == j \div L
           r == i % L
<1>1. p \in Int /\ q \in Int /\ r \in Int /\ i = L * p + r /\ j = L * q + r
  BY MatrixAssumption DEF col
<1> HIDE DEF p, q, r
<1>2. L * q > L * p
  BY <1>1, MatrixAssumption
<1>3. q > p
  <2> SUFFICES ASSUME q <= p PROVE FALSE
    BY <1>1
  <2>1. L * q <= L * p
    BY <1>1, MatrixAssumption
  <2> QED
    BY <1>1, <1>2, <2>1, MatrixAssumption
<1>4. q >= p + 1
  BY <1>1, <1>3
<1>5. L * q >= L * (p + 1)
  BY <1>1, <1>4, MatrixAssumption
<1>6. L * (p + 1) = L * p + L
  BY <1>1, MatrixAssumption
<1> QED
  BY <1>1, <1>5, <1>6, MatrixAssumption

\* A burst of up to L losses, wherever it starts, is recovered in full: no two of
\* its losses share a column, so no part of it is stuck.
THEOREM BurstsCorrect == Spec => []BurstsRecovered
<1>1. DecodeInv /\ ResidualIsLargest => BurstsRecovered
  <2> SUFFICES ASSUME DecodeInv, ResidualIsLargest,
                      NEW a \in 0..(Block - 1), NEW b \in 0..(Block - 1),
                      pc = "graded", lost = a..b, b - a < L,
                      NEW i \in out
               PROVE  FALSE
    BY DEF BurstsRecovered
  <2>1. out \subseteq a..b /\ a \in Nat /\ b \in Nat
    BY BlockType DEF DecodeInv, TypeOK, InBlock
  <2>2. PICK j \in out : j # i /\ col(j) = col(i)
    BY DEF ResidualIsLargest, Stuck
  <2>3. i \in Nat /\ j \in Nat /\ i - j < L /\ j - i < L
    BY <2>1, MatrixAssumption
  <2>4. CASE i < j
    BY <2>2, <2>3, <2>4, ColumnApart, MatrixAssumption
  <2>5. CASE j < i
    BY <2>2, <2>3, <2>5, ColumnApart, MatrixAssumption
  <2> QED
    BY <2>2, <2>3, <2>4, <2>5
<1>2. Spec => []DecodeInv
  BY DecodeInit, DecodeStep, PTL DEF Spec
<1> QED
  BY <1>1, <1>2, ResidualExact, PTL
-----------------------------------------------------------------------------
(***************************************************************************)
(* The receiver.  Its repairs never touch a stuck set either, and each     *)
(* packet it has was delivered, repaired once, or sent again.              *)
(***************************************************************************)
ReceiverInv ==
  /\ isolated => \A S \in SUBSET InBlock(lost) : Stuck(S) => S \subseteq rx
  /\ repaired + Cardinality(rx) <= Cardinality(InBlock(lost))
  /\ claimed <= repaired

\* Losses of a block are counted by a natural number.
LEMMA LossesCounted ==
  ASSUME TypeOK
  PROVE  /\ IsFiniteSet(InBlock(lost)) /\ Cardinality(InBlock(lost)) \in Nat
         /\ \A S \in SUBSET InBlock(lost) : IsFiniteSet(S) /\ Cardinality(S) \in Nat
<1>1. InBlock(lost) \subseteq InBlock(Int)
  BY IndicesAssumption DEF TypeOK, InBlock
<1>2. \A S \in SUBSET InBlock(lost) : IsFiniteSet(S)
  BY <1>1, BlockFinite
<1> QED
  BY <1>2, FS_CardinalityType

\* A member of a stuck set of losses that are missing cannot be repaired.
LEMMA StuckNotRepairable ==
  ASSUME NEW S, Stuck(S), S \subseteq rx, NEW i \in S
  PROVE  ~Repairable(i)
  BY DEF Repairable, InCol, InRow, Stuck

\* ReceiverInv is an invariant, with TypeOK.
LEMMA ReceiverInductive == Spec => []ReceiverInv
<1>1. Init => ReceiverInv
  <2> SUFFICES ASSUME Init PROVE ReceiverInv
    OBVIOUS
  <2>1. TypeOK
    BY DecodeInit DEF DecodeInv
  <2>2. Cardinality(InBlock(lost)) \in Nat
    BY <2>1, LossesCounted
  <2>3. rx = InBlock(lost) /\ repaired = 0 /\ claimed = -1
    BY DEF Init
  <2> QED
    BY <2>2, <2>3 DEF ReceiverInv
<1>2. DecodeInv /\ ReceiverInv /\ [Next]_vars => ReceiverInv'
  <2> SUFFICES ASSUME DecodeInv, ReceiverInv, [Next]_vars PROVE ReceiverInv'
    OBVIOUS
  <2>0. TypeOK
    BY DEF DecodeInv
  <2>1. ASSUME NEW i \in rx, RxRepair(i) \/ RxRetransmitted(i) PROVE ReceiverInv'
    <3>1. /\ rx' = rx \ {i} /\ UNCHANGED <<twoD, lost, isolated, claimed>>
          /\ repaired' = repaired \/ repaired' = repaired + 1
          /\ isolated => Repairable(i)
      BY <2>1 DEF RxRepair, RxRetransmitted
    <3>2. /\ IsFiniteSet(rx) /\ Cardinality(rx) \in Nat /\ Cardinality(InBlock(lost)) \in Nat
          /\ repaired \in Nat /\ claimed \in Int
      BY <2>0, LossesCounted DEF TypeOK
    <3>3. Cardinality(rx') = Cardinality(rx) - 1
      BY <3>1, <3>2, FS_RemoveElement
    <3>4. repaired + Cardinality(rx) <= Cardinality(InBlock(lost)) /\ claimed <= repaired
      BY DEF ReceiverInv
    <3>5. /\ repaired' + Cardinality(rx') <= Cardinality(InBlock(lost))
          /\ claimed <= repaired'
      BY <3>1, <3>2, <3>3, <3>4
    <3>6. ASSUME isolated, NEW S \in SUBSET InBlock(lost), Stuck(S) PROVE S \subseteq rx'
      <4>1. S \subseteq rx /\ Repairable(i)
        BY <3>1, <3>6 DEF ReceiverInv
      <4>2. i \notin S
        BY <3>6, <4>1, StuckNotRepairable
      <4> QED
        BY <3>1, <4>1, <4>2
    <3>7. \A S : Stuck(S)' <=> Stuck(S)
      BY <3>1 DEF Stuck
    <3> QED
      BY <3>1, <3>5, <3>6, <3>7 DEF ReceiverInv
  <2>2. CASE Report
    <3>1. UNCHANGED <<twoD, lost, isolated, rx, repaired>> /\ claimed' \in {repaired, -1}
      BY <2>2 DEF Report
    <3>2. repaired \in Nat
      BY <2>0 DEF TypeOK
    <3>3. claimed' <= repaired
      BY <3>1, <3>2
    <3> QED
      BY <3>1, <3>3 DEF ReceiverInv, Stuck
  <2>3. CASE Filter \/ Decode \/ Graded \/ UNCHANGED vars
    <3>1. UNCHANGED <<twoD, lost, isolated, rx, repaired, claimed>>
      BY <2>3 DEF Filter, Decode, Graded, vars, rxVars
    <3> QED
      BY <3>1 DEF ReceiverInv, Stuck
  <2> QED
    BY <2>1, <2>2, <2>3 DEF Next
<1>3. Spec => []DecodeInv
  BY DecodeInit, DecodeStep, PTL DEF Spec
<1> QED
  BY <1>1, <1>2, <1>3, PTL DEF Spec

\* Whatever order an honest receiver repairs in and wherever it stops, it is not
\* accused by the bounds that Evaluate takes from its own decoding, if there were no
\* retransmissions; and when nothing is left that it could repair it is graded
\* effective (fecRecoverySound, fecRecoveryEffective).
THEOREM HonestCorrect == Spec => []HonestGraded
<1>1. DecodeInv /\ ResidualIsLargest /\ ReceiverInv => HonestGraded
  <2> SUFFICES ASSUME DecodeInv, ResidualIsLargest, ReceiverInv, pc = "graded"
               PROVE  /\ isolated => fecRecoverySound = "pass"
                      /\ (\A i \in rx : ~Repairable(i)) => fecRecoveryEffective = "pass"
    BY DEF HonestGraded
  <2> DEFINE o == Cardinality(out)
             x == Cardinality(rx)
             n == Cardinality(InBlock(lost))
             g == Cardinality(recovered)
  <2>0. TypeOK
    BY DEF DecodeInv
  <2>1. /\ Stuck(out) /\ \A S \in SUBSET InBlock(lost) : Stuck(S) => S \subseteq out
        /\ out \cup recovered = InBlock(lost) /\ out \cap recovered = {}
    BY DEF ResidualIsLargest
  <2>2. /\ IsFiniteSet(out) /\ IsFiniteSet(rx) /\ IsFiniteSet(recovered)
        /\ o \in Nat /\ x \in Nat /\ n \in Nat /\ g \in Nat
        /\ repaired \in Nat /\ claimed \in Int /\ Block \in Nat
    BY <2>0, LossesCounted, BlockType DEF TypeOK
  <2>3. n = o + g
    <3>1. Cardinality(out \cup recovered) = o + g - Cardinality(out \cap recovered)
      BY <2>2, FS_Union
    <3>2. Cardinality(out \cap recovered) = 0
      BY <2>1, FS_EmptySet
    <3>3. n = Cardinality(out \cup recovered)
      BY <2>1
    <3> HIDE DEF o, x, n, g
    <3> QED
      BY <2>2, <3>1, <3>2, <3>3
  <2>4. repaired + x <= n /\ claimed <= repaired
    BY DEF ReceiverInv
  <2>5. ASSUME isolated PROVE fecRecoverySound = "pass"
    <3>1. out \subseteq rx
      BY <2>0, <2>1, <2>5 DEF ReceiverInv, TypeOK
    <3>2. o <= x
      BY <2>2, <3>1, FS_Subset
    <3>3. ~(claimed > g) /\ ~(Block - x > Block - o)
      <4> HIDE DEF o, x, n, g
      <4> QED
        BY <2>2, <2>3, <2>4, <3>2
    <3> QED
      BY <3>3 DEF fecRecoverySound, Delivered, Ceiling, Total
  <2>6. ASSUME \A i \in rx : ~Repairable(i) PROVE fecRecoveryEffective = "pass"
    <3>1. Stuck(rx)
      BY <2>6 DEF Stuck, Repairable, InCol, InRow
    <3>2. rx \subseteq out
      BY <2>0, <2>1, <3>1 DEF TypeOK
    <3>3. x <= o
      BY <2>2, <3>2, FS_Subset
    <3>4. Block - x >= Block - o
      <4> HIDE DEF o, x, n, g
      <4> QED
        BY <2>2, <3>3
    <3> QED
      BY <3>4 DEF fecRecoveryEffective, Delivered, Ceiling, Total
  <2> QED
    BY <2>5, <2>6
<1>2. Spec => []DecodeInv
  BY DecodeInit, DecodeStep, PTL DEF Spec
<1> QED
  BY <1>1, <1>2, ResidualExact, ReceiverInductive, PTL
=============================================================================
