-------------------------------- MODULE Bond --------------------------------
(***************************************************************************)
(* The SMPTE 2022-7 bonding model and oracle (bond/bond.go) as operators:  *)
(* Merge finds the packets lost on every link from the sequence numbers    *)
(* that each link dropped; Evaluate grades a receiver that was given the   *)
(* forwards of all links.                                                  *)
(***************************************************************************)
EXTENDS Integers, FiniteSets

\* The number of links that dropped a packet.
DroppedOn(ledgers, seq) == Cardinality({l \in DOMAIN ledgers : seq \in ledgers[l]})

\* Mutant: a packet must be lost on one link more than there are.
MergeOffByOne(ledgers, total) ==
  [gaps |-> {seq \in 1..total : DroppedOn(ledgers, seq) > Cardinality(DOMAIN ledgers)},
   masked |-> Cardinality({seq \in 1..total : DroppedOn(ledgers, seq) > 0})]

\* Merge.  Without links it has no gaps.
Merge(ledgers, total) ==
  LET links == Cardinality(DOMAIN ledgers)
  IN  [gaps |-> IF links = 0 THEN {}
                ELSE {seq \in 1..total : DroppedOn(ledgers, seq) = links},
       masked |-> Cardinality({seq \in 1..total :
                                 DroppedOn(ledgers, seq) \in 1..(links - 1)})]

\* What the oracle grades.  Gaps is -1 if it is not known.
Input(links, total, delivered, gaps, drops) ==
  [links |-> links, total |-> total, delivered |-> delivered, gaps |-> gaps, drops |-> drops]

bondedFlow(in) ==
  IF in.links < 2 THEN "fail"
  ELSE IF in.total = 0 THEN "error"
  ELSE IF in.delivered > 0 THEN "pass" ELSE "fail"

\* Mutant: a run without drops passes before the shortfall is looked at.
seamlessCoverageCleanFirst(in) ==
  IF in.gaps >= 0
  THEN IF in.drops = 0 \/ in.delivered >= in.total - in.gaps THEN "pass" ELSE "fail"
  ELSE IF in.delivered >= in.total THEN "pass" ELSE "warn"

\* A shortfall is a failure if the number of packets lost on all links is known.
seamlessCoverage(in) ==
  IF in.gaps >= 0
  THEN IF in.delivered >= in.total - in.gaps THEN "pass" ELSE "fail"
  ELSE IF in.delivered >= in.total THEN "pass" ELSE "warn"
=============================================================================
