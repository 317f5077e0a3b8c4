------------------------------- MODULE Ledger -------------------------------
(***************************************************************************)
(* The OWD relay-ledger of relaycore/ledger.go: a fixed-capacity,          *)
(* overwrite-oldest ring of per-forward timing entries.  An entry is       *)
(* started when a forward is admitted to the egress heap and finalized     *)
(* when the forward has been written.  A per-slot generation tells a       *)
(* finalizer that its slot was reused meanwhile.                           *)
(*                                                                         *)
(* Every method of the Go type runs under l.mu, so each is one operator    *)
(* from a ring to a ring.  Entry.Dir is left out: nothing depends on it.   *)
(* The field "own" does not exist in the code.  It names the forward (by   *)
(* its egress order) that started the entry, so that properties can say    *)
(* whose entry it is.                                                      *)
(***************************************************************************)
EXTENDS Integers, Sequences, FiniteSets

\* The pointer value nil: the ledger is off.
NoLedger == [cap |-> 0]

\* noHandle: the inert handle of a forward admitted while the ledger was off.
NoHandle == [slot |-> -1, gen |-> 0]

ZeroEntry == [seq |-> 0, recvAt |-> 0, deliverAt |-> 0, egressAt |-> 0, own |-> 0]

NewLedger(capacity) ==
  LET cap == IF capacity < 1 THEN 1 ELSE capacity
  IN  [cap |-> cap, next |-> 0, count |-> 0,
       buf |-> [s \in 0..(cap - 1) |-> ZeroEntry],
       gen |-> [s \in 0..(cap - 1) |-> 0]]

\* The ring after start, and the handle start returns.
StartEntry(l, seq, recvAt, deliverAt, own) ==
  [cap   |-> l.cap,
   gen   |-> [l.gen EXCEPT ![l.next] = @ + 1],
   buf   |-> [l.buf EXCEPT ![l.next] =
                [seq |-> seq, recvAt |-> recvAt, deliverAt |-> deliverAt,
                 egressAt |-> 0, own |-> own]],
   next  |-> (l.next + 1) % l.cap,
   count |-> l.count + 1]

\* Mutant: the handle is taken after next has moved on.
StartHandleLate(l) == [slot |-> l.next + 1, gen |-> l.gen[l.next] + 1]

StartHandle(l) == [slot |-> l.next, gen |-> l.gen[l.next] + 1]

\* finalize indexes gen and buf with the handle's slot: out of range, it panics.
FinalizePanics(l, h) == h.slot >= l.cap

\* Mutant: no generation check.
FinalizeUnguarded(l, h, egressAt) ==
  IF h.slot >= 0 THEN [l EXCEPT !.buf[h.slot].egressAt = egressAt] ELSE l

FinalizeEntry(l, h, egressAt) ==
  IF h.slot >= 0 /\ l.gen[h.slot] = h.gen
  THEN [l EXCEPT !.buf[h.slot].egressAt = egressAt]
  ELSE l

\* Mutant: a wrapped ring is copied from slot 0.
SnapshotUnrotated(l) ==
  [i \in 1..(IF l.count <= l.cap THEN l.count ELSE l.cap) |-> l.buf[i - 1]]

\* The recorded entries, oldest first.
Snapshot(l) ==
  IF l.count <= l.cap
  THEN [i \in 1..l.count |-> l.buf[i - 1]]
  ELSE [i \in 1..l.cap |-> l.buf[(l.next + i - 1) % l.cap]]
-----------------------------------------------------------------------------
(***************************************************************************)
(* DecomposedOWD: a snapshot's delays, split into components.  A sample is *)
(* a function from some index set to its values: quantileOf sorts a copy,  *)
(* so that the order of a sample is of no consequence.                     *)
(***************************************************************************)
\* How many values of a sample lie below x, and how many up to x.
Below(xs, x) == Cardinality({i \in DOMAIN xs : xs[i] < x})
UpTo(xs, x) == Cardinality({i \in DOMAIN xs : xs[i] <= x})

\* The element of rank k, from 0, of a sorted copy of xs.
Ranked(xs, k) ==
  CHOOSE x \in {xs[i] : i \in DOMAIN xs} : Below(xs, x) <= k /\ k < UpTo(xs, x)

\* The index nearestRank takes for q percent of n values: rounded, a half up.
RankIndex(n, q) == (q * (n - 1) + 50) \div 100

NearestRank(xs, q) == Ranked(xs, RankIndex(Cardinality(DOMAIN xs), q))

QuantileOf(xs) ==
  IF DOMAIN xs = {} THEN [n |-> 0, p50 |-> 0, p99 |-> 0]
  ELSE [n |-> Cardinality(DOMAIN xs),
        p50 |-> NearestRank(xs, 50), p99 |-> NearestRank(xs, 99)]

\* The delays of some of the entries: p.Queue, p.Overhead and p.Residence.
DecomposedOver(entries, perPkt) ==
  [n         |-> Cardinality(perPkt),
   queue     |-> QuantileOf([i \in perPkt |-> entries[i].deliverAt - entries[i].recvAt]),
   overhead  |-> QuantileOf([i \in perPkt |-> entries[i].egressAt - entries[i].deliverAt]),
   residence |-> QuantileOf([i \in perPkt |-> entries[i].egressAt - entries[i].recvAt])]

\* Mutant: entries without an egress time are not skipped.
DecomposedOWDAll(entries) == DecomposedOver(entries, DOMAIN entries)

\* The aggregate over the entries that were sent.
DecomposedOWD(entries) ==
  DecomposedOver(entries, {i \in DOMAIN entries : entries[i].egressAt # 0})
=============================================================================
