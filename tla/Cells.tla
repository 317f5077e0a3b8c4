------------------------------- MODULE Cells -------------------------------
(***************************************************************************)
(* The impairment cells (internal/cells and internal/droplist) as          *)
(* operators.  A cell is a record: its configuration and its state.  Its   *)
(* Process operator gives the set of results the cell may have on packet   *)
(* f, one for each outcome of its random draws: the packets it returns     *)
(* (none: dropped), the cell afterwards, and the heap afterwards.          *)
(*                                                                         *)
(* Probabilities are abstracted to zero, some, one: what a draw can do is  *)
(* kept, how often is not.                                                 *)
(*                                                                         *)
(* Payloads are Go slices, which cells may share: a packet holds the index *)
(* of its slice in the heap h, and a slice is abstracted to the number of  *)
(* bits flipped in it.  A cell that copies appends a slice.                *)
(***************************************************************************)
EXTENDS Integers, Sequences, FiniteSets, TLC

CONSTANTS
  NsPerSec,   \* time units per second (scaled down from 10^9)
  NsPerMs     \* time units per millisecond (scaled down from 10^6)

ASSUME UnitsAssumption ==
  /\ NsPerSec \in Nat \ {0}
  /\ NsPerMs \in Nat \ {0}

\* Float64() < p, when it is evaluated: the outcomes it can have.
Hits(p) == CASE p = "zero" -> {FALSE}
             [] p = "one"  -> {TRUE}
             [] OTHER      -> BOOLEAN

\* 1 - p.
Complement(p) == CASE p = "zero" -> "one"
                   [] p = "one"  -> "zero"
                   [] OTHER      -> "some"

MaxOf(a, b) == IF a > b THEN a ELSE b

\* What the cells' structs hold.
Chances == {"zero", "some", "one"}
Cell ==
       [kind : {"blackhole"}, start : Int, end : Int]
  \cup [kind : {"loss.bernoulli", "corrupt"}, p : Chances]
  \cup [kind : {"loss.ge"}, p : Chances, r : Chances, h : Chances, k : Chances,
        state : {"good", "bad"}]
  \cup [kind : {"delay"}, base : Nat, lo : Int, hi : Int]
  \cup [kind : {"reorder"}, pct : Chances, gap : Nat, corr : Chances, dup : Chances,
        hasPrev : BOOLEAN, prev : BOOLEAN]
  \cup [kind : {"ratelimit"}, rate : Int, queue : Int, queueFreeAt : Nat]
  \cup [kind : {"droplist"}, seqs : SUBSET Nat]
  \cup [kind : {"deliverytrace"}, sched : Seq(Int), mtu : Nat \ {0}, maxBacklog : Int,
        loop : BOOLEAN, started : BOOLEAN, base : Nat, nextOpp : Nat]

Result(outs, cell, h) == [outs |-> outs, cell |-> cell, heap |-> h]
Keep(c, f, h)  == Result(<<f>>, c, h)
Discard(c, h)  == Result(<< >>, c, h)
-----------------------------------------------------------------------------
(***************************************************************************)
(* Blackhole: dark while the ingress time is in [start, end).              *)
(***************************************************************************)
Blackhole(start, end) == [kind |-> "blackhole", start |-> start, end |-> end]

BlackholeProcess(c, f, h) ==
  IF f.recvAt >= c.start /\ f.recvAt < c.end THEN {Discard(c, h)} ELSE {Keep(c, f, h)}

(***************************************************************************)
(* Bernoulli loss.                                                         *)
(***************************************************************************)
Bernoulli(p) == [kind |-> "loss.bernoulli", p |-> p]

BernoulliProcess(c, f, h) ==
  {IF lost THEN Discard(c, h) ELSE Keep(c, f, h) : lost \in Hits(c.p)}

(***************************************************************************)
(* Gilbert-Elliott loss.  The loss is decided in the current state, then   *)
(* the chain advances for the next packet.                                 *)
(***************************************************************************)
GilbertElliott(p, r, hh, hSet, k) ==
  [kind |-> "loss.ge", p |-> p, state |-> "good", k |-> k,
   r |-> IF r = "zero" THEN "one" ELSE r,
   h |-> IF ~hSet /\ hh = "zero" THEN "one" ELSE hh]

GEOther(s) == IF s = "good" THEN "bad" ELSE "good"
GELoss(c, s) == Complement(IF s = "good" THEN c.h ELSE c.k)
GEMove(c) == IF c.state = "good" THEN c.p ELSE c.r

\* Mutant: a chain in the bad state stays there when the packet was lost.
GEStuckProcess(c, f, h) ==
  {IF lost THEN Discard(c, h)
   ELSE Keep([c EXCEPT !.state = IF moves THEN GEOther(@) ELSE @], f, h) :
     lost \in Hits(GELoss(c, c.state)), moves \in Hits(GEMove(c))}

GEProcess(c, f, h) ==
  LET after(moves) == [c EXCEPT !.state = IF moves THEN GEOther(@) ELSE @]
  IN  {IF lost THEN Discard(after(moves), h) ELSE Keep(after(moves), f, h) :
         lost \in Hits(GELoss(c, c.state)), moves \in Hits(GEMove(c))}

(***************************************************************************)
(* Delay: base plus jitter, floored at the ingress time.  Distribution and *)
(* correlation are abstracted to the range of the rounded jitter: [-J, J]  *)
(* uniform, [-4 sigma, 4 sigma] normal, [0, 50 sigma] Pareto; a correlated *)
(* jitter lies between two values of that range.                           *)
(***************************************************************************)
Delay(base, lo, hi) == [kind |-> "delay", base |-> MaxOf(base, 0), lo |-> lo, hi |-> hi]

DelayProcess(c, f, h) ==
  {Keep(c, [f EXCEPT !.deliverAt = MaxOf(@ + c.base + jit, f.recvAt)], h) :
     jit \in c.lo..c.hi}

(***************************************************************************)
(* Reorder and duplicate.  Every output gets its own copy of the payload.  *)
(***************************************************************************)
Reorder(pct, gap, corr, dup) ==
  [kind |-> "reorder", pct |-> pct, gap |-> MaxOf(gap, 0), corr |-> corr,
   dup |-> dup, hasPrev |-> FALSE, prev |-> FALSE]

\* The outcomes of decideReorder.
ReorderDecisions(c) ==
  UNION {IF reuse THEN {c.prev} ELSE Hits(c.pct) :
           reuse \in IF c.hasPrev THEN Hits(c.corr) ELSE {FALSE}}

\* The packet sent on at a time, once or twice, each time with its own slice.
Copies(f, at, dup, h) ==
  LET g(i) == [f EXCEPT !.deliverAt = at, !.data = Len(h) + i]
  IN  IF dup THEN <<g(1), g(2)>> ELSE <<g(1)>>

CopiedHeap(f, dup, h) ==
  h \o (IF dup THEN <<h[f.data], h[f.data]>> ELSE <<h[f.data]>>)

ReorderAfter(c, reordered) ==
  [c EXCEPT !.hasPrev = TRUE, !.prev = reordered]

\* Mutant: a packet that is not reordered is sent Gap after its ingress.
ReorderFromIngress(c, f, h) ==
  {Result(Copies(f, IF reordered THEN f.deliverAt ELSE f.recvAt + c.gap, dup, h),
          ReorderAfter(c, reordered), CopiedHeap(f, dup, h)) :
     reordered \in ReorderDecisions(c), dup \in Hits(c.dup)}

ReorderProcess(c, f, h) ==
  {Result(Copies(f, IF reordered THEN f.deliverAt ELSE f.deliverAt + c.gap, dup, h),
          ReorderAfter(c, reordered), CopiedHeap(f, dup, h)) :
     reordered \in ReorderDecisions(c), dup \in Hits(c.dup)}

(***************************************************************************)
(* Corrupt: flip one bit in a fresh copy.                                  *)
(***************************************************************************)
Corrupt(p) == [kind |-> "corrupt", p |-> p]

\* Mutant: the bit is flipped in the slice the packet came with.
CorruptInPlace(c, f, h) ==
  IF c.p = "zero" \/ f.len = 0 THEN {Keep(c, f, h)}
  ELSE {IF hit THEN Keep(c, f, [h EXCEPT ![f.data] = @ + 1])
        ELSE Keep(c, f, h) : hit \in Hits(c.p)}

CorruptProcess(c, f, h) ==
  IF c.p = "zero" \/ f.len = 0 THEN {Keep(c, f, h)}
  ELSE {IF hit
        THEN Keep(c, [f EXCEPT !.data = Len(h) + 1], Append(h, h[f.data] + 1))
        ELSE Keep(c, f, h) : hit \in Hits(c.p)}

(***************************************************************************)
(* Rate limit: a virtual transmit clock with a drop-tail queue.            *)
(***************************************************************************)
RateLimit(rate, queue) ==
  [kind |-> "ratelimit", rate |-> rate, queue |-> queue, queueFreeAt |-> 0]

Serialize(c, f) == (f.len * NsPerSec) \div c.rate

\* Mutant: the queue has no bound.
RateLimitNeverFull(c, f) == c.queue < 0

RateLimitFull(c, f) ==
  /\ c.queue > 0
  /\ c.queueFreeAt > f.deliverAt
  /\ ((c.queueFreeAt - f.deliverAt) * c.rate) \div NsPerSec > c.queue

RateLimitProcess(c, f, h) ==
  IF c.rate <= 0 THEN {Keep(c, f, h)}
  ELSE IF RateLimitFull(c, f) THEN {Discard(c, h)}
  ELSE LET at == MaxOf(f.deliverAt, c.queueFreeAt) + Serialize(c, f)
       IN  {Keep([c EXCEPT !.queueFreeAt = at], [f EXCEPT !.deliverAt = at], h)}

(***************************************************************************)
(* DropList: drop by ingress number.                                       *)
(***************************************************************************)
DropList(seqs) == [kind |-> "droplist", seqs |-> seqs]

DropListProcess(c, f, h) ==
  IF f.seq \in c.seqs THEN {Discard(c, h)} ELSE {Keep(c, f, h)}

(***************************************************************************)
(* DeliveryTrace: packets are paced onto a schedule of delivery            *)
(* opportunities of mtu bytes each, numbered from 0.                       *)
(***************************************************************************)
DeliveryTrace(sched, mtu, maxBacklog, loop) ==
  [kind |-> "deliverytrace", sched |-> SortSeq(sched, <),
   mtu |-> IF mtu <= 0 THEN 1500 ELSE mtu, maxBacklog |-> maxBacklog, loop |-> loop,
   started |-> FALSE, base |-> 0, nextOpp |-> 0]

Period(c) == IF c.sched = << >> THEN 0 ELSE c.sched[Len(c.sched)]

OppExists(c, i) == c.sched # << >> /\ (i < Len(c.sched) \/ c.loop)

OppTimeMs(c, i) ==
  LET n == Len(c.sched)
  IN  (i \div n) * Period(c) + c.sched[(i % n) + 1]

\* Mutant: the first time > ms instead of >= ms.
SearchSchedAfter(c, ms) ==
  Cardinality({k \in DOMAIN c.sched : c.sched[k] <= ms})

\* sort.Search over the schedule: the least index with a time >= ms, or n.
SearchSched(c, ms) ==
  Cardinality({k \in DOMAIN c.sched : c.sched[k] < ms})

FirstOppAtOrAfter(c, ms) ==
  LET n == Len(c.sched)
      i == SearchSched(c, ms)
  IN  IF n = 0 THEN -1
      ELSE IF ~c.loop THEN (IF i >= n THEN -1 ELSE i)
      ELSE IF Period(c) <= 0 THEN (IF ms <= 0 THEN i ELSE -1)
      ELSE LET cycle == ms \div Period(c)
           IN  cycle * n + SearchSched(c, ms - cycle * Period(c))

\* Reference: the least opportunity at or after ms (-1: none), among those a
\* schedule can offer up to ms and one cycle beyond.
EarliestOpp(c, ms) ==
  LET some == {i \in 0..((ms + 2) * Len(c.sched)) : OppExists(c, i) /\ OppTimeMs(c, i) >= ms}
  IN  IF some = {} THEN -1 ELSE CHOOSE i \in some : \A j \in some : i <= j

DeliveryTraceProcess(c, f, h) ==
  LET d    == IF c.started \/ c.sched = << >> THEN c
              ELSE [c EXCEPT !.started = TRUE, !.base = f.recvAt]
      need == MaxOf((f.len + d.mtu - 1) \div d.mtu, 1)
      arr  == FirstOppAtOrAfter(d, MaxOf(f.recvAt - d.base, 0) \div NsPerMs)
      last == MaxOf(d.nextOpp, arr) + need - 1
  IN  IF \/ arr < 0
         \/ ~OppExists(d, last)
         \/ d.maxBacklog > 0 /\ (last - arr + 1) * d.mtu > d.maxBacklog
      THEN {Discard(d, h)}
      ELSE {Keep([d EXCEPT !.nextOpp = last + 1],
                 [f EXCEPT !.deliverAt =
                    MaxOf(d.base + OppTimeMs(d, last) * NsPerMs, f.recvAt)], h)}

-----------------------------------------------------------------------------
\* Cell.Process of the interface: dispatch on the cell.
Process(c, f, h) ==
  CASE c.kind = "blackhole"      -> BlackholeProcess(c, f, h)
    [] c.kind = "loss.bernoulli" -> BernoulliProcess(c, f, h)
    [] c.kind = "loss.ge"        -> GEProcess(c, f, h)
    [] c.kind = "delay"          -> DelayProcess(c, f, h)
    [] c.kind = "reorder"        -> ReorderProcess(c, f, h)
    [] c.kind = "corrupt"        -> CorruptProcess(c, f, h)
    [] c.kind = "ratelimit"      -> RateLimitProcess(c, f, h)
    [] c.kind = "droplist"       -> DropListProcess(c, f, h)
    [] c.kind = "deliverytrace"  -> DeliveryTraceProcess(c, f, h)
=============================================================================
