---------------------------- MODULE EngineProofs ----------------------------
(***************************************************************************)
(* The engine, for every pipeline of every cell and every workload: no     *)
(* packet is lost or returned twice, no payload is written to after it was *)
(* made, no packet is due before it was received, the delays of the stages *)
(* add up, a rate limiter is a FIFO link whatever comes before it, a bad   *)
(* state of one packet makes bursts of one, and a delivery trace grants    *)
(* each opportunity once.                                                  *)
(***************************************************************************)
EXTENDS Engine, FiniteSetTheorems, SequenceTheorems, WellFoundedInduction, TLAPS

Packets == [seq : Nat, dir : Dirs, data : Nat, len : Nat, recvAt : Nat, deliverAt : Nat]

\* A packet is due when it was received or later, and its payload is one of the heap.
Sound(f, h) == f \in Packets /\ f.data \in DOMAIN h /\ f.recvAt <= f.deliverAt

AllSound(fs, h) == fs \in Seq(Packets) /\ \A i \in DOMAIN fs : Sound(fs[i], h)

\* A heap after some cells: nothing is gone or changed.
Extends(g, h) == g \in Seq(Nat) /\ Len(h) <= Len(g) /\ \A i \in DOMAIN h : g[i] = h[i]

\* What every cell does to a packet.
ResultOK(r, h) == r.cell \in Cell /\ Extends(r.heap, h) /\ AllSound(r.outs, r.heap)

\* A packet stays sound when the heap grows.
LEMMA SoundKept ==
  ASSUME NEW h \in Seq(Nat), NEW g, Extends(g, h), NEW f, Sound(f, h)
  PROVE  Sound(f, g)
  BY DEF Sound, Extends

\* A heap that no cell touched.
LEMMA SelfExtends ==
  ASSUME NEW h \in Seq(Nat)
  PROVE  Extends(h, h)
  BY DEF Extends

\* A truncating division of naturals.
LEMMA DivNat ==
  ASSUME NEW n \in Nat, NEW m \in Nat \ {0}
  PROVE  n \div m \in Nat
<1> DEFINE q == n \div m
           r == n % m
<1>1. q \in Int /\ r \in 0..(m - 1) /\ n = m * q + r
  OBVIOUS
<1> HIDE DEF q, r
<1>2. q >= 0
  <2> SUFFICES ASSUME q <= -1 PROVE FALSE
    BY <1>1
  <2>1. m * q <= m * (-1)
    BY <1>1
  <2> QED
    BY <1>1, <2>1
<1> QED
  BY <1>1, <1>2 DEF q

\* Dropped, or sent on as it is or with another delivery time.
LEMMA DiscardOK ==
  ASSUME NEW c \in Cell, NEW h \in Seq(Nat)
  PROVE  ResultOK(Discard(c, h), h)
<1>1. Discard(c, h).cell = c /\ Discard(c, h).heap = h /\ Discard(c, h).outs = << >>
  BY DEF Discard, Result
<1> QED
  BY <1>1, SelfExtends DEF ResultOK, AllSound

\* Sent on, with a payload of a heap that may have grown.
LEMMA KeepOK ==
  ASSUME NEW c \in Cell, NEW h \in Seq(Nat), NEW g, Extends(g, h), NEW f, Sound(f, g)
  PROVE  ResultOK(Keep(c, f, g), h)
<1>1. Keep(c, f, g).cell = c /\ Keep(c, f, g).heap = g /\ Keep(c, f, g).outs = <<f>>
  BY DEF Keep, Result
<1>2. f \in Packets
  BY DEF Sound
<1>3. <<f>> \in Seq(Packets) /\ DOMAIN <<f>> = {1} /\ <<f>>[1] = f
  BY <1>2
<1>4. AllSound(<<f>>, g)
  BY <1>3 DEF AllSound
<1> QED
  BY <1>1, <1>4 DEF ResultOK

\* A packet with a later delivery time.
LEMMA LaterSound ==
  ASSUME NEW h \in Seq(Nat), NEW f, Sound(f, h), NEW t \in Int, f.recvAt <= t,
         NEW g, g = [f EXCEPT !.deliverAt = t]
  PROVE  Sound(g, h)
<1>1. f \in Packets /\ f.recvAt \in Nat
  BY DEF Sound, Packets
<1>2. t \in Nat
  BY <1>1
<1>3. g \in Packets /\ g.data = f.data /\ g.recvAt = f.recvAt /\ g.deliverAt = t
  BY <1>1, <1>2 DEF Packets
<1> QED
  BY <1>3 DEF Sound
-----------------------------------------------------------------------------
(***************************************************************************)
(* The cells, one by one.                                                  *)
(***************************************************************************)
LEMMA DropOrKeepOK ==
  ASSUME NEW c \in Cell, NEW h \in Seq(Nat), NEW f, Sound(f, h), NEW r,
         r = Keep(c, f, h) \/ r = Discard(c, h)
  PROVE  ResultOK(r, h)
  BY SelfExtends, KeepOK, DiscardOK

\* Blackhole.Process drops or passes on.
LEMMA BlackholeOK ==
  ASSUME NEW c \in Cell, NEW h \in Seq(Nat), NEW f, Sound(f, h),
         NEW r \in BlackholeProcess(c, f, h)
  PROVE  ResultOK(r, h)
<1>1. r = Keep(c, f, h) \/ r = Discard(c, h)
  BY DEF BlackholeProcess
<1> QED
  BY <1>1, DropOrKeepOK

\* bernoulli.Process drops or passes on.
LEMMA BernoulliOK ==
  ASSUME NEW c \in Cell, NEW h \in Seq(Nat), NEW f, Sound(f, h),
         NEW r \in BernoulliProcess(c, f, h)
  PROVE  ResultOK(r, h)
<1>1. r = Keep(c, f, h) \/ r = Discard(c, h)
  BY DEF BernoulliProcess
<1> QED
  BY <1>1, DropOrKeepOK

\* dropList.Process drops or passes on.
LEMMA DropListOK ==
  ASSUME NEW c \in Cell, NEW h \in Seq(Nat), NEW f, Sound(f, h),
         NEW r \in DropListProcess(c, f, h)
  PROVE  ResultOK(r, h)
<1>1. r = Keep(c, f, h) \/ r = Discard(c, h)
  BY DEF DropListProcess
<1> QED
  BY <1>1, DropOrKeepOK

\* ge.Process does, and moves its chain.
LEMMA GilbertElliottOK ==
  ASSUME NEW c \in Cell, c.kind = "loss.ge", NEW h \in Seq(Nat), NEW f, Sound(f, h),
         NEW r \in GEProcess(c, f, h)
  PROVE  ResultOK(r, h)
<1>1. PICK moves : r = Keep([c EXCEPT !.state = IF moves THEN GEOther(@) ELSE @], f, h)
                   \/ r = Discard([c EXCEPT !.state = IF moves THEN GEOther(@) ELSE @], h)
  BY DEF GEProcess
<1> DEFINE d == [c EXCEPT !.state = IF moves THEN GEOther(@) ELSE @]
<1>2. d \in Cell
  BY DEF Cell, GEOther
<1> HIDE DEF d
<1> QED
  BY <1>1, <1>2, DropOrKeepOK DEF d

\* Delay: the floor at the ingress time makes up for negative jitter.
LEMMA DelayOK ==
  ASSUME NEW c \in Cell, c.kind = "delay", NEW h \in Seq(Nat), NEW f, Sound(f, h),
         NEW r \in DelayProcess(c, f, h)
  PROVE  ResultOK(r, h)
<1>1. c.base \in Nat /\ c.lo \in Int /\ c.hi \in Int
  BY DEF Cell
<1>2. f.deliverAt \in Nat /\ f.recvAt \in Nat
  BY DEF Sound, Packets
<1>3. PICK jit \in c.lo..c.hi :
        r = Keep(c, [f EXCEPT !.deliverAt = MaxOf(f.deliverAt + c.base + jit, f.recvAt)], h)
  BY DEF DelayProcess
<1> DEFINE t == MaxOf(f.deliverAt + c.base + jit, f.recvAt)
           g == [f EXCEPT !.deliverAt = t]
<1>4. t \in Int /\ f.recvAt <= t
  BY <1>1, <1>2 DEF MaxOf
<1> HIDE DEF t
<1>5. Sound(g, h)
  BY <1>4, LaterSound
<1> HIDE DEF g
<1>6. r = Keep(c, g, h)
  BY <1>3 DEF g, t
<1> QED
  BY <1>5, <1>6, DropOrKeepOK

\* The transmission time of a packet.
LEMMA SerializeType ==
  ASSUME NEW c, c.rate \in Int, c.rate > 0, NEW f, f.len \in Nat
  PROVE  Serialize(c, f) \in Nat
<1> DEFINE n == f.len * NsPerSec
<1>1. n \in Nat
  BY UnitsAssumption
<1> HIDE DEF n
<1>2. n \div c.rate \in Nat
  BY <1>1, DivNat
<1> QED
  BY <1>2 DEF Serialize, n

\* Rate limit: the transmit clock is never before the packet.
LEMMA RateLimitOK ==
  ASSUME NEW c \in Cell, c.kind = "ratelimit", NEW h \in Seq(Nat), NEW f, Sound(f, h),
         NEW r \in RateLimitProcess(c, f, h)
  PROVE  ResultOK(r, h)
<1>1. c.rate \in Int /\ c.queueFreeAt \in Nat
  BY DEF Cell
<1>2. f.deliverAt \in Nat /\ f.recvAt \in Nat /\ f.len \in Nat /\ f.recvAt <= f.deliverAt
  BY DEF Sound, Packets
<1> DEFINE t == MaxOf(f.deliverAt, c.queueFreeAt) + Serialize(c, f)
           g == [f EXCEPT !.deliverAt = t]
           d == [c EXCEPT !.queueFreeAt = t]
<1>3. CASE r = Keep(c, f, h) \/ r = Discard(c, h)
  BY <1>3, DropOrKeepOK
<1>4. CASE c.rate > 0 /\ r = Keep(d, g, h)
  <2>1. Serialize(c, f) \in Nat
    BY <1>1, <1>2, <1>4, SerializeType
  <2>2. t \in Nat /\ f.recvAt <= t
    BY <1>1, <1>2, <2>1 DEF MaxOf
  <2> HIDE DEF t
  <2>3. Sound(g, h)
    BY <2>2, LaterSound
  <2>4. d \in Cell
    BY <2>2 DEF Cell
  <2> QED
    BY <1>4, <2>3, <2>4, DropOrKeepOK
<1>5. r = Keep(c, f, h) \/ r = Discard(c, h) \/ (c.rate > 0 /\ r = Keep(d, g, h))
  BY <1>1 DEF RateLimitProcess
<1> QED
  BY <1>3, <1>4, <1>5

\* A heap with a payload appended.
LEMMA AppendExtends ==
  ASSUME NEW h \in Seq(Nat), NEW g, Extends(g, h), NEW x \in Nat
  PROVE  /\ Extends(Append(g, x), h)
         /\ Len(Append(g, x)) = Len(g) + 1 /\ DOMAIN Append(g, x) = 1..(Len(g) + 1)
<1>1. g \in Seq(Nat) /\ Len(h) <= Len(g) /\ \A i \in DOMAIN h : g[i] = h[i]
  BY DEF Extends
<1>2. /\ Append(g, x) \in Seq(Nat) /\ Len(Append(g, x)) = Len(g) + 1
      /\ \A i \in 1..Len(g) : Append(g, x)[i] = g[i]
  BY <1>1, AppendProperties
<1>3. /\ Len(g) \in Nat /\ Len(h) \in Nat /\ DOMAIN h = 1..Len(h)
      /\ DOMAIN Append(g, x) = 1..(Len(g) + 1)
  BY <1>1, <1>2, LenProperties
<1>4. \A i \in DOMAIN h : i \in 1..Len(g)
  BY <1>1, <1>3
<1>5. \A i \in DOMAIN h : Append(g, x)[i] = h[i]
  BY <1>1, <1>2, <1>4
<1>6. Len(h) <= Len(Append(g, x))
  BY <1>1, <1>2, <1>3
<1> QED
  BY <1>2, <1>3, <1>5, <1>6 DEF Extends

\* Corrupt: the bit is flipped in a payload of its own.
LEMMA CorruptOK ==
  ASSUME NEW c \in Cell, NEW h \in Seq(Nat), NEW f, Sound(f, h),
         NEW r \in CorruptProcess(c, f, h)
  PROVE  ResultOK(r, h)
<1> DEFINE x == h[f.data] + 1
           g == [f EXCEPT !.data = Len(h) + 1]
           hh == Append(h, x)
<1>1. r = Keep(c, f, h) \/ r = Keep(c, g, hh)
  BY DEF CorruptProcess
<1>2. x \in Nat /\ Len(h) \in Nat
  BY ElementOfSeq, LenProperties DEF Sound
<1>3. Extends(hh, h) /\ DOMAIN hh = 1..(Len(h) + 1)
  BY <1>2, SelfExtends, AppendExtends
<1> HIDE DEF x, hh
<1>4. f \in Packets /\ f.recvAt <= f.deliverAt
  BY DEF Sound
<1>5. g \in Packets /\ g.data = Len(h) + 1 /\ g.recvAt = f.recvAt /\ g.deliverAt = f.deliverAt
  BY <1>2, <1>4 DEF Packets
<1> HIDE DEF g
<1>6. g.data \in DOMAIN hh
  BY <1>2, <1>3, <1>5
<1>7. Sound(g, hh)
  BY <1>4, <1>5, <1>6 DEF Sound
<1>8. ResultOK(Keep(c, g, hh), h)
  BY <1>3, <1>7, KeepOK
<1> QED
  BY <1>1, <1>8, DropOrKeepOK

\* The outcomes of a draw.
LEMMA HitsBoolean == \A p : Hits(p) \subseteq BOOLEAN
  BY DEF Hits

\* Reorder and duplicate: every output has a payload of its own.
LEMMA ReorderOK ==
  ASSUME NEW c \in Cell, c.kind = "reorder", NEW h \in Seq(Nat), NEW f, Sound(f, h),
         NEW r \in ReorderProcess(c, f, h)
  PROVE  ResultOK(r, h)
<1>1. PICK reordered \in ReorderDecisions(c), dup \in Hits(c.dup) :
        r = Result(Copies(f, IF reordered THEN f.deliverAt ELSE f.deliverAt + c.gap, dup, h),
                   ReorderAfter(c, reordered), CopiedHeap(f, dup, h))
  BY DEF ReorderProcess
<1>2. c.gap \in Nat /\ c.prev \in BOOLEAN
  BY DEF Cell
<1>3. reordered \in BOOLEAN /\ dup \in BOOLEAN
  <2>1. \A b : (IF b THEN {c.prev} ELSE Hits(c.pct)) \subseteq BOOLEAN
    BY <1>2, HitsBoolean
  <2>2. reordered \in BOOLEAN
    BY <2>1 DEF ReorderDecisions
  <2> QED
    BY <2>2, HitsBoolean
<1>4. f.deliverAt \in Nat /\ f.recvAt \in Nat /\ f.recvAt <= f.deliverAt /\ f \in Packets
  BY DEF Sound, Packets
<1> DEFINE t == IF reordered THEN f.deliverAt ELSE f.deliverAt + c.gap
           d == ReorderAfter(c, reordered)
           x == h[f.data]
           g(i) == [f EXCEPT !.deliverAt = t, !.data = Len(h) + i]
           one == Append(h, x)
           two == Append(one, x)
<1>5. t \in Nat /\ f.recvAt <= t
  BY <1>2, <1>4
<1>6. d \in Cell
  BY <1>3 DEF ReorderAfter, Cell
<1>7. x \in Nat /\ Len(h) \in Nat
  BY ElementOfSeq, LenProperties DEF Sound
<1>8. Extends(one, h) /\ Len(one) = Len(h) + 1 /\ DOMAIN one = 1..(Len(h) + 1)
  BY <1>7, SelfExtends, AppendExtends
<1> HIDE DEF t, d, x, one
<1>9. Extends(two, h) /\ DOMAIN two = 1..(Len(one) + 1)
  BY <1>7, <1>8, AppendExtends
<1> HIDE DEF two
<1>10. \A i \in {1, 2} : /\ g(i) \in Packets /\ g(i).data = Len(h) + i
                         /\ g(i).recvAt = f.recvAt /\ g(i).deliverAt = t
  <2> SUFFICES ASSUME NEW i \in {1, 2}
               PROVE  /\ g(i) \in Packets /\ g(i).data = Len(h) + i
                      /\ g(i).recvAt = f.recvAt /\ g(i).deliverAt = t
    OBVIOUS
  <2>1. Len(h) + i \in Nat
    BY <1>7
  <2> DEFINE at == Len(h) + i
  <2> HIDE DEF at
  <2>2. g(i) = [f EXCEPT !.deliverAt = t, !.data = at]
    BY DEF at
  <2>3. /\ g(i) \in Packets /\ g(i).data = at
        /\ g(i).recvAt = f.recvAt /\ g(i).deliverAt = t
    BY <1>4, <1>5, <2>1, <2>2 DEF Packets, at
  <2> QED
    BY <2>3 DEF at
<1> HIDE DEF g
<1>11. Sound(g(1), one) /\ Sound(g(1), two) /\ Sound(g(2), two)
  <2>1. g(1).data \in DOMAIN one /\ g(1).data \in DOMAIN two /\ g(2).data \in DOMAIN two
    BY <1>7, <1>8, <1>9, <1>10
  <2> QED
    BY <1>5, <1>10, <2>1 DEF Sound
<1>12. r.cell = d
  BY <1>1 DEF Result, d
<1>13. CASE dup
  <2>1. r.outs = <<g(1), g(2)>>
    BY <1>1, <1>13 DEF Result, Copies, g, t
  <2>2. r.heap = h \o <<x, x>>
    BY <1>1, <1>13 DEF Result, CopiedHeap, x
  <2>3. h \o <<x, x>> = two
    BY <1>7 DEF one, two
  <2>4. AllSound(<<g(1), g(2)>>, two)
    <3>1. <<g(1), g(2)>> \in Seq(Packets)
      BY <1>10
    <3> QED
      BY <1>11, <3>1 DEF AllSound
  <2> QED
    BY <1>6, <1>9, <1>12, <2>1, <2>2, <2>3, <2>4 DEF ResultOK
<1>14. CASE ~dup
  <2>1. r.outs = <<g(1)>>
    BY <1>1, <1>14 DEF Result, Copies, g, t
  <2>2. r.heap = h \o <<x>>
    BY <1>1, <1>14 DEF Result, CopiedHeap, x
  <2>3. h \o <<x>> = one
    BY <1>7 DEF one
  <2>4. AllSound(<<g(1)>>, one)
    <3>1. <<g(1)>> \in Seq(Packets)
      BY <1>10
    <3> QED
      BY <1>11, <3>1 DEF AllSound
  <2> QED
    BY <1>6, <1>8, <1>12, <2>1, <2>2, <2>3, <2>4 DEF ResultOK
<1> QED
  BY <1>3, <1>13, <1>14

\* The index that sort.Search finds, and the times of the schedule.
LEMMA ScheduleTypes ==
  ASSUME NEW c \in Cell, c.kind = "deliverytrace", NEW ms \in Int
  PROVE  FirstOppAtOrAfter(c, ms) \in Int /\ Period(c) \in Int
<1>1. c.sched \in Seq(Int) /\ c.loop \in BOOLEAN
  BY DEF Cell
<1>2. \A m \in Int : SearchSched(c, m) \in Nat
  <2> SUFFICES ASSUME NEW m \in Int PROVE SearchSched(c, m) \in Nat
    OBVIOUS
  <2> DEFINE S == {k \in DOMAIN c.sched : c.sched[k] < m}
  <2>1. Len(c.sched) \in Nat /\ DOMAIN c.sched = 1..Len(c.sched)
    BY <1>1, LenProperties
  <2>2. IsFiniteSet(1..Len(c.sched)) /\ S \subseteq 1..Len(c.sched)
    BY <2>1, FS_Interval
  <2>3. IsFiniteSet(S)
    BY <2>2, FS_Subset
  <2>4. Cardinality(S) \in Nat
    BY <2>3, FS_CardinalityType
  <2> QED
    BY <2>4 DEF SearchSched
<1>3. Len(c.sched) \in Nat
  BY <1>1, LenProperties
<1>4. Period(c) \in Int
  <2>1. CASE c.sched = << >>
    BY <2>1 DEF Period
  <2>2. CASE c.sched # << >>
    <3>1. Len(c.sched) \in 1..Len(c.sched)
      BY <1>1, <1>3, <2>2, EmptySeq
    <3>2. c.sched[Len(c.sched)] \in Int
      BY <1>1, <3>1, ElementOfSeq
    <3> QED
      BY <2>2, <3>2 DEF Period
  <2> QED
    BY <2>1, <2>2
<1> DEFINE n == Len(c.sched)
           p == Period(c)
           q == ms \div p
<1>5. CASE p > 0
  <2>1. q \in Int
    BY <1>4, <1>5
  <2> HIDE DEF n, p, q
  <2>2. ms - q * p \in Int
    BY <1>4, <2>1 DEF p
  <2>3. SearchSched(c, ms - q * p) \in Nat
    BY <1>2, <2>2
  <2>4. q * n + SearchSched(c, ms - q * p) \in Int
    BY <1>3, <2>1, <2>3 DEF n
  <2> QED
    BY <1>2, <1>4, <1>5, <2>4 DEF FirstOppAtOrAfter, n, p, q
<1>6. CASE ~(p > 0)
  BY <1>2, <1>4, <1>6 DEF FirstOppAtOrAfter
<1> QED
  BY <1>4, <1>5, <1>6

\* The time of an opportunity that exists.
LEMMA OppTimeType ==
  ASSUME NEW c \in Cell, c.kind = "deliverytrace", NEW i \in Nat, OppExists(c, i)
  PROVE  OppTimeMs(c, i) \in Int
<1> DEFINE n == Len(c.sched)
<1>1. c.sched \in Seq(Int) /\ c.sched # << >>
  BY DEF Cell, OppExists
<1>2. n \in Nat \ {0}
  BY <1>1, LenProperties, EmptySeq
<1>3. Period(c) \in Int
  BY 0 \in Int, ScheduleTypes
<1>4. c.sched[(i % n) + 1] \in Int
  <2> HIDE DEF n
  <2>1. (i % n) + 1 \in 1..n
    BY <1>2
  <2> QED
    BY <1>1, <2>1, ElementOfSeq DEF n
<1> HIDE DEF n
<1>5. i \div n \in Int
  BY <1>2
<1>6. (i \div n) * Period(c) + c.sched[(i % n) + 1] \in Int
  BY <1>3, <1>4, <1>5
<1> QED
  BY <1>6 DEF OppTimeMs, n

\* Delivery trace: an opportunity before the ingress is not used before it.
LEMMA DeliveryTraceOK ==
  ASSUME NEW c \in Cell, c.kind = "deliverytrace", NEW h \in Seq(Nat), NEW f, Sound(f, h),
         NEW r \in DeliveryTraceProcess(c, f, h)
  PROVE  ResultOK(r, h)
<1> DEFINE d    == IF c.started \/ c.sched = << >> THEN c
                   ELSE [c EXCEPT !.started = TRUE, !.base = f.recvAt]
           need == MaxOf((f.len + d.mtu - 1) \div d.mtu, 1)
           ms   == MaxOf(f.recvAt - d.base, 0) \div NsPerMs
           arr  == FirstOppAtOrAfter(d, ms)
           last == MaxOf(d.nextOpp, arr) + need - 1
           t    == MaxOf(d.base + OppTimeMs(d, last) * NsPerMs, f.recvAt)
           e    == [d EXCEPT !.nextOpp = last + 1]
           g    == [f EXCEPT !.deliverAt = t]
<1>1. r = Discard(d, h) \/ (OppExists(d, last) /\ r = Keep(e, g, h))
  BY DEF DeliveryTraceProcess
<1>2. f.recvAt \in Nat /\ f.len \in Nat
  BY DEF Sound, Packets
<1>3. d \in Cell /\ d.kind = "deliverytrace"
  BY <1>2 DEF Cell
<1> HIDE DEF d
<1>4. d.base \in Nat /\ d.mtu \in Nat \ {0} /\ d.nextOpp \in Nat
  BY <1>3 DEF Cell
<1>5. CASE r = Discard(d, h)
  BY <1>3, <1>5, DropOrKeepOK
<1>6. CASE OppExists(d, last) /\ r = Keep(e, g, h)
  <2>1. need \in Int /\ need >= 1
    BY <1>2, <1>4 DEF MaxOf
  <2>2. ms \in Int
    BY <1>2, <1>4, UnitsAssumption DEF MaxOf
  <2> HIDE DEF need, ms
  <2>3. arr \in Int
    BY <1>3, <2>2, ScheduleTypes
  <2> HIDE DEF arr
  <2>4. last \in Nat
    BY <1>4, <2>1, <2>3 DEF MaxOf
  <2> HIDE DEF last
  <2>5. OppTimeMs(d, last) \in Int
    BY <1>3, <1>6, <2>4, OppTimeType
  <2>6. OppTimeMs(d, last) * NsPerMs \in Int
    BY <2>5, UnitsAssumption
  <2>7. t \in Int /\ f.recvAt <= t
    BY <1>2, <1>4, <2>6 DEF MaxOf
  <2> HIDE DEF t
  <2>8. Sound(g, h)
    BY <2>7, LaterSound
  <2>9. last + 1 \in Nat
    BY <2>4
  <2>10. e \in Cell
    BY <1>3, <2>9 DEF Cell
  <2> HIDE DEF e, g
  <2> QED
    BY <1>6, <2>8, <2>10, DropOrKeepOK
<1> QED
  BY <1>1, <1>5, <1>6

\* Every cell: the packets it returns are due when they were received or later and
\* hold payloads that exist, and it writes to no payload that there was.
LEMMA ProcessOK ==
  ASSUME NEW c \in Cell, NEW h \in Seq(Nat), NEW f, Sound(f, h),
         NEW r \in Process(c, f, h)
  PROVE  ResultOK(r, h)
<1>1. c.kind \in {"blackhole", "loss.bernoulli", "loss.ge", "delay", "reorder",
                  "corrupt", "ratelimit", "droplist", "deliverytrace"}
  BY DEF Cell
<1>2. CASE c.kind = "blackhole"
  BY <1>2, BlackholeOK DEF Process
<1>3. CASE c.kind = "loss.bernoulli"
  BY <1>3, BernoulliOK DEF Process
<1>4. CASE c.kind = "loss.ge"
  BY <1>4, GilbertElliottOK DEF Process
<1>5. CASE c.kind = "delay"
  BY <1>5, DelayOK DEF Process
<1>6. CASE c.kind = "reorder"
  BY <1>6, ReorderOK DEF Process
<1>7. CASE c.kind = "corrupt"
  BY <1>7, CorruptOK DEF Process
<1>8. CASE c.kind = "ratelimit"
  BY <1>8, RateLimitOK DEF Process
<1>9. CASE c.kind = "droplist"
  BY <1>9, DropListOK DEF Process
<1>10. CASE c.kind = "deliverytrace"
  BY <1>10, DeliveryTraceOK DEF Process
<1> QED
  BY <1>1, <1>2, <1>3, <1>4, <1>5, <1>6, <1>7, <1>8, <1>9, <1>10
-----------------------------------------------------------------------------
(***************************************************************************)
(* The engine.                                                             *)
(***************************************************************************)
Kinds == {"blackhole", "loss.bernoulli", "loss.ge", "delay", "reorder",
          "corrupt", "ratelimit", "droplist", "deliverytrace"}

\* The actions of Handle: drops, and forwards that are due when they were received
\* or later.
DropActions == [kind : {"drop"}, seq : Nat, dir : Dirs, reason : Kinds]
ForwardActions == [kind : {"forward"}, seq : Nat, dir : Dirs, len : Nat, recvAt : Nat,
                   deliverAt : Nat, flips : Nat]
Actions == DropActions \cup {a \in ForwardActions : a.recvAt <= a.deliverAt}

\* The packets between stages are sound, there are none between two Handles, and
\* outputs only pile up while a stage runs.
EngineInv ==
  /\ load \in Workloads /\ now \in Nat /\ seq \in Nat /\ copies \in Nat
  /\ stage \in Nat /\ dir \in Dirs
  /\ pipelines \in [Dirs -> Seq(Cell)]
  /\ heap \in Seq(Nat)
  /\ AllSound(cur, heap) /\ AllSound(next, heap)
  /\ actions \in Seq(Actions) /\ out \in Seq(Actions)
  /\ next # << >> => stage \in DOMAIN Pipe
  /\ stage = 0 => cur = << >>
  /\ PacketsConserved

\* No packet is due before it was received, whatever the cells of its pipeline do
\* to its delivery time.
NeverEarly == \A i \in Forwards : out[i].recvAt <= out[i].deliverAt

\* Packets stay sound when the heap grows.
LEMMA AllSoundKept ==
  ASSUME NEW h \in Seq(Nat), NEW g, Extends(g, h), NEW fs, AllSound(fs, h)
  PROVE  AllSound(fs, g)
  BY SoundKept DEF AllSound

\* The outputs of two invocations together.
LEMMA JoinSound ==
  ASSUME NEW h \in Seq(Nat), NEW fs, AllSound(fs, h), NEW gs, AllSound(gs, h)
  PROVE  AllSound(fs \o gs, h) /\ Len(fs \o gs) = Len(fs) + Len(gs)
<1>1. fs \in Seq(Packets) /\ gs \in Seq(Packets)
  BY DEF AllSound
<1>2. /\ fs \o gs \in Seq(Packets) /\ Len(fs \o gs) = Len(fs) + Len(gs)
      /\ \A i \in 1..Len(fs) + Len(gs) :
           (fs \o gs)[i] = IF i <= Len(fs) THEN fs[i] ELSE gs[i - Len(fs)]
  BY <1>1, ConcatProperties
<1>3. /\ Len(fs) \in Nat /\ Len(gs) \in Nat /\ DOMAIN fs = 1..Len(fs) /\ DOMAIN gs = 1..Len(gs)
      /\ DOMAIN (fs \o gs) = 1..(Len(fs) + Len(gs))
  BY <1>1, <1>2, LenProperties
<1>4. ASSUME NEW i \in 1..(Len(fs) + Len(gs))
      PROVE  Sound((fs \o gs)[i], h)
  <2>1. CASE i <= Len(fs)
    <3>1. i \in DOMAIN fs /\ (fs \o gs)[i] = fs[i]
      BY <1>2, <1>3, <2>1
    <3> QED
      BY <3>1 DEF AllSound
  <2>2. CASE ~(i <= Len(fs))
    <3>1. i - Len(fs) \in DOMAIN gs /\ (fs \o gs)[i] = gs[i - Len(fs)]
      BY <1>2, <1>3, <2>2
    <3> QED
      BY <3>1 DEF AllSound
  <2> QED
    BY <2>1, <2>2
<1> QED
  BY <1>2, <1>3, <1>4 DEF AllSound

\* The packet taken from a stage, and the rest.
LEMMA TailSound ==
  ASSUME NEW h \in Seq(Nat), NEW fs, AllSound(fs, h), fs # << >>
  PROVE  Sound(Head(fs), h) /\ AllSound(Tail(fs), h) /\ Len(Tail(fs)) = Len(fs) - 1
<1>1. fs \in Seq(Packets)
  BY DEF AllSound
<1>2. /\ Head(fs) = fs[1] /\ Tail(fs) \in Seq(Packets) /\ Len(Tail(fs)) = Len(fs) - 1
      /\ \A i \in 1..Len(Tail(fs)) : Tail(fs)[i] = fs[i + 1]
  BY <1>1, HeadTailProperties
<1>3. /\ Len(fs) \in Nat \ {0} /\ DOMAIN fs = 1..Len(fs)
      /\ DOMAIN Tail(fs) = 1..(Len(fs) - 1)
  BY <1>1, <1>2, LenProperties, EmptySeq
<1>4. \A i \in DOMAIN Tail(fs) : i + 1 \in DOMAIN fs /\ Tail(fs)[i] = fs[i + 1]
  BY <1>2, <1>3
<1>5. 1 \in DOMAIN fs
  BY <1>3
<1> QED
  BY <1>2, <1>4, <1>5 DEF AllSound

\* One cell invocation, taken apart.
LEMMA CellStepParts ==
  ASSUME EngineInv, CellStep
  PROVE  \E r : /\ r \in Process(Pipe[stage], Head(cur), heap)
                /\ ResultOK(r, heap)
                /\ Sound(Head(cur), heap) /\ Pipe[stage] \in Cell
                /\ pipelines' = [pipelines EXCEPT ![dir][stage] = r.cell]
                /\ heap' = r.heap
                /\ \/ /\ r.outs = << >>
                      /\ actions' = Append(actions, DropAction(Head(cur), Pipe[stage]))
                      /\ UNCHANGED <<next, copies>>
                   \/ /\ r.outs # << >> /\ next' = next \o r.outs
                      /\ copies' = copies + Len(r.outs) - 1
                      /\ UNCHANGED actions
<1>1. PICK r \in Process(Pipe[stage], Head(cur), heap) :
        /\ pipelines' = [pipelines EXCEPT ![dir][stage] = r.cell]
        /\ heap' = r.heap
        /\ IF r.outs = << >>
           THEN /\ actions' = Append(actions, DropAction(Head(cur), Pipe[stage]))
                /\ UNCHANGED <<next, copies>>
           ELSE /\ next' = next \o r.outs
                /\ copies' = copies + Len(r.outs) - 1
                /\ UNCHANGED actions
  BY DEF CellStep
<1>2. heap \in Seq(Nat) /\ Sound(Head(cur), heap)
  BY TailSound DEF EngineInv, CellStep
<1>3. Pipe[stage] \in Cell
  <2>1. Pipe \in Seq(Cell)
    BY DEF Pipe, EngineInv
  <2>2. stage \in 1..Len(Pipe)
    BY <2>1, LenProperties DEF CellStep
  <2> QED
    BY <2>1, <2>2, ElementOfSeq
<1>4. ResultOK(r, heap)
  BY <1>2, <1>3, ProcessOK
<1> QED
  BY <1>1, <1>2, <1>3, <1>4

\* A drop names the cell.
LEMMA DropActionType ==
  ASSUME NEW f \in Packets, NEW c \in Cell
  PROVE  DropAction(f, c) \in Actions
<1>1. c.kind \in Kinds
  BY DEF Cell, Kinds
<1> QED
  BY <1>1 DEF DropAction, Actions, DropActions, Packets

\* A sound packet makes a forward that is not due too early.
LEMMA ForwardActionType ==
  ASSUME heap \in Seq(Nat), NEW f, Sound(f, heap)
  PROVE  ForwardAction(f) \in Actions
<1>1. heap[f.data] \in Nat
  BY ElementOfSeq, LenProperties DEF Sound
<1>2. f \in Packets /\ f.recvAt <= f.deliverAt
  BY DEF Sound
<1>3. ForwardAction(f) \in ForwardActions
  BY <1>1, <1>2 DEF ForwardAction, ForwardActions, Packets
<1>4. ForwardAction(f).recvAt <= ForwardAction(f).deliverAt
  BY <1>2 DEF ForwardAction
<1> QED
  BY <1>3, <1>4 DEF Actions

\* One invocation: the packet becomes a drop, or its outputs, of which all but one
\* count as copies.
LEMMA EngineCellStep ==
  ASSUME EngineInv, CellStep
  PROVE  EngineInv'
<1>1. PICK r : /\ ResultOK(r, heap)
               /\ Sound(Head(cur), heap) /\ Pipe[stage] \in Cell
               /\ pipelines' = [pipelines EXCEPT ![dir][stage] = r.cell]
               /\ heap' = r.heap
               /\ \/ /\ r.outs = << >>
                     /\ actions' = Append(actions, DropAction(Head(cur), Pipe[stage]))
                     /\ UNCHANGED <<next, copies>>
                  \/ /\ r.outs # << >> /\ next' = next \o r.outs
                     /\ copies' = copies + Len(r.outs) - 1
                     /\ UNCHANGED actions
  BY CellStepParts
<1>2. /\ stage \in DOMAIN Pipe /\ cur # << >> /\ cur' = Tail(cur)
      /\ UNCHANGED <<load, now, seq, stage, dir, out>>
  BY DEF CellStep
<1>3. r.cell \in Cell /\ Extends(r.heap, heap) /\ AllSound(r.outs, r.heap)
  BY <1>1 DEF ResultOK
<1>4. heap' \in Seq(Nat) /\ AllSound(Tail(cur), heap') /\ AllSound(next, heap')
  <2>1. AllSound(Tail(cur), heap) /\ AllSound(next, heap) /\ heap \in Seq(Nat)
    BY <1>2, TailSound DEF EngineInv
  <2> QED
    BY <1>1, <1>3, <2>1, AllSoundKept DEF Extends
<1>5. Len(Tail(cur)) = Len(cur) - 1 /\ Len(cur) \in Nat
  BY <1>2, TailSound, LenProperties DEF EngineInv, AllSound
<1>6. pipelines' \in [Dirs -> Seq(Cell)] /\ DOMAIN Pipe' = DOMAIN Pipe
  <2>1. pipelines \in [Dirs -> Seq(Cell)] /\ dir \in Dirs /\ dir' = dir
    BY <1>2 DEF EngineInv
  <2>2. [pipelines[dir] EXCEPT ![stage] = r.cell] \in Seq(Cell)
    BY <1>2, <1>3, <2>1, ExceptSeq DEF Pipe
  <2>3. pipelines' = [pipelines EXCEPT ![dir] = [pipelines[dir] EXCEPT ![stage] = r.cell]]
    BY <1>1
  <2>4. pipelines'[dir] = [pipelines[dir] EXCEPT ![stage] = r.cell]
    BY <2>1, <2>3
  <2> QED
    BY <2>1, <2>2, <2>3, <2>4 DEF Pipe
<1>7. Head(cur) \in Packets
  BY <1>1 DEF Sound
<1>8. /\ AllSound(next', heap') /\ actions' \in Seq(Actions) /\ copies' \in Nat
      /\ Len(actions') + Len(next') + Len(cur') + copies
           = Len(actions) + Len(next) + Len(cur) + copies'
  <2>1. /\ Len(next) \in Nat /\ Len(actions) \in Nat /\ copies \in Nat
        /\ actions \in Seq(Actions)
    BY LenProperties DEF EngineInv, AllSound
  <2>2. CASE /\ actions' = Append(actions, DropAction(Head(cur), Pipe[stage]))
             /\ UNCHANGED <<next, copies>>
    <3>1. actions' \in Seq(Actions) /\ Len(actions') = Len(actions) + 1
      BY <1>1, <1>7, <2>1, <2>2, DropActionType, AppendProperties
    <3>2. next' = next /\ copies' = copies /\ Len(cur') = Len(cur) - 1
      BY <1>2, <1>5, <2>2
    <3> QED
      BY <1>4, <1>5, <2>1, <3>1, <3>2
  <2>3. CASE /\ r.outs # << >> /\ next' = next \o r.outs
             /\ copies' = copies + Len(r.outs) - 1
             /\ UNCHANGED actions
    <3>1. AllSound(next', heap') /\ Len(next') = Len(next) + Len(r.outs)
      BY <1>1, <1>3, <1>4, <2>3, JoinSound
    <3>2. Len(r.outs) \in Nat /\ Len(r.outs) >= 1
      BY <1>3, <2>3, LenProperties, EmptySeq DEF AllSound
    <3>3. actions' = actions /\ Len(cur') = Len(cur) - 1
      BY <1>2, <1>5, <2>3
    <3>4. copies' = copies + Len(r.outs) - 1 /\ copies' \in Nat
      BY <2>1, <2>3, <3>2
    <3>5. Len(next') + Len(cur') + copies = Len(next) + Len(cur) + copies'
      <4> DEFINE c0 == Len(cur)
                 c1 == Len(cur')
                 n0 == Len(next)
                 n1 == Len(next')
                 o  == Len(r.outs)
      <4>1. c0 \in Nat /\ n0 \in Nat /\ o \in Nat /\ copies \in Nat
        BY <1>5, <2>1, <3>2
      <4>2. c1 = c0 - 1 /\ n1 = n0 + o /\ copies' = copies + o - 1
        BY <3>1, <3>3, <3>4
      <4> HIDE DEF c0, c1, n0, n1, o
      <4>3. n1 + c1 + copies = n0 + c0 + copies'
        BY <4>1, <4>2
      <4> QED
        BY <4>3 DEF c0, c1, n0, n1
    <3>6. Len(next') \in Nat /\ Len(cur') \in Nat
      BY <1>2, <1>4, <3>1, LenProperties DEF AllSound
    <3> DEFINE a == Len(actions)
               l == Len(next') + Len(cur') + copies
    <3>7. a \in Nat /\ l \in Nat
      BY <2>1, <3>6
    <3>8. Len(actions') + Len(next') + Len(cur') + copies = a + l
      BY <2>1, <3>3, <3>6
    <3>9. Len(actions) + Len(next) + Len(cur) + copies' = a + l
      <4> DEFINE k == Len(next) + Len(cur)
      <4>1. k \in Nat /\ l = k + copies'
        BY <1>5, <2>1, <3>5
      <4>2. Len(actions) + Len(next) + Len(cur) = a + k
        BY <1>5, <2>1
      <4> HIDE DEF a, k, l
      <4> QED
        BY <3>4, <3>7, <4>1, <4>2
    <3> QED
      BY <2>1, <3>1, <3>3, <3>4, <3>8, <3>9
  <2> QED
    BY <1>1, <2>2, <2>3
<1>9. PacketsConserved'
  <2>1. Len(out) + Len(actions) + Len(cur) + Len(next) = seq + copies
    BY DEF EngineInv, PacketsConserved
  <2>2. /\ Len(out) \in Nat /\ Len(actions) \in Nat /\ Len(next) \in Nat
        /\ seq \in Nat /\ copies \in Nat
    BY LenProperties DEF EngineInv, AllSound
  <2>3. Len(actions') \in Nat /\ Len(next') \in Nat /\ Len(cur') \in Nat
    BY <1>2, <1>4, <1>8, LenProperties DEF AllSound
  <2>4. Len(out') = Len(out) /\ seq' = seq
    BY <1>2
  <2>5. Len(out') + Len(actions') + Len(cur') + Len(next') = seq' + copies'
    <3>1. PICK o \in Nat, a0 \in Nat, c0 \in Nat, n0 \in Nat :
            o = Len(out) /\ a0 = Len(actions) /\ c0 = Len(cur) /\ n0 = Len(next)
      BY <1>5, <2>2
    <3>2. PICK a1 \in Nat, c1 \in Nat, n1 \in Nat :
            a1 = Len(actions') /\ c1 = Len(cur') /\ n1 = Len(next')
      BY <2>3
    <3>3. PICK s \in Nat, k0 \in Nat, k1 \in Nat : s = seq /\ k0 = copies /\ k1 = copies'
      BY <1>8, <2>2
    <3>4. o + a0 + c0 + n0 = s + k0
      BY <2>1, <3>1, <3>3
    <3>5. a1 + n1 + c1 + k0 = a0 + n0 + c0 + k1
      BY <1>8, <3>1, <3>2, <3>3
    <3>6. o + a1 + c1 + n1 = s + k1
      BY <3>4, <3>5
    <3> QED
      BY <2>4, <3>1, <3>2, <3>3, <3>6
  <2> QED
    BY <2>5 DEF PacketsConserved
<1>10. stage' \in DOMAIN Pipe' /\ stage' # 0
  <2>1. Pipe \in Seq(Cell)
    BY DEF Pipe, EngineInv
  <2>2. stage # 0
    BY <1>2, <2>1, LenProperties
  <2> QED
    BY <1>2, <1>6, <2>2
<1>11. AllSound(cur', heap')
  BY <1>2, <1>4
<1> QED
  BY <1>2, <1>4, <1>6, <1>8, <1>9, <1>10, <1>11 DEF EngineInv

\* A packet enters between two Handles only, when nothing is left of the last one.
LEMMA EngineIngress ==
  ASSUME EngineInv, NEW d \in Dirs, NEW len \in Lengths, Ingress(d, len)
  PROVE  EngineInv'
<1> DEFINE f == [seq |-> seq + 1, dir |-> d, data |-> 1, len |-> len,
                 recvAt |-> now, deliverAt |-> now]
<1>1. /\ stage = 0 /\ seq' = seq + 1 /\ dir' = d /\ stage' = 1 /\ heap' = <<0>> /\ cur' = <<f>>
      /\ UNCHANGED <<load, now, pipelines, next, actions, copies, out>>
  BY DEF Ingress
<1>2. Pipe \in Seq(Cell) /\ stage \notin DOMAIN Pipe
  BY <1>1, LenProperties DEF EngineInv, Pipe
<1>3. cur = << >> /\ next = << >>
  BY <1>1, <1>2 DEF EngineInv
<1>4. len \in Nat /\ now \in Nat /\ seq \in Nat
  BY WorkloadsAssumption DEF EngineInv, Lengths
<1>5. <<0>> \in Seq(Nat) /\ DOMAIN <<0>> = {1}
  OBVIOUS
<1>6. f \in Packets /\ f.data = 1 /\ f.recvAt <= f.deliverAt
  BY <1>4 DEF Packets
<1> HIDE DEF f
<1>7. Sound(f, <<0>>)
  BY <1>5, <1>6 DEF Sound
<1>8. <<f>> \in Seq(Packets) /\ DOMAIN <<f>> = {1} /\ <<f>>[1] = f /\ Len(<<f>>) = 1
  BY <1>6
<1>9. AllSound(cur', heap')
  BY <1>1, <1>7, <1>8 DEF AllSound
<1>10. AllSound(next', heap') /\ next' = << >> /\ heap' \in Seq(Nat)
  BY <1>1, <1>3, <1>5 DEF AllSound
<1>11. PacketsConserved'
  <2>1. Len(out) + Len(actions) + Len(cur) + Len(next) = seq + copies
    BY DEF EngineInv, PacketsConserved
  <2>2. /\ Len(out) \in Nat /\ Len(actions) \in Nat /\ Len(cur) = 0 /\ Len(cur') = 1
        /\ Len(next) = 0 /\ copies \in Nat
    BY <1>1, <1>3, <1>8, LenProperties DEF EngineInv
  <2>3. out' = out /\ actions' = actions /\ next' = next /\ copies' = copies
    BY <1>1
  <2>4. Len(out') + Len(actions') + Len(cur') + Len(next') = seq' + copies'
    BY <1>1, <1>4, <2>1, <2>2, <2>3
  <2> QED
    BY <2>4 DEF PacketsConserved
<1> QED
  BY <1>1, <1>4, <1>9, <1>10, <1>11 DEF EngineInv

\* The drops and the survivors become actions, one each.
LEMMA EngineReturn ==
  ASSUME EngineInv, Return
  PROVE  EngineInv'
<1> DEFINE fwds == [i \in DOMAIN cur |-> ForwardAction(cur[i])]
<1>1. /\ stage = Len(Pipe) + 1 /\ out' = (out \o actions) \o fwds
      /\ stage' = 0 /\ cur' = << >> /\ actions' = << >> /\ heap' = << >>
      /\ UNCHANGED <<load, now, pipelines, seq, dir, next, copies>>
  BY DEF Return
<1>2. Pipe \in Seq(Cell) /\ stage \notin DOMAIN Pipe
  <2>1. Pipe \in Seq(Cell)
    BY DEF EngineInv, Pipe
  <2> QED
    BY <1>1, <2>1, LenProperties
<1>3. next = << >>
  BY <1>2 DEF EngineInv
<1>4. /\ heap \in Seq(Nat) /\ cur \in Seq(Packets) /\ actions \in Seq(Actions) /\ out \in Seq(Actions)
      /\ \A i \in DOMAIN cur : Sound(cur[i], heap)
  BY DEF EngineInv, AllSound
<1>5. \A i \in DOMAIN cur : ForwardAction(cur[i]) \in Actions
  BY <1>4, ForwardActionType
<1>6. Len(cur) \in Nat /\ DOMAIN cur = 1..Len(cur)
  BY <1>4, LenProperties
<1>7. fwds \in Seq(Actions) /\ Len(fwds) = Len(cur)
  BY <1>5, <1>6
<1> HIDE DEF fwds
<1>8. out \o actions \in Seq(Actions) /\ Len(out \o actions) = Len(out) + Len(actions)
  BY <1>4, ConcatProperties
<1>9. out' \in Seq(Actions) /\ Len(out') = Len(out \o actions) + Len(fwds)
  BY <1>1, <1>7, <1>8, ConcatProperties
<1>10. PacketsConserved'
  <2>1. Len(out) + Len(actions) + Len(cur) + Len(next) = seq + copies
    BY DEF EngineInv, PacketsConserved
  <2>2. /\ Len(out) \in Nat /\ Len(actions) \in Nat /\ Len(next) = 0
        /\ Len(actions') = 0 /\ Len(cur') = 0 /\ Len(next') = 0
    BY <1>1, <1>3, <1>4, LenProperties
  <2>3. Len(out') = Len(out) + Len(actions) + Len(cur)
    BY <1>7, <1>8, <1>9
  <2>4. Len(out') + Len(actions') + Len(cur') + Len(next') = seq' + copies'
    BY <1>1, <1>6, <2>1, <2>2, <2>3
  <2> QED
    BY <2>4 DEF PacketsConserved
<1>11. /\ AllSound(cur', heap') /\ AllSound(next', heap') /\ heap' \in Seq(Nat)
       /\ actions' \in Seq(Actions) /\ next' = << >>
  BY <1>1, <1>3 DEF AllSound
<1> QED
  BY <1>1, <1>9, <1>10, <1>11 DEF EngineInv

\* Outputs become inputs.
LEMMA EngineNextStage ==
  ASSUME EngineInv, NextStage
  PROVE  EngineInv'
<1>1. /\ stage \in DOMAIN Pipe /\ cur = << >> /\ stage' = stage + 1 /\ cur' = next /\ next' = << >>
      /\ UNCHANGED <<load, now, pipelines, seq, dir, actions, heap, copies, out>>
  BY DEF NextStage
<1>2. AllSound(cur', heap') /\ AllSound(next', heap')
  BY <1>1 DEF EngineInv, AllSound
<1>3. PacketsConserved'
  <2>1. Len(out) + Len(actions) + Len(cur) + Len(next) = seq + copies
    BY DEF EngineInv, PacketsConserved
  <2>2. /\ Len(out) \in Nat /\ Len(actions) \in Nat /\ Len(next) \in Nat
        /\ Len(cur) = 0 /\ Len(cur') = Len(next) /\ Len(next') = 0
    BY <1>1, LenProperties DEF EngineInv, AllSound
  <2>3. Len(out') + Len(actions') + Len(cur') + Len(next') = seq' + copies'
    BY <1>1, <2>1, <2>2
  <2> QED
    BY <2>3 DEF PacketsConserved
<1>4. stage' \in Nat /\ stage' # 0
  BY <1>1 DEF EngineInv
<1> QED
  BY <1>1, <1>2, <1>3, <1>4 DEF EngineInv

\* Only the clock moves.
LEMMA EngineQuiet ==
  ASSUME EngineInv, UNCHANGED <<load, pipelines, seq, stage, dir, cur, next, actions, heap, copies, out>>,
         now' \in Nat
  PROVE  EngineInv'
  BY DEF EngineInv, Pipe, AllSound, PacketsConserved

\* The inductive invariant of the engine, for every workload.
THEOREM EngineInductive == Spec => []EngineInv
<1>1. ASSUME Init PROVE EngineInv
  <2>1. /\ load \in Workloads /\ pipelines \in [Dirs -> Seq(Cell)]
        /\ now = 1 /\ seq = 0 /\ stage = 0 /\ dir = "c2s" /\ copies = 0
        /\ cur = << >> /\ next = << >> /\ actions = << >> /\ heap = << >> /\ out = << >>
    BY <1>1, WorkloadsAssumption DEF Init
  <2>2. dir \in Dirs
    BY <2>1 DEF Dirs
  <2>3. AllSound(cur, heap) /\ AllSound(next, heap)
    BY <2>1 DEF AllSound
  <2>4. PacketsConserved
    BY <2>1 DEF PacketsConserved
  <2> QED
    BY <2>1, <2>2, <2>3, <2>4 DEF EngineInv
<1>2. ASSUME EngineInv, [Next]_vars PROVE EngineInv'
  <2>1. CASE Advance
    BY <1>2, <2>1, EngineQuiet DEF Advance, EngineInv
  <2>2. CASE \E d \in Dirs, len \in Lengths : Ingress(d, len)
    BY <1>2, <2>2, EngineIngress
  <2>3. CASE CellStep
    BY <1>2, <2>3, EngineCellStep
  <2>4. CASE NextStage
    BY <1>2, <2>4, EngineNextStage
  <2>5. CASE Return
    BY <1>2, <2>5, EngineReturn
  <2>6. CASE UNCHANGED vars
    BY <1>2, <2>6, EngineQuiet DEF vars, EngineInv
  <2> QED
    BY <1>2, <2>1, <2>2, <2>3, <2>4, <2>5, <2>6 DEF Next
<1> QED
  BY <1>1, <1>2, PTL DEF Spec

\* Every packet that enters, and every copy made of one, ends in exactly one action,
\* through any pipeline of the cells.
THEOREM PacketsCorrect == Spec => []PacketsConserved
<1>1. EngineInv => PacketsConserved
  BY DEF EngineInv
<1> QED
  BY <1>1, EngineInductive, PTL

\* No packet is due before it was received, through any pipeline of the cells.
THEOREM CausalityCorrect == Spec => []NeverEarly
<1>1. ASSUME EngineInv PROVE NeverEarly
  <2> SUFFICES ASSUME NEW i \in Forwards PROVE out[i].recvAt <= out[i].deliverAt
    BY DEF NeverEarly
  <2>1. out[i] \in Actions /\ out[i].kind = "forward"
    BY <1>1, ElementOfSeq, LenProperties DEF EngineInv, Forwards
  <2> QED
    BY <2>1 DEF Actions, DropActions
<1> QED
  BY <1>1, EngineInductive, PTL

\* No cell writes to a payload that there was before it: not the caller's, and not a
\* duplicate's.
THEOREM SlicesCorrect == Spec => SlicesImmutable
<1> DEFINE Kept == stage # 0 /\ stage' # 0 => \A i \in DOMAIN heap : heap'[i] = heap[i]
<1>1. ASSUME EngineInv, [Next]_vars PROVE [Kept]_vars
  <2>1. CASE Advance \/ NextStage \/ UNCHANGED vars
    BY <2>1 DEF Advance, NextStage, vars
  <2>2. CASE Return
    BY <2>2 DEF Return
  <2>3. CASE \E d \in Dirs, len \in Lengths : Ingress(d, len)
    BY <2>3 DEF Ingress
  <2>4. CASE CellStep
    <3>1. PICK r : ResultOK(r, heap) /\ heap' = r.heap
      BY <1>1, <2>4, CellStepParts
    <3> QED
      BY <3>1 DEF ResultOK, Extends
  <2> QED
    BY <1>1, <2>1, <2>2, <2>3, <2>4 DEF Next
<1> QED
  BY <1>1, EngineInductive, PTL DEF Spec, SlicesImmutable
-----------------------------------------------------------------------------
(***************************************************************************)
(* Stages compose: what a stage adds to a packet's delay, the later stages *)
(* keep.  The one that does not is the delivery trace, which starts from   *)
(* the ingress time.                                                       *)
(***************************************************************************)
KeptDelay(d, c) == IF c.kind = "deliverytrace" THEN 0 ELSE LeastAfter(d, c)

\* A packet of at least the delay b becomes packets of at least the delay b and what
\* the cell adds.
DelayKept(r, c, f) ==
  \A b \in Int : f.recvAt + b <= f.deliverAt =>
    \A i \in DOMAIN r.outs : /\ r.outs[i].dir = f.dir
                             /\ r.outs[i].recvAt + KeptDelay(b, c) <= r.outs[i].deliverAt

SameDelay(e, c) == \A b \in Int : KeptDelay(b, e) = KeptDelay(b, c)

CellKeeps(r, c, f) == DelayKept(r, c, f) /\ SameDelay(r.cell, c)

\* A dropped packet has no delay to keep.
LEMMA DiscardKeeps ==
  ASSUME NEW c, NEW f, NEW h, NEW e, SameDelay(e, c)
  PROVE  CellKeeps(Discard(e, h), c, f)
<1>1. Discard(e, h).outs = << >> /\ Discard(e, h).cell = e
  BY DEF Discard, Result
<1> QED
  BY <1>1 DEF CellKeeps, DelayKept

\* A packet sent on.
LEMMA KeepKeeps ==
  ASSUME NEW c, NEW f, NEW h, NEW e, SameDelay(e, c), NEW g, g.dir = f.dir,
         \A b \in Int : f.recvAt + b <= f.deliverAt => g.recvAt + KeptDelay(b, c) <= g.deliverAt
  PROVE  CellKeeps(Keep(e, g, h), c, f)
<1>1. Keep(e, g, h).outs = <<g>> /\ Keep(e, g, h).cell = e
  BY DEF Keep, Result
<1>2. DOMAIN <<g>> = {1} /\ <<g>>[1] = g
  OBVIOUS
<1>3. DelayKept(Keep(e, g, h), c, f)
  BY <1>1, <1>2 DEF DelayKept
<1> QED
  BY <1>1, <1>3 DEF CellKeeps

\* The cells without a delay of their own.
LEMMA PlainKeeps ==
  ASSUME NEW c, c.kind \in Kinds \ {"delay", "reorder", "deliverytrace"}, NEW b
  PROVE  KeptDelay(b, c) = b
  BY DEF KeptDelay, LeastAfter, Kinds

\* Nor do they get one when their state changes.
LEMMA PlainSame ==
  ASSUME NEW c, c.kind \in Kinds \ {"delay", "reorder", "deliverytrace"}, NEW e, e.kind = c.kind
  PROVE  SameDelay(e, c)
  BY PlainKeeps DEF SameDelay

\* A cell that drops or passes on.
LEMMA PlainDropOrKeep ==
  ASSUME NEW c, c.kind \in Kinds \ {"delay", "reorder", "deliverytrace"}, NEW f, NEW h,
         NEW r, r = Keep(c, f, h) \/ r = Discard(c, h)
  PROVE  CellKeeps(r, c, f)
<1>1. SameDelay(c, c)
  BY PlainSame
<1>2. \A b \in Int : f.recvAt + b <= f.deliverAt => f.recvAt + KeptDelay(b, c) <= f.deliverAt
  BY PlainKeeps
<1> QED
  BY <1>1, <1>2, KeepKeeps, DiscardKeeps

\* The floor of a delay at the ingress time.
LEMMA Floored ==
  ASSUME NEW v \in Nat, NEW a \in Nat, NEW base \in Nat, NEW lo \in Int, NEW j \in Int,
         NEW b \in Int, lo <= j, v + b <= a
  PROVE  v + MaxOf(b + base + lo, 0) <= MaxOf(a + base + j, v)
<1>1. v + (b + base + lo) <= a + base + j
  OBVIOUS
<1> QED
  BY <1>1 DEF MaxOf

\* Every cell: what it sends on has the delay the packet had, and the cell's own.
LEMMA ProcessKeeps ==
  ASSUME NEW c \in Cell, NEW h \in Seq(Nat), NEW f, Sound(f, h),
         NEW r \in Process(c, f, h)
  PROVE  CellKeeps(r, c, f)
<1>1. c.kind \in Kinds
  BY DEF Cell, Kinds
<1>11. /\ f \in Packets /\ f.deliverAt \in Nat /\ f.recvAt \in Nat /\ f.len \in Nat
      /\ f.recvAt <= f.deliverAt
  BY DEF Sound, Packets
<1>2. CASE c.kind = "blackhole"
  <2>1. r = Keep(c, f, h) \/ r = Discard(c, h)
    BY <1>2 DEF Process, BlackholeProcess
  <2> QED
    BY <1>1, <1>2, <2>1, PlainDropOrKeep
<1>3. CASE c.kind = "loss.bernoulli"
  <2>1. r = Keep(c, f, h) \/ r = Discard(c, h)
    BY <1>3 DEF Process, BernoulliProcess
  <2> QED
    BY <1>1, <1>3, <2>1, PlainDropOrKeep
<1>4. CASE c.kind = "loss.ge"
  <2>1. PICK moves : r = Keep([c EXCEPT !.state = IF moves THEN GEOther(@) ELSE @], f, h)
                     \/ r = Discard([c EXCEPT !.state = IF moves THEN GEOther(@) ELSE @], h)
    BY <1>4 DEF Process, GEProcess
  <2> DEFINE e == [c EXCEPT !.state = IF moves THEN GEOther(@) ELSE @]
  <2>2. e.kind = c.kind
    BY <1>4 DEF Cell
  <2> HIDE DEF e
  <2>3. SameDelay(e, c)
    BY <1>1, <1>4, <2>2, PlainSame
  <2>4. \A b \in Int : f.recvAt + b <= f.deliverAt => f.recvAt + KeptDelay(b, c) <= f.deliverAt
    BY <1>1, <1>4, PlainKeeps
  <2>5. r = Keep(e, f, h) \/ r = Discard(e, h)
    BY <2>1 DEF e
  <2> QED
    BY <2>3, <2>4, <2>5, KeepKeeps, DiscardKeeps
<1>5. CASE c.kind = "delay"
  <2>1. c.base \in Nat /\ c.lo \in Int /\ c.hi \in Int
    BY <1>5 DEF Cell
  <2>2. PICK jit \in c.lo..c.hi :
          r = Keep(c, [f EXCEPT !.deliverAt = MaxOf(f.deliverAt + c.base + jit, f.recvAt)], h)
    BY <1>5 DEF Process, DelayProcess
  <2> DEFINE t == MaxOf(f.deliverAt + c.base + jit, f.recvAt)
             g == [f EXCEPT !.deliverAt = t]
  <2>3. jit \in Int /\ c.lo <= jit
    BY <2>1
  <2>4. \A b \in Int : f.recvAt + b <= f.deliverAt =>
          f.recvAt + MaxOf(b + c.base + c.lo, 0) <= t
    BY <1>11, <2>1, <2>3, Floored
  <2> HIDE DEF t
  <2>5. g.dir = f.dir /\ g.recvAt = f.recvAt /\ g.deliverAt = t
    BY <1>11 DEF Packets
  <2> HIDE DEF g
  <2>6. \A b : KeptDelay(b, c) = MaxOf(b + c.base + c.lo, 0)
    BY <1>5 DEF KeptDelay, LeastAfter
  <2>7. \A b \in Int : f.recvAt + b <= f.deliverAt => g.recvAt + KeptDelay(b, c) <= g.deliverAt
    BY <2>4, <2>5, <2>6
  <2>8. r = Keep(c, g, h) /\ SameDelay(c, c)
    BY <2>2 DEF g, t, SameDelay
  <2> QED
    BY <2>5, <2>7, <2>8, KeepKeeps
<1>6. CASE c.kind = "reorder"
  <2>1. PICK reordered \in ReorderDecisions(c), dup \in Hits(c.dup) :
          r = Result(Copies(f, IF reordered THEN f.deliverAt ELSE f.deliverAt + c.gap, dup, h),
                     ReorderAfter(c, reordered), CopiedHeap(f, dup, h))
    BY <1>6 DEF Process, ReorderProcess
  <2>2. c.gap \in Nat /\ c.prev \in BOOLEAN
    BY <1>6 DEF Cell
  <2>3. c.pct = "zero" /\ c.corr = "zero" => ~reordered
    <3> SUFFICES ASSUME c.pct = "zero", c.corr = "zero" PROVE ~reordered
      OBVIOUS
    <3>1. Hits(c.pct) = {FALSE} /\ Hits(c.corr) = {FALSE}
      BY DEF Hits
    <3> QED
      BY <3>1 DEF ReorderDecisions
  <2> DEFINE t == IF reordered THEN f.deliverAt ELSE f.deliverAt + c.gap
             g(i) == [f EXCEPT !.deliverAt = t, !.data = Len(h) + i]
             e == ReorderAfter(c, reordered)
  <2>4. \A b : KeptDelay(b, c) = IF c.pct = "zero" /\ c.corr = "zero" THEN b + c.gap ELSE b
    BY <1>6 DEF KeptDelay, LeastAfter
  <2>5. \A b \in Int : f.recvAt + b <= f.deliverAt => f.recvAt + KeptDelay(b, c) <= t
    BY <1>11, <2>2, <2>3, <2>4
  <2>6. /\ e.kind = c.kind /\ e.pct = c.pct /\ e.corr = c.corr /\ e.gap = c.gap
    BY <1>6 DEF ReorderAfter, Cell
  <2>7. SameDelay(e, c)
    <3> HIDE DEF e
    <3> QED
      BY <1>6, <2>6 DEF SameDelay, KeptDelay, LeastAfter
  <2> HIDE DEF t, e
  <2>8. \A i : g(i).dir = f.dir /\ g(i).recvAt = f.recvAt /\ g(i).deliverAt = t
    BY <1>11 DEF Packets
  <2>9. r.cell = e
    BY <2>1 DEF Result, e
  <2>10. r.outs = <<g(1)>> \/ r.outs = <<g(1), g(2)>>
    BY <2>1 DEF Result, Copies, t
  <2> HIDE DEF g
  <2>11. \A i \in DOMAIN r.outs : r.outs[i] = g(1) \/ r.outs[i] = g(2)
    BY <2>10
  <2>12. DelayKept(r, c, f)
    BY <2>5, <2>8, <2>11 DEF DelayKept
  <2> QED
    BY <2>7, <2>9, <2>12 DEF CellKeeps
<1>7. CASE c.kind = "corrupt"
  <2> DEFINE x == h[f.data] + 1
             g == [f EXCEPT !.data = Len(h) + 1]
             hh == Append(h, x)
  <2>1. r = Keep(c, f, h) \/ r = Keep(c, g, hh)
    BY <1>7 DEF Process, CorruptProcess
  <2>2. g.dir = f.dir /\ g.recvAt = f.recvAt /\ g.deliverAt = f.deliverAt
    BY <1>11 DEF Packets
  <2> HIDE DEF g, hh
  <2>3. \A b \in Int : f.recvAt + b <= f.deliverAt => g.recvAt + KeptDelay(b, c) <= g.deliverAt
    BY <1>1, <1>7, <2>2, PlainKeeps
  <2>4. SameDelay(c, c)
    BY DEF SameDelay
  <2>5. CellKeeps(Keep(c, g, hh), c, f)
    BY <2>2, <2>3, <2>4, KeepKeeps
  <2> QED
    BY <1>1, <1>7, <2>1, <2>5, PlainDropOrKeep
<1>8. CASE c.kind = "ratelimit"
  <2>1. c.rate \in Int /\ c.queueFreeAt \in Nat
    BY <1>8 DEF Cell
  <2> DEFINE t == MaxOf(f.deliverAt, c.queueFreeAt) + Serialize(c, f)
             g == [f EXCEPT !.deliverAt = t]
             e == [c EXCEPT !.queueFreeAt = t]
  <2>2. CASE r = Keep(c, f, h) \/ r = Discard(c, h)
    BY <1>1, <1>8, <2>2, PlainDropOrKeep
  <2>3. CASE c.rate > 0 /\ r = Keep(e, g, h)
    <3>1. Serialize(c, f) \in Nat
      BY <1>11, <2>1, <2>3, SerializeType
    <3>2. t \in Nat /\ f.deliverAt <= t
      BY <1>11, <2>1, <3>1 DEF MaxOf
    <3> HIDE DEF t
    <3>3. g.dir = f.dir /\ g.recvAt = f.recvAt /\ g.deliverAt = t
      BY <1>11 DEF Packets
    <3>4. e.kind = c.kind
      BY <1>8 DEF Cell
    <3> HIDE DEF g, e
    <3>5. SameDelay(e, c)
      BY <1>1, <1>8, <3>4, PlainSame
    <3>6. \A b : KeptDelay(b, c) = b
      BY <1>1, <1>8, PlainKeeps
    <3>7. \A b \in Int : f.recvAt + b <= f.deliverAt => g.recvAt + KeptDelay(b, c) <= g.deliverAt
      BY <1>11, <3>2, <3>3, <3>6
    <3> QED
      BY <2>3, <3>3, <3>5, <3>7, KeepKeeps
  <2>4. r = Keep(c, f, h) \/ r = Discard(c, h) \/ (c.rate > 0 /\ r = Keep(e, g, h))
    BY <1>8, <2>1 DEF Process, RateLimitProcess
  <2> QED
    BY <2>2, <2>3, <2>4
<1>9. CASE c.kind = "droplist"
  <2>1. r = Keep(c, f, h) \/ r = Discard(c, h)
    BY <1>9 DEF Process, DropListProcess
  <2> QED
    BY <1>1, <1>9, <2>1, PlainDropOrKeep
<1>10. CASE c.kind = "deliverytrace"
  <2> DEFINE d == IF c.started \/ c.sched = << >> THEN c
                  ELSE [c EXCEPT !.started = TRUE, !.base = f.recvAt]
  <2>1. \E n, t : \/ r = Discard(d, h)
                  \/ r = Keep([d EXCEPT !.nextOpp = n],
                              [f EXCEPT !.deliverAt = MaxOf(t, f.recvAt)], h)
    BY <1>10 DEF Process, DeliveryTraceProcess
  <2>2. PICK n, t : \/ r = Discard(d, h)
                    \/ r = Keep([d EXCEPT !.nextOpp = n],
                                [f EXCEPT !.deliverAt = MaxOf(t, f.recvAt)], h)
    BY <2>1
  <2> DEFINE e == [d EXCEPT !.nextOpp = n]
             g == [f EXCEPT !.deliverAt = MaxOf(t, f.recvAt)]
  <2>3. d.kind = "deliverytrace" /\ e.kind = "deliverytrace"
    BY <1>10 DEF Cell
  <2>4. g.dir = f.dir /\ g.recvAt = f.recvAt
    BY <1>11 DEF Packets
  <2> HIDE DEF d, e, g
  <2>5. SameDelay(d, c) /\ SameDelay(e, c)
    BY <1>10, <2>3 DEF SameDelay, KeptDelay
  <2>6. CASE r = Discard(d, h)
    BY <2>5, <2>6, DiscardKeeps
  <2>7. CASE r = Keep(e, g, h)
    <3>1. Sound(g, h)
      <4>1. ResultOK(r, h) /\ r.outs = <<g>> /\ r.heap = h
        BY <1>10, <2>7, ProcessOK DEF Keep, Result
      <4>2. 1 \in DOMAIN <<g>> /\ <<g>>[1] = g
        OBVIOUS
      <4> QED
        BY <4>1, <4>2 DEF ResultOK, AllSound
    <3>2. g.recvAt \in Nat /\ g.recvAt <= g.deliverAt
      BY <3>1 DEF Sound, Packets
    <3>3. \A b : g.recvAt + KeptDelay(b, c) <= g.deliverAt
      BY <1>10, <3>2 DEF KeptDelay
    <3> QED
      BY <2>4, <2>5, <2>7, <3>3, KeepKeeps
  <2> QED
    BY <2>2, <2>6, <2>7 DEF e, g
<1> QED
  BY <1>1, <1>2, <1>3, <1>4, <1>5, <1>6, <1>7, <1>8, <1>9, <1>10 DEF Kinds

\* D gives the least delay after each stage of each pipeline: nothing after none, and
\* after stage n what that stage makes of the delay after stage n - 1.  (It is
\* LeastDelay of the first n cells, where no cell is a delivery trace.)
StageDelays(D) ==
  /\ D \in [Workloads -> [Dirs -> [Nat -> Int]]]
  /\ \A w \in Workloads : \A d \in Dirs :
       /\ D[w][d][0] = 0
       /\ \A n \in DOMAIN w.pipes[d] : D[w][d][n] = KeptDelay(D[w][d][n - 1], w.pipes[d][n])

\* Forwards have at least the delay D of all the stages of their pipeline.
ForwardsKeep(D) ==
  \A i \in Forwards :
    out[i].recvAt + D[load][out[i].dir][Len(pipelines[out[i].dir])] <= out[i].deliverAt

AtLeast(fs, d, m) == \A i \in DOMAIN fs : fs[i].dir = d /\ fs[i].recvAt + m <= fs[i].deliverAt

\* The cells keep their configuration, and the packets have the delay of the stages
\* they are through.
DelayInv(D) ==
  /\ \A d \in Dirs : /\ Len(pipelines[d]) = Len(load.pipes[d])
                     /\ \A n \in DOMAIN pipelines[d] : SameDelay(pipelines[d][n], load.pipes[d][n])
  /\ AtLeast(cur, dir, D[load][dir][stage - 1])
  /\ AtLeast(next, dir, D[load][dir][stage])
  /\ \A i \in DOMAIN actions : actions[i].kind = "drop"
  /\ ForwardsKeep(D)

\* The outputs of two invocations together.
LEMMA JoinAtLeast ==
  ASSUME NEW fs \in Seq(Packets), NEW gs \in Seq(Packets), NEW d, NEW m,
         AtLeast(fs, d, m), AtLeast(gs, d, m)
  PROVE  AtLeast(fs \o gs, d, m)
<1>1. /\ fs \o gs \in Seq(Packets) /\ Len(fs \o gs) = Len(fs) + Len(gs)
      /\ \A i \in 1..Len(fs) + Len(gs) :
           (fs \o gs)[i] = IF i <= Len(fs) THEN fs[i] ELSE gs[i - Len(fs)]
  BY ConcatProperties
<1>2. /\ Len(fs) \in Nat /\ Len(gs) \in Nat /\ DOMAIN fs = 1..Len(fs) /\ DOMAIN gs = 1..Len(gs)
      /\ DOMAIN (fs \o gs) = 1..(Len(fs) + Len(gs))
  BY <1>1, LenProperties
<1>3. ASSUME NEW i \in DOMAIN (fs \o gs)
      PROVE  \/ i \in DOMAIN fs /\ (fs \o gs)[i] = fs[i]
             \/ i - Len(fs) \in DOMAIN gs /\ (fs \o gs)[i] = gs[i - Len(fs)]
  BY <1>1, <1>2
<1> QED
  BY <1>3 DEF AtLeast

\* The packet taken from a stage, and the rest.
LEMMA TailAtLeast ==
  ASSUME NEW fs \in Seq(Packets), fs # << >>, NEW d, NEW m, AtLeast(fs, d, m)
  PROVE  /\ Head(fs).dir = d /\ Head(fs).recvAt + m <= Head(fs).deliverAt
         /\ AtLeast(Tail(fs), d, m)
<1>1. /\ Head(fs) = fs[1] /\ Tail(fs) \in Seq(Packets) /\ Len(Tail(fs)) = Len(fs) - 1
      /\ \A i \in 1..Len(Tail(fs)) : Tail(fs)[i] = fs[i + 1]
  BY HeadTailProperties
<1>2. /\ Len(fs) \in Nat \ {0} /\ DOMAIN fs = 1..Len(fs)
      /\ DOMAIN Tail(fs) = 1..(Len(fs) - 1)
  BY <1>1, LenProperties, EmptySeq
<1>3. \A i \in DOMAIN Tail(fs) : i + 1 \in DOMAIN fs /\ Tail(fs)[i] = fs[i + 1]
  BY <1>1, <1>2
<1>4. 1 \in DOMAIN fs
  BY <1>2
<1> QED
  BY <1>1, <1>3, <1>4 DEF AtLeast

\* One invocation: from the delay of the stages before to that of this stage too.
LEMMA DelayCellStep ==
  ASSUME NEW D, StageDelays(D), EngineInv, EngineInv', DelayInv(D), CellStep
  PROVE  DelayInv(D)'
<1>1. PICK r : /\ r \in Process(Pipe[stage], Head(cur), heap)
               /\ ResultOK(r, heap)
               /\ Sound(Head(cur), heap) /\ Pipe[stage] \in Cell
               /\ pipelines' = [pipelines EXCEPT ![dir][stage] = r.cell]
               /\ heap' = r.heap
               /\ \/ /\ r.outs = << >>
                     /\ actions' = Append(actions, DropAction(Head(cur), Pipe[stage]))
                     /\ UNCHANGED <<next, copies>>
                  \/ /\ r.outs # << >> /\ next' = next \o r.outs
                     /\ copies' = copies + Len(r.outs) - 1
                     /\ UNCHANGED actions
  BY CellStepParts
<1>2. /\ stage \in DOMAIN Pipe /\ cur # << >> /\ cur' = Tail(cur)
      /\ UNCHANGED <<load, now, seq, stage, dir, out>>
  BY DEF CellStep
<1>3. /\ heap \in Seq(Nat) /\ cur \in Seq(Packets) /\ next \in Seq(Packets) /\ dir \in Dirs
      /\ load \in Workloads /\ pipelines \in [Dirs -> Seq(Cell)] /\ actions \in Seq(Actions)
  BY DEF EngineInv, AllSound
<1>4. CellKeeps(r, Pipe[stage], Head(cur))
  BY <1>1, <1>3, ProcessKeeps
<1>5. \A d \in Dirs : /\ Len(pipelines'[d]) = Len(pipelines[d])
                      /\ DOMAIN pipelines'[d] = DOMAIN pipelines[d]
                      /\ \A n \in DOMAIN pipelines[d] : SameDelay(pipelines'[d][n], pipelines[d][n])
  <2> SUFFICES ASSUME NEW d \in Dirs
               PROVE  /\ Len(pipelines'[d]) = Len(pipelines[d])
                      /\ DOMAIN pipelines'[d] = DOMAIN pipelines[d]
                      /\ \A n \in DOMAIN pipelines[d] : SameDelay(pipelines'[d][n], pipelines[d][n])
    OBVIOUS
  <2>1. \A c : SameDelay(c, c)
    BY DEF SameDelay
  <2>2. CASE d # dir
    <3>1. pipelines'[d] = pipelines[d]
      BY <1>1, <1>3, <2>2
    <3> QED
      BY <2>1, <3>1
  <2>3. CASE d = dir
    <3> DEFINE p == pipelines[dir]
               q == [p EXCEPT ![stage] = r.cell]
    <3>1. pipelines'[d] = q
      BY <1>1, <1>3, <2>3
    <3>2. p \in Seq(Cell) /\ stage \in 1..Len(p) /\ r.cell \in Cell /\ DOMAIN p = 1..Len(p)
      BY <1>1, <1>2, <1>3, LenProperties DEF ResultOK, Pipe
    <3>3. q \in Seq(Cell) /\ Len(q) = Len(p)
      BY <3>2, ExceptSeq
    <3>4. DOMAIN q = DOMAIN p /\ \A n \in DOMAIN p : q[n] = IF n = stage THEN r.cell ELSE p[n]
      BY <3>2
    <3>5. SameDelay(r.cell, p[stage])
      BY <1>4 DEF CellKeeps, Pipe
    <3> HIDE DEF q
    <3> QED
      BY <2>1, <2>3, <3>1, <3>3, <3>4, <3>5
  <2> QED
    BY <2>2, <2>3
<1>6. \A d \in Dirs : /\ Len(pipelines'[d]) = Len(load'.pipes[d])
                      /\ \A n \in DOMAIN pipelines'[d] :
                           SameDelay(pipelines'[d][n], load'.pipes[d][n])
  BY <1>2, <1>5 DEF DelayInv, SameDelay
<1> DEFINE b == D[load][dir][stage - 1]
           m == D[load][dir][stage]
<1>7. stage \in Nat \ {0} /\ b \in Int /\ stage \in DOMAIN load.pipes[dir]
  <2>1. Pipe \in Seq(Cell) /\ load.pipes[dir] \in Seq(Cell) /\ Len(Pipe) = Len(load.pipes[dir])
    BY <1>3, WorkloadsAssumption DEF DelayInv, Pipe
  <2>2. stage \in 1..Len(Pipe) /\ stage \in DOMAIN load.pipes[dir]
    BY <1>2, <2>1, LenProperties
  <2>3. stage \in Nat \ {0} /\ stage - 1 \in Nat
    BY <2>2
  <2>4. D \in [Workloads -> [Dirs -> [Nat -> Int]]]
    BY DEF StageDelays
  <2>5. D[load][dir][stage - 1] \in Int
    BY <1>3, <2>3, <2>4
  <2> QED
    BY <2>2, <2>3, <2>5
<1>8. m = KeptDelay(b, Pipe[stage])
  <2>1. m = KeptDelay(b, load.pipes[dir][stage])
    BY <1>3, <1>7 DEF StageDelays
  <2>2. SameDelay(Pipe[stage], load.pipes[dir][stage])
    BY <1>2, <1>3 DEF DelayInv, Pipe
  <2> QED
    BY <1>7, <2>1, <2>2 DEF SameDelay
<1> HIDE DEF b, m
<1>9. AtLeast(cur, dir, b) /\ AtLeast(next, dir, m)
  BY DEF DelayInv, b, m
<1>10. /\ Head(cur).dir = dir /\ Head(cur).recvAt + b <= Head(cur).deliverAt
       /\ AtLeast(Tail(cur), dir, b)
  BY <1>2, <1>3, <1>9, TailAtLeast
<1>11. AtLeast(r.outs, dir, m)
  BY <1>4, <1>7, <1>8, <1>10 DEF CellKeeps, DelayKept, AtLeast
<1>12. r.outs \in Seq(Packets)
  BY <1>1 DEF ResultOK, AllSound
<1>13. AtLeast(next', dir, m)
  BY <1>1, <1>3, <1>9, <1>11, <1>12, JoinAtLeast
<1>14. \A i \in DOMAIN actions' : actions'[i].kind = "drop"
  <2> DEFINE a == DropAction(Head(cur), Pipe[stage])
  <2>1. a.kind = "drop"
    BY DEF DropAction
  <2>2. a \in Actions
    BY <1>1, DropActionType DEF Sound
  <2> HIDE DEF a
  <2>3. CASE actions' = Append(actions, a)
    <3>1. /\ DOMAIN actions = 1..Len(actions) /\ Len(actions) \in Nat
          /\ DOMAIN actions' = 1..(Len(actions) + 1)
          /\ \A i \in 1..Len(actions) : actions'[i] = actions[i]
          /\ actions'[Len(actions) + 1] = a
      BY <1>3, <2>2, <2>3, AppendProperties, LenProperties
    <3>2. \A i \in DOMAIN actions' : i \in DOMAIN actions \/ i = Len(actions) + 1
      BY <3>1
    <3> QED
      BY <2>1, <3>1, <3>2 DEF DelayInv
  <2>4. CASE actions' = actions
    BY <2>4 DEF DelayInv
  <2> QED
    BY <1>1, <2>3, <2>4 DEF a
<1>15. ForwardsKeep(D)'
  <2> SUFFICES ASSUME NEW i \in Forwards'
               PROVE  (out[i].recvAt + D[load][out[i].dir][Len(pipelines[out[i].dir])]
                         <= out[i].deliverAt)'
    BY DEF ForwardsKeep
  <2>1. i \in Forwards /\ out' = out /\ load' = load
    BY <1>2 DEF Forwards
  <2>2. out[i].dir \in Dirs
    <3>1. out[i] \in Actions
      BY <2>1, ElementOfSeq, LenProperties DEF EngineInv, Forwards
    <3> QED
      BY <3>1 DEF Actions, DropActions, ForwardActions
  <2>3. Len(pipelines'[out[i].dir]) = Len(pipelines[out[i].dir])
    BY <1>5, <2>2
  <2> QED
    BY <2>1, <2>3 DEF DelayInv, ForwardsKeep
<1>16. AtLeast(cur', dir', D[load'][dir'][stage' - 1]) /\ AtLeast(next', dir', D[load'][dir'][stage'])
  BY <1>2, <1>10, <1>13 DEF b, m
<1> QED
  BY <1>6, <1>14, <1>15, <1>16 DEF DelayInv, AtLeast

\* After the last stage, forwards have the delay of all.
LEMMA DelayReturn ==
  ASSUME NEW D, StageDelays(D), EngineInv, EngineInv', DelayInv(D), Return
  PROVE  DelayInv(D)'
<1> DEFINE fwds == [i \in DOMAIN cur |-> ForwardAction(cur[i])]
<1>1. /\ stage = Len(Pipe) + 1 /\ out' = (out \o actions) \o fwds
      /\ stage' = 0 /\ cur' = << >> /\ actions' = << >> /\ heap' = << >>
      /\ UNCHANGED <<load, now, pipelines, seq, dir, next, copies>>
  BY DEF Return
<1>2. /\ cur \in Seq(Packets) /\ actions \in Seq(Actions) /\ out \in Seq(Actions) /\ heap \in Seq(Nat)
      /\ \A i \in DOMAIN cur : Sound(cur[i], heap)
  BY DEF EngineInv, AllSound
<1>3. Len(Pipe) \in Nat /\ stage \notin DOMAIN Pipe
  <2>1. Pipe \in Seq(Cell)
    BY DEF EngineInv, Pipe
  <2> QED
    BY <1>1, <2>1, LenProperties
<1>4. next' = << >>
  BY <1>1, <1>3 DEF EngineInv
<1>5. AtLeast(cur, dir, D[load][dir][Len(Pipe)])
  <2>1. stage - 1 = Len(Pipe)
    BY <1>1, <1>3
  <2> QED
    BY <2>1 DEF DelayInv
<1>6. ForwardsKeep(D)'
  <2> SUFFICES ASSUME NEW i \in Forwards'
               PROVE  out'[i].recvAt + D[load][out'[i].dir][Len(pipelines[out'[i].dir])]
                         <= out'[i].deliverAt
    BY <1>1 DEF ForwardsKeep
  <2>1. i \in DOMAIN out' /\ out'[i].kind = "forward"
    BY DEF Forwards
  <2>2. Len(cur) \in Nat /\ DOMAIN cur = 1..Len(cur)
    BY <1>2, LenProperties
  <2>3. \A j \in DOMAIN cur : ForwardAction(cur[j]) \in Actions
    BY <1>2, ForwardActionType
  <2>4. fwds \in Seq(Actions) /\ DOMAIN fwds = DOMAIN cur /\ Len(fwds) = Len(cur)
    BY <2>2, <2>3
  <2>5. \A j \in DOMAIN fwds : fwds[j] = ForwardAction(cur[j])
    OBVIOUS
  <2> HIDE DEF fwds
  <2>6. \/ i \in DOMAIN out /\ out'[i] = out[i]
        \/ \E j \in DOMAIN actions : out'[i] = actions[j]
        \/ \E j \in DOMAIN fwds : out'[i] = fwds[j]
    <3> DEFINE oa == out \o actions
    <3>1. /\ oa \in Seq(Actions) /\ Len(oa) = Len(out) + Len(actions)
          /\ \A k \in 1..Len(out) + Len(actions) :
               oa[k] = IF k <= Len(out) THEN out[k] ELSE actions[k - Len(out)]
      BY <1>2, ConcatProperties
    <3> HIDE DEF oa
    <3>2. /\ oa \o fwds \in Seq(Actions) /\ Len(oa \o fwds) = Len(oa) + Len(fwds)
          /\ \A k \in 1..Len(oa) + Len(fwds) :
               (oa \o fwds)[k] = IF k <= Len(oa) THEN oa[k] ELSE fwds[k - Len(oa)]
      <4>1. oa \in Seq(Actions) /\ fwds \in Seq(Actions)
        BY <2>4, <3>1
      <4> QED
        BY <4>1, ConcatProperties
    <3>3. out' = oa \o fwds
      BY <1>1 DEF oa
    <3>4. /\ Len(out) \in Nat /\ Len(actions) \in Nat /\ Len(fwds) \in Nat /\ Len(oa) \in Nat
          /\ DOMAIN out = 1..Len(out) /\ DOMAIN actions = 1..Len(actions)
          /\ DOMAIN fwds = 1..Len(fwds) /\ DOMAIN out' = 1..(Len(oa) + Len(fwds))
      BY <1>2, <2>4, <3>1, <3>2, <3>3, LenProperties
    <3>5. CASE i <= Len(out)
      <4>1. i \in DOMAIN out /\ i \in 1..Len(oa) + Len(fwds) /\ i <= Len(oa)
            /\ i \in 1..Len(out) + Len(actions)
        BY <2>1, <3>1, <3>4, <3>5
      <4>2. out'[i] = out[i]
        BY <3>1, <3>2, <3>3, <3>5, <4>1
      <4> QED
        BY <4>1, <4>2
    <3>6. CASE i > Len(out) /\ i <= Len(oa)
      <4>1. /\ i \in 1..Len(oa) + Len(fwds) /\ i \in 1..Len(out) + Len(actions)
            /\ ~(i <= Len(out)) /\ i - Len(out) \in DOMAIN actions
        BY <2>1, <3>1, <3>4, <3>6
      <4>2. out'[i] = actions[i - Len(out)]
        BY <3>1, <3>2, <3>3, <3>6, <4>1
      <4> QED
        BY <4>1, <4>2
    <3>7. CASE ~(i <= Len(oa))
      <4>1. i \in 1..Len(oa) + Len(fwds) /\ i - Len(oa) \in DOMAIN fwds
        BY <2>1, <3>4, <3>7
      <4>2. out'[i] = fwds[i - Len(oa)]
        BY <3>2, <3>3, <3>7, <4>1
      <4> QED
        BY <4>1, <4>2
    <3>8. i \in Nat
      BY <2>1, <3>4
    <3> QED
      BY <3>4, <3>5, <3>6, <3>7, <3>8
  <2>7. CASE i \in DOMAIN out /\ out'[i] = out[i]
    <3>1. i \in Forwards
      BY <2>1, <2>7 DEF Forwards
    <3> QED
      BY <2>7, <3>1 DEF DelayInv, ForwardsKeep
  <2>8. CASE \E j \in DOMAIN actions : out'[i] = actions[j]
    BY <2>1, <2>8 DEF DelayInv
  <2>9. CASE \E j \in DOMAIN fwds : out'[i] = fwds[j]
    <3>1. PICK j \in DOMAIN cur : out'[i] = ForwardAction(cur[j])
      BY <2>4, <2>5, <2>9
    <3>2. /\ out'[i].dir = cur[j].dir /\ out'[i].recvAt = cur[j].recvAt
          /\ out'[i].deliverAt = cur[j].deliverAt
      BY <3>1 DEF ForwardAction
    <3> QED
      BY <1>5, <3>2 DEF AtLeast, Pipe
  <2> QED
    BY <2>6, <2>7, <2>8, <2>9
<1>7. /\ AtLeast(cur, dir, D[load][dir][stage - 1])'
      /\ AtLeast(next, dir, D[load][dir][stage])'
  BY <1>1, <1>4 DEF AtLeast
<1>8. \A d \in Dirs : /\ Len(pipelines'[d]) = Len(load'.pipes[d])
                      /\ \A n \in DOMAIN pipelines'[d] :
                           SameDelay(pipelines'[d][n], load'.pipes[d][n])
  BY <1>1 DEF DelayInv
<1>9. \A i \in DOMAIN actions' : actions'[i].kind = "drop"
  BY <1>1
<1> QED
  BY <1>6, <1>7, <1>8, <1>9 DEF DelayInv

\* A set of numbers that is not empty has a least one.
LEMMA LeastNat ==
  ASSUME NEW T, T \subseteq Nat, T # {}
  PROVE  \E x \in T : \A y \in T : x <= y
<1> DEFINE R == OpToRel(<, Nat)
<1>1. IsWellFoundedOn(R, Nat)
  BY NatLessThanWellFounded
<1>2. \E x \in T : \A y \in T : ~ (<<y, x>> \in R)
  <2> HIDE DEF R
  <2> QED
    BY <1>1, WFMin
<1>3. \A x, y \in Nat : <<y, x>> \in R <=> y < x
  BY DEF OpToRel
<1> HIDE DEF R
<1>4. PICK x \in T : \A y \in T : ~ (<<y, x>> \in R)
  BY <1>2
<1>5. ASSUME NEW y \in T PROVE x <= y
  <2>1. x \in Nat /\ y \in Nat
    OBVIOUS
  <2>2. ~ (y < x)
    BY <2>1, <1>3, <1>4
  <2> QED
    BY <2>1, <2>2
<1> QED
  BY <1>5

\* What a forward has of its pipeline's delays: those from the last trace on.
KeptDelays(cells) ==
  LET d[n \in Nat] == IF n = 0 THEN 0 ELSE KeptDelay(d[n - 1], cells[n])
  IN  d

\* The least delay after one more cell, where some kinds of cells start afresh, and the
\* least delays up to a stage: a function that satisfies their recursion there.
After(fresh, d, c) == IF c.kind \in fresh THEN 0 ELSE LeastAfter(d, c)

Delays(fresh, g, cells, m) ==
  g = [n \in 0..m |-> IF n = 0 THEN 0 ELSE After(fresh, g[n - 1], cells[n])]

\* There is one such function at most.
LEMMA DelaysUnique ==
  ASSUME NEW fresh, NEW cells, NEW m \in Nat, NEW k \in Nat, NEW g, NEW h,
         Delays(fresh, g, cells, m), Delays(fresh, h, cells, k), NEW n \in Nat, n <= m, n <= k
  PROVE  g[n] = h[n]
<1> DEFINE T == {i \in Nat : i <= m /\ i <= k /\ g[i] # h[i]}
<1>1. SUFFICES ASSUME T # {} PROVE FALSE
  OBVIOUS
<1>2. PICK i \in T : \A j \in T : i <= j
  <2>1. T \subseteq Nat
    OBVIOUS
  <2> HIDE DEF T
  <2> QED
    BY <1>1, <2>1, LeastNat
<1>3. i \in Nat /\ i <= m /\ i <= k /\ g[i] # h[i]
  BY <1>2
<1>4. /\ g[i] = IF i = 0 THEN 0 ELSE After(fresh, g[i - 1], cells[i])
      /\ h[i] = IF i = 0 THEN 0 ELSE After(fresh, h[i - 1], cells[i])
  <2>1. i \in 0..m /\ i \in 0..k
    BY <1>3
  <2> QED
    BY <2>1 DEF Delays
<1>5. i # 0
  BY <1>3, <1>4
<1>6. i - 1 \in Nat /\ i - 1 <= m /\ i - 1 <= k /\ ~ (i <= i - 1)
  BY <1>3, <1>5
<1>7. g[i - 1] = h[i - 1]
  BY <1>2, <1>6
<1> QED
  BY <1>3, <1>4, <1>7

\* And there is one up to every stage.
LEMMA DelaysExist ==
  ASSUME NEW fresh, NEW cells, NEW m \in Nat
  PROVE  \E g : Delays(fresh, g, cells, m)
<1> DEFINE T == {i \in Nat : ~ \E g : Delays(fresh, g, cells, i)}
<1>1. SUFFICES ASSUME T # {} PROVE FALSE
  OBVIOUS
<1>2. PICK i \in T : \A j \in T : i <= j
  <2>1. T \subseteq Nat
    OBVIOUS
  <2> HIDE DEF T
  <2> QED
    BY <1>1, <2>1, LeastNat
<1>3. i \in Nat /\ ~ \E g : Delays(fresh, g, cells, i)
  BY <1>2
<1>4. CASE i = 0
  <2> DEFINE g == [n \in 0..0 |-> 0]
  <2>1. g = [n \in 0..0 |-> IF n = 0 THEN 0 ELSE After(fresh, g[n - 1], cells[n])]
    OBVIOUS
  <2> HIDE DEF g
  <2>2. Delays(fresh, g, cells, 0)
    BY <2>1 DEF Delays
  <2> QED
    BY <1>3, <1>4, <2>2
<1>5. CASE i # 0
  <2>1. i - 1 \in Nat /\ ~ (i <= i - 1)
    BY <1>3, <1>5
  <2>2. PICK h : Delays(fresh, h, cells, i - 1)
    <3>1. i - 1 \notin T
      BY <1>2, <2>1
    <3> QED
      BY <2>1, <3>1
  <2> DEFINE last == After(fresh, h[i - 1], cells[i])
             g == [n \in 0..i |-> IF n = i THEN last ELSE h[n]]
  <2>3. \A n \in 0..i : n = i \/ n \in 0..(i - 1)
    BY <1>3
  <2>4. ASSUME NEW n \in 0..i
        PROVE  g[n] = IF n = 0 THEN 0 ELSE After(fresh, g[n - 1], cells[n])
    <3>1. CASE n = i
      <4>1. i \in 0..i /\ i - 1 \in 0..i /\ i - 1 # i
        BY <1>3, <2>1
      <4>2. g[i] = last /\ g[i - 1] = h[i - 1]
        BY <4>1
      <4> QED
        BY <1>5, <3>1, <4>2
    <3>2. CASE n # i
      <4>1. n \in 0..(i - 1) /\ g[n] = h[n]
        BY <2>3, <3>2
      <4>2. h[n] = IF n = 0 THEN 0 ELSE After(fresh, h[n - 1], cells[n])
        BY <2>2, <4>1 DEF Delays
      <4>3. CASE n # 0
        <5>1. n - 1 \in 0..i /\ n - 1 # i
          BY <1>3, <4>1, <4>3
        <5>2. g[n - 1] = h[n - 1]
          BY <5>1
        <5> QED
          BY <4>1, <4>2, <4>3, <5>2
      <4> QED
        BY <4>1, <4>2, <4>3
    <3> QED
      BY <3>1, <3>2
  <2>5. g = [n \in 0..i |-> g[n]]
    OBVIOUS
  <2> HIDE DEF g, last
  <2>6. g = [n \in 0..i |-> IF n = 0 THEN 0 ELSE After(fresh, g[n - 1], cells[n])]
    BY <2>4, <2>5
  <2>7. Delays(fresh, g, cells, i)
    BY <2>6 DEF Delays
  <2> QED
    BY <1>3, <2>7
<1> QED
  BY <1>4, <1>5

\* So there is one for all stages.
AllDelays(fresh, d, cells) ==
  d = [n \in Nat |-> IF n = 0 THEN 0 ELSE After(fresh, d[n - 1], cells[n])]

\* The recursion has such a solution.
LEMMA DelaysTotal ==
  ASSUME NEW fresh, NEW cells
  PROVE  \E d : AllDelays(fresh, d, cells)
<1> DEFINE G(m) == CHOOSE g : Delays(fresh, g, cells, m)
           d == [n \in Nat |-> G(n)[n]]
<1>1. \A m \in Nat : Delays(fresh, G(m), cells, m)
  BY DelaysExist
<1> HIDE DEF G
<1>2. ASSUME NEW n \in Nat
      PROVE  d[n] = IF n = 0 THEN 0 ELSE After(fresh, d[n - 1], cells[n])
  <2>1. G(n)[n] = IF n = 0 THEN 0 ELSE After(fresh, G(n)[n - 1], cells[n])
    <3>1. n \in 0..n
      OBVIOUS
    <3> QED
      BY <1>1, <3>1 DEF Delays
  <2>2. CASE n # 0
    <3>1. n - 1 \in Nat /\ n - 1 <= n /\ n - 1 <= n - 1
      BY <2>2
    <3>2. Delays(fresh, G(n), cells, n) /\ Delays(fresh, G(n - 1), cells, n - 1)
      BY <1>1, <3>1
    <3>3. G(n)[n - 1] = G(n - 1)[n - 1]
      BY <3>1, <3>2, DelaysUnique
    <3> QED
      BY <2>1, <2>2, <3>1, <3>3
  <2> QED
    BY <2>1, <2>2
<1>3. d = [n \in Nat |-> d[n]]
  OBVIOUS
<1> HIDE DEF d
<1>4. d = [n \in Nat |-> IF n = 0 THEN 0 ELSE After(fresh, d[n - 1], cells[n])]
  BY <1>2, <1>3
<1>5. AllDelays(fresh, d, cells)
  BY <1>4 DEF AllDelays
<1> QED
  BY <1>5

\* LeastDelays and KeptDelays satisfy their recursions.
LEMMA DelaysRecursion ==
  ASSUME NEW cells
  PROVE  /\ LeastDelays(cells)[0] = 0 /\ KeptDelays(cells)[0] = 0
         /\ \A n \in Nat \ {0} :
              /\ LeastDelays(cells)[n] = LeastAfter(LeastDelays(cells)[n - 1], cells[n])
              /\ KeptDelays(cells)[n] = KeptDelay(KeptDelays(cells)[n - 1], cells[n])
<1>1. LeastDelays(cells) =
        [n \in Nat |-> IF n = 0 THEN 0 ELSE LeastAfter(LeastDelays(cells)[n - 1], cells[n])]
  <2>1. \E d : d = [n \in Nat |-> IF n = 0 THEN 0 ELSE LeastAfter(d[n - 1], cells[n])]
    <3>1. PICK d : AllDelays({}, d, cells)
      BY DelaysTotal
    <3>2. d = [n \in Nat |-> IF n = 0 THEN 0 ELSE LeastAfter(d[n - 1], cells[n])]
      BY <3>1 DEF AllDelays, After
    <3> QED
      BY <3>2
  <2> QED
    BY <2>1 DEF LeastDelays
<1>2. KeptDelays(cells) =
        [n \in Nat |-> IF n = 0 THEN 0 ELSE KeptDelay(KeptDelays(cells)[n - 1], cells[n])]
  <2>1. \E d : d = [n \in Nat |-> IF n = 0 THEN 0 ELSE KeptDelay(d[n - 1], cells[n])]
    <3>1. PICK d : AllDelays({"deliverytrace"}, d, cells)
      BY DelaysTotal
    <3>2. d = [n \in Nat |-> IF n = 0 THEN 0 ELSE KeptDelay(d[n - 1], cells[n])]
      BY <3>1 DEF AllDelays, After, KeptDelay
    <3> QED
      BY <3>2
  <2> QED
    BY <2>1 DEF KeptDelays
<1> QED
  BY <1>1, <1>2

-----------------------------------------------------------------------------
(***************************************************************************)
(* The least delays of the pipelines are a D of the lemmas above.          *)
(***************************************************************************)
\* Up to the end of a pipeline the delays are integers.
LEMMA KeptDelaysType ==
  ASSUME NEW cells \in Seq(Cell), NEW n \in Nat, n <= Len(cells)
  PROVE  KeptDelays(cells)[n] \in Int
<1> DEFINE T == {i \in Nat : i <= Len(cells) /\ ~ (KeptDelays(cells)[i] \in Int)}
<1>1. SUFFICES ASSUME T # {} PROVE FALSE
  OBVIOUS
<1>2. PICK i \in T : \A j \in T : i <= j
  <2>1. T \subseteq Nat
    OBVIOUS
  <2> HIDE DEF T
  <2> QED
    BY <1>1, <2>1, LeastNat
<1>3. i \in Nat /\ i <= Len(cells) /\ ~ (KeptDelays(cells)[i] \in Int) /\ Len(cells) \in Nat
  BY <1>2, LenProperties
<1>4. i # 0
  BY <1>3, DelaysRecursion
<1>5. i - 1 \in Nat /\ i - 1 <= Len(cells) /\ ~ (i <= i - 1) /\ i \in 1..Len(cells)
  BY <1>3, <1>4
<1>6. KeptDelays(cells)[i - 1] \in Int
  BY <1>2, <1>5
<1>7. cells[i] \in Cell
  BY <1>5, ElementOfSeq
<1>8. KeptDelay(KeptDelays(cells)[i - 1], cells[i]) \in Int
  <2>1. PICK a \in Int, c \in Cell : a = KeptDelays(cells)[i - 1] /\ c = cells[i]
    BY <1>6, <1>7
  <2>2. CASE c.kind = "delay"
    <3>1. c.base \in Nat /\ c.lo \in Int
      BY <2>2 DEF Cell
    <3> QED
      BY <2>1, <2>2, <3>1 DEF KeptDelay, LeastAfter, MaxOf
  <2>3. CASE c.kind = "reorder"
    <3>1. c.gap \in Nat
      BY <2>3 DEF Cell
    <3> QED
      BY <2>1, <2>3, <3>1 DEF KeptDelay, LeastAfter
  <2>4. CASE ~ (c.kind \in {"delay", "reorder"})
    BY <2>1, <2>4 DEF KeptDelay, LeastAfter
  <2> QED
    BY <2>2, <2>3, <2>4
<1>9. KeptDelays(cells)[i] = KeptDelay(KeptDelays(cells)[i - 1], cells[i])
  BY <1>3, <1>4, DelaysRecursion
<1> QED
  BY <1>3, <1>8, <1>9

\* Cells with the same delays add up to the same.
LEMMA SameKept ==
  ASSUME NEW p \in Seq(Cell), NEW q \in Seq(Cell), Len(p) = Len(q),
         \A n \in DOMAIN p : SameDelay(p[n], q[n]), NEW m \in Nat, m <= Len(p)
  PROVE  KeptDelays(p)[m] = KeptDelays(q)[m]
<1> DEFINE T == {i \in Nat : i <= Len(p) /\ KeptDelays(p)[i] # KeptDelays(q)[i]}
<1>1. SUFFICES ASSUME T # {} PROVE FALSE
  OBVIOUS
<1>2. PICK i \in T : \A j \in T : i <= j
  <2>1. T \subseteq Nat
    OBVIOUS
  <2> HIDE DEF T
  <2> QED
    BY <1>1, <2>1, LeastNat
<1>3. i \in Nat /\ i <= Len(p) /\ KeptDelays(p)[i] # KeptDelays(q)[i] /\ Len(p) \in Nat
  BY <1>2, LenProperties
<1>4. i # 0
  BY <1>3, DelaysRecursion
<1>5. i - 1 \in Nat /\ i - 1 <= Len(p) /\ ~ (i <= i - 1) /\ i \in DOMAIN p
  BY <1>3, <1>4, LenProperties
<1>6. KeptDelays(p)[i - 1] = KeptDelays(q)[i - 1]
  BY <1>2, <1>5
<1>7. KeptDelays(p)[i - 1] \in Int
  BY <1>5, KeptDelaysType
<1>8. KeptDelay(KeptDelays(p)[i - 1], p[i]) = KeptDelay(KeptDelays(p)[i - 1], q[i])
  BY <1>5, <1>7 DEF SameDelay
<1>9. /\ KeptDelays(p)[i] = KeptDelay(KeptDelays(p)[i - 1], p[i])
      /\ KeptDelays(q)[i] = KeptDelay(KeptDelays(q)[i - 1], q[i])
  BY <1>3, <1>4, DelaysRecursion
<1> QED
  BY <1>3, <1>6, <1>8, <1>9

\* The delays of a workload's pipelines, one for each number of stages.
PipeDelays ==
  [w \in Workloads |-> [d \in Dirs |->
     [n \in Nat |-> IF n <= Len(w.pipes[d]) THEN KeptDelays(w.pipes[d])[n] ELSE 0]]]

\* They are what the stages add, one after the other.
LEMMA PipeDelaysOK == StageDelays(PipeDelays)
<1>1. ASSUME NEW w \in Workloads, NEW d \in Dirs
      PROVE  /\ w.pipes[d] \in Seq(Cell) /\ Len(w.pipes[d]) \in Nat
             /\ DOMAIN w.pipes[d] = 1..Len(w.pipes[d])
  <2>1. w.pipes[d] \in Seq(Cell)
    BY WorkloadsAssumption
  <2> QED
    BY <2>1, LenProperties
<1>2. ASSUME NEW w \in Workloads, NEW d \in Dirs, NEW n \in Nat
      PROVE  (IF n <= Len(w.pipes[d]) THEN KeptDelays(w.pipes[d])[n] ELSE 0) \in Int
  BY <1>1, KeptDelaysType
<1>3. PipeDelays \in [Workloads -> [Dirs -> [Nat -> Int]]]
  BY <1>2 DEF PipeDelays
<1>4. ASSUME NEW w \in Workloads, NEW d \in Dirs, NEW n \in Nat, n <= Len(w.pipes[d])
      PROVE  PipeDelays[w][d][n] = KeptDelays(w.pipes[d])[n]
  BY <1>4 DEF PipeDelays
<1>5. ASSUME NEW w \in Workloads, NEW d \in Dirs
      PROVE  PipeDelays[w][d][0] = 0
  <2>1. 0 <= Len(w.pipes[d])
    BY <1>1
  <2> QED
    BY <1>4, <2>1, DelaysRecursion
<1>6. ASSUME NEW w \in Workloads, NEW d \in Dirs, NEW n \in DOMAIN w.pipes[d]
      PROVE  PipeDelays[w][d][n] = KeptDelay(PipeDelays[w][d][n - 1], w.pipes[d][n])
  <2>1. /\ n \in Nat \ {0} /\ n - 1 \in Nat
        /\ n <= Len(w.pipes[d]) /\ n - 1 <= Len(w.pipes[d])
    BY <1>1
  <2>2. /\ PipeDelays[w][d][n] = KeptDelays(w.pipes[d])[n]
        /\ PipeDelays[w][d][n - 1] = KeptDelays(w.pipes[d])[n - 1]
    BY <1>4, <2>1
  <2> QED
    BY <2>1, <2>2, DelaysRecursion
<1> QED
  BY <1>3, <1>5, <1>6 DEF StageDelays

\* Nothing is on its way at first.
LEMMA DelayInit ==
  ASSUME NEW D, StageDelays(D), Init
  PROVE  DelayInv(D)
<1>1. /\ cur = << >> /\ next = << >> /\ actions = << >> /\ out = << >> /\ pipelines = load.pipes
  BY DEF Init
<1> QED
  BY <1>1 DEF DelayInv, AtLeast, SameDelay, ForwardsKeep, Forwards

\* Every step keeps the delays of the packets between stages.
LEMMA DelayStep ==
  ASSUME NEW D, StageDelays(D), EngineInv, EngineInv', DelayInv(D), [Next]_vars
  PROVE  DelayInv(D)'
<1>1. CASE UNCHANGED <<load, pipelines, stage, dir, cur, next, actions, out>>
  BY <1>1 DEF DelayInv, AtLeast, ForwardsKeep, Forwards
<1>2. CASE Advance \/ UNCHANGED vars
  BY <1>1, <1>2 DEF Advance, vars
<1>3. ASSUME NEW d \in Dirs, NEW len \in Lengths, Ingress(d, len)
      PROVE  DelayInv(D)'
  <2> DEFINE f == [seq |-> seq + 1, dir |-> d, data |-> 1, len |-> len,
                   recvAt |-> now, deliverAt |-> now]
  <2>1. /\ stage = 0 /\ dir' = d /\ stage' = 1 /\ cur' = <<f>>
        /\ UNCHANGED <<load, pipelines, next, actions, out>>
    BY <1>3 DEF Ingress
  <2>2. load \in Workloads /\ now \in Nat /\ D[load][d][0] = 0
    BY DEF EngineInv, StageDelays
  <2>3. stage' - 1 = 0 /\ D[load'][dir'][stage' - 1] = 0
    BY <2>1, <2>2
  <2>4. f.dir = d /\ f.recvAt + 0 <= f.deliverAt
    BY <2>2
  <2> HIDE DEF f
  <2>5. AtLeast(cur', dir', D[load'][dir'][stage' - 1])
    BY <2>1, <2>3, <2>4 DEF AtLeast
  <2>6. next' = << >>
    <3>1. Pipe \in Seq(Cell)
      BY DEF EngineInv, Pipe
    <3>2. stage \notin DOMAIN Pipe
      BY <2>1, <3>1, LenProperties
    <3> QED
      BY <2>1, <3>2 DEF EngineInv
  <2>7. AtLeast(next', dir', D[load'][dir'][stage'])
    BY <2>6 DEF AtLeast
  <2> QED
    BY <2>1, <2>5, <2>7 DEF DelayInv, AtLeast, ForwardsKeep, Forwards
<1>4. CASE CellStep
  BY <1>4, DelayCellStep
<1>5. CASE NextStage
  <2>1. /\ stage' = stage + 1 /\ cur' = next /\ next' = << >> /\ stage \in Nat
        /\ UNCHANGED <<load, pipelines, dir, actions, out>>
    BY <1>5 DEF NextStage, EngineInv
  <2>2. stage' - 1 = stage
    BY <2>1
  <2>3. AtLeast(cur', dir', D[load'][dir'][stage' - 1])
    BY <2>1, <2>2 DEF DelayInv
  <2>4. AtLeast(next', dir', D[load'][dir'][stage'])
    BY <2>1 DEF AtLeast
  <2> QED
    BY <2>1, <2>3, <2>4 DEF DelayInv, AtLeast, ForwardsKeep, Forwards
<1>6. CASE Return
  BY <1>6, DelayReturn
<1> QED
  BY <1>2, <1>3, <1>4, <1>5, <1>6 DEF Next

\* The forwards' delays by the pipelines as they are, whose cells keep their delays.
DelaysCompose ==
  \A i \in Forwards :
    LET p == pipelines[out[i].dir]
    IN  out[i].recvAt + KeptDelays(p)[Len(p)] <= out[i].deliverAt

\* The workload's delays are those of the pipelines now.
LEMMA PipesKeepDelays ==
  ASSUME EngineInv, DelayInv(PipeDelays), NEW d \in Dirs
  PROVE  PipeDelays[load][d][Len(pipelines[d])] = KeptDelays(pipelines[d])[Len(pipelines[d])]
<1>1. pipelines[d] \in Seq(Cell) /\ load.pipes[d] \in Seq(Cell) /\ load \in Workloads
  BY WorkloadsAssumption DEF EngineInv
<1>2. Len(pipelines[d]) = Len(load.pipes[d]) /\ Len(pipelines[d]) \in Nat
  BY <1>1, LenProperties DEF DelayInv
<1>3. \A n \in DOMAIN pipelines[d] : SameDelay(pipelines[d][n], load.pipes[d][n])
  BY DEF DelayInv
<1> DEFINE m == Len(pipelines[d])
<1>4. m \in Nat /\ m <= Len(pipelines[d]) /\ m <= Len(load.pipes[d])
  BY <1>2
<1> HIDE DEF m
<1>5. KeptDelays(pipelines[d])[m] = KeptDelays(load.pipes[d])[m]
  BY <1>1, <1>2, <1>3, <1>4, SameKept
<1>6. PipeDelays[load][d][m] = KeptDelays(load.pipes[d])[m]
  BY <1>1, <1>4 DEF PipeDelays
<1> QED
  BY <1>5, <1>6 DEF m

\* Forwards go one way or the other.
LEMMA ForwardDir ==
  ASSUME EngineInv, NEW i \in Forwards
  PROVE  out[i].dir \in Dirs /\ out[i].recvAt \in Nat /\ out[i].deliverAt \in Nat
<1>1. out[i] \in Actions /\ out[i].kind = "forward"
  BY ElementOfSeq, LenProperties DEF EngineInv, Forwards
<1> QED
  BY <1>1 DEF Actions, DropActions, ForwardActions

\* Stages compose, for every pipeline: a forward carries at least the delay that the
\* stages of its pipeline impose one after the other, where a delivery trace starts
\* afresh.
THEOREM DelaysCorrect == Spec => []DelaysCompose
<1> DEFINE I == DelayInv(PipeDelays)
<1>1. Init => I
  BY PipeDelaysOK, DelayInit
<1>2. EngineInv /\ EngineInv' /\ I /\ [Next]_vars => I'
  BY PipeDelaysOK, DelayStep
<1>3. ASSUME EngineInv, I PROVE DelaysCompose
  <2> SUFFICES ASSUME NEW i \in Forwards
               PROVE  out[i].recvAt + KeptDelays(pipelines[out[i].dir])[Len(pipelines[out[i].dir])]
                        <= out[i].deliverAt
    BY DEF DelaysCompose
  <2>1. out[i].dir \in Dirs
    BY <1>3, ForwardDir
  <2>2. out[i].recvAt + PipeDelays[load][out[i].dir][Len(pipelines[out[i].dir])]
          <= out[i].deliverAt
    BY <1>3 DEF DelayInv, ForwardsKeep
  <2> QED
    BY <1>3, <2>1, <2>2, PipesKeepDelays
<1> QED
  BY <1>1, <1>2, <1>3, EngineInductive, PTL DEF Spec

\* Where delivery traces stand, the stages before them impose no delay.
EarlyTraces ==
  \A d \in Dirs : \A n \in DOMAIN pipelines[d] :
    pipelines[d][n].kind = "deliverytrace" => LeastDelays(pipelines[d])[n - 1] = 0

\* Then a trace that starts afresh discards nothing.
LEMMA EarlySame ==
  ASSUME NEW p \in Seq(Cell), NEW m \in Nat, m <= Len(p),
         \A n \in DOMAIN p : p[n].kind = "deliverytrace" => LeastDelays(p)[n - 1] = 0
  PROVE  LeastDelays(p)[m] = KeptDelays(p)[m]
<1> DEFINE T == {i \in Nat : i <= Len(p) /\ LeastDelays(p)[i] # KeptDelays(p)[i]}
<1>1. SUFFICES ASSUME T # {} PROVE FALSE
  OBVIOUS
<1>2. PICK i \in T : \A j \in T : i <= j
  <2>1. T \subseteq Nat
    OBVIOUS
  <2> HIDE DEF T
  <2> QED
    BY <1>1, <2>1, LeastNat
<1>3. i \in Nat /\ i <= Len(p) /\ LeastDelays(p)[i] # KeptDelays(p)[i] /\ Len(p) \in Nat
  BY <1>2, LenProperties
<1>4. i # 0
  BY <1>3, DelaysRecursion
<1>5. i - 1 \in Nat /\ i - 1 <= Len(p) /\ ~ (i <= i - 1) /\ i \in DOMAIN p
  BY <1>3, <1>4, LenProperties
<1>6. LeastDelays(p)[i - 1] = KeptDelays(p)[i - 1]
  BY <1>2, <1>5
<1>7. /\ LeastDelays(p)[i] = LeastAfter(LeastDelays(p)[i - 1], p[i])
      /\ KeptDelays(p)[i] = KeptDelay(KeptDelays(p)[i - 1], p[i])
  BY <1>3, <1>4, DelaysRecursion
<1>8. CASE p[i].kind = "deliverytrace"
  <2>1. LeastDelays(p)[i - 1] = 0
    BY <1>5, <1>8
  <2>2. LeastDelays(p)[i] = 0 /\ KeptDelays(p)[i] = 0
    BY <1>7, <1>8, <2>1 DEF LeastAfter, KeptDelay
  <2> QED
    BY <1>3, <2>2
<1>9. CASE p[i].kind # "deliverytrace"
  BY <1>3, <1>6, <1>7, <1>9 DEF KeptDelay
<1> QED
  BY <1>8, <1>9

\* The time-base convention of engine.go: every forward carries at least the delays of
\* all the stages of its pipeline, in every pipeline whose delivery traces have no
\* delay before them.  With a delay before a trace it is false: the trace then starts
\* from the ingress time again.
THEOREM UpstreamProved == Spec => [](EarlyTraces => UpstreamDelayKept)
<1>1. ASSUME EngineInv, DelaysCompose, EarlyTraces PROVE UpstreamDelayKept
  <2> SUFFICES ASSUME NEW i \in Forwards
               PROVE  out[i].deliverAt >= out[i].recvAt + LeastDelay(pipelines[out[i].dir])
    BY DEF UpstreamDelayKept
  <2> DEFINE p == pipelines[out[i].dir]
  <2>1. out[i].dir \in Dirs /\ out[i].recvAt \in Nat /\ out[i].deliverAt \in Nat
    BY <1>1, ForwardDir
  <2>2. p \in Seq(Cell) /\ Len(p) \in Nat
    BY <1>1, <2>1, LenProperties DEF EngineInv
  <2>3. \A n \in DOMAIN p : p[n].kind = "deliverytrace" => LeastDelays(p)[n - 1] = 0
    BY <1>1, <2>1 DEF EarlyTraces
  <2>4. out[i].recvAt + KeptDelays(p)[Len(p)] <= out[i].deliverAt
    BY <1>1 DEF DelaysCompose
  <2> HIDE DEF p
  <2>5. PICK m \in Nat : m = Len(p)
    BY <2>2
  <2>6. LeastDelays(p)[m] = KeptDelays(p)[m] /\ KeptDelays(p)[m] \in Int
    BY <2>2, <2>3, <2>5, EarlySame, KeptDelaysType
  <2>7. LeastDelay(p) \in Int /\ out[i].recvAt + LeastDelay(p) <= out[i].deliverAt
    BY <2>4, <2>5, <2>6 DEF LeastDelay
  <2>8. PICK a \in Int, v \in Nat, t \in Nat :
          a = LeastDelay(p) /\ v = out[i].recvAt /\ t = out[i].deliverAt
    BY <2>1, <2>7
  <2>9. t >= v + a
    BY <2>7, <2>8
  <2> QED
    BY <2>8, <2>9 DEF p
<1> QED
  BY <1>1, EngineInductive, DelaysCorrect, PTL
-----------------------------------------------------------------------------
(***************************************************************************)
(* The rate limiter at the end of a pipeline is a FIFO link: its transmit  *)
(* clock is at or after everything it sent, whatever the stages before it  *)
(* did to the packets.                                                     *)
(***************************************************************************)
\* What a truncating division bounds.
LEMMA DivBound ==
  ASSUME NEW v \in Nat, NEW n \in Nat \ {0}, NEW k \in Int, v \div n <= k
  PROVE  v < (k + 1) * n
<1>1. PICK q \in Int, m \in Int : q = v \div n /\ v = n * q + m /\ m < n
  <2>1. v = n * (v \div n) + (v % n) /\ v % n < n /\ v % n \in Int /\ v \div n \in Int
    OBVIOUS
  <2> QED
    BY <2>1
<1>2. q <= k
  BY <1>1
<1>3. n * q <= n * k
  BY <1>2
<1>4. (k + 1) * n = n * k + n
  OBVIOUS
<1>5. n * q \in Int /\ n * k \in Int
  OBVIOUS
<1> QED
  BY <1>1, <1>3, <1>4, <1>5

\* No cell becomes one of another kind.
LEMMA KindKept ==
  ASSUME NEW c \in Cell, NEW f, NEW h, NEW r \in Process(c, f, h)
  PROVE  r.cell.kind = c.kind
<1> DEFINE Kept(e) == e.kind = c.kind
<1>1. \A e, g, i : Keep(e, g, i).cell = e /\ Discard(e, i).cell = e
  BY DEF Keep, Discard, Result
<1>2. \A e, g, i : Result(g, e, i).cell = e
  BY DEF Result
<1>3. c.kind \in Kinds
  BY DEF Cell, Kinds
<1>4. CASE c.kind = "blackhole"
  BY <1>1, <1>4 DEF Process, BlackholeProcess
<1>5. CASE c.kind = "loss.bernoulli"
  BY <1>1, <1>5 DEF Process, BernoulliProcess
<1>6. CASE c.kind = "loss.ge"
  <2>1. PICK moves : r = Keep([c EXCEPT !.state = IF moves THEN GEOther(@) ELSE @], f, h)
                     \/ r = Discard([c EXCEPT !.state = IF moves THEN GEOther(@) ELSE @], h)
    BY <1>6 DEF Process, GEProcess
  <2> DEFINE e == [c EXCEPT !.state = IF moves THEN GEOther(@) ELSE @]
  <2>2. e.kind = c.kind
    BY <1>6 DEF Cell
  <2> HIDE DEF e
  <2>3. r = Keep(e, f, h) \/ r = Discard(e, h)
    BY <2>1 DEF e
  <2> QED
    BY <1>1, <2>2, <2>3
<1>7. CASE c.kind = "delay"
  <2>1. PICK jit \in c.lo..c.hi :
          r = Keep(c, [f EXCEPT !.deliverAt = MaxOf(f.deliverAt + c.base + jit, f.recvAt)], h)
    BY <1>7 DEF Process, DelayProcess
  <2> QED
    BY <1>1, <2>1
<1>8. CASE c.kind = "reorder"
  <2>1. PICK b \in ReorderDecisions(c), dup \in Hits(c.dup) :
          r = Result(Copies(f, IF b THEN f.deliverAt ELSE f.deliverAt + c.gap, dup, h),
                     ReorderAfter(c, b), CopiedHeap(f, dup, h))
    BY <1>8 DEF Process, ReorderProcess
  <2>2. ReorderAfter(c, b).kind = c.kind
    BY <1>8 DEF Cell, ReorderAfter
  <2> QED
    BY <1>2, <2>1, <2>2
<1>9. CASE c.kind = "corrupt"
  BY <1>1, <1>9 DEF Process, CorruptProcess
<1>10. CASE c.kind = "ratelimit"
  <2> DEFINE at == MaxOf(f.deliverAt, c.queueFreeAt) + Serialize(c, f)
             e  == [c EXCEPT !.queueFreeAt = at]
             g  == [f EXCEPT !.deliverAt = at]
  <2>1. r = Keep(c, f, h) \/ r = Discard(c, h) \/ r = Keep(e, g, h)
    BY <1>10 DEF Process, RateLimitProcess
  <2> HIDE DEF at, g
  <2>2. e.kind = c.kind
    BY <1>10 DEF Cell
  <2> HIDE DEF e
  <2> QED
    BY <1>1, <2>1, <2>2
<1>11. CASE c.kind = "droplist"
  BY <1>1, <1>11 DEF Process, DropListProcess
<1>12. CASE c.kind = "deliverytrace"
  <2> DEFINE d    == IF c.started \/ c.sched = << >> THEN c
                     ELSE [c EXCEPT !.started = TRUE, !.base = f.recvAt]
             need == MaxOf((f.len + d.mtu - 1) \div d.mtu, 1)
             arr  == FirstOppAtOrAfter(d, MaxOf(f.recvAt - d.base, 0) \div NsPerMs)
             last == MaxOf(d.nextOpp, arr) + need - 1
             t    == MaxOf(d.base + OppTimeMs(d, last) * NsPerMs, f.recvAt)
             e    == [d EXCEPT !.nextOpp = last + 1]
             g    == [f EXCEPT !.deliverAt = t]
  <2>1. r = Discard(d, h) \/ r = Keep(e, g, h)
    BY <1>12 DEF Process, DeliveryTraceProcess
  <2>2. d.kind = c.kind /\ e.kind = c.kind
    BY <1>12 DEF Cell
  <2> HIDE DEF d, e, g
  <2> QED
    BY <1>1, <2>1, <2>2
<1> QED
  BY <1>3, <1>4, <1>5, <1>6, <1>7, <1>8, <1>9, <1>10, <1>11, <1>12 DEF Kinds

\* The packet g, which reached a limiter due at a time, waited for the queue and one unit
\* of rounding at most.
Waited(c, due, g) ==
  (g.deliverAt - due - Serialize(c, g)) * c.rate < (c.queue + 1) * NsPerSec

\* One invocation of a limiter that limits: the packet is sent when the clock and the
\* packet are there, and the clock is set to its end.
LEMMA LimiterStep ==
  ASSUME NEW c \in Cell, c.kind = "ratelimit", c.rate > 0, NEW h \in Seq(Nat), NEW f, Sound(f, h),
         NEW r \in Process(c, f, h)
  PROVE  \/ r.outs = << >> /\ r.cell = c
         \/ \E g \in Packets :
              /\ r.outs = <<g>> /\ r.cell \in Cell
              /\ g.dir = f.dir /\ g.len = f.len /\ g.recvAt = f.recvAt
              /\ r.cell.kind = c.kind /\ r.cell.rate = c.rate /\ r.cell.queue = c.queue
              /\ r.cell.queueFreeAt = g.deliverAt
              /\ g.deliverAt >= c.queueFreeAt + Serialize(c, f)
              /\ c.queue > 0 => Waited(c, f.deliverAt, g)
<1>1. c.rate \in Int /\ c.queue \in Int /\ c.queueFreeAt \in Nat
  BY DEF Cell
<1>2. f \in Packets /\ f.deliverAt \in Nat /\ f.recvAt \in Nat /\ f.len \in Nat
  BY DEF Sound, Packets
<1>3. Serialize(c, f) \in Nat
  BY <1>1, <1>2, SerializeType
<1> DEFINE at == MaxOf(f.deliverAt, c.queueFreeAt) + Serialize(c, f)
           g  == [f EXCEPT !.deliverAt = at]
           e  == [c EXCEPT !.queueFreeAt = at]
<1>4. \/ r = Discard(c, h)
      \/ ~ RateLimitFull(c, f) /\ r = Keep(e, g, h)
  BY <1>1 DEF Process, RateLimitProcess
<1>5. CASE r = Discard(c, h)
  BY <1>5 DEF Discard, Result
<1>6. CASE ~ RateLimitFull(c, f) /\ r = Keep(e, g, h)
  <2>1. at \in Nat /\ at >= c.queueFreeAt + Serialize(c, f)
    BY <1>1, <1>2, <1>3 DEF MaxOf
  <2>2. ASSUME c.queue > 0 PROVE Waited(c, f.deliverAt, g)
    <3> DEFINE w == at - f.deliverAt - Serialize(c, f)
    <3>1. w = MaxOf(f.deliverAt, c.queueFreeAt) - f.deliverAt
      BY <1>1, <1>2, <1>3, <2>2 DEF MaxOf
    <3> HIDE DEF w
    <3>2. ASSUME c.queueFreeAt <= f.deliverAt
          PROVE  w * c.rate < (c.queue + 1) * NsPerSec
      <4>1. w = 0
        BY <1>1, <1>2, <3>1, <3>2 DEF MaxOf
      <4>2. 0 < (c.queue + 1) * NsPerSec
        <5>1. PICK q \in Nat, n \in Nat \ {0} : q = c.queue /\ n = NsPerSec
          BY <1>1, <2>2, UnitsAssumption
        <5>2. 0 < (q + 1) * n
          OBVIOUS
        <5> QED
          BY <5>1, <5>2
      <4>3. 0 * c.rate = 0
        BY <1>1
      <4> QED
        BY <4>1, <4>2, <4>3
    <3>3. ASSUME c.queueFreeAt > f.deliverAt
          PROVE  w * c.rate < (c.queue + 1) * NsPerSec
      <4>1. w = c.queueFreeAt - f.deliverAt /\ w \in Nat
        BY <1>1, <1>2, <3>1, <3>3 DEF MaxOf
      <4>2. ~ ((w * c.rate) \div NsPerSec > c.queue)
        BY <1>6, <2>2, <3>3, <4>1 DEF RateLimitFull
      <4>3. PICK v \in Nat, n \in Nat \ {0}, k \in Int :
              v = w * c.rate /\ n = NsPerSec /\ k = c.queue
        <5>1. PICK x \in Nat, y \in Nat : x = w /\ y = c.rate
          BY <1>1, <4>1
        <5>2. x * y \in Nat
          OBVIOUS
        <5> QED
          BY <1>1, <5>1, <5>2, UnitsAssumption
      <4>4. v \div n <= k
        <5>1. v \div n \in Int /\ ~ (v \div n > k)
          BY <4>2, <4>3
        <5> QED
          BY <5>1
      <4>5. v < (k + 1) * n
        BY <4>4, DivBound
      <4> QED
        BY <4>3, <4>5
    <3>4. w * c.rate < (c.queue + 1) * NsPerSec
      BY <1>1, <1>2, <3>2, <3>3
    <3> HIDE DEF at
    <3>5. g.deliverAt = at /\ g.len = f.len
      BY <1>2 DEF Packets
    <3> HIDE DEF g
    <3>6. Serialize(c, g) = Serialize(c, f)
      BY <3>5 DEF Serialize
    <3>7. g.deliverAt - f.deliverAt - Serialize(c, g) = w
      BY <3>5, <3>6 DEF w
    <3> QED
      BY <3>4, <3>7 DEF Waited
  <2> HIDE DEF at
  <2>3. /\ g \in Packets /\ g.dir = f.dir /\ g.len = f.len /\ g.recvAt = f.recvAt
        /\ g.deliverAt = at
    BY <1>2, <2>1 DEF Packets
  <2>4. /\ e \in Cell /\ e.kind = c.kind /\ e.rate = c.rate /\ e.queue = c.queue
        /\ e.queueFreeAt = at
    BY <2>1 DEF Cell
  <2> HIDE DEF g, e
  <2>5. r.outs = <<g>> /\ r.cell = e
    BY <1>6 DEF Keep, Result
  <2> QED
    BY <2>1, <2>2, <2>3, <2>4, <2>5
<1> QED
  BY <1>4, <1>5, <1>6

\* The forwards of a direction among some actions.
ForwardsTo(os, d) == {i \in DOMAIN os : os[i].kind = "forward" /\ os[i].dir = d}

\* What a limiter with the state c has sent, the forwards among os and then the packets
\* of line, which are not returned yet: each is its transmission time after the ones
\* before it, and none is after the clock.
Paced(os, c, d, line) ==
  /\ \A i, j \in ForwardsTo(os, d) :
       i < j => os[j].deliverAt >= os[i].deliverAt + Serialize(c, os[j])
  /\ \A i \in ForwardsTo(os, d), k \in DOMAIN line :
       line[k].deliverAt >= os[i].deliverAt + Serialize(c, line[k])
  /\ \A k, l \in DOMAIN line :
       k < l => line[l].deliverAt >= line[k].deliverAt + Serialize(c, line[l])
  /\ \A i \in ForwardsTo(os, d) : os[i].deliverAt <= c.queueFreeAt
  /\ \A k \in DOMAIN line : line[k].deliverAt <= c.queueFreeAt

\* Fewer packets are paced if all are.
LEMMA PacedEmpty ==
  ASSUME NEW os, NEW c, NEW d, NEW line, Paced(os, c, d, line)
  PROVE  Paced(os, c, d, << >>)
  BY DEF Paced

\* What a limiter sends joins the end of the line.
LEMMA PacedJoin ==
  ASSUME NEW os \in Seq(Actions), NEW c \in Cell, c.kind = "ratelimit", c.rate > 0,
         NEW d, NEW line \in Seq(Packets),
         Paced(os, c, d, line), NEW e \in Cell, NEW g \in Packets,
         e.kind = c.kind, e.rate = c.rate, e.queue = c.queue, e.queueFreeAt = g.deliverAt,
         g.deliverAt >= c.queueFreeAt + Serialize(c, g)
  PROVE  Paced(os, e, d, line \o <<g>>)
<1> DEFINE s == line \o <<g>>
<1>1. /\ Len(line) \in Nat /\ DOMAIN line = 1..Len(line)
      /\ DOMAIN s = 1..(Len(line) + 1)
      /\ \A k \in 1..(Len(line) + 1) : s[k] = IF k <= Len(line) THEN line[k] ELSE g
  <2>1. <<g>> \in Seq(Packets) /\ Len(<<g>>) = 1 /\ <<g>>[1] = g
    OBVIOUS
  <2>2. /\ s \in Seq(Packets) /\ Len(s) = Len(line) + Len(<<g>>)
        /\ \A k \in 1..Len(line) + Len(<<g>>) :
             s[k] = IF k <= Len(line) THEN line[k] ELSE <<g>>[k - Len(line)]
    BY <2>1, ConcatProperties
  <2> HIDE DEF s
  <2>3. Len(line) \in Nat /\ DOMAIN line = 1..Len(line) /\ DOMAIN s = 1..(Len(line) + 1)
    BY <2>1, <2>2, LenProperties
  <2>4. \A k \in 1..(Len(line) + 1) : ~ (k <= Len(line)) => k - Len(line) = 1
    BY <2>3
  <2> QED
    BY <2>1, <2>2, <2>3, <2>4
<1> HIDE DEF s
<1>2. \A k \in DOMAIN s : \/ k \in DOMAIN line /\ s[k] = line[k]
                          \/ k = Len(line) + 1 /\ s[k] = g
  BY <1>1
<1>3. \A f : Serialize(e, f) = Serialize(c, f)
  BY DEF Serialize
<1>5. /\ c.queueFreeAt \in Nat /\ g.deliverAt \in Nat /\ Serialize(c, g) \in Nat
  <2>1. c.queueFreeAt \in Nat /\ c.rate \in Int
    BY DEF Cell
  <2>2. g.deliverAt \in Nat /\ g.len \in Nat
    BY DEF Packets
  <2> QED
    BY <2>1, <2>2, SerializeType
<1>6. \A k \in DOMAIN line : line[k].deliverAt \in Nat
  <2>1. \A k \in DOMAIN line : line[k] \in Packets
    BY <1>1, ElementOfSeq
  <2> QED
    BY <2>1 DEF Packets
<1>7. \A i \in ForwardsTo(os, d) : os[i].deliverAt \in Nat
  <2> SUFFICES ASSUME NEW i \in ForwardsTo(os, d) PROVE os[i].deliverAt \in Nat
    OBVIOUS
  <2>1. os[i] \in Actions /\ os[i].kind = "forward"
    BY ElementOfSeq, LenProperties DEF ForwardsTo
  <2> QED
    BY <2>1 DEF Actions, DropActions, ForwardActions
<1>8. c.queueFreeAt <= g.deliverAt
  BY <1>5
<1>9. \A i, j \in ForwardsTo(os, d) :
        i < j => os[j].deliverAt >= os[i].deliverAt + Serialize(e, os[j])
  BY <1>3 DEF Paced
<1>10. ASSUME NEW i \in ForwardsTo(os, d), NEW k \in DOMAIN s
       PROVE  s[k].deliverAt >= os[i].deliverAt + Serialize(e, s[k])
  <2>1. CASE k \in DOMAIN line /\ s[k] = line[k]
    BY <1>3, <2>1 DEF Paced
  <2>2. CASE s[k] = g
    <3>1. os[i].deliverAt <= c.queueFreeAt
      BY DEF Paced
    <3>2. g.deliverAt >= os[i].deliverAt + Serialize(c, g)
      BY <1>5, <1>7, <3>1
    <3> QED
      BY <1>3, <2>2, <3>2
  <2> QED
    BY <1>2, <2>1, <2>2
<1>11. ASSUME NEW k \in DOMAIN s, NEW l \in DOMAIN s, k < l
       PROVE  s[l].deliverAt >= s[k].deliverAt + Serialize(e, s[l])
  <2>1. k \in DOMAIN line /\ s[k] = line[k]
    BY <1>1, <1>2, <1>11
  <2>2. CASE l \in DOMAIN line /\ s[l] = line[l]
    BY <1>3, <1>11, <2>1, <2>2 DEF Paced
  <2>3. CASE s[l] = g
    <3>1. line[k].deliverAt <= c.queueFreeAt
      BY <2>1 DEF Paced
    <3>2. g.deliverAt >= line[k].deliverAt + Serialize(c, g)
      BY <1>5, <1>6, <2>1, <3>1
    <3> QED
      BY <1>3, <2>1, <2>3, <3>2
  <2> QED
    BY <1>2, <2>2, <2>3
<1>12. ASSUME NEW i \in ForwardsTo(os, d) PROVE os[i].deliverAt <= e.queueFreeAt
  <2>1. os[i].deliverAt <= c.queueFreeAt
    BY DEF Paced
  <2> QED
    BY <1>5, <1>7, <1>8, <2>1
<1>13. ASSUME NEW k \in DOMAIN s PROVE s[k].deliverAt <= e.queueFreeAt
  <2>1. CASE k \in DOMAIN line /\ s[k] = line[k]
    <3>1. line[k].deliverAt <= c.queueFreeAt
      BY <2>1 DEF Paced
    <3> QED
      BY <1>5, <1>6, <1>8, <2>1, <3>1
  <2>2. CASE s[k] = g
    BY <1>5, <2>2
  <2> QED
    BY <1>2, <2>1, <2>2
<1>15. Paced(os, e, d, s)
  BY <1>9, <1>10, <1>11, <1>12, <1>13 DEF Paced
<1> QED
  BY <1>15 DEF s

\* What Return appends: drops, and a forward for each packet of the line.
LEMMA ReturnedParts ==
  ASSUME NEW os \in Seq(Actions), NEW acts \in Seq(Actions), NEW line \in Seq(Packets),
         NEW fwds \in Seq(Actions), Len(fwds) = Len(line),
         \A j \in DOMAIN acts : acts[j].kind = "drop",
         NEW i \in DOMAIN ((os \o acts) \o fwds),
         ((os \o acts) \o fwds)[i].kind = "forward"
  PROVE  \/ i \in DOMAIN os /\ ((os \o acts) \o fwds)[i] = os[i]
         \/ \E j \in DOMAIN line : /\ ((os \o acts) \o fwds)[i] = fwds[j]
                                   /\ i = Len(os) + Len(acts) + j
<1> DEFINE oa == os \o acts
           all == oa \o fwds
<1>1. /\ oa \in Seq(Actions) /\ Len(oa) = Len(os) + Len(acts)
      /\ \A k \in 1..Len(os) + Len(acts) :
           oa[k] = IF k <= Len(os) THEN os[k] ELSE acts[k - Len(os)]
  BY ConcatProperties
<1>2. /\ Len(os) \in Nat /\ Len(acts) \in Nat /\ Len(fwds) \in Nat
      /\ DOMAIN os = 1..Len(os) /\ DOMAIN acts = 1..Len(acts) /\ DOMAIN line = 1..Len(line)
  BY LenProperties
<1>3. i \in DOMAIN all /\ all[i].kind = "forward"
  OBVIOUS
<1> SUFFICES \/ i \in DOMAIN os /\ all[i] = os[i]
             \/ \E j \in DOMAIN line : all[i] = fwds[j] /\ i = Len(os) + Len(acts) + j
  OBVIOUS
<1> HIDE DEF oa
<1>4. /\ all \in Seq(Actions) /\ Len(all) = Len(oa) + Len(fwds)
      /\ \A k \in 1..Len(oa) + Len(fwds) :
           all[k] = IF k <= Len(oa) THEN oa[k] ELSE fwds[k - Len(oa)]
  <2>1. oa \in Seq(Actions) /\ fwds \in Seq(Actions)
    BY <1>1
  <2>2. oa \o fwds \in Seq(Actions) /\ Len(oa \o fwds) = Len(oa) + Len(fwds)
    BY <2>1, ConcatProperties
  <2>3. \A k \in 1..Len(oa) + Len(fwds) :
          (oa \o fwds)[k] = IF k <= Len(oa) THEN oa[k] ELSE fwds[k - Len(oa)]
    BY <2>1, ConcatProperties
  <2> QED
    BY <2>2, <2>3
<1> HIDE DEF all
<1>5. i \in 1..Len(oa) + Len(fwds)
  BY <1>3, <1>4, LenProperties
<1>6. CASE i <= Len(os)
  <2>1. i \in 1..Len(os) /\ i \in 1..Len(os) + Len(acts) /\ i <= Len(oa)
    BY <1>1, <1>2, <1>5, <1>6
  <2> QED
    BY <1>1, <1>2, <1>4, <1>5, <1>6, <2>1
<1>7. CASE i > Len(os) /\ i <= Len(oa)
  <2>1. /\ i \in 1..Len(os) + Len(acts) /\ ~ (i <= Len(os)) /\ i - Len(os) \in DOMAIN acts
    BY <1>1, <1>2, <1>5, <1>7
  <2>2. all[i] = acts[i - Len(os)]
    BY <1>1, <1>4, <1>5, <1>7, <2>1
  <2>3. all[i].kind = "drop"
    BY <2>1, <2>2
  <2> QED
    BY <1>3, <2>3
<1>8. CASE ~ (i <= Len(oa))
  <2>1. i - Len(oa) \in DOMAIN line /\ i = Len(os) + Len(acts) + (i - Len(oa))
    BY <1>1, <1>2, <1>5, <1>8
  <2>2. all[i] = fwds[i - Len(oa)]
    BY <1>4, <1>5, <1>8
  <2> QED
    BY <2>1, <2>2
<1>9. i \in Int /\ Len(oa) \in Int /\ Len(os) \in Int
  BY <1>1, <1>2, <1>5
<1> QED
  BY <1>6, <1>7, <1>8, <1>9

\* When the line is returned, it is paced as forwards; those of the other direction are
\* none of the limiter's.
LEMMA PacedReturn ==
  ASSUME NEW os \in Seq(Actions), NEW acts \in Seq(Actions), NEW line \in Seq(Packets),
         NEW fwds \in Seq(Actions), Len(fwds) = Len(line),
         \A j \in DOMAIN acts : acts[j].kind = "drop",
         \A k \in DOMAIN line : fwds[k] = ForwardAction(line[k]),
         NEW e, \A k \in DOMAIN line : line[k].dir = e,
         NEW c, NEW d, Paced(os, c, d, IF d = e THEN line ELSE << >>)
  PROVE  Paced((os \o acts) \o fwds, c, d, << >>)
<1> DEFINE all == (os \o acts) \o fwds
           mine == IF d = e THEN line ELSE << >>
<1>1. /\ Len(os) \in Nat /\ Len(acts) \in Nat /\ DOMAIN line \subseteq Nat
      /\ DOMAIN os = 1..Len(os) /\ DOMAIN line = 1..Len(line) /\ Len(line) \in Nat
  BY LenProperties
<1>2. ASSUME NEW i \in ForwardsTo(all, d)
      PROVE  \/ i \in ForwardsTo(os, d) /\ all[i] = os[i]
             \/ \E k \in DOMAIN mine : all[i] = fwds[k] /\ i = Len(os) + Len(acts) + k
  <2>1. i \in DOMAIN all /\ all[i].kind = "forward" /\ all[i].dir = d
    BY DEF ForwardsTo
  <2>2. \/ i \in DOMAIN os /\ all[i] = os[i]
        \/ \E j \in DOMAIN line : all[i] = fwds[j] /\ i = Len(os) + Len(acts) + j
    BY <2>1, ReturnedParts
  <2> HIDE DEF all
  <2>3. CASE i \in DOMAIN os /\ all[i] = os[i]
    BY <2>1, <2>3 DEF ForwardsTo
  <2>4. ASSUME NEW j \in DOMAIN line, all[i] = fwds[j], i = Len(os) + Len(acts) + j
        PROVE  j \in DOMAIN mine
    <3>1. all[i] = ForwardAction(line[j])
      BY <2>4
    <3>2. all[i].dir = line[j].dir
      BY <3>1 DEF ForwardAction
    <3> QED
      BY <2>1, <3>2
  <2> QED
    BY <2>2, <2>3, <2>4
<1>3. ASSUME NEW k \in DOMAIN mine
      PROVE  /\ k \in Nat /\ fwds[k].deliverAt = mine[k].deliverAt
             /\ Serialize(c, fwds[k]) = Serialize(c, mine[k])
  <2>1. k \in DOMAIN line /\ mine[k] = line[k]
    OBVIOUS
  <2> HIDE DEF mine
  <2>2. fwds[k] = ForwardAction(mine[k])
    BY <2>1
  <2>3. fwds[k].deliverAt = mine[k].deliverAt /\ fwds[k].len = mine[k].len
    BY <2>2 DEF ForwardAction
  <2> QED
    BY <1>1, <2>1, <2>3 DEF Serialize
<1>4. Paced(os, c, d, mine)
  OBVIOUS
<1> HIDE DEF all, mine
<1>5. ASSUME NEW i \in ForwardsTo(all, d), NEW j \in ForwardsTo(all, d), i < j
      PROVE  all[j].deliverAt >= all[i].deliverAt + Serialize(c, all[j])
  <2>1. CASE j \in ForwardsTo(os, d) /\ all[j] = os[j]
    <3>1. j \in Nat /\ j <= Len(os)
      BY <1>1, <2>1 DEF ForwardsTo
    <3>2. i \in ForwardsTo(os, d) /\ all[i] = os[i]
      <4>1. ASSUME NEW k \in DOMAIN mine, i = Len(os) + Len(acts) + k PROVE FALSE
        <5>1. k \in Nat
          BY <1>3
        <5> QED
          BY <1>1, <1>5, <3>1, <4>1, <5>1
      <4> QED
        BY <1>2, <4>1
    <3> QED
      BY <1>4, <1>5, <2>1, <3>2 DEF Paced
  <2>2. ASSUME NEW l \in DOMAIN mine, all[j] = fwds[l], j = Len(os) + Len(acts) + l
        PROVE  all[j].deliverAt >= all[i].deliverAt + Serialize(c, all[j])
    <3>1. CASE i \in ForwardsTo(os, d) /\ all[i] = os[i]
      <4>1. mine[l].deliverAt >= os[i].deliverAt + Serialize(c, mine[l])
        BY <1>4, <3>1 DEF Paced
      <4> QED
        BY <1>3, <2>2, <3>1, <4>1
    <3>2. ASSUME NEW k \in DOMAIN mine, all[i] = fwds[k], i = Len(os) + Len(acts) + k
          PROVE  all[j].deliverAt >= all[i].deliverAt + Serialize(c, all[j])
      <4>1. k < l
        <5>1. k \in Nat /\ l \in Nat
          BY <1>3
        <5> QED
          BY <1>1, <1>5, <2>2, <3>2, <5>1
      <4>2. mine[l].deliverAt >= mine[k].deliverAt + Serialize(c, mine[l])
        BY <1>4, <4>1 DEF Paced
      <4> QED
        BY <1>3, <2>2, <3>2, <4>2
    <3> QED
      BY <1>2, <3>1, <3>2
  <2> QED
    BY <1>2, <2>1, <2>2
<1>6. ASSUME NEW i \in ForwardsTo(all, d) PROVE all[i].deliverAt <= c.queueFreeAt
  <2>1. CASE i \in ForwardsTo(os, d) /\ all[i] = os[i]
    BY <1>4, <2>1 DEF Paced
  <2>2. ASSUME NEW k \in DOMAIN mine, all[i] = fwds[k] PROVE all[i].deliverAt <= c.queueFreeAt
    <3>1. mine[k].deliverAt <= c.queueFreeAt
      BY <1>4 DEF Paced
    <3> QED
      BY <1>3, <2>2, <3>1
  <2> QED
    BY <1>2, <2>1, <2>2
<1>8. Paced(all, c, d, << >>)
  BY <1>5, <1>6 DEF Paced
<1> QED
  BY <1>8 DEF all

\* The limiter at the end of a pipeline, if it limits, and the packets it has sent in
\* this Handle.
Limiter(d) == pipelines[d][Len(pipelines[d])]
Limits(d) == EndsWith(d, "ratelimit") /\ Limiter(d).rate > 0
Line(d) ==
  IF d # dir THEN << >>
  ELSE IF stage = Len(pipelines[d]) THEN next
  ELSE IF stage = Len(pipelines[d]) + 1 THEN cur
  ELSE << >>

\* What the limiters sent is paced.
RateInv ==
  \A d \in Dirs : Limits(d) => Paced(out, Limiter(d), d, Line(d))

\* A limiter at the end of a pipeline is one of its cells.
LEMMA LimiterCell ==
  ASSUME EngineInv, NEW d \in Dirs, Limits(d)
  PROVE  /\ Len(pipelines[d]) \in Nat \ {0} /\ Limiter(d) \in Cell
         /\ Limiter(d).kind = "ratelimit" /\ Limiter(d).rate > 0
<1>1. pipelines[d] \in Seq(Cell)
  BY DEF EngineInv
<1>2. pipelines[d] # << >> /\ Limiter(d).kind = "ratelimit" /\ Limiter(d).rate > 0
  BY DEF Limits, EndsWith, Limiter
<1>3. Len(pipelines[d]) \in Nat \ {0}
  BY <1>1, <1>2, LenProperties, EmptySeq
<1>4. Limiter(d) \in Cell
  BY <1>1, <1>3, ElementOfSeq DEF Limiter
<1> QED
  BY <1>2, <1>3, <1>4

\* One invocation.
LEMMA RateCellStep ==
  ASSUME EngineInv, DelayInv(PipeDelays), RateInv, CellStep
  PROVE  RateInv'
<1>1. PICK r : /\ r \in Process(Pipe[stage], Head(cur), heap)
               /\ ResultOK(r, heap)
               /\ Sound(Head(cur), heap) /\ Pipe[stage] \in Cell
               /\ pipelines' = [pipelines EXCEPT ![dir][stage] = r.cell]
               /\ heap' = r.heap
               /\ \/ /\ r.outs = << >>
                     /\ actions' = Append(actions, DropAction(Head(cur), Pipe[stage]))
                     /\ UNCHANGED <<next, copies>>
                  \/ /\ r.outs # << >> /\ next' = next \o r.outs
                     /\ copies' = copies + Len(r.outs) - 1
                     /\ UNCHANGED actions
  BY CellStepParts
<1>2. /\ stage \in DOMAIN Pipe /\ cur # << >> /\ cur' = Tail(cur)
      /\ UNCHANGED <<load, now, seq, stage, dir, out>>
  BY DEF CellStep
<1>3. /\ heap \in Seq(Nat) /\ cur \in Seq(Packets) /\ next \in Seq(Packets) /\ dir \in Dirs
      /\ pipelines \in [Dirs -> Seq(Cell)] /\ out \in Seq(Actions)
  BY DEF EngineInv, AllSound
<1>4. stage \in Nat /\ stage >= 1 /\ stage <= Len(pipelines[dir]) /\ Len(pipelines[dir]) \in Nat
  BY <1>2, <1>3, LenProperties DEF Pipe
<1>5. /\ Len(pipelines'[dir]) = Len(pipelines[dir])
      /\ pipelines'[dir] = [pipelines[dir] EXCEPT ![stage] = r.cell]
      /\ \A d \in Dirs : d # dir => pipelines'[d] = pipelines[d]
  <2> DEFINE p == pipelines[dir]
             q == [p EXCEPT ![stage] = r.cell]
  <2>1. p \in Seq(Cell) /\ stage \in 1..Len(p) /\ r.cell \in Cell
    BY <1>1, <1>3, <1>4 DEF ResultOK
  <2>2. Len(q) = Len(p)
    BY <2>1, ExceptSeq
  <2>3. pipelines'[dir] = q /\ \A d \in Dirs : d # dir => pipelines'[d] = pipelines[d]
    BY <1>1, <1>3
  <2> QED
    BY <2>2, <2>3
<1>6. \A k \in 1..Len(pipelines[dir]) :
        pipelines'[dir][k] = IF k = stage THEN r.cell ELSE pipelines[dir][k]
  <2>1. DOMAIN pipelines[dir] = 1..Len(pipelines[dir])
    BY <1>3, LenProperties
  <2> QED
    BY <1>5, <2>1
<1>7. ASSUME NEW d \in Dirs, Limits(d)'
      PROVE  Paced(out', Limiter(d)', d, Line(d)')
  <2>1. CASE d # dir
    <3>1. pipelines'[d] = pipelines[d] /\ dir' = dir /\ out' = out
      BY <1>2, <1>5, <2>1
    <3>2. Limits(d) /\ Limiter(d)' = Limiter(d)
      BY <1>7, <3>1 DEF Limits, EndsWith, Limiter
    <3>3. Line(d)' = Line(d)
      BY <2>1, <3>1 DEF Line
    <3> QED
      BY <3>1, <3>2, <3>3 DEF RateInv
  <2>2. CASE d = dir /\ stage # Len(pipelines[dir])
    <3>1. Len(pipelines[dir]) \in 1..Len(pipelines[dir])
      BY <1>4
    <3>2. Limiter(d)' = Limiter(d) /\ Len(pipelines'[d]) = Len(pipelines[d])
      BY <1>5, <1>6, <2>2, <3>1 DEF Limiter
    <3>3. pipelines[d] # << >>
      BY <1>3, <1>4, <2>2, EmptySeq
    <3>4. Limits(d)
      BY <1>7, <3>2, <3>3 DEF Limits, EndsWith, Limiter
    <3>5. stage # Len(pipelines[dir]) + 1
      BY <1>4
    <3>6. Line(d)' = << >> /\ Line(d) = << >>
      BY <1>2, <2>2, <3>2, <3>5 DEF Line
    <3> QED
      BY <1>2, <3>2, <3>4, <3>6 DEF RateInv
  <2>3. CASE d = dir /\ stage = Len(pipelines[dir])
    <3>1. /\ Limiter(d)' = r.cell /\ Len(pipelines'[d]) = Len(pipelines[d])
          /\ Limiter(d) = Pipe[stage]
      <4>1. stage \in 1..Len(pipelines[dir])
        BY <1>4
      <4> QED
        BY <1>5, <1>6, <2>3, <4>1 DEF Limiter, Pipe
    <3>2. r.cell.kind = "ratelimit" /\ r.cell.rate > 0
      BY <1>7, <3>1 DEF Limits, EndsWith, Limiter
    <3>3. Pipe[stage].kind = "ratelimit"
      BY <1>1, <3>2, KindKept
    <3>4. Line(d) = next /\ Line(d)' = next'
      BY <1>2, <2>3, <3>1 DEF Line
    <3> DEFINE c == Pipe[stage]
               f == Head(cur)
    <3>5. c.rate \in Int
      BY <1>1, <3>3 DEF Cell
    <3>6. CASE ~ (c.rate > 0)
      <4>1. r.cell = c
        BY <1>1, <3>3, <3>5, <3>6 DEF Process, RateLimitProcess, Keep, Result
      <4> QED
        BY <3>2, <3>6, <4>1
    <3>7. CASE c.rate > 0
      <4>1. pipelines[d] # << >>
        BY <1>3, <1>4, <2>3, EmptySeq
      <4>2. Limits(d)
        BY <3>1, <3>3, <3>7, <4>1 DEF Limits, EndsWith, Limiter
      <4>3. Paced(out, c, d, next)
        BY <3>1, <3>4, <4>2 DEF RateInv
      <4> HIDE DEF c, f
      <4>4. \/ r.outs = << >> /\ r.cell = c
            \/ \E g \in Packets :
                 /\ r.outs = <<g>> /\ r.cell \in Cell
                 /\ g.dir = f.dir /\ g.len = f.len /\ g.recvAt = f.recvAt
                 /\ r.cell.kind = c.kind /\ r.cell.rate = c.rate /\ r.cell.queue = c.queue
                 /\ r.cell.queueFreeAt = g.deliverAt
                 /\ g.deliverAt >= c.queueFreeAt + Serialize(c, f)
                 /\ c.queue > 0 => Waited(c, f.deliverAt, g)
        BY <1>1, <1>3, <3>3, <3>7, LimiterStep DEF c, f
      <4>5. CASE r.outs = << >> /\ r.cell = c
        <5>1. next' = next
          BY <1>1, <4>5
        <5> QED
          BY <1>2, <3>1, <3>4, <4>3, <4>5, <5>1
      <4>6. ASSUME NEW g \in Packets,
                   r.outs = <<g>>, r.cell \in Cell,
                   g.dir = f.dir, g.len = f.len, g.recvAt = f.recvAt,
                   r.cell.kind = c.kind, r.cell.rate = c.rate, r.cell.queue = c.queue,
                   r.cell.queueFreeAt = g.deliverAt,
                   g.deliverAt >= c.queueFreeAt + Serialize(c, f)
            PROVE  Paced(out', Limiter(d)', d, Line(d)')
        <5>1. r.outs # << >>
          BY <4>6
        <5>2. next' = next \o <<g>>
          BY <1>1, <4>6, <5>1
        <5>3. Serialize(c, g) = Serialize(c, f)
          BY <4>6 DEF Serialize
        <5>6. g.deliverAt >= c.queueFreeAt + Serialize(c, g)
          BY <4>6, <5>3
        <5>7. c \in Cell /\ c.kind = "ratelimit"
          BY <1>1, <3>3 DEF c
        <5>8. Paced(out, r.cell, d, next \o <<g>>)
          BY <1>3, <3>7, <4>3, <4>6, <5>6, <5>7, PacedJoin
        <5> QED
          BY <1>2, <3>1, <3>4, <5>2, <5>8
      <4> QED
        BY <4>4, <4>5, <4>6
    <3> QED
      BY <3>6, <3>7
  <2> QED
    BY <2>1, <2>2, <2>3
<1> QED
  BY <1>2, <1>7 DEF RateInv

\* A packet enters: the lines are empty.
LEMMA RateIngress ==
  ASSUME EngineInv, RateInv, NEW d \in Dirs, NEW len \in Lengths, Ingress(d, len)
  PROVE  RateInv'
<1>1. /\ stage = 0 /\ dir' = d /\ stage' = 1
      /\ UNCHANGED <<pipelines, next, out>>
  BY DEF Ingress
<1>2. next = << >>
  <2>1. Pipe \in Seq(Cell)
    BY DEF EngineInv, Pipe
  <2>2. stage \notin DOMAIN Pipe
    BY <1>1, <2>1, LenProperties
  <2> QED
    BY <2>2 DEF EngineInv
<1>5. ASSUME NEW e \in Dirs, Limits(e)'
      PROVE  Paced(out', Limiter(e)', e, Line(e)')
  <2>1. Limits(e) /\ Limiter(e)' = Limiter(e) /\ pipelines' = pipelines
    BY <1>1, <1>5 DEF Limits, EndsWith, Limiter
  <2>2. Len(pipelines[e]) \in Nat \ {0}
    BY <2>1, LimiterCell
  <2>3. stage' # Len(pipelines[e]) + 1
    BY <1>1, <2>2
  <2>4. Line(e)' = << >>
    BY <1>1, <1>2, <2>1, <2>3 DEF Line
  <2>5. Paced(out, Limiter(e), e, << >>)
    BY <2>1, PacedEmpty DEF RateInv
  <2> QED
    BY <1>1, <2>1, <2>4, <2>5
<1> QED
  BY <1>5 DEF RateInv

\* The line moves on with its packets.
LEMMA RateNextStage ==
  ASSUME EngineInv, RateInv, NextStage
  PROVE  RateInv'
<1>1. /\ stage \in DOMAIN Pipe /\ cur = << >> /\ stage' = stage + 1 /\ cur' = next /\ next' = << >>
      /\ UNCHANGED <<load, now, pipelines, seq, dir, actions, heap, copies, out>>
  BY DEF NextStage
<1>2. stage \in Nat /\ stage >= 1 /\ stage <= Len(pipelines[dir]) /\ Len(pipelines[dir]) \in Nat
  <2>1. Pipe \in Seq(Cell)
    BY DEF Pipe, EngineInv
  <2> QED
    BY <1>1, <2>1, LenProperties DEF Pipe
<1>3. ASSUME NEW d \in Dirs, Limits(d)'
      PROVE  Paced(out', Limiter(d)', d, Line(d)')
  <2>1. Limits(d) /\ Limiter(d)' = Limiter(d) /\ pipelines' = pipelines
    BY <1>1, <1>3 DEF Limits, EndsWith, Limiter
  <2>2. Line(d)' = Line(d)
    <3>1. CASE d # dir
      BY <1>1, <3>1 DEF Line
    <3>2. CASE d = dir
      <4>1. PICK n \in Nat : n = Len(pipelines[dir])
        BY <1>2
      <4>2. stage' # n + 2 /\ stage # n + 1 /\ (stage' = n + 1 <=> stage = n) /\ (stage' = n => stage # n)
        BY <1>1, <1>2, <4>1
      <4> QED
        BY <1>1, <2>1, <3>2, <4>1, <4>2 DEF Line
    <3> QED
      BY <3>1, <3>2
  <2> QED
    BY <1>1, <2>1, <2>2 DEF RateInv
<1> QED
  BY <1>3 DEF RateInv

\* The line is returned.
LEMMA RateReturn ==
  ASSUME EngineInv, DelayInv(PipeDelays), RateInv, Return
  PROVE  RateInv'
<1> DEFINE fwds == [i \in DOMAIN cur |-> ForwardAction(cur[i])]
<1>1. /\ stage = Len(Pipe) + 1 /\ out' = (out \o actions) \o fwds
      /\ stage' = 0 /\ cur' = << >>
      /\ UNCHANGED <<load, now, pipelines, seq, dir, next, copies>>
  BY DEF Return
<1>2. /\ cur \in Seq(Packets) /\ actions \in Seq(Actions) /\ out \in Seq(Actions) /\ heap \in Seq(Nat)
      /\ \A i \in DOMAIN cur : Sound(cur[i], heap)
  BY DEF EngineInv, AllSound
<1>3. Len(Pipe) \in Nat /\ stage \notin DOMAIN Pipe /\ stage # Len(Pipe)
  <2>1. Pipe \in Seq(Cell)
    BY DEF EngineInv, Pipe
  <2>2. PICK n \in Nat : n = Len(Pipe) /\ DOMAIN Pipe = 1..n
    BY <2>1, LenProperties
  <2>3. stage = n + 1
    BY <1>1, <2>2
  <2> QED
    BY <2>2, <2>3
<1>4. next = << >>
  BY <1>3 DEF EngineInv
<1>5. fwds \in Seq(Actions) /\ Len(fwds) = Len(cur) /\ \A k \in DOMAIN cur : fwds[k] = ForwardAction(cur[k])
  <2>1. \A j \in DOMAIN cur : ForwardAction(cur[j]) \in Actions
    BY <1>2, ForwardActionType
  <2>2. Len(cur) \in Nat /\ DOMAIN cur = 1..Len(cur)
    BY <1>2, LenProperties
  <2> QED
    BY <2>1, <2>2
<1> HIDE DEF fwds
<1>6. /\ \A j \in DOMAIN actions : actions[j].kind = "drop"
      /\ \A k \in DOMAIN cur : cur[k].dir = dir
  BY DEF DelayInv, AtLeast
<1>7. ASSUME NEW d \in Dirs, Limits(d)'
      PROVE  Paced(out', Limiter(d)', d, Line(d)')
  <2>1. Limits(d) /\ Limiter(d)' = Limiter(d) /\ pipelines' = pipelines
    BY <1>1, <1>7 DEF Limits, EndsWith, Limiter
  <2>2. Line(d) = IF d = dir THEN cur ELSE << >>
    BY <1>1, <1>3 DEF Line, Pipe
  <2> DEFINE c == Limiter(d)
  <2>3. Paced(out, c, d, IF d = dir THEN cur ELSE << >>)
    BY <2>1, <2>2 DEF RateInv
  <2>4. Line(d)' = << >>
    <3>1. Len(pipelines[d]) \in Nat \ {0}
      BY <2>1, LimiterCell
    <3>2. stage' # Len(pipelines[d]) + 1
      BY <1>1, <3>1
    <3> QED
      BY <1>1, <1>4, <2>1, <3>2 DEF Line
  <2> HIDE DEF c
  <2>5. Paced((out \o actions) \o fwds, c, d, << >>)
    BY <1>2, <1>5, <1>6, <2>3, PacedReturn
  <2> QED
    BY <1>1, <2>1, <2>4, <2>5 DEF c
<1> QED
  BY <1>7 DEF RateInv

\* A packet that a limiter sends on, wherever the limiter stands, waited for its queue at
\* most: no other step sends one on.
LEMMA QueueStep ==
  ASSUME EngineInv, [Next]_vars
  PROVE  QueueBounded
<1>1. next \in Seq(Packets) /\ cur \in Seq(Packets) /\ heap \in Seq(Nat) /\ Len(next) \in Nat
  BY LenProperties DEF EngineInv, AllSound
<1>2. CASE ~ CellStep
  <2>1. next' = next \/ next' = << >>
    BY <1>2 DEF Next, vars, Advance, Ingress, NextStage, Return
  <2>2. Len(next') <= Len(next) /\ Len(next') \in Nat
    BY <1>1, <2>1, EmptySeq
  <2>3. (Len(next) + 1)..Len(next') = {}
    BY <1>1, <2>2
  <2> QED
    BY <2>3 DEF QueueBounded
<1>3. CASE CellStep
  <2> DEFINE c == Pipe[stage]
             f == Head(cur)
  <2>1. SUFFICES ASSUME NEW k \in (Len(next) + 1)..Len(next'),
                        c.kind = "ratelimit", c.rate > 0, c.queue > 0
                 PROVE  Waited(c, f.deliverAt, next'[k])
    BY DEF QueueBounded, Waited
  <2>2. PICK r : /\ r \in Process(c, f, heap)
                 /\ Sound(f, heap) /\ c \in Cell
                 /\ r.outs = << >> => next' = next
                 /\ r.outs # << >> => next' = next \o r.outs
    BY <1>3, CellStepParts
  <2> HIDE DEF c, f
  <2>3. r.outs # << >>
    BY <1>1, <2>1, <2>2
  <2>4. PICK g \in Packets : r.outs = <<g>> /\ Waited(c, f.deliverAt, g)
    BY <1>1, <2>1, <2>2, <2>3, LimiterStep
  <2>5. next' = next \o <<g>>
    BY <2>2, <2>3, <2>4
  <2>6. Len(next') = Len(next) + 1 /\ next'[Len(next) + 1] = g
    BY <1>1, <2>5
  <2>7. k = Len(next) + 1
    BY <1>1, <2>1, <2>6
  <2> QED
    BY <2>4, <2>6, <2>7
<1> QED
  BY <1>2, <1>3

\* Every limiter is a FIFO link of its rate with a queue of its size, however late or
\* reordered the packets reach it: at the end of any pipeline it paces them, and in any
\* place none waits for more than the queue.
THEOREM RateLinkProved == Spec => RateLinkKept
<1> DEFINE I == DelayInv(PipeDelays)
<1>1. ASSUME Init PROVE RateInv
  <2>1. /\ out = << >> /\ cur = << >> /\ next = << >>
    BY <1>1 DEF Init
  <2>2. \A d : Line(d) = << >>
    BY <2>1 DEF Line
  <2>3. \A c, d : Paced(<< >>, c, d, << >>)
    BY DEF Paced, ForwardsTo
  <2> QED
    BY <2>1, <2>2, <2>3 DEF RateInv
<1>2. ASSUME EngineInv, I, RateInv, [Next]_vars PROVE RateInv'
  <2>1. CASE Advance \/ UNCHANGED vars
    <3>1. UNCHANGED <<pipelines, stage, dir, cur, next, out>>
      BY <2>1 DEF Advance, vars
    <3> QED
      BY <1>2, <3>1 DEF RateInv, Limits, EndsWith, Limiter, Line
  <2>2. CASE \E d \in Dirs, len \in Lengths : Ingress(d, len)
    BY <1>2, <2>2, RateIngress
  <2>3. CASE CellStep
    BY <1>2, <2>3, RateCellStep
  <2>4. CASE NextStage
    BY <1>2, <2>4, RateNextStage
  <2>5. CASE Return
    BY <1>2, <2>5, RateReturn
  <2> QED
    BY <1>2, <2>1, <2>2, <2>3, <2>4, <2>5 DEF Next
<1>3. ASSUME EngineInv, RateInv PROVE RateRespected
  <2> SUFFICES ASSUME NEW i \in Forwards, NEW j \in Forwards, i < j, out[i].dir = out[j].dir,
                      EndsWith(out[i].dir, "ratelimit"), Limiter(out[i].dir).rate > 0
               PROVE  out[j].deliverAt >= out[i].deliverAt + Serialize(Limiter(out[i].dir), out[j])
    BY DEF RateRespected, Limiter
  <2> DEFINE d == out[i].dir
  <2>1. d \in Dirs /\ Limits(d)
    BY <1>3, ForwardDir DEF Limits
  <2>2. i \in ForwardsTo(out, d) /\ j \in ForwardsTo(out, d)
    BY DEF Forwards, ForwardsTo
  <2>3. Paced(out, Limiter(d), d, Line(d))
    BY <1>3, <2>1 DEF RateInv
  <2> QED
    BY <2>2, <2>3 DEF Paced
<1>4. EngineInv /\ [Next]_vars => QueueBounded
  BY QueueStep
<1>5. Init => I
  BY PipeDelaysOK, DelayInit
<1>6. EngineInv /\ EngineInv' /\ I /\ [Next]_vars => I'
  BY PipeDelaysOK, DelayStep
<1>7. Spec => []RateRespected
  BY <1>1, <1>2, <1>3, <1>5, <1>6, EngineInductive, PTL DEF Spec
<1>8. Spec => [][QueueBounded]_vars
  BY <1>4, EngineInductive, PTL DEF Spec
<1> QED
  BY <1>7, <1>8 DEF RateLinkKept
-----------------------------------------------------------------------------
\* A Gilbert-Elliott cell whose bad state lasts for one packet and whose good state
\* loses none.
Classic(c) == c.kind = "loss.ge" /\ c.r = "one" /\ c.h = "one"

\* A cell that makes at most one packet of a packet, and is no second chain.
Single(c) == c.kind # "loss.ge" /\ (c.kind = "reorder" => c.dup = "zero")

\* A cell that never drops.
Lossless(c) ==
  \/ c.kind \in {"delay", "corrupt", "reorder"}
  \/ c.kind = "ratelimit" /\ c.queue <= 0

\* The classic chain at stage n sees every packet once, and what it lets through is
\* forwarded.
Isolated(p, n) ==
  /\ Classic(p[n])
  /\ \A m \in DOMAIN p : (m < n => Single(p[m])) /\ (n < m => Lossless(p[m]))

\* Every classic chain is one of those.
ChainsIsolated ==
  \A d \in Dirs : \A n \in DOMAIN pipelines[d] :
    Classic(pipelines[d][n]) => Isolated(pipelines[d], n)

\* The packets of direction d that the chain lost.
ChainDrops(os, d) ==
  {i \in DOMAIN os : os[i].kind = "drop" /\ os[i].dir = d /\ os[i].reason = "loss.ge"}

\* A forward lies between any two of them.
Separated(os, d) ==
  \A i, j \in ChainDrops(os, d) : i < j => \E k \in ForwardsTo(os, d) : i < k /\ k < j

\* No forward came after the last of them.
Open(os, d) == \E i \in ChainDrops(os, d) : \A k \in ForwardsTo(os, d) : k < i

\* After a loss, the chain is in its good state.
Calm(d, n) == Open(out, d) => pipelines[d][n].state = "good"

\* The drops of a Handle that are losses of a chain.
Losses(as) == {k \in DOMAIN as : as[k].reason = "loss.ge"}

\* The packet of this Handle is before the chain, behind it or gone.
BurstOK(d, n) ==
  /\ Separated(out, d)
  /\ d # dir \/ stage = 0 => Calm(d, n)
  /\ d = dir /\ stage # 0 =>
       /\ stage <= n => Len(cur) + Len(next) <= 1
       /\ cur # << >> \/ next # << >> => Losses(actions) = {}
       /\ (cur # << >> /\ stage <= n) \/ (next # << >> /\ stage < n) => Calm(d, n)
       /\ cur = << >> /\ next = << >> =>
            \/ Losses(actions) = {} /\ Calm(d, n)
            \/ /\ \E k \in DOMAIN actions : Losses(actions) = {k}
               /\ ~ Open(out, d) /\ pipelines[d][n].state = "good"

BurstInv ==
  /\ \A k \in DOMAIN actions : actions[k].dir = dir
  /\ stage = 0 => actions = << >>
  /\ \A d \in Dirs : \A n \in DOMAIN pipelines[d] :
       Isolated(pipelines[d], n) => BurstOK(d, n)

\* The cells keep their configuration.
LEMMA ConfigKept ==
  ASSUME NEW c \in Cell, NEW f, NEW h, NEW r \in Process(c, f, h)
  PROVE  /\ Classic(r.cell) => Classic(c)
         /\ Single(r.cell) => Single(c)
         /\ Lossless(r.cell) => Lossless(c)
<1>1. r.cell.kind = c.kind
  BY KindKept
<1>2. \A e, g, i : Keep(e, g, i).cell = e /\ Discard(e, i).cell = e /\ Result(g, e, i).cell = e
  BY DEF Keep, Discard, Result
<1>3. c.kind = "loss.ge" => r.cell.r = c.r /\ r.cell.h = c.h
  <2> SUFFICES ASSUME c.kind = "loss.ge" PROVE r.cell.r = c.r /\ r.cell.h = c.h
    OBVIOUS
  <2>1. PICK moves : r = Keep([c EXCEPT !.state = IF moves THEN GEOther(@) ELSE @], f, h)
                     \/ r = Discard([c EXCEPT !.state = IF moves THEN GEOther(@) ELSE @], h)
    BY DEF Process, GEProcess
  <2> DEFINE e == [c EXCEPT !.state = IF moves THEN GEOther(@) ELSE @]
  <2>2. e.r = c.r /\ e.h = c.h
    BY DEF Cell
  <2> HIDE DEF e
  <2>3. r = Keep(e, f, h) \/ r = Discard(e, h)
    BY <2>1 DEF e
  <2> QED
    BY <1>2, <2>2, <2>3
<1>4. c.kind = "reorder" => r.cell.dup = c.dup
  <2> SUFFICES ASSUME c.kind = "reorder" PROVE r.cell.dup = c.dup
    OBVIOUS
  <2>1. PICK b \in ReorderDecisions(c), dup \in Hits(c.dup) :
          r = Result(Copies(f, IF b THEN f.deliverAt ELSE f.deliverAt + c.gap, dup, h),
                     ReorderAfter(c, b), CopiedHeap(f, dup, h))
    BY DEF Process, ReorderProcess
  <2>2. ReorderAfter(c, b).dup = c.dup
    BY DEF Cell, ReorderAfter
  <2> QED
    BY <1>2, <2>1, <2>2
<1>5. c.kind = "ratelimit" => r.cell.queue = c.queue
  <2> SUFFICES ASSUME c.kind = "ratelimit" PROVE r.cell.queue = c.queue
    OBVIOUS
  <2> DEFINE at == MaxOf(f.deliverAt, c.queueFreeAt) + Serialize(c, f)
             e  == [c EXCEPT !.queueFreeAt = at]
             g  == [f EXCEPT !.deliverAt = at]
  <2>1. r = Keep(c, f, h) \/ r = Discard(c, h) \/ r = Keep(e, g, h)
    BY DEF Process, RateLimitProcess
  <2> HIDE DEF at, g
  <2>2. e.queue = c.queue
    BY DEF Cell
  <2> HIDE DEF e
  <2> QED
    BY <1>2, <2>1, <2>2
<1> QED
  BY <1>1, <1>3, <1>4, <1>5 DEF Classic, Single, Lossless

\* Copies of a packet: one, or two if it is duplicated.
LEMMA CopiesLen ==
  ASSUME NEW f, NEW at, NEW h, NEW dup \in BOOLEAN
  PROVE  Len(Copies(f, at, dup, h)) = IF dup THEN 2 ELSE 1
BY DEF Copies

\* A cell that is not to duplicate returns one packet or none.
LEMMA SingleStep ==
  ASSUME NEW c \in Cell, Single(c), NEW f, NEW h, NEW r \in Process(c, f, h)
  PROVE  r.outs = << >> \/ Len(r.outs) = 1
<1>1. \A e, g, i : Keep(e, g, i).outs = <<g>> /\ Discard(e, i).outs = << >>
  BY DEF Keep, Discard, Result
<1>2. \A g : Len(<<g>>) = 1
  OBVIOUS
<1>3. c.kind \in Kinds /\ c.kind # "loss.ge"
  BY DEF Cell, Kinds, Single
<1>4. CASE c.kind = "blackhole"
  BY <1>1, <1>2, <1>4 DEF Process, BlackholeProcess
<1>5. CASE c.kind = "loss.bernoulli"
  BY <1>1, <1>2, <1>5 DEF Process, BernoulliProcess
<1>6. CASE c.kind = "delay"
  <2>1. PICK jit \in c.lo..c.hi :
          r = Keep(c, [f EXCEPT !.deliverAt = MaxOf(f.deliverAt + c.base + jit, f.recvAt)], h)
    BY <1>6 DEF Process, DelayProcess
  <2> QED
    BY <1>1, <1>2, <2>1
<1>7. CASE c.kind = "reorder"
  <2>1. PICK b \in ReorderDecisions(c), dup \in Hits(c.dup) :
          r = Result(Copies(f, IF b THEN f.deliverAt ELSE f.deliverAt + c.gap, dup, h),
                     ReorderAfter(c, b), CopiedHeap(f, dup, h))
    BY <1>7 DEF Process, ReorderProcess
  <2>2. dup = FALSE
    BY <1>7 DEF Single, Hits
  <2>3. r.outs = Copies(f, IF b THEN f.deliverAt ELSE f.deliverAt + c.gap, dup, h)
    BY <2>1 DEF Result
  <2> QED
    BY <2>2, <2>3, CopiesLen
<1>8. CASE c.kind = "corrupt"
  BY <1>1, <1>2, <1>8 DEF Process, CorruptProcess
<1>9. CASE c.kind = "ratelimit"
  <2> DEFINE at == MaxOf(f.deliverAt, c.queueFreeAt) + Serialize(c, f)
             e  == [c EXCEPT !.queueFreeAt = at]
             g  == [f EXCEPT !.deliverAt = at]
  <2>1. r = Keep(c, f, h) \/ r = Discard(c, h) \/ r = Keep(e, g, h)
    BY <1>9 DEF Process, RateLimitProcess
  <2> HIDE DEF e, g
  <2> QED
    BY <1>1, <1>2, <2>1
<1>10. CASE c.kind = "droplist"
  BY <1>1, <1>2, <1>10 DEF Process, DropListProcess
<1>11. CASE c.kind = "deliverytrace"
  <2> DEFINE d    == IF c.started \/ c.sched = << >> THEN c
                     ELSE [c EXCEPT !.started = TRUE, !.base = f.recvAt]
             need == MaxOf((f.len + d.mtu - 1) \div d.mtu, 1)
             arr  == FirstOppAtOrAfter(d, MaxOf(f.recvAt - d.base, 0) \div NsPerMs)
             last == MaxOf(d.nextOpp, arr) + need - 1
             t    == MaxOf(d.base + OppTimeMs(d, last) * NsPerMs, f.recvAt)
             e    == [d EXCEPT !.nextOpp = last + 1]
             g    == [f EXCEPT !.deliverAt = t]
  <2>1. r = Discard(d, h) \/ r = Keep(e, g, h)
    BY <1>11 DEF Process, DeliveryTraceProcess
  <2> HIDE DEF d, e, g
  <2> QED
    BY <1>1, <1>2, <2>1
<1> QED
  BY <1>3, <1>4, <1>5, <1>6, <1>7, <1>8, <1>9, <1>10, <1>11 DEF Kinds

\* A cell that never drops returns something.
LEMMA LosslessStep ==
  ASSUME NEW c \in Cell, Lossless(c), NEW f, NEW h, NEW r \in Process(c, f, h)
  PROVE  r.outs # << >>
<1>1. \A e, g, i : Keep(e, g, i).outs # << >>
  BY DEF Keep, Result
<1>2. CASE c.kind = "delay"
  BY <1>1, <1>2 DEF Process, DelayProcess
<1>3. CASE c.kind = "reorder"
  <2>1. PICK b \in ReorderDecisions(c), dup \in Hits(c.dup) :
          r = Result(Copies(f, IF b THEN f.deliverAt ELSE f.deliverAt + c.gap, dup, h),
                     ReorderAfter(c, b), CopiedHeap(f, dup, h))
    BY <1>3 DEF Process, ReorderProcess
  <2>2. r.outs = Copies(f, IF b THEN f.deliverAt ELSE f.deliverAt + c.gap, dup, h)
    BY <2>1 DEF Result
  <2>3. dup \in BOOLEAN
    BY HitsBoolean
  <2>4. Len(r.outs) = IF dup THEN 2 ELSE 1
    BY <2>2, <2>3, CopiesLen
  <2>5. Len(<< >>) = 0
    OBVIOUS
  <2> QED
    BY <2>4, <2>5
<1>4. CASE c.kind = "corrupt"
  BY <1>1, <1>4 DEF Process, CorruptProcess
<1>5. CASE c.kind = "ratelimit" /\ c.queue <= 0
  <2> DEFINE at == MaxOf(f.deliverAt, c.queueFreeAt) + Serialize(c, f)
             e  == [c EXCEPT !.queueFreeAt = at]
             g  == [f EXCEPT !.deliverAt = at]
  <2>1. c.queue \in Int
    BY <1>5 DEF Cell
  <2>2. ~ RateLimitFull(c, f)
    BY <1>5, <2>1 DEF RateLimitFull
  <2>3. r = Keep(c, f, h) \/ r = Keep(e, g, h)
    BY <1>5, <2>2 DEF Process, RateLimitProcess
  <2> HIDE DEF e, g
  <2> QED
    BY <1>1, <2>3
<1> QED
  BY <1>2, <1>3, <1>4, <1>5 DEF Lossless

\* The classic chain: it loses in the bad state only, and is in the good state after it.
LEMMA ClassicStep ==
  ASSUME NEW c \in Cell, Classic(c), NEW f, NEW h, NEW r \in Process(c, f, h)
  PROVE  /\ r.outs = << >> \/ Len(r.outs) = 1
         /\ r.outs = << >> => c.state = "bad" /\ r.cell.state = "good"
<1>1. PICK moves \in Hits(GEMove(c)), lost \in Hits(GELoss(c, c.state)) :
        r = IF lost THEN Discard([c EXCEPT !.state = IF moves THEN GEOther(@) ELSE @], h)
            ELSE Keep([c EXCEPT !.state = IF moves THEN GEOther(@) ELSE @], f, h)
  BY DEF Process, GEProcess, Classic
<1>2. c.state \in {"good", "bad"}
  BY DEF Cell, Classic
<1> DEFINE e == [c EXCEPT !.state = IF moves THEN GEOther(@) ELSE @]
<1>3. e.state = IF moves THEN GEOther(c.state) ELSE c.state
  BY DEF Cell, Classic
<1>4. r = IF lost THEN Discard(e, h) ELSE Keep(e, f, h)
  BY <1>1
<1> HIDE DEF e
<1>5. CASE lost
  <2>1. c.state # "good"
    BY <1>5 DEF GELoss, Complement, Hits, Classic
  <2>2. c.state = "bad"
    BY <1>2, <2>1
  <2>3. moves
    BY <2>2 DEF GEMove, Hits, Classic
  <2>4. e.state = "good"
    BY <1>3, <2>2, <2>3 DEF GEOther
  <2>5. r.outs = << >> /\ r.cell = e
    BY <1>4, <1>5 DEF Discard, Result
  <2> QED
    BY <2>2, <2>4, <2>5
<1>6. CASE ~ lost
  <2>1. r.outs = <<f>>
    BY <1>4, <1>6 DEF Keep, Result
  <2>2. Len(<<f>>) = 1 /\ <<f>> # << >>
    OBVIOUS
  <2> QED
    BY <2>1, <2>2
<1> QED
  BY <1>5, <1>6

\* Where the actions of two sequences, one after the other, come from.
Joined(all, os, as) ==
  /\ \A i \in DOMAIN all :
       \/ i \in DOMAIN os /\ all[i] = os[i]
       \/ i - Len(os) \in DOMAIN as /\ all[i] = as[i - Len(os)]
  /\ \A i \in DOMAIN os : i \in DOMAIN all /\ all[i] = os[i]
  /\ \A j \in DOMAIN as : Len(os) + j \in DOMAIN all /\ all[Len(os) + j] = as[j]
  /\ \A i \in DOMAIN all : i \in Nat
  /\ \A i \in DOMAIN os : i \in Nat /\ i <= Len(os)
  /\ \A j \in DOMAIN as : j \in Nat /\ j >= 1
  /\ Len(os) \in Nat

\* Concatenation joins two sequences of actions.
LEMMA JoinedParts ==
  ASSUME NEW os \in Seq(Actions), NEW as \in Seq(Actions)
  PROVE  Joined(os \o as, os, as) /\ os \o as \in Seq(Actions)
<1> DEFINE all == os \o as
<1>1. /\ all \in Seq(Actions) /\ Len(all) = Len(os) + Len(as)
      /\ \A k \in 1..Len(os) + Len(as) :
           all[k] = IF k <= Len(os) THEN os[k] ELSE as[k - Len(os)]
  BY ConcatProperties
<1>2. PICK n \in Nat : n = Len(os)
  BY LenProperties
<1>3. PICK m \in Nat : m = Len(as)
  BY LenProperties
<1> HIDE DEF all
<1>4. \A k \in 1..(n + m) : all[k] = IF k <= n THEN os[k] ELSE as[k - n]
  BY <1>1, <1>2, <1>3
<1>5. DOMAIN os = 1..n /\ DOMAIN as = 1..m
  BY <1>2, <1>3, LenProperties
<1>6. DOMAIN all = 1..(n + m)
  BY <1>1, <1>2, <1>3, LenProperties
<1>7. ASSUME NEW i \in 1..(n + m)
      PROVE  \/ i \in 1..n /\ all[i] = os[i]
             \/ i - n \in 1..m /\ all[i] = as[i - n]
  <2>1. CASE i <= n
    <3>1. i \in 1..n
      BY <2>1
    <3> QED
      BY <1>4, <2>1, <3>1
  <2>2. CASE ~ (i <= n)
    <3>1. i - n \in 1..m
      BY <2>2
    <3> QED
      BY <1>4, <2>2, <3>1
  <2> QED
    BY <2>1, <2>2
<1>8. ASSUME NEW i \in 1..n PROVE i \in 1..(n + m) /\ all[i] = os[i]
  <2>1. i \in 1..(n + m) /\ i <= n
    OBVIOUS
  <2> QED
    BY <1>4, <2>1
<1>9. ASSUME NEW j \in 1..m PROVE n + j \in 1..(n + m) /\ all[n + j] = as[j]
  <2>1. n + j \in 1..(n + m) /\ ~ (n + j <= n) /\ (n + j) - n = j
    OBVIOUS
  <2> QED
    BY <1>4, <2>1
<1>10. /\ \A i \in 1..(n + m) : i \in Nat
       /\ \A i \in 1..n : i \in Nat /\ i <= n
       /\ \A j \in 1..m : j \in Nat /\ j >= 1
  OBVIOUS
<1>11. Joined(all, os, as)
  BY <1>2, <1>5, <1>6, <1>7, <1>8, <1>9, <1>10 DEF Joined
<1> QED
  BY <1>1, <1>11 DEF all

\* Actions without a loss of the chain change nothing.
LEMMA QuietJoin ==
  ASSUME NEW all, NEW os, NEW as, Joined(all, os, as), NEW d, ChainDrops(as, d) = {}
  PROVE  /\ Separated(os, d) => Separated(all, d)
         /\ Open(all, d) => Open(os, d)
<1>1. \A i \in ChainDrops(all, d) : i \in ChainDrops(os, d)
  BY DEF Joined, ChainDrops
<1>2. \A k \in ForwardsTo(os, d) : k \in ForwardsTo(all, d)
  BY DEF Joined, ForwardsTo
<1>3. Separated(os, d) => Separated(all, d)
  BY <1>1, <1>2 DEF Separated
<1>4. Open(all, d) => Open(os, d)
  BY <1>1, <1>2 DEF Open
<1> QED
  BY <1>3, <1>4

\* One more loss, when a forward came after the one before.
LEMMA LossJoin ==
  ASSUME NEW all, NEW os, NEW as, Joined(all, os, as), NEW d,
         NEW x, ChainDrops(as, d) = {x}, Separated(os, d), ~ Open(os, d)
  PROVE  Separated(all, d)
<1> SUFFICES ASSUME NEW i \in ChainDrops(all, d), NEW j \in ChainDrops(all, d), i < j
             PROVE  \E k \in ForwardsTo(all, d) : i < k /\ k < j
  BY DEF Separated
<1>1. \A n \in ChainDrops(all, d) :
        \/ n \in ChainDrops(os, d)
        \/ n - Len(os) \in ChainDrops(as, d)
  BY DEF Joined, ChainDrops
<1>2. \A k \in ForwardsTo(os, d) : k \in ForwardsTo(all, d)
  BY DEF Joined, ForwardsTo
<1>3. i \in Nat /\ j \in Nat /\ Len(os) \in Nat
  BY DEF Joined, ChainDrops
<1>4. CASE i \in ChainDrops(os, d) /\ j \in ChainDrops(os, d)
  BY <1>2, <1>4 DEF Separated
<1>5. CASE i \in ChainDrops(os, d) /\ j \notin ChainDrops(os, d)
  <2>1. PICK k \in ForwardsTo(os, d) : ~ (k < i)
    BY <1>5 DEF Open
  <2>2. k # i
    BY <1>5, <2>1 DEF ChainDrops, ForwardsTo
  <2>3. k \in Nat /\ k <= Len(os)
    BY <2>1 DEF ForwardsTo, Joined
  <2>4. j - Len(os) \in DOMAIN as
    BY <1>1, <1>5 DEF ChainDrops
  <2>5. j - Len(os) >= 1
    BY <2>4 DEF Joined
  <2>6. i < k /\ k < j
    BY <1>3, <2>1, <2>2, <2>3, <2>5
  <2> QED
    BY <1>2, <2>6
<1>6. CASE i \notin ChainDrops(os, d)
  <2>1. i - Len(os) = x /\ x \in DOMAIN as
    BY <1>1, <1>6 DEF ChainDrops
  <2>2. x \in Nat /\ x >= 1
    BY <2>1 DEF Joined
  <2>3. j \notin ChainDrops(os, d)
    <3>1. ~ (j <= Len(os))
      BY <1>3, <2>1, <2>2
    <3> QED
      BY <3>1 DEF Joined, ChainDrops
  <2>4. j - Len(os) = x
    BY <1>1, <2>3
  <2> QED
    BY <1>3, <2>1, <2>2, <2>4
<1> QED
  BY <1>4, <1>5, <1>6

\* After a forward there is no open loss.
LEMMA ForwardJoin ==
  ASSUME NEW all, NEW os, NEW as, Joined(all, os, as), NEW d, ChainDrops(as, d) = {},
         1 \in DOMAIN as, as[1].kind = "forward", as[1].dir = d
  PROVE  ~ Open(all, d)
<1>1. \A i \in ChainDrops(all, d) : i \in ChainDrops(os, d)
  <2>1. \A i \in ChainDrops(all, d) :
          i \in ChainDrops(os, d) \/ i - Len(os) \in ChainDrops(as, d)
    BY DEF Joined, ChainDrops
  <2> QED
    BY <2>1
<1>2. Len(os) + 1 \in ForwardsTo(all, d)
  BY DEF Joined, ForwardsTo
<1>3. \A i \in ChainDrops(os, d) : i \in Nat /\ i <= Len(os) /\ Len(os) \in Nat
  BY DEF Joined, ChainDrops
<1>4. \A i \in ChainDrops(all, d) : ~ (Len(os) + 1 < i)
  BY <1>1, <1>3
<1> QED
  BY <1>2, <1>4 DEF Open

\* One more drop in a Handle.
LEMMA DropJoin ==
  ASSUME NEW as \in Seq(Actions), NEW a \in Actions, NEW bs, bs = Append(as, a)
  PROVE  /\ \A k \in DOMAIN bs : (k \in DOMAIN as /\ bs[k] = as[k]) \/ bs[k] = a
         /\ Losses(as) = {} /\ a.reason # "loss.ge" => Losses(bs) = {}
         /\ Losses(as) = {} /\ a.reason = "loss.ge" => \E k \in DOMAIN bs : Losses(bs) = {k}
<1>1. PICK m \in Nat : m = Len(as)
  BY LenProperties
<1>2. bs \in Seq(Actions) /\ Len(bs) = m + 1 /\ bs[m + 1] = a
  BY <1>1, AppendProperties
<1>3. \A k \in 1..m : bs[k] = as[k]
  BY <1>1, AppendProperties
<1>4. DOMAIN as = 1..m /\ DOMAIN bs = 1..(m + 1)
  BY <1>1, <1>2, LenProperties
<1>5. \A k \in 1..(m + 1) : k = m + 1 \/ k \in 1..m
  OBVIOUS
<1>6. m + 1 \in 1..(m + 1) /\ m + 1 \notin 1..m
  OBVIOUS
<1>7. \A k \in DOMAIN bs : (k \in DOMAIN as /\ bs[k] = as[k]) \/ (k = m + 1 /\ bs[k] = a)
  BY <1>2, <1>3, <1>4, <1>5
<1>8. ASSUME Losses(as) = {}, a.reason # "loss.ge" PROVE Losses(bs) = {}
  BY <1>7, <1>8 DEF Losses
<1>9. ASSUME Losses(as) = {}, a.reason = "loss.ge" PROVE Losses(bs) = {m + 1} /\ m + 1 \in DOMAIN bs
  <2>1. \A k \in Losses(bs) : k = m + 1
    BY <1>7, <1>9 DEF Losses
  <2>2. m + 1 \in Losses(bs)
    BY <1>2, <1>4, <1>6, <1>9 DEF Losses
  <2> QED
    BY <1>4, <1>6, <2>1, <2>2
<1> QED
  BY <1>7, <1>8, <1>9

\* One invocation.
LEMMA BurstCellStep ==
  ASSUME EngineInv, DelayInv(PipeDelays), BurstInv, CellStep
  PROVE  BurstInv'
<1>1. PICK r : /\ r \in Process(Pipe[stage], Head(cur), heap)
               /\ ResultOK(r, heap)
               /\ Sound(Head(cur), heap) /\ Pipe[stage] \in Cell
               /\ pipelines' = [pipelines EXCEPT ![dir][stage] = r.cell]
               /\ heap' = r.heap
               /\ \/ /\ r.outs = << >>
                     /\ actions' = Append(actions, DropAction(Head(cur), Pipe[stage]))
                     /\ UNCHANGED <<next, copies>>
                  \/ /\ r.outs # << >> /\ next' = next \o r.outs
                     /\ copies' = copies + Len(r.outs) - 1
                     /\ UNCHANGED actions
  BY CellStepParts
<1>2. /\ stage \in DOMAIN Pipe /\ cur # << >> /\ cur' = Tail(cur)
      /\ UNCHANGED <<load, now, seq, stage, dir, out>>
  BY DEF CellStep
<1>3. /\ heap \in Seq(Nat) /\ cur \in Seq(Packets) /\ next \in Seq(Packets) /\ dir \in Dirs
      /\ pipelines \in [Dirs -> Seq(Cell)] /\ out \in Seq(Actions) /\ actions \in Seq(Actions)
  BY DEF EngineInv, AllSound
<1>4. stage \in Nat /\ stage >= 1 /\ stage <= Len(pipelines[dir]) /\ Len(pipelines[dir]) \in Nat
  BY <1>2, <1>3, LenProperties DEF Pipe
<1>5. /\ DOMAIN pipelines'[dir] = DOMAIN pipelines[dir]
      /\ pipelines'[dir] = [pipelines[dir] EXCEPT ![stage] = r.cell]
      /\ \A d \in Dirs : d # dir => pipelines'[d] = pipelines[d]
  BY <1>1, <1>3
<1> DEFINE c == Pipe[stage]
           f == Head(cur)
<1>6. /\ stage \in DOMAIN pipelines[dir]
      /\ \A k \in DOMAIN pipelines[dir] :
           pipelines'[dir][k] = IF k = stage THEN r.cell ELSE pipelines[dir][k]
  BY <1>2, <1>5 DEF Pipe
<1>7. f.dir = dir /\ f \in Packets
  BY <1>1, <1>2, <1>3, TailAtLeast DEF DelayInv, Sound
<1>8. DropAction(f, c) \in Actions /\ DropAction(f, c).dir = dir /\ DropAction(f, c).reason = c.kind
  BY <1>1, <1>7, DropActionType DEF DropAction
<1>9. c \in Cell /\ c = pipelines[dir][stage]
  BY <1>1 DEF Pipe
<1>10. r \in Process(c, f, heap)
  BY <1>1
<1> HIDE DEF c, f
<1>11. \/ /\ r.outs = << >> /\ actions' = Append(actions, DropAction(f, c))
          /\ next' = next
       \/ r.outs # << >> /\ next' = next \o r.outs /\ actions' = actions
  BY <1>1 DEF c, f
<1> DEFINE a == DropAction(f, c)
<1>20. ASSUME r.outs = << >>
       PROVE  /\ \A k \in DOMAIN actions' :
                   (k \in DOMAIN actions /\ actions'[k] = actions[k]) \/ actions'[k] = a
              /\ Losses(actions) = {} /\ c.kind # "loss.ge" => Losses(actions') = {}
              /\ Losses(actions) = {} /\ c.kind = "loss.ge" =>
                   \E k \in DOMAIN actions' : Losses(actions') = {k}
  <2>1. a \in Actions /\ a.reason = c.kind /\ actions' = Append(actions, a)
    BY <1>8, <1>11, <1>20
  <2> HIDE DEF a
  <2>2. PICK bs : bs = actions' /\ bs = Append(actions, a)
    BY <2>1
  <2>3. /\ \A k \in DOMAIN bs : (k \in DOMAIN actions /\ bs[k] = actions[k]) \/ bs[k] = a
        /\ Losses(actions) = {} /\ a.reason # "loss.ge" => Losses(bs) = {}
        /\ Losses(actions) = {} /\ a.reason = "loss.ge" =>
             \E k \in DOMAIN bs : Losses(bs) = {k}
    BY <1>3, <2>1, <2>2, DropJoin
  <2> QED
    BY <2>1, <2>2, <2>3
<1>12. \A k \in DOMAIN actions' : actions'[k].dir = dir'
  <2>1. \A k \in DOMAIN actions : actions[k].dir = dir
    BY DEF BurstInv
  <2>2. CASE r.outs = << >>
    BY <1>2, <1>8, <1>20, <2>1, <2>2
  <2>3. CASE r.outs # << >>
    BY <1>2, <1>11, <2>1, <2>3
  <2> QED
    BY <2>2, <2>3
<1> HIDE DEF a
<1>13. stage' # 0
  BY <1>2, <1>4
<1>14. PICK m \in Nat, l \in Nat : m = Len(cur) /\ l = Len(next) /\ m # 0
  BY <1>2, <1>3, LenProperties, EmptySeq
<1>15. cur' \in Seq(Packets) /\ Len(cur') = m - 1
  BY <1>2, <1>3, <1>14, HeadTailProperties
<1>16. r.outs \in Seq(Packets) /\ Len(r.outs) \in Nat /\ (r.outs # << >> => Len(r.outs) # 0)
  BY <1>1, LenProperties, EmptySeq DEF ResultOK, AllSound
<1>17. r.outs # << >> => next' \in Seq(Packets) /\ Len(next') = l + Len(r.outs)
  BY <1>3, <1>11, <1>14, <1>16, ConcatProperties
<1>18. r.outs # << >> => next' # << >>
  <2>1. r.outs # << >> => Len(next') # 0
    BY <1>14, <1>16, <1>17
  <2>2. Len(<< >>) = 0
    OBVIOUS
  <2> QED
    BY <2>1, <2>2
<1>21. ASSUME m + l <= 1, r.outs = << >> \/ Len(r.outs) = 1
       PROVE  Len(cur') + Len(next') <= 1 /\ cur' = << >>
  <2>1. m = 1 /\ l = 0
    BY <1>14, <1>21
  <2>2. Len(cur') = 0
    BY <1>15, <2>1
  <2>3. Len(next') \in Nat /\ Len(next') <= 1
    <3>1. CASE r.outs = << >>
      <4>1. next' = next
        BY <1>11, <3>1
      <4>2. Len(next') = l
        BY <1>14, <4>1
      <4> QED
        BY <2>1, <4>2
    <3>2. CASE r.outs # << >>
      <4>1. Len(next') = l + 1
        BY <1>17, <1>21, <3>2
      <4> QED
        BY <2>1, <4>1
    <3> QED
      BY <3>1, <3>2
  <2> QED
    BY <1>15, <2>2, <2>3, EmptySeq
<1>19. ASSUME NEW d \in Dirs, NEW n \in DOMAIN pipelines'[d], Isolated(pipelines'[d], n)
       PROVE  BurstOK(d, n)'
  <2>1. CASE d # dir
    <3>1. pipelines'[d] = pipelines[d] /\ dir' = dir /\ out' = out
      BY <1>2, <1>5, <2>1
    <3>2. Separated(out, d) /\ Calm(d, n)
      BY <1>19, <2>1, <3>1 DEF BurstInv, BurstOK
    <3> QED
      BY <2>1, <3>1, <3>2 DEF BurstOK, Calm
  <2>2. CASE d = dir
    <3>1. n \in DOMAIN pipelines[dir] /\ n \in Nat
      BY <1>3, <1>5, <2>2, LenProperties
    <3>2. Isolated(pipelines[dir], n)
      <4>1. /\ Classic(r.cell) => Classic(c)
            /\ Single(r.cell) => Single(c)
            /\ Lossless(r.cell) => Lossless(c)
        BY <1>9, <1>10, ConfigKept
      <4>2. ASSUME NEW k \in DOMAIN pipelines[dir]
            PROVE  /\ Classic(pipelines'[dir][k]) => Classic(pipelines[dir][k])
                   /\ Single(pipelines'[dir][k]) => Single(pipelines[dir][k])
                   /\ Lossless(pipelines'[dir][k]) => Lossless(pipelines[dir][k])
        BY <1>6, <1>9, <4>1
      <4> QED
        <5>1. Isolated(pipelines'[dir], n)
          BY <1>19, <2>2
        <5>2. Classic(pipelines[dir][n])
          BY <3>1, <4>2, <5>1 DEF Isolated
        <5>3. \A k \in DOMAIN pipelines[dir] :
                /\ k < n => Single(pipelines[dir][k])
                /\ n < k => Lossless(pipelines[dir][k])
          BY <1>5, <4>2, <5>1 DEF Isolated
        <5> QED
          BY <5>2, <5>3 DEF Isolated
    <3>3. BurstOK(dir, n) /\ dir' = dir /\ stage' = stage /\ out' = out /\ stage # 0
      <4>1. BurstOK(dir, n)
        BY <1>3, <3>1, <3>2 DEF BurstInv
      <4>2. stage # 0
        BY <1>4
      <4> QED
        BY <1>2, <4>1, <4>2
    <3>4. Separated(out, dir) /\ Losses(actions) = {}
      BY <1>2, <3>3 DEF BurstOK
    <3>5. SUFFICES /\ stage <= n => Len(cur') + Len(next') <= 1
                   /\ cur' # << >> \/ next' # << >> => Losses(actions') = {}
                   /\ (cur' # << >> /\ stage <= n) \/ (next' # << >> /\ stage < n) => Calm(dir, n)'
                   /\ cur' = << >> /\ next' = << >> =>
                        \/ Losses(actions') = {} /\ Calm(dir, n)'
                        \/ /\ \E k \in DOMAIN actions' : Losses(actions') = {k}
                           /\ ~ Open(out, dir) /\ pipelines'[dir][n].state = "good"
      BY <2>2, <3>3, <3>4 DEF BurstOK
    <3>6. stage # n /\ Calm(dir, n) => Calm(dir, n)'
      BY <1>6, <3>1, <3>3 DEF Calm
    <3>7. CASE stage < n
      <4>1. Single(c)
        BY <1>6, <1>9, <3>2, <3>7 DEF Isolated
      <4>2. r.outs = << >> \/ Len(r.outs) = 1
        BY <1>9, <1>10, <4>1, SingleStep
      <4>3. Len(cur) + Len(next) <= 1 /\ Calm(dir, n)
        BY <1>2, <1>4, <3>1, <3>3, <3>7 DEF BurstOK
      <4>4. m + l <= 1
        BY <1>14, <4>3
      <4>5. cur' = << >> /\ Len(cur') + Len(next') <= 1
        BY <1>21, <4>2, <4>4
      <4>6. Calm(dir, n)'
        BY <1>4, <3>1, <3>6, <3>7, <4>3
      <4>7. Losses(actions') = {}
        BY <1>11, <1>20, <3>4, <4>1 DEF Single
      <4> QED
        BY <4>5, <4>6, <4>7
    <3>8. CASE stage = n
      <4>1. Classic(c)
        BY <1>9, <3>2, <3>8 DEF Isolated
      <4>2. r.outs = << >> \/ Len(r.outs) = 1
        BY <1>9, <1>10, <4>1, ClassicStep
      <4>3. Len(cur) + Len(next) <= 1 /\ Calm(dir, n)
        BY <1>2, <1>4, <3>1, <3>3, <3>8 DEF BurstOK
      <4>4. m + l <= 1
        BY <1>14, <4>3
      <4>5. cur' = << >> /\ Len(cur') + Len(next') <= 1
        BY <1>21, <4>2, <4>4
      <4>7. CASE r.outs = << >>
        <5>1. c.state = "bad" /\ r.cell.state = "good"
          BY <1>9, <1>10, <4>1, <4>7, ClassicStep
        <5>2. ~ Open(out, dir)
          BY <1>9, <3>8, <4>3, <5>1 DEF Calm
        <5>3. pipelines'[dir][n].state = "good"
          BY <1>6, <3>1, <3>8, <5>1
        <5>4. \E k \in DOMAIN actions' : Losses(actions') = {k}
          BY <1>20, <3>4, <4>1, <4>7 DEF Classic
        <5>5. next' = << >>
          <6>1. Len(next) = 0
            BY <1>14, <4>4
          <6> QED
            BY <1>3, <1>11, <4>7, <6>1, EmptySeq
        <5> QED
          BY <4>5, <5>2, <5>3, <5>4, <5>5
      <4>8. CASE r.outs # << >>
        <5>1. Losses(actions') = {} /\ next' # << >>
          BY <1>11, <1>18, <3>4, <4>8
        <5>2. ~ (stage < n)
          BY <3>1, <3>8
        <5> QED
          BY <4>5, <5>1, <5>2
      <4> QED
        BY <4>7, <4>8
    <3>9. CASE n < stage
      <4>1. Lossless(c)
        BY <1>6, <1>9, <3>2, <3>9 DEF Isolated
      <4>2. r.outs # << >>
        BY <1>9, <1>10, <4>1, LosslessStep
      <4>3. Losses(actions') = {} /\ next' # << >>
        BY <1>11, <1>18, <3>4, <4>2
      <4>4. ~ (stage <= n) /\ ~ (stage < n)
        BY <1>4, <3>1, <3>9
      <4> QED
        BY <4>3, <4>4
    <3> QED
      BY <1>4, <3>1, <3>7, <3>8, <3>9
  <2> QED
    BY <2>1, <2>2
<1> QED
  BY <1>12, <1>13, <1>19 DEF BurstInv

\* A packet enters: nothing is under way.
LEMMA BurstIngress ==
  ASSUME EngineInv, BurstInv, NEW d \in Dirs, NEW len \in Lengths, Ingress(d, len)
  PROVE  BurstInv'
<1>1. /\ stage = 0 /\ dir' = d /\ stage' = 1 /\ Len(cur') = 1
      /\ UNCHANGED <<pipelines, next, actions, out>>
  BY DEF Ingress
<1>2. next = << >>
  <2>1. Pipe \in Seq(Cell)
    BY DEF EngineInv, Pipe
  <2>2. stage \notin DOMAIN Pipe
    BY <1>1, <2>1, LenProperties
  <2> QED
    BY <2>2 DEF EngineInv
<1>3. actions = << >> /\ Losses(actions) = {}
  BY <1>1 DEF BurstInv, Losses
<1>4. cur' # << >> /\ Len(cur') + Len(next') <= 1
  <2>1. Len(next') = 0
    BY <1>1, <1>2
  <2>2. cur' # << >>
    <3>1. Len(<< >>) = 0
      OBVIOUS
    <3> QED
      BY <1>1, <3>1
  <2> QED
    BY <1>1, <2>1, <2>2
<1>5. ASSUME NEW e \in Dirs, NEW n \in DOMAIN pipelines'[e], Isolated(pipelines'[e], n)
      PROVE  BurstOK(e, n)'
  <2>1. BurstOK(e, n)
    BY <1>1, <1>5 DEF BurstInv
  <2>2. Separated(out, e) /\ Calm(e, n)
    BY <1>1, <2>1 DEF BurstOK
  <2>3. Calm(e, n)' /\ Separated(out', e) /\ Losses(actions') = {}
    BY <1>1, <1>3, <2>2 DEF Calm
  <2> QED
    BY <1>4, <2>3 DEF BurstOK
<1> QED
  BY <1>1, <1>3, <1>5 DEF BurstInv

\* The packets move on to the next stage.
LEMMA BurstNextStage ==
  ASSUME EngineInv, BurstInv, NextStage
  PROVE  BurstInv'
<1>1. /\ stage \in DOMAIN Pipe /\ cur = << >> /\ stage' = stage + 1 /\ cur' = next /\ next' = << >>
      /\ UNCHANGED <<pipelines, dir, actions, out>>
  BY DEF NextStage
<1>2. stage \in Nat /\ stage # 0 /\ stage' # 0
  <2>1. Pipe \in Seq(Cell)
    BY DEF Pipe, EngineInv
  <2>2. stage \in Nat /\ stage >= 1
    BY <1>1, <2>1, LenProperties
  <2> QED
    BY <1>1, <2>2
<1>3. next \in Seq(Packets) /\ Len(cur) = 0 /\ Len(next') = 0 /\ Len(next) \in Nat
  BY <1>1, LenProperties DEF EngineInv, AllSound
<1>4. ASSUME NEW e \in Dirs, NEW n \in DOMAIN pipelines'[e], Isolated(pipelines'[e], n)
      PROVE  BurstOK(e, n)'
  <2>1. BurstOK(e, n)
    BY <1>1, <1>4 DEF BurstInv
  <2>2. Calm(e, n) => Calm(e, n)'
    BY <1>1 DEF Calm
  <2>3. CASE e # dir
    BY <1>1, <1>2, <2>1, <2>2, <2>3 DEF BurstOK
  <2>4. CASE e = dir
    <3>1. n \in Nat
      BY <1>1, <1>4, LenProperties DEF EngineInv
    <3>2. /\ stage' <= n => stage < n /\ stage <= n
          /\ Len(next) <= 1 => Len(cur') + Len(next') <= 1
      BY <1>1, <1>2, <1>3, <3>1
    <3>3. /\ stage' <= n => Len(cur') + Len(next') <= 1
          /\ cur' # << >> \/ next' # << >> => Losses(actions') = {}
      <4>1. stage' <= n => Len(next) <= 1
        BY <1>2, <1>3, <2>1, <2>4, <3>2 DEF BurstOK
      <4>2. next # << >> => Losses(actions) = {}
        BY <1>2, <2>1, <2>4 DEF BurstOK
      <4> QED
        BY <1>1, <3>2, <4>1, <4>2
    <3>4. (cur' # << >> /\ stage' <= n) \/ (next' # << >> /\ stage' < n) => Calm(e, n)'
      BY <1>1, <1>2, <2>1, <2>2, <2>4, <3>2 DEF BurstOK
    <3>5. cur' = << >> /\ next' = << >> =>
            \/ Losses(actions') = {} /\ Calm(e, n)'
            \/ /\ \E k \in DOMAIN actions' : Losses(actions') = {k}
               /\ ~ Open(out, e) /\ pipelines'[e][n].state = "good"
      BY <1>1, <1>2, <2>1, <2>2, <2>4 DEF BurstOK
    <3>6. Separated(out', e)
      BY <1>1, <2>1 DEF BurstOK
    <3> QED
      BY <1>1, <1>2, <2>4, <3>3, <3>4, <3>5, <3>6 DEF BurstOK
  <2> QED
    BY <2>3, <2>4
<1>5. \A k \in DOMAIN actions' : actions'[k].dir = dir'
  BY <1>1 DEF BurstInv
<1> QED
  BY <1>2, <1>4, <1>5 DEF BurstInv

\* The actions of a Handle are returned.
LEMMA BurstReturn ==
  ASSUME EngineInv, DelayInv(PipeDelays), BurstInv, Return
  PROVE  BurstInv'
<1> DEFINE fwds == [i \in DOMAIN cur |-> ForwardAction(cur[i])]
           mid  == out \o actions
<1>1. /\ stage = Len(Pipe) + 1 /\ out' = mid \o fwds
      /\ stage' = 0 /\ actions' = << >>
      /\ UNCHANGED <<pipelines, dir, next>>
  BY DEF Return
<1>2. /\ cur \in Seq(Packets) /\ actions \in Seq(Actions) /\ out \in Seq(Actions) /\ heap \in Seq(Nat)
      /\ \A i \in DOMAIN cur : Sound(cur[i], heap)
  BY DEF EngineInv, AllSound
<1>3. Len(Pipe) \in Nat /\ stage \notin DOMAIN Pipe /\ stage # 0
  <2>1. Pipe \in Seq(Cell)
    BY DEF EngineInv, Pipe
  <2>2. PICK n \in Nat : n = Len(Pipe) /\ DOMAIN Pipe = 1..n
    BY <2>1, LenProperties
  <2>3. stage = n + 1
    BY <1>1, <2>2
  <2> QED
    BY <2>2, <2>3
<1>4. next = << >>
  BY <1>3 DEF EngineInv
<1>5. fwds \in Seq(Actions) /\ Len(fwds) = Len(cur) /\ \A k \in DOMAIN cur : fwds[k] = ForwardAction(cur[k])
  <2>1. \A j \in DOMAIN cur : ForwardAction(cur[j]) \in Actions
    BY <1>2, ForwardActionType
  <2>2. Len(cur) \in Nat /\ DOMAIN cur = 1..Len(cur)
    BY <1>2, LenProperties
  <2> QED
    BY <2>1, <2>2
<1>6. DOMAIN fwds = DOMAIN cur
  OBVIOUS
<1> HIDE DEF fwds
<1>7. /\ \A j \in DOMAIN actions : actions[j].kind = "drop" /\ actions[j].dir = dir
      /\ \A k \in DOMAIN cur : cur[k].dir = dir
  BY DEF DelayInv, AtLeast, BurstInv
<1>8. \A k \in DOMAIN fwds : fwds[k].kind = "forward" /\ fwds[k].dir = dir
  BY <1>5, <1>6, <1>7 DEF ForwardAction
<1>9. Joined(mid, out, actions) /\ mid \in Seq(Actions)
  BY <1>2, JoinedParts
<1> HIDE DEF mid
<1>10. Joined(out', mid, fwds)
  BY <1>1, <1>5, <1>9, JoinedParts
<1>11. \A d \in Dirs : ChainDrops(fwds, d) = {}
  BY <1>8 DEF ChainDrops
<1>12. ChainDrops(actions, dir) = Losses(actions) /\ \A d : d # dir => ChainDrops(actions, d) = {}
  BY <1>7 DEF ChainDrops, Losses
<1>13. ASSUME NEW d \in Dirs, NEW n \in DOMAIN pipelines'[d], Isolated(pipelines'[d], n)
       PROVE  BurstOK(d, n)'
  <2>1. BurstOK(d, n)
    BY <1>1, <1>13 DEF BurstInv
  <2>2. Separated(out, d)
    BY <2>1 DEF BurstOK
  <2>3. SUFFICES Separated(out', d) /\ (Open(out', d) => pipelines[d][n].state = "good")
    BY <1>1 DEF BurstOK, Calm
  <2>4. /\ Separated(mid, d) => Separated(out', d)
        /\ Open(out', d) => Open(mid, d)
    BY <1>10, <1>11, QuietJoin
  <2>5. CASE d # dir
    <3>1. Separated(mid, d) /\ (Open(mid, d) => Open(out, d))
      BY <1>9, <1>12, <2>2, <2>5, QuietJoin
    <3> QED
      BY <2>1, <2>4, <2>5, <3>1 DEF BurstOK, Calm
  <2>6. CASE d = dir /\ cur # << >>
    <3>1. Losses(actions) = {}
      BY <1>3, <2>1, <2>6 DEF BurstOK
    <3>2. Separated(mid, d)
      BY <1>9, <1>12, <2>2, <2>6, <3>1, QuietJoin
    <3>3. 1 \in DOMAIN fwds
      <4>1. Len(cur) \in Nat \ {0} /\ DOMAIN cur = 1..Len(cur)
        BY <1>2, <2>6, LenProperties, EmptySeq
      <4> QED
        BY <1>6, <4>1
    <3>4. ~ Open(out', d)
      BY <1>8, <1>10, <1>11, <2>6, <3>3, ForwardJoin
    <3> QED
      BY <2>4, <3>2, <3>4
  <2>7. CASE d = dir /\ cur = << >>
    <3>1. \/ Losses(actions) = {} /\ Calm(d, n)
          \/ /\ \E k \in DOMAIN actions : Losses(actions) = {k}
             /\ ~ Open(out, d) /\ pipelines[d][n].state = "good"
      BY <1>3, <1>4, <2>1, <2>7 DEF BurstOK
    <3>2. CASE Losses(actions) = {} /\ Calm(d, n)
      <4>1. Separated(mid, d) /\ (Open(mid, d) => Open(out, d))
        BY <1>9, <1>12, <2>2, <2>7, <3>2, QuietJoin
      <4> QED
        BY <2>4, <3>2, <4>1 DEF Calm
    <3>3. CASE /\ \E k \in DOMAIN actions : Losses(actions) = {k}
               /\ ~ Open(out, d) /\ pipelines[d][n].state = "good"
      <4>1. Separated(mid, d)
        BY <1>9, <1>12, <2>2, <2>7, <3>3, LossJoin
      <4> QED
        BY <2>4, <3>3, <4>1
    <3> QED
      BY <3>1, <3>2, <3>3
  <2> QED
    BY <2>5, <2>6, <2>7
<1> QED
  BY <1>1, <1>13 DEF BurstInv

\* A Gilbert-Elliott cell whose bad state lasts for one packet loses no two packets in
\* a row (internal/cells/loss), in every pipeline in which the chain sees each packet
\* once and nothing behind it drops, whatever delays, drops and reorders before it.
THEOREM BurstsProved == Spec => [](ChainsIsolated => OnePacketBursts)
<1> DEFINE I == DelayInv(PipeDelays)
<1>1. ASSUME Init PROVE BurstInv
  <2>1. out = << >> /\ actions = << >> /\ stage = 0
    BY <1>1 DEF Init
  <2>2. \A d : Separated(out, d) /\ ~ Open(out, d)
    BY <2>1 DEF Separated, Open, ChainDrops
  <2>3. \A d, n : BurstOK(d, n)
    BY <2>1, <2>2 DEF BurstOK, Calm
  <2> QED
    BY <2>1, <2>3 DEF BurstInv
<1>2. ASSUME EngineInv, I, BurstInv, [Next]_vars PROVE BurstInv'
  <2>1. CASE Advance \/ UNCHANGED vars
    <3>1. UNCHANGED <<pipelines, stage, dir, cur, next, actions, out>>
      BY <2>1 DEF Advance, vars
    <3> QED
      BY <1>2, <3>1 DEF BurstInv, BurstOK, Calm
  <2>2. CASE \E d \in Dirs, len \in Lengths : Ingress(d, len)
    BY <1>2, <2>2, BurstIngress
  <2>3. CASE CellStep
    BY <1>2, <2>3, BurstCellStep
  <2>4. CASE NextStage
    BY <1>2, <2>4, BurstNextStage
  <2>5. CASE Return
    BY <1>2, <2>5, BurstReturn
  <2> QED
    BY <1>2, <2>1, <2>2, <2>3, <2>4, <2>5 DEF Next
<1>3. ASSUME EngineInv, BurstInv, ChainsIsolated PROVE OnePacketBursts
  <2> SUFFICES ASSUME NEW i \in Drops, NEW j \in Drops, out[i].dir = out[j].dir, i < j,
                      out[i].reason = "loss.ge", out[j].reason = "loss.ge",
                      NEW n \in DOMAIN pipelines[out[i].dir],
                      Classic(pipelines[out[i].dir][n])
               PROVE  \E k \in Forwards : i < k /\ k < j /\ out[k].dir = out[i].dir
    BY DEF OnePacketBursts, Classic
  <2> DEFINE d == out[i].dir
  <2>1. d \in Dirs
    <3>1. out[i] \in Actions /\ out[i].kind = "drop"
      BY <1>3, ElementOfSeq, LenProperties DEF EngineInv, Drops
    <3> QED
      BY <3>1 DEF Actions, DropActions, ForwardActions
  <2>2. Isolated(pipelines[d], n)
    BY <1>3, <2>1 DEF ChainsIsolated
  <2>3. Separated(out, d)
    BY <1>3, <2>1, <2>2 DEF BurstInv, BurstOK
  <2>4. i \in ChainDrops(out, d) /\ j \in ChainDrops(out, d)
    BY DEF ChainDrops, Drops
  <2>5. PICK k \in ForwardsTo(out, d) : i < k /\ k < j
    BY <2>3, <2>4 DEF Separated
  <2> QED
    BY <2>5 DEF ForwardsTo, Forwards
<1>4. Init => I
  BY PipeDelaysOK, DelayInit
<1>5. EngineInv /\ EngineInv' /\ I /\ [Next]_vars => I'
  BY PipeDelaysOK, DelayStep
<1> QED
  BY <1>1, <1>2, <1>3, <1>4, <1>5, EngineInductive, PTL DEF Spec
-----------------------------------------------------------------------------
(***************************************************************************)
(* The delivery trace.  First its arithmetic: when an opportunity is, and  *)
(* which one the search finds.  Then what it grants: at every step, the    *)
(* k-th forward is due when k opportunities were there.                    *)
(***************************************************************************)
\* A schedule as ParseDeliveryTrace and NewDeliveryTrace make them: sorted, and no
\* time is negative.
Scheduled(c) ==
  /\ c.kind = "deliverytrace" /\ c.sched \in Seq(Nat)
  /\ \A i, j \in DOMAIN c.sched : i <= j => c.sched[i] <= c.sched[j]

\* Quotient and remainder of naturals.
LEMMA DivMod ==
  ASSUME NEW i \in Nat, NEW n \in Nat \ {0}
  PROVE  i \div n \in Nat /\ i % n \in 0..(n - 1) /\ i = n * (i \div n) + (i % n)
<1>1. i \div n \in Nat
  BY DivNat
<1>2. i % n \in 0..(n - 1) /\ i = n * (i \div n) + (i % n)
  OBVIOUS
<1> QED
  BY <1>1, <1>2

\* Multiples are ordered as their factors.
LEMMA TimesMono ==
  ASSUME NEW a \in Nat, NEW b \in Nat, a <= b, NEW n \in Nat
  PROVE  n * a \in Nat /\ n * b \in Nat /\ n * a <= n * b
<1>1. PICK k \in Nat : b = a + k
  <2>1. b - a \in Nat /\ b = a + (b - a)
    OBVIOUS
  <2> QED
    BY <2>1
<1>2. n * b = n * a + n * k /\ n * k \in Nat /\ n * a \in Nat
  BY <1>1
<1> QED
  BY <1>2

\* They are the only ones.
LEMMA DivModOnly ==
  ASSUME NEW n \in Nat \ {0}, NEW q \in Nat, NEW r \in 0..(n - 1), NEW i, i = n * q + r
  PROVE  i \in Nat /\ i \div n = q /\ i % n = r
<1>1. i \in Nat
  BY TimesMono
<1>2. PICK p \in Nat, s \in 0..(n - 1) : p = i \div n /\ s = i % n /\ i = n * p + s
  BY <1>1, DivMod
<1>3. ~ (p < q)
  <2> SUFFICES ASSUME p + 1 <= q PROVE FALSE
    BY <1>2
  <2>1. n * (p + 1) <= n * q /\ n * q \in Nat
    BY TimesMono, <1>2
  <2>2. n * (p + 1) = n * p + n /\ n * p \in Nat
    BY <1>2
  <2> QED
    BY <1>2, <2>1, <2>2
<1>4. ~ (q < p)
  <2> SUFFICES ASSUME q + 1 <= p PROVE FALSE
    BY <1>2
  <2>1. n * (q + 1) <= n * p /\ n * p \in Nat
    BY TimesMono, <1>2
  <2>2. n * (q + 1) = n * q + n /\ n * q \in Nat
    OBVIOUS
  <2> QED
    BY <1>2, <2>1, <2>2
<1>5. p = q
  BY <1>2, <1>3, <1>4
<1>6. n * q \in Nat
  BY TimesMono
<1>7. s = r
  BY <1>2, <1>5, <1>6
<1> QED
  BY <1>1, <1>2, <1>5, <1>7

\* A schedule that offers an opportunity, its length and its period.
LEMMA SchedTypes ==
  ASSUME NEW c, Scheduled(c), c.sched # << >>
  PROVE  /\ Len(c.sched) \in Nat \ {0} /\ DOMAIN c.sched = 1..Len(c.sched)
         /\ Period(c) \in Nat /\ Period(c) = c.sched[Len(c.sched)]
         /\ \A k \in 1..Len(c.sched) : c.sched[k] \in Nat /\ c.sched[k] <= Period(c)
<1>1. c.sched \in Seq(Nat)
  BY DEF Scheduled
<1>2. Len(c.sched) \in Nat \ {0} /\ DOMAIN c.sched = 1..Len(c.sched)
  BY <1>1, LenProperties, EmptySeq
<1>3. \A k \in 1..Len(c.sched) : c.sched[k] \in Nat
  BY <1>1, <1>2, ElementOfSeq
<1>4. Len(c.sched) \in 1..Len(c.sched)
  BY <1>2
<1>5. Period(c) = c.sched[Len(c.sched)]
  BY DEF Period
<1>6. \A k \in 1..Len(c.sched) : c.sched[k] <= c.sched[Len(c.sched)]
  BY <1>2, <1>4 DEF Scheduled
<1> QED
  BY <1>2, <1>3, <1>4, <1>5, <1>6

\* The time of the opportunity at place r of cycle q.
LEMMA TimeAt ==
  ASSUME NEW c, Scheduled(c), c.sched # << >>, NEW q \in Nat, NEW r \in 0..(Len(c.sched) - 1),
         NEW i, i = Len(c.sched) * q + r
  PROVE  /\ i \in Nat /\ OppTimeMs(c, i) = Period(c) * q + c.sched[r + 1]
         /\ OppTimeMs(c, i) \in Nat
<1>1. PICK n \in Nat \ {0} : n = Len(c.sched)
  BY SchedTypes
<1>2. i \in Nat /\ i \div n = q /\ i % n = r
  BY <1>1, DivModOnly
<1>3. OppTimeMs(c, i) = q * Period(c) + c.sched[r + 1]
  BY <1>1, <1>2 DEF OppTimeMs
<1>4. PICK p \in Nat : p = Period(c)
  BY SchedTypes
<1>5. q * p = p * q /\ p * q \in Nat
  BY TimesMono
<1>6. r + 1 \in 1..Len(c.sched)
  BY <1>1
<1>7. c.sched[r + 1] \in Nat
  BY <1>6, SchedTypes
<1> QED
  BY <1>2, <1>3, <1>4, <1>5, <1>7

\* Opportunity i is at place r of cycle q.
Placed(c, i, q, r) ==
  /\ q \in Nat /\ r + 1 \in 1..Len(c.sched) /\ i = Len(c.sched) * q + r
  /\ r \in Nat /\ OppTimeMs(c, i) = Period(c) * q + c.sched[r + 1]

\* Every opportunity has a cycle and a place in it.
LEMMA OppAt ==
  ASSUME NEW c, Scheduled(c), c.sched # << >>, NEW i \in Nat
  PROVE  \E q, r : Placed(c, i, q, r)
<1>1. PICK n \in Nat \ {0} : n = Len(c.sched)
  BY SchedTypes
<1>2. PICK q \in Nat, r \in 0..(n - 1) : i = n * q + r
  BY DivMod
<1>3. r \in Nat /\ r + 1 \in 1..n
  BY <1>2
<1>4. OppTimeMs(c, i) = Period(c) * q + c.sched[r + 1]
  BY <1>1, <1>2, TimeAt
<1>5. Placed(c, i, q, r)
  BY <1>1, <1>2, <1>3, <1>4 DEF Placed
<1> QED
  BY <1>5

\* The time of an opportunity.
LEMMA TimeType ==
  ASSUME NEW c, Scheduled(c), c.sched # << >>, NEW i \in Nat
  PROVE  OppTimeMs(c, i) \in Nat
<1>1. PICK n \in Nat \ {0} : n = Len(c.sched)
  BY SchedTypes
<1>2. PICK q \in Nat, r \in 0..(n - 1) : i = n * q + r
  BY DivMod
<1> QED
  BY <1>1, <1>2, TimeAt

\* Later opportunities are not at earlier times.
LEMMA TimesSorted ==
  ASSUME NEW c, Scheduled(c), c.sched # << >>, NEW i \in Nat, NEW j \in Nat, i <= j
  PROVE  OppTimeMs(c, i) <= OppTimeMs(c, j)
<1>1. PICK n \in Nat \ {0}, p \in Nat : n = Len(c.sched) /\ p = Period(c)
  BY SchedTypes
<1>2. PICK q, r : Placed(c, i, q, r)
  BY OppAt
<1>3. PICK u, v : Placed(c, j, u, v)
  BY OppAt
<1>4. /\ q \in Nat /\ r \in Nat /\ r + 1 \in 1..n /\ i = n * q + r
      /\ OppTimeMs(c, i) = p * q + c.sched[r + 1]
  BY <1>1, <1>2 DEF Placed
<1>5. /\ u \in Nat /\ v \in Nat /\ v + 1 \in 1..n /\ j = n * u + v
      /\ OppTimeMs(c, j) = p * u + c.sched[v + 1]
  BY <1>1, <1>3 DEF Placed
<1>6. PICK x \in Nat, y \in Nat : x = c.sched[r + 1] /\ y = c.sched[v + 1] /\ x <= p
  BY <1>1, <1>4, <1>5, SchedTypes
<1>7. n * q \in Nat /\ n * u \in Nat /\ p * q \in Nat /\ p * u \in Nat
  BY <1>4, <1>5, TimesMono
<1>8. CASE q = u
  <2>1. r + 1 <= v + 1
    BY <1>4, <1>5, <1>7, <1>8
  <2>2. r + 1 \in DOMAIN c.sched /\ v + 1 \in DOMAIN c.sched
    BY <1>1, <1>4, <1>5, SchedTypes
  <2>3. x <= y
    BY <1>6, <2>1, <2>2 DEF Scheduled
  <2> QED
    BY <1>4, <1>5, <1>6, <1>7, <1>8, <2>3
<1>9. CASE q + 1 <= u
  <2>1. p * (q + 1) <= p * u
    BY <1>4, <1>5, <1>9, TimesMono
  <2>2. p * (q + 1) = p * q + p
    BY <1>4
  <2>3. p * q + x <= p * u + y
    BY <1>6, <1>7, <2>1, <2>2
  <2> QED
    BY <1>4, <1>5, <1>6, <2>3
<1>10. CASE u + 1 <= q
  <2>1. n * (u + 1) <= n * q
    BY <1>4, <1>5, <1>10, TimesMono
  <2>2. n * (u + 1) = n * u + n
    BY <1>5
  <2>3. v < n
    BY <1>5
  <2>4. j < i
    BY <1>4, <1>5, <1>7, <2>1, <2>2, <2>3
  <2> QED
    BY <2>4
<1> QED
  BY <1>4, <1>5, <1>8, <1>9, <1>10

\* The first s of the n times of a schedule are the ones before x.
Before(c, n, x, s) ==
  /\ s \in Nat /\ s <= n /\ s = SearchSched(c, x)
  /\ \A k \in 1..n : c.sched[k] < x <=> k <= s

\* sort.Search: the times before x are those up to the place found.
LEMMA SearchExact ==
  ASSUME NEW c, Scheduled(c), NEW x \in Int
  PROVE  \E s : Before(c, Len(c.sched), x, s)
<1>1. c.sched \in Seq(Nat)
  BY DEF Scheduled
<1>2. PICK n \in Nat : n = Len(c.sched) /\ DOMAIN c.sched = 1..n
  BY <1>1, LenProperties
<1>3. \A k \in 1..n : c.sched[k] \in Nat
  BY <1>1, <1>2, ElementOfSeq
<1> DEFINE T == {m \in Nat : m >= n \/ ~ (c.sched[m + 1] < x)}
<1>4. PICK m \in T : \A y \in T : m <= y
  <2>1. T \subseteq Nat /\ n \in T
    OBVIOUS
  <2> HIDE DEF T
  <2> QED
    BY <2>1, LeastNat
<1>5. m \in Nat /\ m <= n
  <2>1. n \in T
    OBVIOUS
  <2> QED
    BY <1>4, <2>1
<1>6. ASSUME NEW k \in 1..n PROVE c.sched[k] < x <=> k <= m
  <2>1. CASE k <= m
    <3>1. k - 1 \in Nat /\ ~ (m <= k - 1)
      BY <1>5, <2>1
    <3>2. k - 1 \notin T
      BY <1>4, <3>1
    <3>3. c.sched[(k - 1) + 1] < x
      BY <3>1, <3>2
    <3>4. (k - 1) + 1 = k
      OBVIOUS
    <3> QED
      BY <2>1, <3>3, <3>4
  <2>2. CASE ~ (k <= m)
    <3>1. m + 1 \in 1..n /\ m + 1 <= k /\ ~ (m >= n)
      BY <1>2, <1>5, <2>2
    <3>2. ~ (c.sched[m + 1] < x)
      BY <1>4, <3>1
    <3>3. c.sched[m + 1] <= c.sched[k]
      BY <1>2, <3>1 DEF Scheduled
    <3> QED
      BY <1>3, <2>2, <3>1, <3>2, <3>3
  <2> QED
    BY <2>1, <2>2
<1> HIDE DEF T
<1>7. {k \in DOMAIN c.sched : c.sched[k] < x} = 1..m
  BY <1>2, <1>5, <1>6
<1>8. Cardinality(1..m) = m
  BY <1>5, FS_Interval
<1>9. SearchSched(c, x) = m
  BY <1>7, <1>8 DEF SearchSched
<1> QED
  BY <1>2, <1>5, <1>6, <1>9 DEF Before

\* What firstOppAtOrAfter promises of its result for an arrival at ms.
FirstFound(c, ms, got) ==
  \/ /\ got = -1
     /\ \A i \in Nat : OppExists(c, i) => OppTimeMs(c, i) < ms
  \/ /\ got \in Nat /\ got <= (ms + 2) * Len(c.sched) /\ OppExists(c, got)
     /\ OppTimeMs(c, got) >= ms
     /\ \A i \in Nat : i < got => OppTimeMs(c, i) <= ms

\* A schedule that does not loop.
LEMMA FirstOnce ==
  ASSUME NEW c, Scheduled(c), c.sched # << >>, c.loop = FALSE, NEW ms \in Nat
  PROVE  FirstFound(c, ms, FirstOppAtOrAfter(c, ms))
<1>1. PICK n \in Nat \ {0} : n = Len(c.sched)
  BY SchedTypes
<1>2. PICK s \in 0..n : /\ s = SearchSched(c, ms)
                        /\ \A k \in 1..n : c.sched[k] < ms <=> k <= s
  <2>1. ms \in Int
    BY <1>1
  <2>2. PICK s : Before(c, n, ms, s)
    BY <1>1, <2>1, SearchExact
  <2> QED
    BY <1>1, <2>2 DEF Before
<1>3. FirstOppAtOrAfter(c, ms) = IF s >= n THEN -1 ELSE s
  BY <1>1, <1>2 DEF FirstOppAtOrAfter
<1>4. \A i \in Nat : OppExists(c, i) <=> i < n
  BY <1>1 DEF OppExists
<1>5. ASSUME NEW i \in Nat, i < n
      PROVE  /\ i + 1 \in 1..n /\ OppTimeMs(c, i) = c.sched[i + 1] /\ OppTimeMs(c, i) \in Nat
  <2>1. i \in 0..(n - 1) /\ n * 0 + i = i
    BY <1>5
  <2>2. OppTimeMs(c, i) = Period(c) * 0 + c.sched[i + 1] /\ OppTimeMs(c, i) \in Nat
    BY <1>1, <2>1, TimeAt
  <2>3. PICK p \in Nat : p = Period(c)
    BY SchedTypes
  <2>4. p * 0 = 0
    OBVIOUS
  <2>5. i + 1 \in 1..n
    BY <1>5
  <2>6. c.sched[i + 1] \in Nat
    BY <1>1, <2>5, SchedTypes
  <2> QED
    BY <2>2, <2>3, <2>4, <2>5, <2>6
<1>6. CASE s >= n
  <2>1. ASSUME NEW i \in Nat, OppExists(c, i) PROVE OppTimeMs(c, i) < ms
    <3>1. i + 1 \in 1..n /\ OppTimeMs(c, i) = c.sched[i + 1] /\ i + 1 <= s
      BY <1>4, <1>5, <1>6, <2>1
    <3> QED
      BY <1>2, <3>1
  <2> QED
    BY <1>3, <1>6, <2>1 DEF FirstFound
<1>7. CASE s < n
  <2>1. s \in Nat /\ OppExists(c, s) /\ s + 1 \in 1..n /\ ~ (s + 1 <= s)
    BY <1>2, <1>4, <1>7
  <2>2. OppTimeMs(c, s) = c.sched[s + 1] /\ OppTimeMs(c, s) \in Nat
    BY <1>5, <1>7, <2>1
  <2>3. OppTimeMs(c, s) >= ms
    BY <1>2, <2>1, <2>2
  <2>4. ASSUME NEW i \in Nat, i < s PROVE OppTimeMs(c, i) <= ms
    <3>1. i < n /\ i + 1 <= s
      BY <1>7, <2>1, <2>4
    <3>2. OppTimeMs(c, i) = c.sched[i + 1] /\ i + 1 \in 1..n /\ OppTimeMs(c, i) \in Nat
      BY <1>5, <3>1
    <3> QED
      BY <1>2, <3>1, <3>2
  <2>5. s <= (ms + 2) * n
    <3>1. n * 1 <= n * (ms + 2)
      BY TimesMono
    <3>2. n * 1 = n /\ n * (ms + 2) = (ms + 2) * n
      OBVIOUS
    <3> QED
      BY <1>7, <2>1, <3>1, <3>2
  <2>6. ~ (s >= n)
    BY <1>7
  <2> QED
    BY <1>1, <1>3, <2>1, <2>3, <2>4, <2>5, <2>6 DEF FirstFound
<1> QED
  BY <1>6, <1>7

\* A schedule that loops on the spot: all its opportunities are at the base.
LEMMA FirstStill ==
  ASSUME NEW c, Scheduled(c), c.sched # << >>, c.loop = TRUE, Period(c) = 0, NEW ms \in Nat
  PROVE  FirstFound(c, ms, FirstOppAtOrAfter(c, ms))
<1>1. PICK n \in Nat \ {0} : n = Len(c.sched)
  BY SchedTypes
<1>2. PICK s \in 0..n : /\ s = SearchSched(c, ms)
                        /\ \A k \in 1..n : c.sched[k] < ms <=> k <= s
  <2>1. ms \in Int
    BY <1>1
  <2>2. PICK s : Before(c, n, ms, s)
    BY <1>1, <2>1, SearchExact
  <2> QED
    BY <1>1, <2>2 DEF Before
<1>3. FirstOppAtOrAfter(c, ms) = IF ms <= 0 THEN s ELSE -1
  BY <1>1, <1>2 DEF FirstOppAtOrAfter
<1>4. ASSUME NEW i \in Nat PROVE OppTimeMs(c, i) = 0
  <2>1. PICK q, r : Placed(c, i, q, r)
    BY OppAt
  <2>2. q \in Nat /\ r + 1 \in 1..n /\ OppTimeMs(c, i) = 0 * q + c.sched[r + 1]
    BY <1>1, <2>1 DEF Placed
  <2>3. c.sched[r + 1] \in Nat /\ c.sched[r + 1] <= 0
    BY <1>1, <2>2, SchedTypes
  <2>4. c.sched[r + 1] = 0 /\ 0 * q = 0
    BY <2>2, <2>3
  <2> QED
    BY <2>2, <2>4
<1>5. CASE ms > 0
  <2>1. FirstOppAtOrAfter(c, ms) = -1
    BY <1>3, <1>5
  <2>2. \A i \in Nat : OppExists(c, i) => OppTimeMs(c, i) < ms
    BY <1>4, <1>5
  <2> QED
    BY <2>1, <2>2 DEF FirstFound
<1>6. CASE ms = 0
  <2>1. 1 \in 1..n /\ c.sched[1] \in Nat
    BY <1>1, SchedTypes
  <2>2. ~ (c.sched[1] < ms)
    BY <1>6, <2>1
  <2>3. s = 0
    BY <1>2, <2>1, <2>2
  <2>4. OppExists(c, 0) /\ 0 <= (ms + 2) * Len(c.sched)
    <3>1. n * (ms + 2) \in Nat /\ n * (ms + 2) = (ms + 2) * n
      BY TimesMono
    <3>2. 0 <= n * (ms + 2)
      BY <3>1
    <3>3. OppExists(c, 0)
      BY <1>1 DEF OppExists
    <3> QED
      BY <1>1, <3>1, <3>2, <3>3
  <2>5. FirstOppAtOrAfter(c, ms) = 0 /\ OppTimeMs(c, 0) >= ms
    BY <1>3, <1>4, <1>6, <2>3
  <2>6. \A i \in Nat : i < 0 => OppTimeMs(c, i) <= ms
    OBVIOUS
  <2>7. FirstFound(c, ms, 0)
    BY <2>4, <2>5, <2>6 DEF FirstFound
  <2> QED
    BY <2>5, <2>7
<1> QED
  BY <1>5, <1>6

\* A schedule that loops with a period.
LEMMA FirstLooped ==
  ASSUME NEW c, Scheduled(c), c.sched # << >>, c.loop = TRUE, Period(c) > 0, NEW ms \in Nat
  PROVE  FirstFound(c, ms, FirstOppAtOrAfter(c, ms))
<1>1. PICK n \in Nat \ {0}, p \in Nat \ {0} : n = Len(c.sched) /\ p = Period(c)
  BY SchedTypes
<1>2. PICK u \in Nat, m \in 0..(p - 1) : u = ms \div p /\ ms = p * u + m
  BY DivMod
<1>3. p * u \in Nat /\ u * p = p * u /\ ms - u * p = m
  BY <1>2, TimesMono
<1>4. PICK s \in 0..n : /\ s = SearchSched(c, m)
                        /\ \A k \in 1..n : c.sched[k] < m <=> k <= s
  <2>1. m \in Int
    BY <1>2
  <2>2. PICK s : Before(c, n, m, s)
    BY <1>1, <2>1, SearchExact
  <2> QED
    BY <1>1, <2>2 DEF Before
<1>5. FirstOppAtOrAfter(c, ms) = u * n + s
  <2>1. /\ Len(c.sched) = n /\ n # 0 /\ ~ (Period(c) <= 0) /\ ms \div Period(c) = u
        /\ ms - u * Period(c) = m /\ SearchSched(c, m) = s
    BY <1>1, <1>2, <1>3, <1>4
  <2> QED
    BY ONLY <2>1, c.loop = TRUE DEF FirstOppAtOrAfter
<1>6. s \in 0..(n - 1) /\ s \in Nat /\ s + 1 \in 1..n
  <2>1. n \in 1..n /\ c.sched[n] = p
    BY <1>1, SchedTypes
  <2>2. p \in Nat /\ m \in Nat /\ ~ (p < m)
    BY <1>1, <1>2
  <2>3. ~ (n <= s)
    BY <1>4, <2>1, <2>2
  <2> QED
    BY <1>4, <2>3
<1> DEFINE got == n * u + s
<1>7. FirstOppAtOrAfter(c, ms) = got
  BY <1>2, <1>5
<1>8. /\ got \in Nat /\ OppTimeMs(c, got) = p * u + c.sched[s + 1]
  <2>1. u \in Nat /\ s \in 0..(Len(c.sched) - 1) /\ got = Len(c.sched) * u + s
    BY <1>1, <1>2, <1>6
  <2>2. got \in Nat /\ OppTimeMs(c, got) = Period(c) * u + c.sched[s + 1]
    BY <2>1, TimeAt
  <2> QED
    BY <1>1, <2>2
<1>9. c.sched[s + 1] \in Nat /\ c.sched[s + 1] >= m
  <2>1. c.sched[s + 1] \in Nat
    BY <1>1, <1>6, SchedTypes
  <2>2. ~ (c.sched[s + 1] < m)
    BY <1>4, <1>6
  <2> QED
    BY <1>2, <2>1, <2>2
<1>10. OppTimeMs(c, got) >= ms
  <2>1. PICK x \in Nat : x = c.sched[s + 1] /\ x >= m
    BY <1>9
  <2>2. PICK y \in Nat : y = p * u /\ ms = y + m
    BY <1>2, <1>3
  <2>3. m \in Nat /\ OppTimeMs(c, got) = y + x
    BY <1>2, <1>8, <2>1, <2>2
  <2> QED
    BY <2>1, <2>2, <2>3
<1>11. OppExists(c, got)
  BY DEF OppExists
<1>12. got <= (ms + 2) * n
  <2>1. u <= ms
    <3>1. u * 1 <= u * p
      BY TimesMono
    <3>2. u * 1 = u
      OBVIOUS
    <3> QED
      BY <1>2, <1>3, <3>1, <3>2
  <2>2. n * u <= n * ms /\ n * u \in Nat /\ n * ms \in Nat
    BY <2>1, TimesMono
  <2>3. (ms + 2) * n = n * ms + n + n
    OBVIOUS
  <2> QED
    BY <1>6, <2>2, <2>3
<1>13. ASSUME NEW i \in Nat, i < got PROVE OppTimeMs(c, i) <= ms
  <2>1. PICK q, r : Placed(c, i, q, r)
    BY OppAt
  <2>2. /\ q \in Nat /\ r \in Nat /\ r + 1 \in 1..n /\ i = n * q + r
        /\ OppTimeMs(c, i) = p * q + c.sched[r + 1]
    BY <1>1, <2>1 DEF Placed
  <2>3. PICK x \in Nat : x = c.sched[r + 1] /\ x <= p
    BY <1>1, <2>2, SchedTypes
  <2>4. n * q \in Nat /\ n * u \in Nat /\ p * q \in Nat
    BY <2>2, TimesMono
  <2>5. CASE q = u
    <3>1. r + 1 <= s
      BY <1>6, <1>13, <2>2, <2>4, <2>5
    <3>2. x < m
      BY <1>4, <2>2, <2>3, <3>1
    <3> QED
      BY <1>2, <1>3, <2>2, <2>3, <2>4, <2>5, <3>2
  <2>6. CASE q + 1 <= u
    <3>1. p * (q + 1) <= p * u
      BY <2>2, <2>6, TimesMono
    <3>2. p * (q + 1) = p * q + p
      BY <2>2
    <3>3. p * q + x <= ms
      BY <1>2, <1>3, <2>3, <2>4, <3>1, <3>2
    <3> QED
      BY <2>2, <2>3, <3>3
  <2>7. CASE u + 1 <= q
    <3>1. n * (u + 1) <= n * q
      BY <2>2, <2>7, TimesMono
    <3>2. n * (u + 1) = n * u + n
      OBVIOUS
    <3>3. n * u + n <= n * q /\ s < n
      BY <1>6, <3>1, <3>2
    <3>4. got < i
      BY <1>6, <2>2, <2>4, <3>3
    <3> QED
      BY <1>8, <1>13, <3>4
  <2> QED
    BY <2>2, <2>5, <2>6, <2>7
<1> HIDE DEF got
<1> QED
  BY <1>1, <1>7, <1>8, <1>10, <1>11, <1>12, <1>13 DEF FirstFound

\* firstOppAtOrAfter keeps its promise, for every schedule.
LEMMA FirstSound ==
  ASSUME NEW c, Scheduled(c), c.loop \in BOOLEAN, NEW ms \in Nat
  PROVE  FirstFound(c, ms, FirstOppAtOrAfter(c, ms))
<1>1. CASE c.sched = << >>
  <2>1. Len(c.sched) = 0
    BY <1>1
  <2>2. FirstOppAtOrAfter(c, ms) = -1
    BY <2>1 DEF FirstOppAtOrAfter
  <2> QED
    BY <1>1, <2>2 DEF FirstFound, OppExists
<1>2. CASE c.sched # << >>
  <2>1. Period(c) \in Nat
    BY <1>2, SchedTypes
  <2>2. CASE c.loop = FALSE
    BY <1>2, <2>2, FirstOnce
  <2>3. CASE c.loop = TRUE /\ Period(c) = 0
    BY <1>2, <2>3, FirstStill
  <2>4. CASE c.loop = TRUE /\ Period(c) > 0
    BY <1>2, <2>4, FirstLooped
  <2>5. Period(c) = 0 \/ Period(c) > 0
    BY <2>1
  <2>6. c.loop = TRUE \/ c.loop = FALSE
    OBVIOUS
  <2> QED
    BY <2>2, <2>3, <2>4, <2>5, <2>6
<1> QED
  BY <1>1, <1>2

\* The comparison with the reference that the run makes.
LEMMA FirstIsEarliest ==
  ASSUME NEW c, Scheduled(c), c.loop \in BOOLEAN, NEW ms \in Nat
  PROVE  LET got == FirstOppAtOrAfter(c, ms)
             ref == EarliestOpp(c, ms)
         IN  /\ got = -1 <=> ref = -1
             /\ got # -1 => /\ OppTimeMs(c, got) >= ms
                            /\ \A i \in ref..(got - 1) : OppTimeMs(c, i) = ms
<1> DEFINE got == FirstOppAtOrAfter(c, ms)
           ref == EarliestOpp(c, ms)
           top == (ms + 2) * Len(c.sched)
           some == {i \in 0..top : OppExists(c, i) /\ OppTimeMs(c, i) >= ms}
<1>1. FirstFound(c, ms, got)
  BY FirstSound
<1>2. PICK n \in Nat : n = Len(c.sched)
  BY LenProperties DEF Scheduled
<1>3. top \in Nat
  <2>1. n * (ms + 2) \in Nat /\ n * (ms + 2) = (ms + 2) * n
    BY TimesMono
  <2> QED
    BY <1>2, <2>1
<1>4. ref = IF some = {} THEN -1 ELSE CHOOSE i \in some : \A j \in some : i <= j
  BY DEF EarliestOpp
<1> HIDE DEF got, ref, top
<1>5. CASE got = -1
  <2>1. \A i \in Nat : OppExists(c, i) => OppTimeMs(c, i) < ms
    BY <1>5, <1>1 DEF FirstFound
  <2>2. ASSUME NEW i \in some PROVE FALSE
    <3>1. i \in Nat /\ OppExists(c, i) /\ OppTimeMs(c, i) >= ms
      BY <1>3
    <3>2. c.sched # << >>
      BY <3>1 DEF OppExists
    <3>3. OppTimeMs(c, i) \in Nat
      BY <3>1, <3>2, TimeType
    <3> QED
      BY <2>1, <3>1, <3>3
  <2>3. some = {}
    BY <2>2
  <2> HIDE DEF some
  <2>4. ref = -1
    BY <1>4, <2>3
  <2> QED
    BY <1>5, <2>4 DEF got, ref
<1>6. CASE got # -1
  <2>1. /\ got \in Nat /\ got <= top /\ OppExists(c, got) /\ OppTimeMs(c, got) >= ms
        /\ \A i \in Nat : i < got => OppTimeMs(c, i) <= ms
    BY <1>1, <1>6 DEF FirstFound, top
  <2>2. got \in some
    BY <1>3, <2>1
  <2>3. some \subseteq Nat
    BY <1>3
  <2>4. ref \in some /\ \A j \in some : ref <= j
    <3> HIDE DEF some
    <3>1. \E i \in some : \A j \in some : i <= j
      BY <2>2, <2>3, LeastNat
    <3> QED
      BY <1>4, <2>2, <3>1
  <2>5. ref \in Nat /\ OppTimeMs(c, ref) >= ms
    BY <2>3, <2>4
  <2>6. c.sched # << >>
    BY <2>1 DEF OppExists
  <2>7. ASSUME NEW i \in ref..(got - 1) PROVE OppTimeMs(c, i) = ms
    <3>1. i \in Nat /\ ref <= i /\ i < got
      BY <2>1, <2>5, <2>7
    <3>2. OppTimeMs(c, ref) <= OppTimeMs(c, i)
      BY <2>5, <2>6, <3>1, TimesSorted
    <3>3. OppTimeMs(c, i) <= ms
      BY <2>1, <3>1
    <3>4. OppTimeMs(c, i) \in Nat /\ OppTimeMs(c, ref) \in Nat
      BY <2>5, <2>6, <3>1, TimeType
    <3> QED
      BY <2>5, <3>2, <3>3, <3>4
  <2> HIDE DEF some
  <2>8. ref # -1
    BY <2>5
  <2> QED
    BY <1>6, <2>1, <2>7, <2>8 DEF got, ref
<1> QED
  BY <1>5, <1>6
-----------------------------------------------------------------------------
\* Trace c offers k opportunities up to time t.
Offered(c, t, k) ==
  k > 0 => OppExists(c, k - 1) /\ c.base + OppTimeMs(c, k - 1) * NsPerMs <= t

\* The forwards of a direction up to one of them.
Upto(os, d, i) == {j \in ForwardsTo(os, d) : j <= i}

\* What a trace in the state c has granted, the forwards among os and then the packets
\* of line: the trace has used at least one opportunity for each, and the k-th forward
\* is due when k opportunities were there.
Granted(os, c, d, line) ==
  /\ \A i \in ForwardsTo(os, d) :
       Offered(c, os[i].deliverAt, Cardinality(Upto(os, d, i)))
  /\ \A k \in DOMAIN line : Offered(c, line[k].deliverAt, c.nextOpp)
  /\ Cardinality(ForwardsTo(os, d)) + Len(line) <= c.nextOpp
  /\ Cardinality(ForwardsTo(os, d)) + Len(line) > 0 => c.started

\* The forwards are finitely many.
LEMMA ForwardsFinite ==
  ASSUME NEW os \in Seq(Actions), NEW d
  PROVE  /\ ForwardsTo(os, d) \subseteq Nat
         /\ IsFiniteSet(ForwardsTo(os, d)) /\ Cardinality(ForwardsTo(os, d)) \in Nat
<1>1. PICK n \in Nat : n = Len(os) /\ DOMAIN os = 1..n
  BY LenProperties
<1>2. ForwardsTo(os, d) \in SUBSET (1..n) /\ IsFiniteSet(1..n)
  BY <1>1, FS_Interval DEF ForwardsTo
<1>3. IsFiniteSet(ForwardsTo(os, d))
  BY <1>2, FS_Subset
<1>4. ForwardsTo(os, d) \subseteq Nat
  BY <1>2
<1> QED
  BY <1>3, <1>4, FS_CardinalityType

\* An earlier opportunity is offered too.
LEMMA OfferedEarlier ==
  ASSUME NEW c \in Cell, Scheduled(c), NEW t \in Nat, NEW m \in Nat, Offered(c, t, m),
         NEW k \in Nat, k <= m
  PROVE  Offered(c, t, k)
<1> SUFFICES ASSUME k > 0
             PROVE  OppExists(c, k - 1) /\ c.base + OppTimeMs(c, k - 1) * NsPerMs <= t
  BY DEF Offered
<1>1. k - 1 \in Nat /\ m - 1 \in Nat /\ k - 1 <= m - 1 /\ m > 0
  OBVIOUS
<1>2. OppExists(c, m - 1) /\ c.base + OppTimeMs(c, m - 1) * NsPerMs <= t
  BY <1>1 DEF Offered
<1>3. c.sched # << >> /\ OppExists(c, k - 1)
  <2>1. c.sched # << >> /\ Len(c.sched) \in Nat
    BY <1>2, SchedTypes DEF OppExists
  <2> QED
    BY <1>1, <1>2, <2>1 DEF OppExists
<1>4. PICK x \in Nat, y \in Nat : x = OppTimeMs(c, k - 1) /\ y = OppTimeMs(c, m - 1)
  BY <1>1, <1>3, TimeType
<1>5. x <= y
  BY <1>1, <1>3, <1>4, TimesSorted
<1>6. PICK n \in Nat : n = NsPerMs
  BY UnitsAssumption
<1>7. n * x <= n * y /\ n * x = x * n /\ n * y = y * n /\ n * x \in Nat /\ n * y \in Nat
  BY <1>5, TimesMono
<1>8. c.base \in Nat
  BY DEF Scheduled, Cell
<1>9. c.base + x * n <= t
  BY <1>2, <1>4, <1>6, <1>7, <1>8
<1> QED
  BY <1>3, <1>4, <1>6, <1>9

\* What one packet made of a trace: nothing, and the trace granted nothing, or one
\* packet that is due when all the opportunities used were there.
Outcome(c, f, r) ==
  LET e == r.cell
  IN  /\ e \in Cell /\ e.kind = c.kind /\ e.sched = c.sched /\ e.loop = c.loop
      /\ c.started => e.started /\ e.base = c.base
      /\ \/ r.outs = << >> /\ e.nextOpp = c.nextOpp
         \/ \E g \in Packets : /\ r.outs = <<g>> /\ e.started /\ e.nextOpp > c.nextOpp
                               /\ Offered(e, g.deliverAt, e.nextOpp)

\* One invocation of a trace.
LEMMA TraceStep ==
  ASSUME NEW c \in Cell, c.kind = "deliverytrace", NEW h \in Seq(Nat), NEW f, Sound(f, h),
         NEW r \in Process(c, f, h)
  PROVE  Outcome(c, f, r)
<1> DEFINE d    == IF c.started \/ c.sched = << >> THEN c
                   ELSE [c EXCEPT !.started = TRUE, !.base = f.recvAt]
           need == MaxOf((f.len + d.mtu - 1) \div d.mtu, 1)
           ms   == MaxOf(f.recvAt - d.base, 0) \div NsPerMs
           arr  == FirstOppAtOrAfter(d, ms)
           last == MaxOf(d.nextOpp, arr) + need - 1
           due  == d.base + OppTimeMs(d, last) * NsPerMs
           t    == MaxOf(due, f.recvAt)
           e    == [d EXCEPT !.nextOpp = last + 1]
           g    == [f EXCEPT !.deliverAt = t]
<1>1. r = Discard(d, h) \/ (OppExists(d, last) /\ r = Keep(e, g, h))
  BY DEF Process, DeliveryTraceProcess
<1>2. f.recvAt \in Nat /\ f.len \in Nat /\ f \in Packets
  BY DEF Sound, Packets
<1>3. /\ d \in Cell /\ d.kind = "deliverytrace" /\ d.sched = c.sched /\ d.loop = c.loop
      /\ d.nextOpp = c.nextOpp
      /\ c.started => d.started /\ d.base = c.base
      /\ d.sched # << >> => d.started
  BY <1>2 DEF Cell
<1> HIDE DEF d
<1>4. d.base \in Nat /\ d.mtu \in Nat \ {0} /\ d.nextOpp \in Nat
  BY <1>3 DEF Cell
<1>5. CASE r = Discard(d, h)
  <2>1. r.cell = d /\ r.outs = << >>
    BY <1>5 DEF Discard, Result
  <2> QED
    BY <1>3, <2>1 DEF Outcome
<1>6. CASE OppExists(d, last) /\ r = Keep(e, g, h)
  <2>1. need \in Int /\ need >= 1
    BY <1>2, <1>4 DEF MaxOf
  <2>2. ms \in Int
    BY <1>2, <1>4, UnitsAssumption DEF MaxOf
  <2> HIDE DEF need, ms
  <2>3. arr \in Int
    BY <1>3, <2>2, ScheduleTypes
  <2> HIDE DEF arr
  <2>4. last \in Nat /\ last >= d.nextOpp
    BY <1>4, <2>1, <2>3 DEF MaxOf
  <2> HIDE DEF last
  <2>5. OppTimeMs(d, last) \in Int
    BY <1>3, <1>6, <2>4, OppTimeType
  <2>6. OppTimeMs(d, last) * NsPerMs \in Int
    BY <2>5, UnitsAssumption
  <2>7. due \in Int
    BY <1>4, <2>6
  <2> HIDE DEF due
  <2>8. t \in Nat /\ due <= t
    BY <1>2, <2>7 DEF MaxOf
  <2> HIDE DEF t
  <2>9. g \in Packets /\ g.deliverAt = t
    BY <1>2, <2>8 DEF Packets
  <2>10. /\ e \in Cell /\ e.kind = d.kind /\ e.sched = d.sched /\ e.loop = d.loop
         /\ e.base = d.base /\ e.started = d.started /\ e.nextOpp = last + 1
    <3>1. last + 1 \in Nat
      BY <2>4
    <3>2. e \in Cell
      BY <1>3, <3>1 DEF Cell
    <3> QED
      BY <1>3, <3>2 DEF Cell
  <2> HIDE DEF e, g
  <2>11. r.cell = e /\ r.outs = <<g>>
    BY <1>6 DEF Keep, Result
  <2>12. e.started /\ e.nextOpp > c.nextOpp
    BY <1>3, <1>4, <1>6, <2>4, <2>10 DEF OppExists
  <2>13. e.nextOpp - 1 = last
    BY <2>4, <2>10
  <2>14. OppExists(e, last) /\ OppTimeMs(e, last) = OppTimeMs(d, last)
    BY <1>6, <2>10 DEF OppExists, OppTimeMs, Period
  <2>15. Offered(e, g.deliverAt, e.nextOpp)
    BY <2>8, <2>9, <2>10, <2>13, <2>14 DEF Offered, due
  <2> QED
    BY <1>3, <2>9, <2>10, <2>11, <2>12, <2>15 DEF Outcome
<1> QED
  BY <1>1, <1>5, <1>6

\* A trace that was started offers what it offered.
LEMMA OfferedKept ==
  ASSUME NEW c, NEW e, e.sched = c.sched, e.loop = c.loop, e.base = c.base, NEW t, NEW k,
         Offered(c, t, k)
  PROVE  Offered(e, t, k)
<1>1. /\ OppExists(e, k - 1) <=> OppExists(c, k - 1)
      /\ OppTimeMs(e, k - 1) = OppTimeMs(c, k - 1)
  BY DEF OppExists, OppTimeMs, Period
<1> QED
  BY <1>1 DEF Offered

\* What a packet adds to what a trace has granted.
LEMMA GrantedStep ==
  ASSUME NEW os \in Seq(Actions), NEW d, NEW c \in Cell, c.kind = "deliverytrace",
         NEW f, NEW r, Outcome(c, f, r), Granted(os, c, d, << >>)
  PROVE  Granted(os, r.cell, d, r.outs)
<1> DEFINE e == r.cell
           F == ForwardsTo(os, d)
<1>1. /\ e \in Cell /\ e.kind = c.kind /\ e.sched = c.sched /\ e.loop = c.loop
      /\ c.started => e.started /\ e.base = c.base
      /\ \/ r.outs = << >> /\ e.nextOpp = c.nextOpp
         \/ \E g \in Packets : /\ r.outs = <<g>> /\ e.started /\ e.nextOpp > c.nextOpp
                               /\ Offered(e, g.deliverAt, e.nextOpp)
  BY DEF Outcome
<1>2. /\ \A i \in F : Offered(c, os[i].deliverAt, Cardinality(Upto(os, d, i)))
      /\ Cardinality(F) <= c.nextOpp
      /\ Cardinality(F) > 0 => c.started
  <2>1. Cardinality(F) + Len(<< >>) <= c.nextOpp /\ Len(<< >>) = 0 /\ Cardinality(F) \in Nat
    BY ForwardsFinite DEF Granted
  <2> QED
    BY <2>1 DEF Granted
<1>3. c.nextOpp \in Nat /\ e.nextOpp \in Nat /\ Cardinality(F) \in Nat
  BY <1>1, ForwardsFinite DEF Cell
<1>4. ASSUME NEW i \in F PROVE Offered(e, os[i].deliverAt, Cardinality(Upto(os, d, i)))
  <2>1. F # {} /\ IsFiniteSet(F)
    BY ForwardsFinite
  <2>2. Cardinality(F) # 0
    BY <2>1, FS_EmptySet
  <2>3. c.started
    BY <1>2, <1>3, <2>2
  <2> HIDE DEF e
  <2> QED
    BY <1>1, <1>2, <2>3, OfferedKept
<1> HIDE DEF e, F
<1>5. CASE r.outs = << >> /\ e.nextOpp = c.nextOpp
  <2>1. Cardinality(F) + Len(r.outs) > 0 => e.started
    <3>1. Len(r.outs) = 0
      BY <1>5
    <3> QED
      BY <1>1, <1>2, <1>3, <3>1
  <2>2. Cardinality(F) + Len(r.outs) <= e.nextOpp
    BY <1>2, <1>3, <1>5
  <2>3. \A k \in DOMAIN r.outs : FALSE
    BY <1>5
  <2> QED
    BY <1>4, <2>1, <2>2, <2>3 DEF Granted, e, F
<1>6. ASSUME NEW g \in Packets, r.outs = <<g>>, e.started, e.nextOpp > c.nextOpp,
             Offered(e, g.deliverAt, e.nextOpp)
      PROVE  Granted(os, e, d, r.outs)
  <2>1. Len(r.outs) = 1 /\ DOMAIN r.outs = {1} /\ r.outs[1] = g
    BY <1>6
  <2>2. Cardinality(F) + Len(r.outs) <= e.nextOpp
    BY <1>2, <1>3, <1>6, <2>1
  <2> QED
    BY <1>4, <1>6, <2>1, <2>2 DEF Granted, F
<1> QED
  BY <1>1, <1>5, <1>6 DEF e

\* Actions without a forward of the direction change nothing.
LEMMA GrantedJoin ==
  ASSUME NEW all, NEW os, NEW as, Joined(all, os, as), NEW d, ForwardsTo(as, d) = {},
         NEW c, NEW line, Granted(os, c, d, line)
  PROVE  Granted(all, c, d, line) /\ ForwardsTo(all, d) = ForwardsTo(os, d)
<1>1. ForwardsTo(all, d) = ForwardsTo(os, d)
  <2>1. ASSUME NEW i \in ForwardsTo(all, d) PROVE i \in ForwardsTo(os, d)
    <3>1. (i - Len(os) \in DOMAIN as /\ all[i] = as[i - Len(os)])
             => i - Len(os) \in ForwardsTo(as, d)
      BY DEF ForwardsTo
    <3> QED
      BY <3>1 DEF Joined, ForwardsTo
  <2>2. ASSUME NEW i \in ForwardsTo(os, d) PROVE i \in ForwardsTo(all, d)
    BY DEF Joined, ForwardsTo
  <2> QED
    BY <2>1, <2>2
<1>2. \A i \in ForwardsTo(os, d) : all[i] = os[i] /\ Upto(all, d, i) = Upto(os, d, i)
  BY <1>1 DEF Joined, ForwardsTo, Upto
<1> QED
  BY <1>1, <1>2 DEF Granted

\* The only packet of line is returned as a forward, after the actions os.
Returned(all, os, as, d, line) ==
  /\ all \in Seq(Actions) /\ os \in Seq(Actions) /\ Joined(all, os, as)
  /\ line \in Seq(Packets) /\ Len(line) = 1 /\ DOMAIN as = {1}
  /\ as[1].kind = "forward" /\ as[1].dir = d /\ as[1].deliverAt = line[1].deliverAt

\* A granted packet that is returned is the last forward.
LEMMA GrantedReturn ==
  ASSUME NEW all, NEW os, NEW as, NEW d, NEW line, Returned(all, os, as, d, line),
         NEW c \in Cell, Scheduled(c), Granted(os, c, d, line)
  PROVE  /\ Granted(all, c, d, << >>)
         /\ Cardinality(ForwardsTo(all, d)) = Cardinality(ForwardsTo(os, d)) + 1
<1>0. /\ all \in Seq(Actions) /\ os \in Seq(Actions) /\ Joined(all, os, as)
      /\ line \in Seq(Packets) /\ Len(line) = 1 /\ DOMAIN as = {1}
      /\ as[1].kind = "forward" /\ as[1].dir = d /\ as[1].deliverAt = line[1].deliverAt
  BY DEF Returned
<1> USE <1>0
<1> DEFINE F == ForwardsTo(os, d)
           G == ForwardsTo(all, d)
<1>1. PICK n \in Nat : n = Len(os)
  BY LenProperties
<1>2. /\ \A i \in DOMAIN all :
           \/ i \in DOMAIN os /\ all[i] = os[i]
           \/ i = n + 1 /\ all[i] = as[1]
      /\ \A i \in DOMAIN os : i \in DOMAIN all /\ all[i] = os[i] /\ i \in Nat /\ i <= n
      /\ n + 1 \in DOMAIN all /\ all[n + 1] = as[1]
  <2>1. \A i \in DOMAIN all : i \in Nat
    BY DEF Joined
  <2>2. \A i \in Nat : i - n = 1 => i = n + 1
    OBVIOUS
  <2>3. \A i \in DOMAIN all :
           \/ i \in DOMAIN os /\ all[i] = os[i]
           \/ i - n = 1 /\ all[i] = as[1]
    BY <1>1 DEF Joined
  <2>4. /\ \A i \in DOMAIN os : i \in DOMAIN all /\ all[i] = os[i] /\ i \in Nat /\ i <= n
        /\ n + 1 \in DOMAIN all /\ all[n + 1] = as[1]
    BY <1>1 DEF Joined
  <2> QED
    BY <2>1, <2>2, <2>3, <2>4
<1>3. n + 1 \notin DOMAIN os
  BY <1>2
<1>4. G = F \cup {n + 1} /\ n + 1 \notin F /\ \A i \in F : all[i] = os[i] /\ i \in Nat /\ i <= n
  BY <1>2, <1>3 DEF ForwardsTo
<1>5. IsFiniteSet(F) /\ Cardinality(F) \in Nat
  BY ForwardsFinite
<1>6. Cardinality(G) = Cardinality(F) + 1
  BY <1>4, <1>5, FS_AddElement
<1>7. \A i \in F : Upto(all, d, i) = Upto(os, d, i)
  <2>1. ASSUME NEW i \in F PROVE {j \in G : j <= i} = {j \in F : j <= i}
    <3>1. ~ (n + 1 <= i)
      BY <1>4
    <3> QED
      BY <1>4, <3>1
  <2> QED
    BY <2>1 DEF Upto
<1>8. Upto(all, d, n + 1) = G
  <2>1. \A j \in G : j <= n + 1
    BY <1>4
  <2> QED
    BY <2>1 DEF Upto
<1> HIDE DEF F, G
<1>9. /\ \A i \in F : Offered(c, os[i].deliverAt, Cardinality(Upto(os, d, i)))
      /\ \A k \in DOMAIN line : Offered(c, line[k].deliverAt, c.nextOpp)
      /\ Cardinality(F) + 1 <= c.nextOpp
      /\ Cardinality(F) + 1 > 0 => c.started
  BY DEF Granted, F
<1>10. 1 \in DOMAIN line /\ line[1].deliverAt \in Nat
  <2>1. 1 \in 1..Len(line) /\ DOMAIN line = 1..Len(line)
    BY LenProperties
  <2>2. line[1] \in Packets
    BY <2>1, ElementOfSeq
  <2> QED
    BY <2>1, <2>2 DEF Packets
<1>11. c.nextOpp \in Nat
  BY DEF Scheduled, Cell
<1>12. Offered(c, line[1].deliverAt, Cardinality(F) + 1)
  BY <1>5, <1>9, <1>10, <1>11, OfferedEarlier
<1>13. \A i \in G : Offered(c, all[i].deliverAt, Cardinality(Upto(all, d, i)))
  <2>1. ASSUME NEW i \in F
        PROVE  Offered(c, all[i].deliverAt, Cardinality(Upto(all, d, i)))
    <3>1. all[i] = os[i] /\ Upto(all, d, i) = Upto(os, d, i)
      BY <1>4, <1>7
    <3> QED
      BY <1>9, <3>1
  <2>2. Offered(c, all[n + 1].deliverAt, Cardinality(Upto(all, d, n + 1)))
    <3>1. all[n + 1].deliverAt = line[1].deliverAt
      BY <1>2
    <3>2. Cardinality(Upto(all, d, n + 1)) = Cardinality(F) + 1
      BY <1>6, <1>8
    <3> QED
      BY <1>12, <3>1, <3>2
  <2> QED
    BY <1>4, <2>1, <2>2
<1>14. Cardinality(G) + Len(<< >>) <= c.nextOpp /\ c.started
  BY <1>5, <1>6, <1>9
<1>15. Granted(all, c, d, << >>)
  BY <1>9, <1>13, <1>14 DEF Granted, G
<1> QED
  BY <1>6, <1>15 DEF F, G
-----------------------------------------------------------------------------
\* The pipeline is one delivery trace.
Traced(d) == Len(pipelines[d]) = 1 /\ pipelines[d][1].kind = "deliverytrace"

\* Every delivery trace has a schedule of the kind that is parsed.
SchedulesParsed ==
  \A d \in Dirs : \A n \in DOMAIN pipelines[d] :
    pipelines[d][n].kind = "deliverytrace" => Scheduled(pipelines[d][n])

\* The packets of a direction between its stages.
Pending(d) == IF d = dir THEN Len(cur) + Len(next) ELSE 0

\* A trace that is the only cell of its pipeline has granted what it forwarded, sees
\* one packet at a time, and forwards no more packets than came in.
TraceOK(d) ==
  /\ Granted(out, pipelines[d][1], d, Line(d))
  /\ Pending(d) <= 1
  /\ Cardinality(ForwardsTo(out, d)) + Pending(d) <= seq

TraceInv ==
  /\ seq <= MaxPackets
  /\ SchedulesParsed => \A d \in Dirs : Traced(d) => TraceOK(d)

\* The cells keep their schedules.
LEMMA SchedKept ==
  ASSUME NEW c \in Cell, NEW h \in Seq(Nat), NEW f, Sound(f, h), NEW r \in Process(c, f, h),
         r.cell.kind = "deliverytrace" => Scheduled(r.cell)
  PROVE  c.kind = "deliverytrace" => Scheduled(c)
<1> SUFFICES ASSUME c.kind = "deliverytrace" PROVE Scheduled(c)
  OBVIOUS
<1>1. r.cell.kind = "deliverytrace" /\ r.cell.sched = c.sched
  BY TraceStep DEF Outcome
<1> QED
  BY <1>1 DEF Scheduled

\* The only cell of a traced pipeline.
LEMMA TracedCell ==
  ASSUME EngineInv, SchedulesParsed, NEW d \in Dirs, Traced(d)
  PROVE  /\ pipelines[d][1] \in Cell /\ Scheduled(pipelines[d][1])
         /\ DOMAIN pipelines[d] = {1} /\ pipelines[d] # << >>
<1>1. pipelines[d] \in Seq(Cell) /\ Len(pipelines[d]) = 1
  BY DEF EngineInv, Traced
<1>2. DOMAIN pipelines[d] = 1..1 /\ 1 \in 1..Len(pipelines[d])
  BY <1>1, LenProperties
<1>3. pipelines[d][1] \in Cell /\ DOMAIN pipelines[d] = {1}
  BY <1>1, <1>2, ElementOfSeq
<1>4. Scheduled(pipelines[d][1])
  BY <1>3 DEF SchedulesParsed, Traced
<1> QED
  BY <1>1, <1>3, <1>4

\* Lengths of the packets between stages.
LEMMA PendingType ==
  ASSUME EngineInv
  PROVE  Len(cur) \in Nat /\ Len(next) \in Nat /\ \A d : Pending(d) \in Nat
<1>1. cur \in Seq(Packets) /\ next \in Seq(Packets)
  BY DEF EngineInv, AllSound
<1>2. Len(cur) \in Nat /\ Len(next) \in Nat
  BY <1>1, LenProperties
<1> QED
  BY <1>2 DEF Pending

\* One invocation.
LEMMA TraceCellStep ==
  ASSUME EngineInv, TraceInv, CellStep
  PROVE  TraceInv'
<1>1. PICK r : /\ r \in Process(Pipe[stage], Head(cur), heap)
               /\ ResultOK(r, heap)
               /\ Sound(Head(cur), heap) /\ Pipe[stage] \in Cell
               /\ pipelines' = [pipelines EXCEPT ![dir][stage] = r.cell]
               /\ heap' = r.heap
               /\ \/ /\ r.outs = << >>
                     /\ actions' = Append(actions, DropAction(Head(cur), Pipe[stage]))
                     /\ UNCHANGED <<next, copies>>
                  \/ /\ r.outs # << >> /\ next' = next \o r.outs
                     /\ copies' = copies + Len(r.outs) - 1
                     /\ UNCHANGED actions
  BY CellStepParts
<1>2. /\ stage \in DOMAIN Pipe /\ cur # << >> /\ cur' = Tail(cur)
      /\ UNCHANGED <<load, now, seq, stage, dir, out>>
  BY DEF CellStep
<1>3. /\ heap \in Seq(Nat) /\ cur \in Seq(Packets) /\ next \in Seq(Packets) /\ dir \in Dirs
      /\ pipelines \in [Dirs -> Seq(Cell)] /\ out \in Seq(Actions) /\ r.cell \in Cell
  BY <1>1 DEF EngineInv, AllSound, ResultOK
<1>4. stage \in 1..Len(pipelines[dir]) /\ Len(pipelines[dir]) \in Nat
      /\ DOMAIN pipelines[dir] = 1..Len(pipelines[dir])
  BY <1>2, <1>3, LenProperties DEF Pipe
<1>5. /\ pipelines'[dir] = [pipelines[dir] EXCEPT ![stage] = r.cell]
      /\ \A d \in Dirs : d # dir => pipelines'[d] = pipelines[d]
  BY <1>1, <1>3
<1>6. /\ Len(pipelines'[dir]) = Len(pipelines[dir])
      /\ DOMAIN pipelines'[dir] = DOMAIN pipelines[dir]
      /\ \A k \in DOMAIN pipelines[dir] :
           pipelines'[dir][k] = IF k = stage THEN r.cell ELSE pipelines[dir][k]
  <2> DEFINE p == pipelines[dir]
  <2>1. p \in Seq(Cell)
    BY <1>3
  <2> HIDE DEF p
  <2>2. Len([p EXCEPT ![stage] = r.cell]) = Len(p)
    BY <1>3, <1>4, <2>1, ExceptSeq DEF p
  <2> QED
    BY <1>4, <1>5, <2>2 DEF p
<1>7. SchedulesParsed' => SchedulesParsed
  <2> SUFFICES ASSUME SchedulesParsed', NEW d \in Dirs, NEW n \in DOMAIN pipelines[d],
                      pipelines[d][n].kind = "deliverytrace"
               PROVE  Scheduled(pipelines[d][n])
    BY DEF SchedulesParsed
  <2>1. CASE d # dir
    BY <1>5, <2>1 DEF SchedulesParsed
  <2>2. CASE d = dir /\ n # stage
    BY <1>6, <2>2 DEF SchedulesParsed
  <2>3. CASE d = dir /\ n = stage
    <3>1. pipelines'[d][n] = r.cell /\ n \in DOMAIN pipelines'[d]
      BY <1>6, <2>3
    <3>2. r.cell.kind = "deliverytrace" => Scheduled(r.cell)
      BY <3>1 DEF SchedulesParsed
    <3>3. Pipe[stage].kind = "deliverytrace" => Scheduled(Pipe[stage])
      BY <1>1, <1>3, <3>2, SchedKept
    <3> QED
      BY <2>3, <3>3 DEF Pipe
  <2> QED
    BY <2>1, <2>2, <2>3
<1>8. ASSUME SchedulesParsed', NEW d \in Dirs, Traced(d)'
      PROVE  TraceOK(d)'
  <2>1. SchedulesParsed
    BY <1>7, <1>8
  <2>2. CASE d # dir
    <3>1. pipelines'[d] = pipelines[d] /\ dir' = dir /\ out' = out /\ seq' = seq
      BY <1>2, <1>5, <2>2
    <3>2. TraceOK(d)
      BY <1>8, <2>1, <3>1 DEF TraceInv, Traced
    <3>3. Line(d)' = Line(d) /\ Pending(d)' = Pending(d)
      BY <2>2, <3>1 DEF Line, Pending
    <3> QED
      BY <3>1, <3>2, <3>3 DEF TraceOK
  <2>3. CASE d = dir
    <3>1. /\ Len(pipelines[d]) = 1 /\ stage = 1 /\ pipelines'[d][1] = r.cell
          /\ Len(pipelines'[d]) = 1 /\ r.cell.kind = "deliverytrace"
      BY <1>4, <1>6, <1>8, <2>3 DEF Traced
    <3> DEFINE c == pipelines[d][1]
               f == Head(cur)
    <3>2. Pipe[stage] = c
      BY <2>3, <3>1 DEF Pipe
    <3>3. c.kind = "deliverytrace"
      BY <1>1, <3>1, <3>2, KindKept
    <3>4. Traced(d)
      BY <3>1, <3>3 DEF Traced
    <3>5. /\ Granted(out, c, d, Line(d)) /\ Pending(d) <= 1
          /\ Cardinality(ForwardsTo(out, d)) + Pending(d) <= seq
      BY <2>1, <3>4 DEF TraceInv, TraceOK
    <3>6. Len(cur) \in Nat \ {0} /\ Len(next) \in Nat /\ Pending(d) = Len(cur) + Len(next)
      BY <1>2, <1>3, <2>3, LenProperties, EmptySeq DEF Pending
    <3>7. Len(cur) = 1 /\ Len(next) = 0 /\ Pending(d) = 1
      <4>1. PICK x \in Nat \ {0}, y \in Nat : x = Len(cur) /\ y = Len(next)
        BY <3>6
      <4>2. x + y <= 1 /\ Pending(d) = x + y
        BY <3>5, <3>6, <4>1
      <4>3. x = 1 /\ y = 0
        BY <4>2
      <4> QED
        BY <4>1, <4>2, <4>3
    <3>8. next = << >>
      BY <1>3, <3>7, EmptySeq
    <3>9. Line(d) = << >> /\ Line(d)' = next'
      BY <1>2, <2>3, <3>1, <3>8 DEF Line
    <3> HIDE DEF c, f
    <3>10. Outcome(c, f, r)
      BY <1>1, <1>3, <3>2, <3>3, TraceStep DEF f
    <3>11. Granted(out, r.cell, d, r.outs)
      BY <1>1, <1>3, <3>2, <3>3, <3>5, <3>9, <3>10, GrantedStep
    <3>12. next' = r.outs
      <4>1. r.outs \in Seq(Packets)
        BY <1>1 DEF ResultOK, AllSound
      <4>2. << >> \o r.outs = r.outs
        BY <4>1, ConcatEmptySeq
      <4> QED
        BY <1>1, <3>8, <4>2
    <3>13. Len(r.outs) = 0 \/ Len(r.outs) = 1
      <4>1. r.outs = << >> \/ \E g \in Packets : r.outs = <<g>>
        BY <3>10 DEF Outcome
      <4>2. ASSUME NEW g \in Packets, r.outs = <<g>> PROVE Len(r.outs) = 1
        BY ONLY <4>2
      <4>3. ASSUME r.outs = << >> PROVE Len(r.outs) = 0
        BY ONLY <4>3
      <4> QED
        BY <4>1, <4>2, <4>3
    <3>14. Len(cur') = 0
      <4>1. Len(Tail(cur)) = Len(cur) - 1
        BY <1>2, <1>3, HeadTailProperties
      <4> QED
        BY <1>2, <3>7, <4>1
    <3>15. Pending(d)' = Len(r.outs)
      <4>1. Pending(d)' = Len(cur') + Len(next')
        BY <1>2, <2>3 DEF Pending
      <4> QED
        BY <3>12, <3>13, <3>14, <4>1
    <3>16. Granted(out', pipelines'[d][1], d, Line(d)')
      BY <1>2, <3>1, <3>9, <3>11, <3>12
    <3>17. Cardinality(ForwardsTo(out, d)) \in Nat /\ seq \in Nat
      BY <1>3, ForwardsFinite DEF EngineInv
    <3>18. Pending(d)' <= 1 /\ Cardinality(ForwardsTo(out', d)) + Pending(d)' <= seq'
      <4>1. PICK x \in {0, 1}, y \in Nat :
              x = Pending(d)' /\ y = Cardinality(ForwardsTo(out, d))
        BY <3>13, <3>15, <3>17
      <4>2. y + 1 <= seq
        BY <3>5, <3>7, <4>1
      <4>3. x <= 1 /\ y + x <= seq
        BY <3>17, <4>2
      <4> QED
        BY <1>2, <4>1, <4>3
    <3> QED
      BY <3>16, <3>18 DEF TraceOK
  <2> QED
    BY <2>2, <2>3
<1>9. seq' <= load'.packets
  BY <1>2 DEF TraceInv, MaxPackets
<1> QED
  BY <1>8, <1>9 DEF TraceInv, MaxPackets

\* A packet enters: nothing is between the stages.
LEMMA TraceIngress ==
  ASSUME EngineInv, TraceInv, NEW d \in Dirs, NEW len \in Lengths, Ingress(d, len)
  PROVE  TraceInv'
<1> DEFINE f == [seq |-> seq + 1, dir |-> d, data |-> 1, len |-> len,
                 recvAt |-> now, deliverAt |-> now]
<1>1. /\ stage = 0 /\ dir' = d /\ stage' = 1 /\ cur' = <<f>> /\ seq < MaxPackets
      /\ seq' = seq + 1 /\ UNCHANGED <<load, pipelines, next, out>>
  BY DEF Ingress
<1> HIDE DEF f
<1>2. next = << >> /\ cur = << >>
  <2>1. Pipe \in Seq(Cell)
    BY DEF EngineInv, Pipe
  <2>2. stage \notin DOMAIN Pipe
    BY <1>1, <2>1, LenProperties
  <2> QED
    BY <1>1, <2>2 DEF EngineInv
<1>3. seq \in Nat /\ MaxPackets \in Nat
  BY WorkloadsAssumption DEF EngineInv, MaxPackets
<1>4. ASSUME SchedulesParsed', NEW e \in Dirs, Traced(e)'
      PROVE  TraceOK(e)'
  <2>1. SchedulesParsed /\ Traced(e)
    BY <1>1, <1>4 DEF SchedulesParsed, Traced
  <2>2. /\ Granted(out, pipelines[e][1], e, Line(e)) /\ Pending(e) <= 1
        /\ Cardinality(ForwardsTo(out, e)) + Pending(e) <= seq
    BY <2>1 DEF TraceInv, TraceOK
  <2>3. Line(e) = << >> /\ Line(e)' = << >>
    <3>1. Len(pipelines[e]) = 1 /\ Len(pipelines'[e]) = 1
      BY <1>1, <2>1 DEF Traced
    <3> QED
      BY <1>1, <1>2, <3>1 DEF Line
  <2>4. Pending(e) = 0 /\ (Pending(e)' = 0 \/ Pending(e)' = 1)
    <3>1. Len(cur) = 0 /\ Len(next) = 0 /\ Len(cur') = 1 /\ Len(next') = 0
      BY <1>1, <1>2
    <3> QED
      BY <3>1 DEF Pending
  <2>5. Cardinality(ForwardsTo(out, e)) \in Nat
    BY ForwardsFinite DEF EngineInv
  <2>6. Pending(e)' <= 1 /\ Cardinality(ForwardsTo(out, e)) + Pending(e)' <= seq + 1
    BY <1>3, <2>2, <2>4, <2>5
  <2> QED
    BY <1>1, <2>2, <2>3, <2>6 DEF TraceOK
<1>5. seq' <= MaxPackets'
  BY <1>1, <1>3 DEF MaxPackets
<1> QED
  BY <1>4, <1>5 DEF TraceInv

\* The line moves on with its packets.
LEMMA TraceNextStage ==
  ASSUME EngineInv, TraceInv, NextStage
  PROVE  TraceInv'
<1>1. /\ stage \in DOMAIN Pipe /\ cur = << >> /\ stage' = stage + 1 /\ cur' = next /\ next' = << >>
      /\ UNCHANGED <<load, now, pipelines, seq, dir, actions, heap, copies, out>>
  BY DEF NextStage
<1>2. stage \in Nat /\ stage >= 1 /\ stage <= Len(pipelines[dir]) /\ Len(pipelines[dir]) \in Nat
  <2>1. Pipe \in Seq(Cell)
    BY DEF Pipe, EngineInv
  <2> QED
    BY <1>1, <2>1, LenProperties DEF Pipe
<1>3. ASSUME SchedulesParsed', NEW d \in Dirs, Traced(d)'
      PROVE  TraceOK(d)'
  <2>1. SchedulesParsed /\ Traced(d) /\ pipelines' = pipelines
    BY <1>1, <1>3 DEF SchedulesParsed, Traced
  <2>2. TraceOK(d)
    BY <2>1 DEF TraceInv
  <2>3. Line(d)' = Line(d)
    <3>1. CASE d # dir
      BY <1>1, <3>1 DEF Line
    <3>2. CASE d = dir
      <4>1. stage = 1 /\ stage' = 2 /\ Len(pipelines[d]) = 1
        <5>1. Len(pipelines[d]) = 1
          BY <2>1 DEF Traced
        <5>2. stage = 1
          BY <1>2, <3>2, <5>1
        <5> QED
          BY <1>1, <5>1, <5>2
      <4> QED
        BY <1>1, <2>1, <3>2, <4>1 DEF Line
    <3> QED
      BY <3>1, <3>2
  <2>4. Pending(d)' = Pending(d)
    <3>1. Len(cur) = 0 /\ Len(next') = 0 /\ Len(next) \in Nat
      BY <1>1, PendingType
    <3>2. Len(cur') + Len(next') = Len(cur) + Len(next)
      BY <1>1, <3>1
    <3> QED
      BY <1>1, <3>2 DEF Pending
  <2> QED
    BY <1>1, <2>1, <2>2, <2>3, <2>4 DEF TraceOK
<1>4. seq' <= MaxPackets'
  BY <1>1 DEF TraceInv, MaxPackets
<1> QED
  BY <1>3, <1>4 DEF TraceInv

\* The line is returned.
LEMMA TraceReturn ==
  ASSUME EngineInv, DelayInv(PipeDelays), TraceInv, Return
  PROVE  TraceInv'
<1> DEFINE fwds == [i \in DOMAIN cur |-> ForwardAction(cur[i])]
           mid  == out \o actions
<1>1. /\ stage = Len(Pipe) + 1 /\ out' = mid \o fwds /\ stage' = 0 /\ cur' = << >>
      /\ UNCHANGED <<load, pipelines, seq, dir, next>>
  BY DEF Return
<1>2. /\ cur \in Seq(Packets) /\ actions \in Seq(Actions) /\ out \in Seq(Actions) /\ heap \in Seq(Nat)
      /\ \A i \in DOMAIN cur : Sound(cur[i], heap)
  BY DEF EngineInv, AllSound
<1>3. Len(Pipe) \in Nat /\ stage \notin DOMAIN Pipe
  <2>1. Pipe \in Seq(Cell)
    BY DEF EngineInv, Pipe
  <2>2. PICK n \in Nat : n = Len(Pipe) /\ DOMAIN Pipe = 1..n
    BY <2>1, LenProperties
  <2>3. stage = n + 1
    BY <1>1, <2>2
  <2> QED
    BY <2>2, <2>3
<1>4. next = << >>
  BY <1>3 DEF EngineInv
<1>5. /\ fwds \in Seq(Actions) /\ \A k \in DOMAIN cur : fwds[k] = ForwardAction(cur[k])
      /\ DOMAIN fwds = DOMAIN cur /\ DOMAIN cur = 1..Len(cur) /\ Len(cur) \in Nat
  <2>1. \A j \in DOMAIN cur : ForwardAction(cur[j]) \in Actions
    BY <1>2, ForwardActionType
  <2>2. Len(cur) \in Nat /\ DOMAIN cur = 1..Len(cur)
    BY <1>2, LenProperties
  <2> QED
    BY <2>1, <2>2
<1> HIDE DEF fwds
<1>6. /\ \A j \in DOMAIN actions : actions[j].kind = "drop"
      /\ \A k \in DOMAIN cur : cur[k].dir = dir
  BY DEF DelayInv, AtLeast
<1>7. \A k \in DOMAIN cur : /\ fwds[k].kind = "forward" /\ fwds[k].dir = dir
                            /\ fwds[k].deliverAt = cur[k].deliverAt
  BY <1>5, <1>6 DEF ForwardAction
<1>8. Joined(mid, out, actions) /\ mid \in Seq(Actions)
  BY <1>2, JoinedParts
<1> HIDE DEF mid
<1>9. Joined(out', mid, fwds) /\ out' \in Seq(Actions)
  BY <1>1, <1>5, <1>8, JoinedParts
<1>10. \A d : ForwardsTo(actions, d) = {}
  <2>1. \A j \in DOMAIN actions : actions[j].kind # "forward"
    BY <1>6
  <2> QED
    BY <2>1 DEF ForwardsTo
<1>11. ASSUME SchedulesParsed', NEW d \in Dirs, Traced(d)'
       PROVE  TraceOK(d)'
  <2>1. SchedulesParsed /\ Traced(d) /\ pipelines' = pipelines
    BY <1>1, <1>11 DEF SchedulesParsed, Traced
  <2> DEFINE c == pipelines[d][1]
  <2>2. c \in Cell /\ Scheduled(c)
    BY <2>1, TracedCell
  <2>3. /\ Granted(out, c, d, Line(d)) /\ Pending(d) <= 1
        /\ Cardinality(ForwardsTo(out, d)) + Pending(d) <= seq
    BY <2>1 DEF TraceInv, TraceOK
  <2> HIDE DEF c
  <2>4. Line(d)' = << >>
    <3>1. Len(pipelines'[d]) = 1
      BY <1>11 DEF Traced
    <3> QED
      BY <1>1, <1>4, <3>1 DEF Line
  <2>5. Pending(d)' = 0
    <3>1. Len(cur') = 0 /\ Len(next') = 0
      BY <1>1, <1>4
    <3> QED
      BY <3>1 DEF Pending
  <2>6. Line(d) = (IF d = dir THEN cur ELSE << >>) /\ Pending(d) = IF d = dir THEN Len(cur) ELSE 0
    <3>1. Line(d) = IF d = dir THEN cur ELSE << >>
      BY <1>1, <1>3 DEF Line, Pipe
    <3>2. Len(next) = 0
      BY <1>4
    <3> QED
      BY <1>5, <3>1, <3>2 DEF Pending
  <2>7. Granted(mid, c, d, Line(d)) /\ ForwardsTo(mid, d) = ForwardsTo(out, d)
    BY <1>8, <1>10, <2>3, GrantedJoin
  <2>8. Cardinality(ForwardsTo(out, d)) \in Nat /\ seq \in Nat
    BY <1>2, ForwardsFinite DEF EngineInv
  <2>9. CASE d # dir \/ cur = << >>
    <3>1. ForwardsTo(fwds, d) = {}
      <4>1. \A k \in DOMAIN fwds : fwds[k].dir = dir
        BY <1>5, <1>7
      <4>2. cur = << >> => DOMAIN fwds = {}
        BY <1>5
      <4> QED
        BY <2>9, <4>1, <4>2 DEF ForwardsTo
    <3>2. Line(d) = << >> /\ Pending(d) = 0
      <4>1. Len(<< >>) = 0
        OBVIOUS
      <4> QED
        BY <2>6, <2>9, <4>1
    <3>3. Granted(out', c, d, << >>) /\ ForwardsTo(out', d) = ForwardsTo(mid, d)
      BY <1>9, <2>7, <3>1, <3>2, GrantedJoin
    <3>4. Cardinality(ForwardsTo(out', d)) + 0 <= seq
      BY <2>3, <2>7, <2>8, <3>2, <3>3
    <3> QED
      BY <1>1, <2>4, <2>5, <3>3, <3>4 DEF TraceOK, c
  <2>10. CASE d = dir /\ cur # << >>
    <3>1. Line(d) = cur /\ Len(cur) = 1 /\ Pending(d) = 1
      <4>1. Len(cur) # 0
        BY <1>2, <2>10, EmptySeq
      <4> QED
        BY <1>5, <2>3, <2>6, <2>10, <4>1
    <3>2. DOMAIN cur = {1}
      BY <1>5, <3>1
    <3>3. /\ DOMAIN fwds = {1} /\ fwds[1].kind = "forward" /\ fwds[1].dir = d
          /\ fwds[1].deliverAt = cur[1].deliverAt
      BY <1>5, <1>7, <2>10, <3>2
    <3>4. Granted(mid, c, d, cur)
      BY <2>7, <3>1
    <3>5. /\ Granted(out', c, d, << >>)
          /\ Cardinality(ForwardsTo(out', d)) = Cardinality(ForwardsTo(mid, d)) + 1
      <4>1. Returned(out', mid, fwds, d, cur)
        BY <1>2, <1>8, <1>9, <3>1, <3>3 DEF Returned
      <4> QED
        BY ONLY <2>2, <3>4, <4>1, GrantedReturn
    <3>6. Cardinality(ForwardsTo(out', d)) + 0 <= seq
      BY <2>3, <2>7, <2>8, <3>1, <3>5
    <3> QED
      BY <1>1, <2>4, <2>5, <3>5, <3>6 DEF TraceOK, c
  <2> QED
    BY <2>9, <2>10
<1>12. seq' <= MaxPackets'
  BY <1>1 DEF TraceInv, MaxPackets
<1> QED
  BY <1>11, <1>12 DEF TraceInv

\* Among finitely many forwards there is a last one.
LEMMA LastForward ==
  ASSUME NEW os \in Seq(Actions), NEW d, NEW S, S \subseteq ForwardsTo(os, d), S # {}
  PROVE  \E m \in S : S \subseteq Upto(os, d, m)
<1>1. PICK n \in Nat : n = Len(os) /\ DOMAIN os = 1..n
  BY LenProperties
<1>2. S \subseteq 1..n
  BY <1>1 DEF ForwardsTo
<1> DEFINE T == {x \in 0..n : n - x \in S}
<1>3. T # {} /\ T \subseteq Nat
  <2>1. PICK i \in S : TRUE
    OBVIOUS
  <2>2. i \in 1..n
    BY <1>2
  <2>3. n - i \in 0..n /\ n - (n - i) = i
    BY <2>2
  <2>4. n - i \in T
    BY <2>1, <2>3
  <2> QED
    BY <2>4
<1>4. PICK x \in T : \A y \in T : x <= y
  <2> HIDE DEF T
  <2> QED
    BY <1>3, LeastNat
<1>5. x \in 0..n /\ n - x \in S
  BY <1>4
<1>6. ASSUME NEW j \in S PROVE j <= n - x
  <2>1. j \in 1..n
    BY <1>2
  <2>2. n - j \in 0..n /\ n - (n - j) = j
    BY <2>1
  <2>3. x <= n - j
    BY <1>4, <2>2
  <2> QED
    BY <1>5, <2>1, <2>3
<1>7. S \subseteq Upto(os, d, n - x)
  BY <1>6 DEF Upto
<1> QED
  BY <1>5, <1>7

\* If every forward is due when there were enough opportunities for it and the ones
\* before it, no time has more forwards than opportunities.
LEMMA CapacityKept ==
  ASSUME NEW os \in Seq(Actions), NEW d, NEW c \in Cell, Scheduled(c), NEW line,
         Granted(os, c, d, line), NEW b \in Nat, Cardinality(ForwardsTo(os, d)) <= b,
         NEW t \in Nat
  PROVE  Cardinality({j \in ForwardsTo(os, d) : os[j].deliverAt <= t})
           <= Cardinality({n \in 0..b : /\ OppExists(c, n)
                                        /\ c.base + OppTimeMs(c, n) * NsPerMs <= t})
<1> DEFINE F == ForwardsTo(os, d)
           S == {j \in F : os[j].deliverAt <= t}
           R == {n \in 0..b : /\ OppExists(c, n)
                              /\ c.base + OppTimeMs(c, n) * NsPerMs <= t}
<1>1. IsFiniteSet(F) /\ Cardinality(F) \in Nat
  BY ForwardsFinite
<1>2. IsFiniteSet(S)
  BY <1>1, FS_Subset
<1>3. IsFiniteSet(R) /\ Cardinality(R) \in Nat
  <2>1. IsFiniteSet(0..b) /\ R \in SUBSET (0..b)
    BY FS_Interval
  <2> HIDE DEF R
  <2>2. IsFiniteSet(R)
    BY <2>1, FS_Subset
  <2> QED
    BY <2>2, FS_CardinalityType
<1>4. CASE S = {}
  <2>1. Cardinality(S) = 0
    BY <1>4, FS_EmptySet
  <2> HIDE DEF S, R
  <2> QED
    BY <1>3, <2>1 DEF S, R
<1>5. CASE S # {}
  <2>1. PICK m \in S : S \subseteq Upto(os, d, m)
    <3>1. S \subseteq F
      OBVIOUS
    <3> HIDE DEF S
    <3> QED
      BY <1>5, <3>1, LastForward
  <2> DEFINE k == Cardinality(Upto(os, d, m))
  <2>2. m \in F /\ os[m].deliverAt <= t
    BY <2>1
  <2>3. IsFiniteSet(Upto(os, d, m)) /\ k \in Nat /\ k <= Cardinality(F)
    <3>1. Upto(os, d, m) \in SUBSET F
      BY DEF Upto
    <3>2. IsFiniteSet(Upto(os, d, m)) /\ k <= Cardinality(F)
      BY <1>1, <3>1, FS_Subset
    <3> QED
      BY <3>2, FS_CardinalityType
  <2>4. os[m].deliverAt \in Nat
    <3>1. os[m] \in Actions /\ os[m].kind = "forward"
      BY <2>2, ElementOfSeq, LenProperties DEF ForwardsTo
    <3> QED
      BY <3>1 DEF Actions, DropActions, ForwardActions
  <2>5. Offered(c, os[m].deliverAt, k)
    BY <2>2 DEF Granted
  <2> HIDE DEF k
  <2>6. \A n \in 0..(k - 1) : n \in R
    <3> SUFFICES ASSUME NEW n \in 0..(k - 1) PROVE n \in R
      OBVIOUS
    <3>1. n + 1 \in Nat /\ n + 1 <= k /\ n + 1 > 0 /\ (n + 1) - 1 = n /\ n \in 0..b
      BY <1>1, <2>3
    <3>2. Offered(c, os[m].deliverAt, n + 1)
      BY <2>3, <2>4, <2>5, <3>1, OfferedEarlier
    <3>3. OppExists(c, n) /\ c.base + OppTimeMs(c, n) * NsPerMs <= os[m].deliverAt
      BY <3>1, <3>2 DEF Offered
    <3>4. c.base + OppTimeMs(c, n) * NsPerMs \in Int
      <4>1. c.sched # << >>
        BY <3>3 DEF OppExists
      <4>2. PICK x \in Nat : x = OppTimeMs(c, n)
        BY <3>1, <4>1, TimeType
      <4>3. c.base \in Nat /\ NsPerMs \in Nat
        BY UnitsAssumption DEF Scheduled, Cell
      <4>4. x * NsPerMs \in Int
        BY <4>3
      <4> QED
        BY <4>2, <4>3, <4>4
    <3>5. c.base + OppTimeMs(c, n) * NsPerMs <= t
      <4> DEFINE v == c.base + OppTimeMs(c, n) * NsPerMs
      <4> HIDE DEF v
      <4>1. v \in Int /\ v <= os[m].deliverAt
        BY <3>3, <3>4 DEF v
      <4>2. v <= t
        BY <2>2, <2>4, <4>1
      <4> QED
        BY <4>2 DEF v
    <3> QED
      BY <3>1, <3>3, <3>5
  <2> HIDE DEF S, R, F
  <2>7. Cardinality(0..(k - 1)) = k /\ IsFiniteSet(0..(k - 1))
    BY <2>3, FS_Interval
  <2>8. k <= Cardinality(R)
    <3>1. (0..(k - 1)) \in SUBSET R
      BY <2>6
    <3> QED
      BY ONLY <1>3, <2>7, <3>1, FS_Subset
  <2>9. Cardinality(S) <= k /\ Cardinality(S) \in Nat
    <3>1. S \in SUBSET Upto(os, d, m)
      BY <2>1
    <3> QED
      BY <1>2, <2>3, <3>1, FS_Subset, FS_CardinalityType DEF k
  <2>10. Cardinality(S) <= Cardinality(R)
    BY <1>3, <2>3, <2>8, <2>9
  <2> QED
    BY <2>10 DEF S, R, F
<1> QED
  BY <1>4, <1>5

\* The capacity, from the invariant.
LEMMA TraceCapacityKept ==
  ASSUME EngineInv, TraceInv, SchedulesParsed
  PROVE  TraceCapacity
<1> SUFFICES ASSUME NEW i \in Forwards, Traced(out[i].dir)
             PROVE  LET d == out[i].dir
                        t == out[i].deliverAt
                        c == pipelines[d][1]
                    IN  Cardinality({j \in Forwards : out[j].dir = d /\ out[j].deliverAt <= t})
                          <= Cardinality({n \in 0..(MaxPackets + t * Len(c.sched)) :
                                 OppExists(c, n) /\ c.base + OppTimeMs(c, n) * NsPerMs <= t})
  BY DEF TraceCapacity, Traced
<1> DEFINE d == out[i].dir
           t == out[i].deliverAt
           c == pipelines[d][1]
           b == MaxPackets + t * Len(c.sched)
<1>1. d \in Dirs /\ t \in Nat
  BY ForwardDir
<1>2. Traced(d)
  OBVIOUS
<1> HIDE DEF d, t
<1>3. c \in Cell /\ Scheduled(c)
  BY <1>1, <1>2, TracedCell
<1>4. /\ Granted(out, c, d, Line(d))
      /\ Cardinality(ForwardsTo(out, d)) + Pending(d) <= seq
  BY <1>1, <1>2 DEF TraceInv, TraceOK
<1> HIDE DEF c
<1>5. MaxPackets \in Nat /\ seq \in Nat /\ seq <= MaxPackets /\ out \in Seq(Actions)
  BY WorkloadsAssumption DEF EngineInv, TraceInv, MaxPackets
<1>6. b \in Nat /\ MaxPackets <= b
  <2>1. PICK n \in Nat : n = Len(c.sched)
    BY <1>3, LenProperties DEF Scheduled
  <2>2. t * n \in Nat
    BY <1>1, TimesMono
  <2> QED
    BY <1>5, <2>1, <2>2
<1>7. Cardinality(ForwardsTo(out, d)) <= b
  <2>1. Cardinality(ForwardsTo(out, d)) \in Nat /\ Pending(d) \in Nat
    BY <1>5, ForwardsFinite, PendingType
  <2> HIDE DEF b
  <2> QED
    BY <1>4, <1>5, <1>6, <2>1
<1> HIDE DEF b
<1>8. Cardinality({j \in ForwardsTo(out, d) : out[j].deliverAt <= t})
        <= Cardinality({n \in 0..b : /\ OppExists(c, n)
                                     /\ c.base + OppTimeMs(c, n) * NsPerMs <= t})
  BY <1>1, <1>3, <1>4, <1>5, <1>6, <1>7, CapacityKept
<1>9. {j \in ForwardsTo(out, d) : out[j].deliverAt <= t}
        = {j \in Forwards : out[j].dir = d /\ out[j].deliverAt <= t}
  BY DEF ForwardsTo, Forwards
<1> QED
  BY <1>8, <1>9 DEF b, c, d, t

\* The search against its reference, for every arrival.
LEMMA FirstOppKept ==
  ASSUME EngineInv, SchedulesParsed
  PROVE  FirstOppSound
<1> SUFFICES ASSUME NEW d \in Dirs, NEW n \in DOMAIN pipelines[d],
                    pipelines[d][n].kind = "deliverytrace", NEW ms \in 0..MaxTime
             PROVE  LET c   == pipelines[d][n]
                        got == FirstOppAtOrAfter(c, ms)
                        ref == EarliestOpp(c, ms)
                    IN  /\ got = -1 <=> ref = -1
                        /\ got # -1 => /\ OppTimeMs(c, got) >= ms
                                       /\ \A i \in ref..(got - 1) : OppTimeMs(c, i) = ms
  BY DEF FirstOppSound
<1>1. Scheduled(pipelines[d][n])
  BY DEF SchedulesParsed
<1>2. pipelines[d][n] \in Cell
  BY ElementOfSeq, LenProperties DEF EngineInv
<1>3. pipelines[d][n].loop \in BOOLEAN
  BY <1>2 DEF Cell
<1>4. ms \in Nat
  BY WorkloadsAssumption DEF EngineInv, MaxTime
<1> QED
  BY ONLY <1>1, <1>3, <1>4, FirstIsEarliest

\* A delivery trace is kept (internal/droplist): the search finds the opportunity it
\* promises, and a trace that is the only cell of its pipeline grants each opportunity
\* once, at its time or later, for every schedule that is sorted and never negative
\* (which NewDeliveryTrace and ParseDeliveryTrace see to), looped or not.
THEOREM TraceProved == Spec => [](SchedulesParsed => TraceKept)
<1> DEFINE I == DelayInv(PipeDelays)
<1>1. ASSUME EngineInv, Init PROVE TraceInv
  <2>1. out = << >> /\ cur = << >> /\ next = << >> /\ seq = 0 /\ load \in Workloads
        /\ pipelines = load.pipes
    BY <1>1 DEF Init
  <2>2. seq <= MaxPackets
    BY <2>1, WorkloadsAssumption DEF MaxPackets
  <2>3. ASSUME SchedulesParsed, NEW d \in Dirs, Traced(d) PROVE TraceOK(d)
    <3>1. Line(d) = << >> /\ Pending(d) = 0
      <4>1. Len(cur) = 0 /\ Len(next) = 0
        BY <2>1
      <4> QED
        BY <2>1, <4>1 DEF Line, Pending
    <3>2. ForwardsTo(out, d) = {} /\ Cardinality({}) = 0
      BY <2>1, FS_EmptySet DEF ForwardsTo
    <3>3. pipelines[d][1].nextOpp \in Nat
      <4>1. pipelines[d][1] \in Cell /\ pipelines[d][1].kind = "deliverytrace"
        BY <1>1, <2>3, TracedCell DEF Traced
      <4> QED
        BY <4>1 DEF Cell
    <3>4. Granted(out, pipelines[d][1], d, << >>)
      <4>1. Cardinality(ForwardsTo(out, d)) + Len(<< >>) = 0
        BY <3>2
      <4> QED
        BY <3>2, <3>3, <4>1 DEF Granted
    <3>5. Pending(d) <= 1 /\ Cardinality(ForwardsTo(out, d)) + Pending(d) <= seq
      <4>1. Pending(d) = 0 /\ Cardinality(ForwardsTo(out, d)) = 0 /\ seq = 0
        BY <2>1, <3>1, <3>2
      <4> QED
        BY ONLY <4>1
    <3>6. Granted(out, pipelines[d][1], d, Line(d))
      BY <3>1, <3>4
    <3> QED
      BY ONLY <3>5, <3>6 DEF TraceOK
  <2> QED
    BY <2>2, <2>3 DEF TraceInv
<1>2. ASSUME EngineInv, I, TraceInv, [Next]_vars PROVE TraceInv'
  <2>1. CASE Advance \/ UNCHANGED vars
    <3>1. UNCHANGED <<load, pipelines, seq, stage, dir, cur, next, out>>
      BY <2>1 DEF Advance, vars
    <3> QED
      BY <1>2, <3>1 DEF TraceInv, MaxPackets, SchedulesParsed, Traced, TraceOK, Line, Pending
  <2>2. CASE \E d \in Dirs, len \in Lengths : Ingress(d, len)
    BY <1>2, <2>2, TraceIngress
  <2>3. CASE CellStep
    BY <1>2, <2>3, TraceCellStep
  <2>4. CASE NextStage
    BY <1>2, <2>4, TraceNextStage
  <2>5. CASE Return
    BY <1>2, <2>5, TraceReturn
  <2> QED
    BY <1>2, <2>1, <2>2, <2>3, <2>4, <2>5 DEF Next
<1>3. EngineInv /\ TraceInv => (SchedulesParsed => TraceKept)
  BY TraceCapacityKept, FirstOppKept DEF TraceKept
<1>4. Init => I
  BY PipeDelaysOK, DelayInit
<1>5. EngineInv /\ EngineInv' /\ I /\ [Next]_vars => I'
  BY PipeDelaysOK, DelayStep
<1> QED
  BY <1>1, <1>2, <1>3, <1>4, <1>5, EngineInductive, PTL DEF Spec
=============================================================================
