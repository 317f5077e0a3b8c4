---------------------------- MODULE SimProofs ----------------------------
(***************************************************************************)
(* What the simulator does with the engines of a job, proved for every     *)
(* set of jobs: every scenario and delivery trace, every number of links   *)
(* and packets, every outcome of the random draws and every order in which *)
(* engines are built and driven.                                           *)
(*                                                                         *)
(* The recursions over packets, cells and actions come first, and what     *)
(* every cell returns.  Then two runs of the same packet: they do the same *)
(* if they know the same.  The invariant SimInv says that every engine is  *)
(* in the one state that its substreams lead to, and that its cells still  *)
(* have the substreams of their places; the properties follow from it.     *)
(***************************************************************************)
EXTENDS Sim, FiniteSetTheorems, SequenceTheorems, WellFoundedInduction, TLAPS

(***************************************************************************)
(* Stages, pipelines and statistics are computed one packet, one cell and  *)
(* one action after the other: the recursions are well defined.            *)
(***************************************************************************)
\* A set of numbers that is not empty has a least one.
LEMMA LeastNat ==
  ASSUME NEW T, T \subseteq Nat, T # {}
  PROVE  \E x \in T : \A y \in T : x <= y
<1> DEFINE R == OpToRel(<, Nat)
<1>1. IsWellFoundedOn(R, Nat)
  BY NatLessThanWellFounded
<1>2. \E x \in T : \A y \in T : ~ (<<y, x>> \in R)
  <2> HIDE DEF R
  <2> QED
    BY <1>1, WFMin
<1>3. \A x, y \in Nat : <<y, x>> \in R <=> y < x
  BY DEF OpToRel
<1> HIDE DEF R
<1>4. PICK x \in T : \A y \in T : ~ (<<y, x>> \in R)
  BY <1>2
<1>5. ASSUME NEW y \in T PROVE x <= y
  <2>1. x \in Nat /\ y \in Nat
    OBVIOUS
  <2>2. ~ (y < x)
    BY <2>1, <1>3, <1>4
  <2> QED
    BY <2>1, <2>2
<1> QED
  BY <1>5

\* An action that is asked for.
Picks(q, a) == a.seq = q.seq /\ a.kind \in q.kinds

\* One more packet of a stage, one more stage of a pipeline, one more action of the
\* statistics or of a selection; and where each begins.
First(what, h) ==
  CASE what = "stage"    -> {[h EXCEPT !.next = << >>]}
    [] what = "pipeline" -> {h}
    [] what = "stats"    -> NoStats
    [] what = "select"   -> << >>

More(what, h, i, old, n) ==
  CASE what = "stage"    -> UNION {Invoke(g, i, h.next[n]) : g \in old}
    [] what = "pipeline" -> UNION {Stage(g, n) : g \in old}
    [] what = "stats"    -> Count(old, h[n])
    [] what = "select"   -> IF Picks(i, h[n]) THEN Append(old, h[n]) ELSE old

\* A function that satisfies the recursion up to m.
Upto(what, h, i, s, m) ==
  s = [n \in 0..m |-> IF n = 0 THEN First(what, h) ELSE More(what, h, i, s[n - 1], n)]

\* There is one such function at most.
LEMMA UptoUnique ==
  ASSUME NEW what, NEW h, NEW i, NEW m \in Nat, NEW k \in Nat, NEW s, NEW t,
         Upto(what, h, i, s, m), Upto(what, h, i, t, k), NEW n \in Nat, n <= m, n <= k
  PROVE  s[n] = t[n]
<1> DEFINE T == {j \in Nat : j <= m /\ j <= k /\ s[j] # t[j]}
<1>1. SUFFICES ASSUME T # {} PROVE FALSE
  OBVIOUS
<1>2. PICK j \in T : \A l \in T : j <= l
  <2>1. T \subseteq Nat
    OBVIOUS
  <2> HIDE DEF T
  <2> QED
    BY <1>1, <2>1, LeastNat
<1>3. j \in Nat /\ j <= m /\ j <= k /\ s[j] # t[j]
  BY <1>2
<1>4. /\ s[j] = IF j = 0 THEN First(what, h) ELSE More(what, h, i, s[j - 1], j)
      /\ t[j] = IF j = 0 THEN First(what, h) ELSE More(what, h, i, t[j - 1], j)
  <2>1. j \in 0..m /\ j \in 0..k
    BY <1>3
  <2> QED
    BY <2>1 DEF Upto
<1>5. j # 0
  BY <1>3, <1>4
<1>6. j - 1 \in Nat /\ j - 1 <= m /\ j - 1 <= k /\ ~ (j <= j - 1)
  BY <1>3, <1>5
<1>7. s[j - 1] = t[j - 1]
  BY <1>2, <1>6
<1> QED
  BY <1>3, <1>4, <1>7

\* And there is one up to every number.
LEMMA UptoExists ==
  ASSUME NEW what, NEW h, NEW i, NEW m \in Nat
  PROVE  \E s : Upto(what, h, i, s, m)
<1> DEFINE T == {j \in Nat : ~ \E s : Upto(what, h, i, s, j)}
<1>1. SUFFICES ASSUME T # {} PROVE FALSE
  OBVIOUS
<1>2. PICK j \in T : \A l \in T : j <= l
  <2>1. T \subseteq Nat
    OBVIOUS
  <2> HIDE DEF T
  <2> QED
    BY <1>1, <2>1, LeastNat
<1>3. j \in Nat /\ ~ \E s : Upto(what, h, i, s, j)
  BY <1>2
<1>4. CASE j = 0
  <2> DEFINE s == [n \in 0..0 |-> First(what, h)]
  <2>1. s = [n \in 0..0 |-> IF n = 0 THEN First(what, h) ELSE More(what, h, i, s[n - 1], n)]
    OBVIOUS
  <2> HIDE DEF s
  <2>2. Upto(what, h, i, s, 0)
    BY <2>1 DEF Upto
  <2> QED
    BY <1>3, <1>4, <2>2
<1>5. CASE j # 0
  <2>1. j - 1 \in Nat /\ ~ (j <= j - 1)
    BY <1>3, <1>5
  <2>2. PICK t : Upto(what, h, i, t, j - 1)
    <3>1. j - 1 \notin T
      BY <1>2, <2>1
    <3> QED
      BY <2>1, <3>1
  <2> DEFINE last == More(what, h, i, t[j - 1], j)
             s == [n \in 0..j |-> IF n = j THEN last ELSE t[n]]
  <2>3. \A n \in 0..j : n = j \/ n \in 0..(j - 1)
    BY <1>3
  <2>4. ASSUME NEW n \in 0..j
        PROVE  s[n] = IF n = 0 THEN First(what, h) ELSE More(what, h, i, s[n - 1], n)
    <3>1. CASE n = j
      <4>1. j \in 0..j /\ j - 1 \in 0..j /\ j - 1 # j
        BY <1>3, <2>1
      <4>2. s[j] = last /\ s[j - 1] = t[j - 1]
        BY <4>1
      <4> QED
        BY <1>5, <3>1, <4>2
    <3>2. CASE n # j
      <4>1. n \in 0..(j - 1) /\ s[n] = t[n]
        BY <2>3, <3>2
      <4>2. t[n] = IF n = 0 THEN First(what, h) ELSE More(what, h, i, t[n - 1], n)
        BY <2>2, <4>1 DEF Upto
      <4>3. CASE n # 0
        <5>1. n - 1 \in 0..j /\ n - 1 # j
          BY <1>3, <4>1, <4>3
        <5>2. s[n - 1] = t[n - 1]
          BY <5>1
        <5> QED
          BY <4>1, <4>2, <4>3, <5>2
      <4> QED
        BY <4>1, <4>2, <4>3
    <3> QED
      BY <3>1, <3>2
  <2>5. s = [n \in 0..j |-> s[n]]
    OBVIOUS
  <2> HIDE DEF s, last
  <2>6. s = [n \in 0..j |-> IF n = 0 THEN First(what, h) ELSE More(what, h, i, s[n - 1], n)]
    BY <2>4, <2>5
  <2>7. Upto(what, h, i, s, j)
    BY <2>6 DEF Upto
  <2> QED
    BY <1>3, <2>7
<1> QED
  BY <1>4, <1>5

\* So there is one for all numbers.
Always(what, h, i, s) ==
  s = [n \in Nat |-> IF n = 0 THEN First(what, h) ELSE More(what, h, i, s[n - 1], n)]

\* There is one for every number: the recursion is well defined.
LEMMA AlwaysExists ==
  ASSUME NEW what, NEW h, NEW i
  PROVE  \E s : Always(what, h, i, s)
<1> DEFINE G(m) == CHOOSE s : Upto(what, h, i, s, m)
           s == [n \in Nat |-> G(n)[n]]
<1>1. \A m \in Nat : Upto(what, h, i, G(m), m)
  BY UptoExists
<1> HIDE DEF G
<1>2. ASSUME NEW n \in Nat
      PROVE  s[n] = IF n = 0 THEN First(what, h) ELSE More(what, h, i, s[n - 1], n)
  <2>1. G(n)[n] = IF n = 0 THEN First(what, h) ELSE More(what, h, i, G(n)[n - 1], n)
    <3>1. n \in 0..n
      OBVIOUS
    <3> QED
      BY <1>1, <3>1 DEF Upto
  <2>2. CASE n # 0
    <3>1. n - 1 \in Nat /\ n - 1 <= n /\ n - 1 <= n - 1
      BY <2>2
    <3>2. Upto(what, h, i, G(n), n) /\ Upto(what, h, i, G(n - 1), n - 1)
      BY <1>1, <3>1
    <3>3. G(n)[n - 1] = G(n - 1)[n - 1]
      BY <3>1, <3>2, UptoUnique
    <3> QED
      BY <2>1, <2>2, <3>1, <3>3
  <2> QED
    BY <2>1, <2>2
<1>3. s = [n \in Nat |-> s[n]]
  OBVIOUS
<1> HIDE DEF s
<1>4. s = [n \in Nat |-> IF n = 0 THEN First(what, h) ELSE More(what, h, i, s[n - 1], n)]
  BY <1>2, <1>3
<1>5. Always(what, h, i, s)
  BY <1>4 DEF Always
<1> QED
  BY <1>5

\* A stage: Served.
LEMMA ServedRecursion ==
  ASSUME NEW h, NEW i
  PROVE  /\ Served(h, i)[0] = {[h EXCEPT !.next = << >>]}
         /\ \A k \in Nat \ {0} :
              Served(h, i)[k] = UNION {Invoke(g, i, h.next[k]) : g \in Served(h, i)[k - 1]}
<1>1. \E s : s = [k \in Nat |-> IF k = 0 THEN {[h EXCEPT !.next = << >>]}
                                ELSE UNION {Invoke(g, i, h.next[k]) : g \in s[k - 1]}]
  <2>1. PICK s : Always("stage", h, i, s)
    BY AlwaysExists
  <2>2. s = [k \in Nat |-> IF k = 0 THEN {[h EXCEPT !.next = << >>]}
                           ELSE UNION {Invoke(g, i, h.next[k]) : g \in s[k - 1]}]
    BY <2>1 DEF Always, First, More
  <2> QED
    BY <2>2
<1>2. Served(h, i) = [k \in Nat |-> IF k = 0 THEN {[h EXCEPT !.next = << >>]}
                        ELSE UNION {Invoke(g, i, h.next[k]) : g \in Served(h, i)[k - 1]}]
  BY <1>1 DEF Served
<1> QED
  BY <1>2

\* A pipeline: Passed.
LEMMA PassedRecursion ==
  ASSUME NEW h
  PROVE  /\ Passed(h)[0] = {h}
         /\ \A k \in Nat \ {0} : Passed(h)[k] = UNION {Stage(g, k) : g \in Passed(h)[k - 1]}
<1>1. \E s : s = [k \in Nat |-> IF k = 0 THEN {h} ELSE UNION {Stage(g, k) : g \in s[k - 1]}]
  <2>1. PICK s : Always("pipeline", h, 0, s)
    BY AlwaysExists
  <2>2. s = [k \in Nat |-> IF k = 0 THEN {h} ELSE UNION {Stage(g, k) : g \in s[k - 1]}]
    BY <2>1 DEF Always, First, More
  <2> QED
    BY <2>2
<1>2. Passed(h) = [k \in Nat |-> IF k = 0 THEN {h}
                                 ELSE UNION {Stage(g, k) : g \in Passed(h)[k - 1]}]
  BY <1>1 DEF Passed
<1> QED
  BY <1>2

-----------------------------------------------------------------------------
(***************************************************************************)
(* A run is a function of its substreams: what two runs find in common     *)
(* decides what both do.                                                   *)
(***************************************************************************)
\* The decisions that are known: each is one that its cell can come to.
Known(k) ==
  /\ k = [q \in DOMAIN k |-> k[q]]
  /\ \A q \in DOMAIN k : k[q] \in Process(q.cell, q.packet, q.heap)

\* The decisions j are among the decisions k.
Among(j, k) == DOMAIN j \subseteq DOMAIN k /\ \A q \in DOMAIN j : k[q] = j[q]

\* What is known stays known.
LEMMA AmongTransitive ==
  ASSUME NEW i, NEW j, NEW k, Among(i, j), Among(j, k)
  PROVE  Among(i, k)
  BY DEF Among

\* An invocation of a cell: its question, the result it got, and what is known then.
Question(h, i, f) ==
  [stream |-> h.cells[i].stream, used |-> h.cells[i].used, cell |-> h.cells[i].cell,
   packet |-> f, heap |-> h.heap]

Undecided(h, i, f) == \E r, s \in Process(h.cells[i].cell, f, h.heap) : r # s

Invoked(h, i, f, r, g) ==
  /\ r \in Decisions(h.known, Question(h, i, f))
  /\ g.cells = [h.cells EXCEPT ![i] = [cell |-> r.cell, stream |-> h.cells[i].stream,
                                       used |-> h.cells[i].used + 1]]
  /\ g.known = IF Undecided(h, i, f) THEN Noted(h.known, Question(h, i, f), r) ELSE h.known
  /\ g.heap = r.heap
  /\ g.next = h.next \o r.outs
  /\ g.acts = IF r.outs # << >> THEN h.acts
              ELSE Append(h.acts, [kind |-> "drop", seq |-> f.seq, dir |-> f.dir,
                                   recvAt |-> f.recvAt, reason |-> h.cells[i].cell.kind])
  /\ "next" \in DOMAIN g

\* What an invocation yields, part by part.
LEMMA InvokeParts ==
  ASSUME NEW h, NEW i, NEW f, NEW g \in Invoke(h, i, f)
  PROVE  \E r : Invoked(h, i, f, r, g)
<1>1. PICK r \in Decisions(h.known, Question(h, i, f)) :
        g = [cells |-> [h.cells EXCEPT ![i] = [cell |-> r.cell, stream |-> h.cells[i].stream,
                                               used |-> h.cells[i].used + 1]],
             known |-> IF Undecided(h, i, f) THEN Noted(h.known, Question(h, i, f), r) ELSE h.known,
             heap  |-> r.heap,
             next  |-> h.next \o r.outs,
             acts  |-> IF r.outs # << >> THEN h.acts
                       ELSE Append(h.acts, [kind |-> "drop", seq |-> f.seq, dir |-> f.dir,
                                            recvAt |-> f.recvAt,
                                            reason |-> h.cells[i].cell.kind])]
  BY Zenon DEF Invoke, Question, Undecided
<1>2. Invoked(h, i, f, r, g)
  BY <1>1 DEF Invoked
<1> QED
  BY <1>2

\* What is known only grows, and stays possible.
LEMMA InvokeGrows ==
  ASSUME NEW h, NEW i, NEW f, Known(h.known), NEW r, NEW g, Invoked(h, i, f, r, g)
  PROVE  /\ Known(g.known) /\ Among(h.known, g.known)
         /\ r \in Process(h.cells[i].cell, f, h.heap)
         /\ Undecided(h, i, f) => /\ Question(h, i, f) \in DOMAIN g.known
                                  /\ g.known[Question(h, i, f)] = r
<1> DEFINE q == Question(h, i, f)
           k == h.known
           n == [p \in DOMAIN k \cup {q} |-> IF p = q THEN r ELSE k[p]]
<1>1. /\ q.cell = h.cells[i].cell /\ q.packet = f /\ q.heap = h.heap
  BY DEF Question
<1>2. r \in Decisions(k, q)
  BY DEF Invoked
<1> HIDE DEF q
<1>3. r \in Process(q.cell, q.packet, q.heap) /\ (q \in DOMAIN k => r = k[q])
  BY <1>2 DEF Decisions, Known
<1>4. Noted(k, q, r) = n
  BY DEF Noted
<1>5. g.known = IF Undecided(h, i, f) THEN n ELSE k
  BY <1>4 DEF Invoked, q
<1>6. Known(n) /\ Among(k, n) /\ q \in DOMAIN n /\ n[q] = r
  BY <1>3 DEF Known, Among
<1>7. Among(k, k)
  BY DEF Among
<1> QED
  BY <1>1, <1>3, <1>5, <1>6, <1>7 DEF q

\* A stage, up to its packet n.
LEMMA ServedGrows ==
  ASSUME NEW h, NEW i, Known(h.known), NEW n \in Nat, NEW g \in Served(h, i)[n]
  PROVE  Known(g.known) /\ Among(h.known, g.known)
<1> DEFINE Breaks(m) == \E p \in Served(h, i)[m] : ~ (Known(p.known) /\ Among(h.known, p.known))
           T == {m \in Nat : Breaks(m)}
<1>1. SUFFICES ASSUME T # {} PROVE FALSE
  OBVIOUS
<1>2. PICK m \in T : \A l \in T : m <= l
  <2>1. T \subseteq Nat
    OBVIOUS
  <2> HIDE DEF T
  <2> QED
    BY <1>1, <2>1, LeastNat
<1>3. m \in Nat
  BY <1>2
<1>4. PICK p \in Served(h, i)[m] : ~ (Known(p.known) /\ Among(h.known, p.known))
  BY <1>2
<1>5. CASE m = 0
  <2>1. p = [h EXCEPT !.next = << >>]
    BY <1>4, <1>5, ServedRecursion
  <2>2. p.known = h.known
    BY <2>1
  <2> QED
    BY <1>4, <2>2 DEF Among
<1>6. CASE m # 0
  <2>1. m - 1 \in Nat /\ ~ (m <= m - 1) /\ m \in Nat \ {0}
    BY <1>3, <1>6
  <2>2. PICK o \in Served(h, i)[m - 1] : p \in Invoke(o, i, h.next[m])
    BY <1>4, <2>1, ServedRecursion
  <2>3. Known(o.known) /\ Among(h.known, o.known)
    <3>1. m - 1 \notin T
      BY <1>2, <2>1
    <3> QED
      BY <2>1, <2>2, <3>1
  <2>4. PICK r : Invoked(o, i, h.next[m], r, p)
    BY <2>2, InvokeParts
  <2>5. Known(p.known) /\ Among(o.known, p.known)
    BY <2>3, <2>4, InvokeGrows
  <2> QED
    BY <1>4, <2>3, <2>5, AmongTransitive
<1> QED
  BY <1>5, <1>6

-----------------------------------------------------------------------------
(***************************************************************************)
(* What every cell keeps: its kind, and of a packet its number, its        *)
(* direction and the time it was received.                                 *)
(***************************************************************************)
Kinds == {"blackhole", "loss.bernoulli", "loss.ge", "delay", "reorder", "corrupt",
          "ratelimit", "droplist", "deliverytrace"}

CellLike(c) == "kind" \in DOMAIN c /\ c.kind \in Kinds

PacketLike(f) == {"seq", "dir", "recvAt"} \subseteq DOMAIN f

SamePacket(x, f) ==
  /\ PacketLike(x)
  /\ x.seq = f.seq /\ x.dir = f.dir /\ x.recvAt = f.recvAt

\* Nothing, the packet, or the packet twice.
OfPacket(outs, f) ==
  \/ outs = << >>
  \/ \E x : SamePacket(x, f) /\ outs = <<x>>
  \/ \E x, y : SamePacket(x, f) /\ SamePacket(y, f) /\ outs = <<x, y>>

Shape(r, c, f) == CellLike(r.cell) /\ r.cell.kind = c.kind /\ OfPacket(r.outs, f)

\* The three results that most cells return.
LEMMA ResultShape ==
  ASSUME NEW c, CellLike(c), NEW f, PacketLike(f), NEW d, CellLike(d), d.kind = c.kind,
         NEW x, SamePacket(x, f), NEW h
  PROVE  Shape(Keep(d, x, h), c, f) /\ Shape(Discard(d, h), c, f)
<1>1. /\ Keep(d, x, h).cell = d /\ Keep(d, x, h).outs = <<x>>
      /\ Discard(d, h).cell = d /\ Discard(d, h).outs = << >>
  BY DEF Keep, Discard, Result
<1> QED
  BY <1>1 DEF Shape, OfPacket

\* The cells that do not change.
LEMMA PlainShape ==
  ASSUME NEW c, CellLike(c), NEW f, PacketLike(f), NEW h,
         NEW r \in BlackholeProcess(c, f, h) \cup BernoulliProcess(c, f, h)
                   \cup DropListProcess(c, f, h)
  PROVE  Shape(r, c, f)
<1>1. SamePacket(f, f)
  BY DEF SamePacket
<1>2. r = Keep(c, f, h) \/ r = Discard(c, h)
  BY DEF BlackholeProcess, BernoulliProcess, DropListProcess
<1> QED
  BY <1>1, <1>2, ResultShape

\* Gilbert-Elliott loss: the state of the chain is stepped, then the packet is
\* kept or dropped.
LEMMA GilbertElliottShape ==
  ASSUME NEW c, CellLike(c), NEW f, PacketLike(f), NEW h, NEW r \in GEProcess(c, f, h)
  PROVE  Shape(r, c, f)
<1>1. SamePacket(f, f)
  BY DEF SamePacket
<1>2. PICK moves : r = Keep([c EXCEPT !.state = IF moves THEN GEOther(@) ELSE @], f, h)
                   \/ r = Discard([c EXCEPT !.state = IF moves THEN GEOther(@) ELSE @], h)
  BY DEF GEProcess
<1> DEFINE d == [c EXCEPT !.state = IF moves THEN GEOther(@) ELSE @]
<1>3. CellLike(d) /\ d.kind = c.kind
  BY DEF CellLike
<1> HIDE DEF d
<1>4. r = Keep(d, f, h) \/ r = Discard(d, h)
  BY <1>2 DEF d
<1> QED
  BY <1>1, <1>3, <1>4, ResultShape

\* Delay with jitter: the packet goes on.
LEMMA DelayShape ==
  ASSUME NEW c, CellLike(c), NEW f, PacketLike(f), NEW h, NEW r \in DelayProcess(c, f, h)
  PROVE  Shape(r, c, f)
<1>1. PICK jit : r = Keep(c, [f EXCEPT !.deliverAt = MaxOf(@ + c.base + jit, f.recvAt)], h)
  BY DEF DelayProcess
<1>2. SamePacket([f EXCEPT !.deliverAt = MaxOf(@ + c.base + jit, f.recvAt)], f)
  BY DEF SamePacket, PacketLike
<1> QED
  BY <1>1, <1>2, ResultShape

\* Corruption: the packet goes on, its bits flipped or not.
LEMMA CorruptShape ==
  ASSUME NEW c, CellLike(c), NEW f, PacketLike(f), NEW h, NEW r \in CorruptProcess(c, f, h)
  PROVE  Shape(r, c, f)
<1>1. \/ r = Keep(c, f, h)
      \/ r = Keep(c, [f EXCEPT !.data = Len(h) + 1], Append(h, h[f.data] + 1))
  BY DEF CorruptProcess
<1>2. SamePacket(f, f) /\ SamePacket([f EXCEPT !.data = Len(h) + 1], f)
  BY DEF SamePacket, PacketLike
<1> QED
  BY <1>1, <1>2, ResultShape

\* A rate limit: the packet waits for the link or is dropped at the queue limit.
LEMMA RateLimitShape ==
  ASSUME NEW c, CellLike(c), NEW f, PacketLike(f), NEW h, NEW r \in RateLimitProcess(c, f, h)
  PROVE  Shape(r, c, f)
<1> DEFINE at == MaxOf(f.deliverAt, c.queueFreeAt) + Serialize(c, f)
           d == [c EXCEPT !.queueFreeAt = at]
           x == [f EXCEPT !.deliverAt = at]
<1>1. r = Keep(c, f, h) \/ r = Discard(c, h) \/ r = Keep(d, x, h)
  BY DEF RateLimitProcess
<1> HIDE DEF at
<1>2. SamePacket(f, f) /\ SamePacket(x, f)
  BY DEF SamePacket, PacketLike
<1>3. CellLike(d) /\ d.kind = c.kind
  BY DEF CellLike
<1> HIDE DEF d, x
<1> QED
  BY <1>1, <1>2, <1>3, ResultShape

\* A delivery trace: the packet waits for an opportunity or is dropped.
LEMMA TraceShape ==
  ASSUME NEW c, CellLike(c), NEW f, PacketLike(f), NEW h,
         NEW r \in DeliveryTraceProcess(c, f, h)
  PROVE  Shape(r, c, f)
<1> DEFINE d == IF c.started \/ c.sched = << >> THEN c
                ELSE [c EXCEPT !.started = TRUE, !.base = f.recvAt]
           need == MaxOf((f.len + d.mtu - 1) \div d.mtu, 1)
           arr  == FirstOppAtOrAfter(d, MaxOf(f.recvAt - d.base, 0) \div NsPerMs)
           last == MaxOf(d.nextOpp, arr) + need - 1
           e == [d EXCEPT !.nextOpp = last + 1]
           x == [f EXCEPT !.deliverAt = MaxOf(d.base + OppTimeMs(d, last) * NsPerMs, f.recvAt)]
<1>1. r = Discard(d, h) \/ r = Keep(e, x, h)
  BY DEF DeliveryTraceProcess
<1>2. CellLike(d) /\ d.kind = c.kind
  BY DEF CellLike
<1> HIDE DEF d, last
<1>3. SamePacket(f, f) /\ SamePacket(x, f)
  BY DEF SamePacket, PacketLike
<1>4. CellLike(e) /\ e.kind = c.kind
  BY <1>2 DEF CellLike
<1> HIDE DEF e, x
<1> QED
  BY <1>1, <1>2, <1>3, <1>4, ResultShape

\* Reordering: the packet goes on, held back or not.
LEMMA ReorderShape ==
  ASSUME NEW c, CellLike(c), NEW f, PacketLike(f), NEW h, NEW r \in ReorderProcess(c, f, h)
  PROVE  Shape(r, c, f)
<1>1. PICK reordered, dup :
        r = Result(Copies(f, IF reordered THEN f.deliverAt ELSE f.deliverAt + c.gap, dup, h),
                   ReorderAfter(c, reordered), CopiedHeap(f, dup, h))
  BY DEF ReorderProcess
<1> DEFINE at == IF reordered THEN f.deliverAt ELSE f.deliverAt + c.gap
           g(i) == [f EXCEPT !.deliverAt = at, !.data = Len(h) + i]
           d == [c EXCEPT !.hasPrev = TRUE, !.prev = reordered]
<1>2. r.cell = d /\ r.outs = IF dup THEN <<g(1), g(2)>> ELSE <<g(1)>>
  BY <1>1 DEF Result, Copies, ReorderAfter
<1> HIDE DEF at
<1>3. SamePacket(g(1), f) /\ SamePacket(g(2), f)
  BY DEF SamePacket, PacketLike
<1>4. CellLike(d) /\ d.kind = c.kind
  BY DEF CellLike
<1> HIDE DEF g, d
<1> QED
  BY <1>2, <1>3, <1>4 DEF Shape, OfPacket

\* Every cell.
LEMMA ProcessShape ==
  ASSUME NEW c, CellLike(c), NEW f, PacketLike(f), NEW h, NEW r \in Process(c, f, h)
  PROVE  Shape(r, c, f)
<1>1. CASE c.kind \in {"blackhole", "loss.bernoulli", "droplist"}
  BY <1>1, PlainShape DEF Process
<1>2. CASE c.kind = "loss.ge"
  BY <1>2, GilbertElliottShape DEF Process
<1>3. CASE c.kind = "delay"
  BY <1>3, DelayShape DEF Process
<1>4. CASE c.kind = "reorder"
  BY <1>4, ReorderShape DEF Process
<1>5. CASE c.kind = "corrupt"
  BY <1>5, CorruptShape DEF Process
<1>6. CASE c.kind = "ratelimit"
  BY <1>6, RateLimitShape DEF Process
<1>7. CASE c.kind = "deliverytrace"
  BY <1>7, TraceShape DEF Process
<1> QED
  BY <1>1, <1>2, <1>3, <1>4, <1>5, <1>6, <1>7 DEF CellLike, Kinds

-----------------------------------------------------------------------------
(***************************************************************************)
(* A Handle in the making is about one packet: all that is between the     *)
(* stages and all drops are of that packet, and it is never lost sight of. *)
(***************************************************************************)
\* A sequence, of whatever.
IsList(s) == Len(s) \in Nat /\ s = [i \in 1..Len(s) |-> s[i]]

\* A function on 1..n is a sequence of length n.
LEMMA ListOfFunction ==
  ASSUME NEW s, NEW n \in Nat, s = [i \in 1..n |-> s[i]]
  PROVE  IsList(s) /\ Len(s) = n /\ DOMAIN s = 1..n
<1> DEFINE T == {s[i] : i \in 1..n}
<1>1. s \in [1..n -> T]
  OBVIOUS
<1>2. s \in Seq(T)
  BY <1>1
<1>3. Len(s) \in Nat /\ DOMAIN s = 1..Len(s)
  BY <1>2, LenProperties
<1>4. DOMAIN s = 1..n
  BY <1>1
<1>5. Len(s) = n
  BY <1>2, <1>4, LenProperties
<1> QED
  BY <1>4, <1>5 DEF IsList

\* One sequence behind another.
LEMMA ConcatList ==
  ASSUME NEW s, NEW t, IsList(s), IsList(t)
  PROVE  /\ IsList(s \o t) /\ Len(s \o t) = Len(s) + Len(t)
         /\ \A i \in 1..(Len(s) + Len(t)) :
              (s \o t)[i] = IF i <= Len(s) THEN s[i] ELSE t[i - Len(s)]
<1> DEFINE T == {s[i] : i \in 1..Len(s)} \cup {t[i] : i \in 1..Len(t)}
<1>1. s \in [1..Len(s) -> T] /\ t \in [1..Len(t) -> T] /\ Len(s) \in Nat /\ Len(t) \in Nat
  BY DEF IsList
<1>2. s \in Seq(T) /\ t \in Seq(T)
  BY <1>1
<1> HIDE DEF T
<1>3. /\ s \o t \in Seq(T) /\ Len(s \o t) = Len(s) + Len(t)
      /\ \A i \in 1..(Len(s) + Len(t)) :
           (s \o t)[i] = IF i <= Len(s) THEN s[i] ELSE t[i - Len(s)]
  BY <1>2, ConcatProperties
<1>4. IsList(s \o t)
  BY <1>3, LenProperties DEF IsList
<1> QED
  BY <1>3, <1>4

\* One element behind a sequence.
LEMMA AppendList ==
  ASSUME NEW s, IsList(s), NEW x
  PROVE  /\ IsList(Append(s, x)) /\ Len(Append(s, x)) = Len(s) + 1
         /\ \A i \in 1..(Len(s) + 1) :
              Append(s, x)[i] = IF i <= Len(s) THEN s[i] ELSE x
<1> DEFINE T == {s[i] : i \in 1..Len(s)} \cup {x}
<1>1. s \in [1..Len(s) -> T] /\ Len(s) \in Nat /\ x \in T
  BY DEF IsList
<1>2. s \in Seq(T)
  BY <1>1
<1> HIDE DEF T
<1>3. /\ Append(s, x) \in Seq(T) /\ Len(Append(s, x)) = Len(s) + 1
      /\ \A i \in 1..Len(s) : Append(s, x)[i] = s[i]
      /\ Append(s, x)[Len(s) + 1] = x
  BY <1>1, <1>2, AppendProperties
<1>4. IsList(Append(s, x))
  BY <1>3, LenProperties DEF IsList
<1>5. \A i \in 1..(Len(s) + 1) : i <= Len(s) => i \in 1..Len(s)
  BY <1>1
<1>6. \A i \in 1..(Len(s) + 1) : ~ (i <= Len(s)) => i = Len(s) + 1
  BY <1>1
<1> QED
  BY <1>3, <1>4, <1>5, <1>6

\* The empty sequence, and a sequence of one element.
LEMMA ShortLists ==
  /\ IsList(<< >>) /\ Len(<< >>) = 0
  /\ \A x : IsList(<<x>>) /\ Len(<<x>>) = 1 /\ <<x>>[1] = x
  /\ \A x, y : IsList(<<x, y>>) /\ Len(<<x, y>>) = 2 /\ <<x, y>>[1] = x /\ <<x, y>>[2] = y
  BY DEF IsList

DropOf(a, f) ==
  a.kind = "drop" /\ a.seq = f.seq /\ a.dir = f.dir /\ a.recvAt = f.recvAt

HalfOK(h, f) ==
  /\ "next" \in DOMAIN h
  /\ IsList(h.cells) /\ \A i \in 1..Len(h.cells) : CellLike(h.cells[i].cell)
  /\ IsList(h.next) /\ \A k \in 1..Len(h.next) : SamePacket(h.next[k], f)
  /\ IsList(h.acts) /\ \A k \in 1..Len(h.acts) : DropOf(h.acts[k], f)

SameWiring(a, b) ==
  Len(a) = Len(b) /\ \A i \in 1..Len(a) : b[i].stream = a[i].stream

Busy(h) == Len(h.next) > 0 \/ Len(h.acts) > 0

\* One invocation.
LEMMA InvokeOK ==
  ASSUME NEW p, NEW h, HalfOK(h, p), Known(h.known), NEW i \in 1..Len(h.cells),
         NEW f, SamePacket(f, p), NEW g \in Invoke(h, i, f)
  PROVE  HalfOK(g, p) /\ SameWiring(h.cells, g.cells) /\ Busy(g)
<1>1. PICK r : Invoked(h, i, f, r, g)
  BY InvokeParts
<1>2. Shape(r, h.cells[i].cell, f)
  BY <1>1, InvokeGrows, ProcessShape DEF HalfOK, SamePacket
<1> DEFINE c == [cell |-> r.cell, stream |-> h.cells[i].stream, used |-> h.cells[i].used + 1]
           n == Len(h.cells)
<1>3. c.cell = r.cell /\ c.stream = h.cells[i].stream
  OBVIOUS
<1> HIDE DEF c
<1>4. n \in Nat /\ h.cells = [j \in 1..n |-> h.cells[j]]
  BY DEF HalfOK, IsList
<1>5. g.cells = [h.cells EXCEPT ![i] = c]
  BY <1>1 DEF Invoked, c
<1>6. /\ g.cells = [j \in 1..n |-> g.cells[j]]
      /\ \A j \in 1..n : g.cells[j] = IF j = i THEN c ELSE h.cells[j]
  BY <1>4, <1>5
<1>7. IsList(g.cells) /\ Len(g.cells) = n
  BY <1>4, <1>6, ListOfFunction
<1>8. \A j \in 1..n : CellLike(g.cells[j].cell) /\ g.cells[j].stream = h.cells[j].stream
  BY <1>2, <1>3, <1>6 DEF HalfOK, Shape
<1>9. SameWiring(h.cells, g.cells)
  BY <1>7, <1>8 DEF SameWiring
<1>10. IsList(r.outs) /\ \A k \in 1..Len(r.outs) : SamePacket(r.outs[k], p)
  <2>1. \A x : SamePacket(x, f) => SamePacket(x, p)
    BY DEF SamePacket
  <2>2. CASE r.outs = << >>
    BY <2>2, ShortLists
  <2>3. ASSUME NEW x, SamePacket(x, f), r.outs = <<x>>
        PROVE  IsList(r.outs) /\ \A k \in 1..Len(r.outs) : SamePacket(r.outs[k], p)
    <3>1. IsList(r.outs) /\ Len(r.outs) = 1 /\ r.outs[1] = x
      BY <2>3, ShortLists
    <3> QED
      BY <2>1, <2>3, <3>1
  <2>4. ASSUME NEW x, NEW y, SamePacket(x, f), SamePacket(y, f), r.outs = <<x, y>>
        PROVE  IsList(r.outs) /\ \A k \in 1..Len(r.outs) : SamePacket(r.outs[k], p)
    <3>1. IsList(r.outs) /\ Len(r.outs) = 2 /\ r.outs[1] = x /\ r.outs[2] = y
      BY <2>4, ShortLists
    <3> QED
      BY <2>1, <2>4, <3>1
  <2> QED
    BY <1>2, <2>2, <2>3, <2>4 DEF Shape, OfPacket
<1>11. IsList(g.next) /\ Len(g.next) = Len(h.next) + Len(r.outs)
       /\ \A k \in 1..Len(g.next) : SamePacket(g.next[k], p)
  <2>1. PICK m \in Nat, l \in Nat : m = Len(h.next) /\ l = Len(r.outs)
    BY <1>10 DEF HalfOK, IsList
  <2>2. g.next = h.next \o r.outs
    BY <1>1 DEF Invoked
  <2>3. /\ IsList(g.next) /\ Len(g.next) = m + l
        /\ \A k \in 1..(m + l) : g.next[k] = IF k <= m THEN h.next[k] ELSE r.outs[k - m]
    BY <1>10, <2>1, <2>2, ConcatList DEF HalfOK
  <2>4. ASSUME NEW k \in 1..(m + l) PROVE SamePacket(g.next[k], p)
    <3>1. CASE k <= m
      <4>1. k \in 1..m
        BY <3>1
      <4> QED
        BY <2>1, <2>3, <3>1, <4>1 DEF HalfOK
    <3>2. CASE ~ (k <= m)
      <4>1. k - m \in 1..l
        BY <3>2
      <4> QED
        BY <1>10, <2>1, <2>3, <3>2, <4>1
    <3> QED
      BY <3>1, <3>2
  <2> QED
    BY <2>1, <2>3, <2>4
<1> DEFINE a == [kind |-> "drop", seq |-> f.seq, dir |-> f.dir, recvAt |-> f.recvAt,
                 reason |-> h.cells[i].cell.kind]
<1>12. g.acts = IF r.outs # << >> THEN h.acts ELSE Append(h.acts, a)
  BY <1>1 DEF Invoked
<1>13. DropOf(a, p)
  BY DEF DropOf, SamePacket
<1> HIDE DEF a
<1>14. IsList(g.acts) /\ (\A k \in 1..Len(g.acts) : DropOf(g.acts[k], p))
       /\ (r.outs = << >> => Len(g.acts) > 0)
  <2>1. PICK m \in Nat : m = Len(h.acts)
    BY DEF HalfOK, IsList
  <2>2. CASE r.outs # << >>
    BY <1>12, <2>2 DEF HalfOK
  <2>3. CASE r.outs = << >>
    <3>1. /\ IsList(g.acts) /\ Len(g.acts) = m + 1
          /\ \A k \in 1..(m + 1) : g.acts[k] = IF k <= m THEN h.acts[k] ELSE a
      BY <1>12, <2>1, <2>3, AppendList DEF HalfOK
    <3>2. \A k \in 1..(m + 1) : k <= m => k \in 1..m
      OBVIOUS
    <3>3. \A k \in 1..m : DropOf(h.acts[k], p)
      BY <2>1 DEF HalfOK
    <3> QED
      BY <1>13, <3>1, <3>2, <3>3
  <2> QED
    BY <2>2, <2>3
<1>15. r.outs # << >> => Len(r.outs) > 0
  BY <1>2, ShortLists DEF Shape, OfPacket
<1>16. Busy(g)
  <2>1. PICK m \in Nat, l \in Nat : m = Len(h.next) /\ l = Len(r.outs)
    BY <1>10 DEF HalfOK, IsList
  <2>2. ASSUME r.outs # << >> PROVE Len(g.next) > 0
    <3>1. l > 0 /\ Len(g.next) = m + l
      BY <1>11, <1>15, <2>1, <2>2
    <3>2. m + l > 0
      BY <3>1
    <3> QED
      BY <3>1, <3>2
  <2> QED
    BY <1>14, <2>2 DEF Busy
<1>17. HalfOK(g, p)
  BY <1>1, <1>7, <1>8, <1>11, <1>14 DEF HalfOK, Invoked
<1> QED
  BY <1>9, <1>16, <1>17

\* A stage is given the packets of the one before it, the first n of them.
LEMMA ServedOK ==
  ASSUME NEW p, NEW h, HalfOK(h, p), Known(h.known), NEW i \in 1..Len(h.cells),
         NEW n \in Nat, n <= Len(h.next), NEW g \in Served(h, i)[n]
  PROVE  /\ HalfOK(g, p) /\ SameWiring(h.cells, g.cells)
         /\ n > 0 \/ Len(h.acts) > 0 => Busy(g)
<1> DEFINE Fine(m, o) == /\ HalfOK(o, p) /\ SameWiring(h.cells, o.cells)
                         /\ m > 0 \/ Len(h.acts) > 0 => Busy(o)
           Fails(m) == \E o \in Served(h, i)[m] : ~ Fine(m, o)
           T == {m \in Nat : m <= Len(h.next) /\ Fails(m)}
<1>1. SUFFICES ASSUME T # {} PROVE FALSE
  OBVIOUS
<1>2. PICK m \in T : \A l \in T : m <= l
  <2>1. T \subseteq Nat
    OBVIOUS
  <2> HIDE DEF T
  <2> QED
    BY <1>1, <2>1, LeastNat
<1>3. m \in Nat /\ m <= Len(h.next) /\ Len(h.next) \in Nat
  BY <1>2 DEF HalfOK, IsList
<1>4. PICK g1 \in Served(h, i)[m] : ~ Fine(m, g1)
  BY <1>2
<1>5. CASE m = 0
  <2>1. g1 = [h EXCEPT !.next = << >>]
    BY <1>4, <1>5, ServedRecursion
  <2>2. /\ g1.next = << >> /\ g1.cells = h.cells /\ g1.acts = h.acts /\ "next" \in DOMAIN g1
    BY <2>1 DEF HalfOK
  <2>3. HalfOK(g1, p)
    BY <2>2, ShortLists DEF HalfOK
  <2>4. SameWiring(h.cells, g1.cells)
    BY <2>2 DEF SameWiring
  <2>5. Len(h.acts) > 0 => Busy(g1)
    BY <2>2 DEF Busy
  <2> QED
    BY <1>4, <1>5, <2>3, <2>4, <2>5
<1>6. CASE m # 0
  <2>1. m - 1 \in Nat /\ ~ (m <= m - 1) /\ m \in Nat \ {0} /\ m - 1 <= Len(h.next)
        /\ m \in 1..Len(h.next)
    BY <1>3, <1>6
  <2>2. PICK o \in Served(h, i)[m - 1] : g1 \in Invoke(o, i, h.next[m])
    BY <1>4, <2>1, ServedRecursion
  <2>3. Fine(m - 1, o)
    <3>1. m - 1 \notin T
      BY <1>2, <2>1
    <3> QED
      BY <2>1, <2>2, <3>1
  <2>4. Known(o.known)
    BY <2>1, <2>2, ServedGrows
  <2>5. SamePacket(h.next[m], p) /\ i \in 1..Len(o.cells)
    BY <2>1, <2>3 DEF HalfOK, SameWiring
  <2>6. HalfOK(g1, p) /\ SameWiring(o.cells, g1.cells) /\ Busy(g1)
    BY <2>2, <2>3, <2>4, <2>5, InvokeOK
  <2>7. SameWiring(h.cells, g1.cells)
    BY <2>3, <2>6 DEF SameWiring
  <2> QED
    BY <1>4, <2>6, <2>7
<1> QED
  BY <1>5, <1>6

\* A stage serves all the packets that it is handed.
LEMMA StageOK ==
  ASSUME NEW p, NEW h, HalfOK(h, p), Known(h.known), Busy(h), NEW i \in 1..Len(h.cells),
         NEW g \in Stage(h, i)
  PROVE  /\ HalfOK(g, p) /\ SameWiring(h.cells, g.cells) /\ Busy(g)
         /\ Known(g.known) /\ Among(h.known, g.known)
<1>1. Len(h.next) \in Nat /\ Len(h.next) <= Len(h.next)
  BY DEF HalfOK, IsList
<1>2. g \in Served(h, i)[Len(h.next)]
  BY DEF Stage
<1> QED
  BY <1>1, <1>2, ServedOK, ServedGrows DEF Busy

\* A pipeline, up to its stage n.
LEMMA PassedOK ==
  ASSUME NEW p, NEW h, HalfOK(h, p), Known(h.known), Busy(h),
         NEW n \in Nat, n <= Len(h.cells), NEW g \in Passed(h)[n]
  PROVE  /\ HalfOK(g, p) /\ SameWiring(h.cells, g.cells) /\ Busy(g)
         /\ Known(g.known) /\ Among(h.known, g.known)
<1> DEFINE Fine(o) == /\ HalfOK(o, p) /\ SameWiring(h.cells, o.cells) /\ Busy(o)
                      /\ Known(o.known) /\ Among(h.known, o.known)
           Fails(m) == \E o \in Passed(h)[m] : ~ Fine(o)
           T == {m \in Nat : m <= Len(h.cells) /\ Fails(m)}
<1>1. SUFFICES ASSUME T # {} PROVE FALSE
  OBVIOUS
<1>2. PICK m \in T : \A l \in T : m <= l
  <2>1. T \subseteq Nat
    OBVIOUS
  <2> HIDE DEF T
  <2> QED
    BY <1>1, <2>1, LeastNat
<1>3. m \in Nat /\ m <= Len(h.cells) /\ Len(h.cells) \in Nat
  BY <1>2 DEF HalfOK, IsList
<1>4. PICK g1 \in Passed(h)[m] : ~ Fine(g1)
  BY <1>2
<1>5. CASE m = 0
  <2>1. g1 = h
    BY <1>4, <1>5, PassedRecursion
  <2>2. Fine(h)
    BY DEF SameWiring, Among
  <2> QED
    BY <1>4, <2>1, <2>2
<1>6. CASE m # 0
  <2>1. m - 1 \in Nat /\ ~ (m <= m - 1) /\ m \in Nat \ {0} /\ m - 1 <= Len(h.cells)
        /\ m \in 1..Len(h.cells)
    BY <1>3, <1>6
  <2>2. PICK o \in Passed(h)[m - 1] : g1 \in Stage(o, m)
    BY <1>4, <2>1, PassedRecursion
  <2>3. Fine(o)
    <3>1. m - 1 \notin T
      BY <1>2, <2>1
    <3> QED
      BY <2>1, <2>2, <3>1
  <2>4. m \in 1..Len(o.cells)
    BY <2>1, <2>3 DEF SameWiring
  <2>5. /\ HalfOK(g1, p) /\ SameWiring(o.cells, g1.cells) /\ Busy(g1)
        /\ Known(g1.known) /\ Among(o.known, g1.known)
    BY <2>2, <2>3, <2>4, StageOK
  <2>6. SameWiring(h.cells, g1.cells)
    BY <2>3, <2>5 DEF SameWiring
  <2>7. Among(h.known, g1.known)
    BY <2>3, <2>5, AmongTransitive
  <2> QED
    BY <1>4, <2>5, <2>6, <2>7
<1> QED
  BY <1>5, <1>6

-----------------------------------------------------------------------------
(***************************************************************************)
(* Two runs that find the same substreams do the same, as far as their     *)
(* pipelines are the same.                                                 *)
(***************************************************************************)
\* Two halves of a Handle that are the same but for the cells behind the first n and
\* for what is known.
Leading(h, g, n) ==
  /\ \A i \in 1..n : h.cells[i] = g.cells[i]
  /\ h.heap = g.heap /\ h.next = g.next /\ h.acts = g.acts

\* One invocation.
LEMMA InvokeOnce ==
  ASSUME NEW p, NEW h, NEW h2, HalfOK(h, p), HalfOK(h2, p), Known(h.known), Known(h2.known),
         NEW n \in Nat, n <= Len(h.cells), n <= Len(h2.cells), Leading(h, h2, n),
         NEW i \in 1..n, NEW f, NEW g \in Invoke(h, i, f), NEW g2 \in Invoke(h2, i, f),
         NEW k, Among(g.known, k), Among(g2.known, k)
  PROVE  Leading(g, g2, n)
<1>1. PICK r : Invoked(h, i, f, r, g)
  BY InvokeParts
<1>2. PICK r2 : Invoked(h2, i, f, r2, g2)
  BY InvokeParts
<1>3. h.cells[i] = h2.cells[i] /\ h.heap = h2.heap /\ h.next = h2.next /\ h.acts = h2.acts
  BY DEF Leading
<1>4. /\ Question(h, i, f) = Question(h2, i, f)
      /\ Undecided(h, i, f) <=> Undecided(h2, i, f)
  BY <1>3 DEF Question, Undecided
<1>5. r = r2
  <2>1. CASE Undecided(h, i, f)
    <3>1. /\ Question(h, i, f) \in DOMAIN g.known /\ g.known[Question(h, i, f)] = r
          /\ Question(h, i, f) \in DOMAIN g2.known /\ g2.known[Question(h, i, f)] = r2
      BY <1>1, <1>2, <1>4, <2>1, InvokeGrows
    <3> QED
      BY <3>1 DEF Among
  <2>2. CASE ~ Undecided(h, i, f)
    <3>1. /\ r \in Process(h.cells[i].cell, f, h.heap)
          /\ r2 \in Process(h2.cells[i].cell, f, h2.heap)
      BY <1>1, <1>2, InvokeGrows
    <3> QED
      BY <1>3, <2>2, <3>1 DEF Undecided
  <2> QED
    BY <2>1, <2>2
<1> DEFINE c == [cell |-> r.cell, stream |-> h.cells[i].stream, used |-> h.cells[i].used + 1]
<1>6. g.cells = [h.cells EXCEPT ![i] = c] /\ g2.cells = [h2.cells EXCEPT ![i] = c]
  BY <1>1, <1>2, <1>3, <1>5 DEF Invoked
<1> HIDE DEF c
<1>7. \A j \in 1..n : j \in 1..Len(h.cells) /\ j \in 1..Len(h2.cells)
  BY DEF HalfOK, IsList
<1>8. \A j \in 1..n : g.cells[j] = g2.cells[j]
  <2>1. DOMAIN h.cells = 1..Len(h.cells) /\ DOMAIN h2.cells = 1..Len(h2.cells)
    BY DEF HalfOK, IsList
  <2> QED
    BY <1>6, <1>7, <2>1 DEF Leading
<1>9. g.heap = g2.heap /\ g.next = g2.next /\ g.acts = g2.acts
  BY <1>1, <1>2, <1>3, <1>5 DEF Invoked
<1> QED
  BY <1>8, <1>9 DEF Leading

\* A stage, up to its packet m.
LEMMA ServedOnce ==
  ASSUME NEW p, NEW h, NEW h2, HalfOK(h, p), HalfOK(h2, p), Known(h.known), Known(h2.known),
         NEW n \in Nat, n <= Len(h.cells), n <= Len(h2.cells), Leading(h, h2, n),
         NEW i \in 1..n, NEW m \in Nat, m <= Len(h.next),
         NEW g \in Served(h, i)[m], NEW g2 \in Served(h2, i)[m],
         NEW k, Among(g.known, k), Among(g2.known, k)
  PROVE  Leading(g, g2, n)
<1> DEFINE Differ(q) ==
             \E o \in Served(h, i)[q], o2 \in Served(h2, i)[q] :
               Among(o.known, k) /\ Among(o2.known, k) /\ ~ Leading(o, o2, n)
           T == {q \in Nat : q <= Len(h.next) /\ Differ(q)}
<1>1. SUFFICES ASSUME T # {} PROVE FALSE
  OBVIOUS
<1>2. PICK q \in T : \A l \in T : q <= l
  <2>1. T \subseteq Nat
    OBVIOUS
  <2> HIDE DEF T
  <2> QED
    BY <1>1, <2>1, LeastNat
<1>3. q \in Nat /\ q <= Len(h.next) /\ Len(h.next) \in Nat /\ h2.next = h.next
  BY <1>2 DEF HalfOK, IsList, Leading
<1>4. PICK g1 \in Served(h, i)[q], g3 \in Served(h2, i)[q] :
        Among(g1.known, k) /\ Among(g3.known, k) /\ ~ Leading(g1, g3, n)
  BY <1>2
<1>5. CASE q = 0
  <2>1. g1 = [h EXCEPT !.next = << >>] /\ g3 = [h2 EXCEPT !.next = << >>]
    BY <1>4, <1>5, ServedRecursion
  <2>2. "next" \in DOMAIN h /\ "next" \in DOMAIN h2
    BY DEF HalfOK
  <2> QED
    BY <1>4, <2>1, <2>2 DEF Leading
<1>6. CASE q # 0
  <2>1. q - 1 \in Nat /\ ~ (q <= q - 1) /\ q \in Nat \ {0} /\ q - 1 <= Len(h.next)
        /\ q \in 1..Len(h.next)
    BY <1>3, <1>6
  <2>2. PICK o \in Served(h, i)[q - 1] : g1 \in Invoke(o, i, h.next[q])
    BY <1>4, <2>1, ServedRecursion
  <2>3. PICK o2 \in Served(h2, i)[q - 1] : g3 \in Invoke(o2, i, h.next[q])
    BY <1>3, <1>4, <2>1, ServedRecursion
  <2>4. i \in 1..Len(h.cells) /\ i \in 1..Len(h2.cells)
    BY DEF HalfOK, IsList
  <2>5. /\ HalfOK(o, p) /\ SameWiring(h.cells, o.cells)
        /\ HalfOK(o2, p) /\ SameWiring(h2.cells, o2.cells)
    BY <1>3, <2>1, <2>2, <2>3, <2>4, ServedOK
  <2>6. Known(o.known) /\ Known(o2.known)
    BY <2>1, <2>2, <2>3, ServedGrows
  <2>7. Among(o.known, g1.known) /\ Among(o2.known, g3.known)
    BY <2>2, <2>3, <2>6, InvokeParts, InvokeGrows
  <2>8. Among(o.known, k) /\ Among(o2.known, k)
    BY <1>4, <2>7, AmongTransitive
  <2>9. Leading(o, o2, n)
    <3>1. q - 1 \notin T
      BY <1>2, <2>1
    <3> QED
      BY <2>1, <2>2, <2>3, <2>8, <3>1
  <2>10. n <= Len(o.cells) /\ n <= Len(o2.cells)
    BY <2>5 DEF SameWiring
  <2> QED
    BY <1>4, <2>2, <2>3, <2>5, <2>6, <2>9, <2>10, InvokeOnce
<1> QED
  BY <1>5, <1>6

\* A pipeline, up to its stage m.
LEMMA PassedOnce ==
  ASSUME NEW p, NEW h, NEW h2, HalfOK(h, p), HalfOK(h2, p), Busy(h), Busy(h2),
         Known(h.known), Known(h2.known),
         NEW n \in Nat, n <= Len(h.cells), n <= Len(h2.cells), Leading(h, h2, n),
         NEW m \in Nat, m <= n,
         NEW g \in Passed(h)[m], NEW g2 \in Passed(h2)[m],
         NEW k, Among(g.known, k), Among(g2.known, k)
  PROVE  Leading(g, g2, n)
<1> DEFINE Differ(q) ==
             \E o \in Passed(h)[q], o2 \in Passed(h2)[q] :
               Among(o.known, k) /\ Among(o2.known, k) /\ ~ Leading(o, o2, n)
           T == {q \in Nat : q <= n /\ Differ(q)}
<1>1. SUFFICES ASSUME T # {} PROVE FALSE
  OBVIOUS
<1>2. PICK q \in T : \A l \in T : q <= l
  <2>1. T \subseteq Nat
    OBVIOUS
  <2> HIDE DEF T
  <2> QED
    BY <1>1, <2>1, LeastNat
<1>3. q \in Nat /\ q <= n
  BY <1>2
<1>4. PICK g1 \in Passed(h)[q], g3 \in Passed(h2)[q] :
        Among(g1.known, k) /\ Among(g3.known, k) /\ ~ Leading(g1, g3, n)
  BY <1>2
<1>5. CASE q = 0
  <2>1. g1 = h /\ g3 = h2
    BY <1>4, <1>5, PassedRecursion
  <2> QED
    BY <1>4, <2>1
<1>6. CASE q # 0
  <2>1. /\ q - 1 \in Nat /\ ~ (q <= q - 1) /\ q \in Nat \ {0} /\ q \in 1..n /\ q - 1 <= n
        /\ q - 1 <= Len(h.cells) /\ q - 1 <= Len(h2.cells)
        /\ q \in 1..Len(h.cells) /\ q \in 1..Len(h2.cells)
    <3>1. Len(h.cells) \in Nat /\ Len(h2.cells) \in Nat
      BY DEF HalfOK, IsList
    <3> QED
      BY <1>3, <1>6, <3>1
  <2>2. PICK o \in Passed(h)[q - 1] : g1 \in Stage(o, q)
    BY <1>4, <2>1, PassedRecursion
  <2>3. PICK o2 \in Passed(h2)[q - 1] : g3 \in Stage(o2, q)
    BY <1>4, <2>1, PassedRecursion
  <2>4. HalfOK(o, p) /\ SameWiring(h.cells, o.cells) /\ Busy(o) /\ Known(o.known)
    BY <2>1, <2>2, PassedOK
  <2>5. HalfOK(o2, p) /\ SameWiring(h2.cells, o2.cells) /\ Busy(o2) /\ Known(o2.known)
    BY <2>1, <2>3, PassedOK
  <2>6. /\ q \in 1..Len(o.cells) /\ q \in 1..Len(o2.cells)
        /\ n <= Len(o.cells) /\ n <= Len(o2.cells)
    BY <2>1, <2>4, <2>5 DEF SameWiring
  <2>7. Among(o.known, g1.known) /\ Among(o2.known, g3.known)
    BY <2>2, <2>3, <2>4, <2>5, <2>6, StageOK
  <2>8. Among(o.known, k) /\ Among(o2.known, k)
    BY <1>4, <2>7, AmongTransitive
  <2>9. Leading(o, o2, n)
    <3>1. q - 1 \notin T
      BY <1>2, <2>1
    <3> QED
      BY <2>1, <2>2, <2>3, <2>8, <3>1
  <2>10. Len(o.next) \in Nat /\ Len(o.next) <= Len(o.next) /\ Len(o2.next) = Len(o.next)
    BY <2>4, <2>9 DEF HalfOK, IsList, Leading
  <2>11. g1 \in Served(o, q)[Len(o.next)] /\ g3 \in Served(o2, q)[Len(o.next)]
    BY <2>2, <2>3, <2>10 DEF Stage
  <2> QED
    BY <1>4, <2>1, <2>4, <2>5, <2>6, <2>9, <2>10, <2>11, ServedOnce
<1> QED
  BY <1>5, <1>6

-----------------------------------------------------------------------------
(***************************************************************************)
(* Engines.                                                                *)
(***************************************************************************)
PipeOK(p) == IsList(p) /\ \A i \in 1..Len(p) : CellLike(p[i].cell)

\* The actions are those of the packets handled so far, at least one for each.
ActsOK(acts, n) ==
  /\ IsList(acts)
  /\ \A k \in 1..Len(acts) :
       acts[k].seq \in 1..n /\ acts[k].dir \in Dirs /\ acts[k].kind \in {"drop", "forward"}
  /\ \A m \in 1..n : \E k \in 1..Len(acts) : acts[k].seq = m

EngineOK(e) ==
  /\ DOMAIN e.pipes = Dirs /\ \A d \in Dirs : PipeOK(e.pipes[d])
  /\ e.seq \in Nat
  /\ ActsOK(e.acts, e.seq)

\* The packet that enters, and what Handle starts from.
Entering(e, ev) ==
  [seq |-> e.seq + 1, dir |-> ev.dir, data |-> 1, len |-> ev.len,
   recvAt |-> ev.at, deliverAt |-> ev.at]

Starting(e, ev, known) ==
  [cells |-> e.pipes[ev.dir], known |-> known, heap |-> <<0>>,
   next |-> <<Entering(e, ev)>>, acts |-> << >>]

\* The survivors of a packet as actions.
Forwards(next) == [k \in DOMAIN next |-> Forward(next[k])]

Handled(e, ev, h, r) ==
  /\ r.eng = [pipes |-> [e.pipes EXCEPT ![ev.dir] = h.cells], seq |-> e.seq + 1,
              acts |-> e.acts \o h.acts \o Forwards(h.next)]
  /\ r.known = h.known

\* What Handle returns: the end of a pipeline that was started with the packet.
LEMMA HandleParts ==
  ASSUME NEW e, NEW ev, NEW known, NEW r \in Handle(e, ev, known)
  PROVE  \E h \in Passed(Starting(e, ev, known))[Len(e.pipes[ev.dir])] : Handled(e, ev, h, r)
<1>1. PICK h \in Passed(Starting(e, ev, known))[Len(e.pipes[ev.dir])] :
        r = [eng |-> [pipes |-> [e.pipes EXCEPT ![ev.dir] = h.cells], seq |-> e.seq + 1,
                      acts |-> e.acts \o h.acts \o Forwards(h.next)],
             known |-> h.known]
  BY Zenon DEF Handle, Starting, Entering, Forwards
<1>2. Handled(e, ev, h, r)
  BY <1>1 DEF Handled
<1> QED
  BY <1>2

\* Handle starts with the packet in front of the first stage.
LEMMA StartOK ==
  ASSUME NEW e, EngineOK(e), NEW ev, ev.dir \in Dirs, NEW known
  PROVE  LET h == Starting(e, ev, known)
         IN  /\ HalfOK(h, Entering(e, ev)) /\ Busy(h)
             /\ h.known = known /\ h.cells = e.pipes[ev.dir]
             /\ Len(h.cells) \in Nat
<1> DEFINE f == Entering(e, ev)
           h == Starting(e, ev, known)
<1>1. /\ h.cells = e.pipes[ev.dir] /\ h.known = known /\ h.next = <<f>> /\ h.acts = << >>
      /\ "next" \in DOMAIN h
  BY DEF Starting
<1>2. SamePacket(f, f)
  BY DEF Entering, SamePacket, PacketLike
<1> HIDE DEF f, h
<1>3. PipeOK(h.cells) /\ Len(h.cells) \in Nat
  BY <1>1 DEF EngineOK, PipeOK, IsList
<1>4. /\ IsList(h.next) /\ Len(h.next) = 1 /\ h.next[1] = f
      /\ IsList(h.acts) /\ Len(h.acts) = 0
  BY <1>1, ShortLists
<1>5. HalfOK(h, f) /\ Busy(h)
  BY <1>1, <1>2, <1>3, <1>4 DEF HalfOK, Busy, PipeOK
<1> QED
  BY <1>1, <1>3, <1>5 DEF f, h

\* Three sequences, one behind the other.
Joined(all, s, t, u) ==
  /\ IsList(all) /\ Len(all) = Len(s) + Len(t) + Len(u)
  /\ \A k \in 1..Len(s) : all[k] = s[k]
  /\ \A k \in 1..Len(t) : all[Len(s) + k] = t[k]
  /\ \A k \in 1..Len(u) : all[Len(s) + Len(t) + k] = u[k]

\* Concatenation joins them.
LEMMA ThreeLists ==
  ASSUME NEW s, NEW t, NEW u, IsList(s), IsList(t), IsList(u)
  PROVE  Joined(s \o t \o u, s, t, u)
<1> DEFINE st == s \o t
           all == st \o u
<1>1. PICK a \in Nat, b \in Nat, c \in Nat : a = Len(s) /\ b = Len(t) /\ c = Len(u)
  BY DEF IsList
<1>2. /\ IsList(st) /\ Len(st) = a + b
      /\ \A k \in 1..(a + b) : st[k] = IF k <= a THEN s[k] ELSE t[k - a]
  BY <1>1, ConcatList
<1> HIDE DEF st
<1>3. /\ IsList(all) /\ Len(all) = a + b + c
      /\ \A k \in 1..(a + b + c) :
           all[k] = IF k <= a + b THEN st[k] ELSE u[k - (a + b)]
  <2>1. IsList(st) /\ Len(st) = a + b /\ IsList(u) /\ Len(u) = c
    BY <1>1, <1>2
  <2> QED
    BY ONLY <2>1, ConcatList
<1> HIDE DEF all
<1>4. ASSUME NEW k \in 1..a PROVE all[k] = s[k]
  <2>1. k \in 1..(a + b) /\ k \in 1..(a + b + c) /\ k <= a + b /\ k <= a
    BY <1>1
  <2> QED
    BY <1>2, <1>3, <2>1
<1>5. ASSUME NEW k \in 1..b PROVE all[a + k] = t[k]
  <2>1. a + k \in 1..(a + b) /\ a + k \in 1..(a + b + c) /\ a + k <= a + b
        /\ ~ (a + k <= a) /\ (a + k) - a = k
    BY <1>1
  <2> QED
    BY <1>2, <1>3, <2>1
<1>6. ASSUME NEW k \in 1..c PROVE all[a + b + k] = u[k]
  <2>1. a + b + k \in 1..(a + b + c) /\ ~ (a + b + k <= a + b) /\ (a + b + k) - (a + b) = k
    BY <1>1
  <2> QED
    BY <1>3, <2>1
<1>7. Joined(all, s, t, u)
  BY <1>1, <1>3, <1>4, <1>5, <1>6 DEF Joined
<1> QED
  BY <1>7 DEF all, st

\* The survivors make as many actions, each that of its packet.
LEMMA ForwardsList ==
  ASSUME NEW next, IsList(next)
  PROVE  /\ IsList(Forwards(next)) /\ Len(Forwards(next)) = Len(next)
         /\ \A k \in 1..Len(next) : Forwards(next)[k] = Forward(next[k])
<1>1. Len(next) \in Nat /\ DOMAIN next = 1..Len(next)
  BY DEF IsList
<1>2. Forwards(next) = [k \in 1..Len(next) |-> Forward(next[k])]
  BY <1>1 DEF Forwards
<1>3. /\ Forwards(next) = [k \in 1..Len(next) |-> Forwards(next)[k]]
      /\ \A k \in 1..Len(next) : Forwards(next)[k] = Forward(next[k])
  BY <1>2
<1> QED
  BY <1>1, <1>3, ListOfFunction

\* The new actions are those of the new packet.
LEMMA ActsGrow ==
  ASSUME NEW acts, NEW n \in Nat, ActsOK(acts, n), NEW f, f.seq = n + 1, f.dir \in Dirs,
         NEW h, HalfOK(h, f), Busy(h)
  PROVE  ActsOK(acts \o h.acts \o Forwards(h.next), n + 1)
<1> DEFINE fw == Forwards(h.next)
           all == acts \o h.acts \o fw
<1>1. PICK a \in Nat, b \in Nat, c \in Nat :
        a = Len(acts) /\ b = Len(h.acts) /\ c = Len(h.next)
  BY DEF ActsOK, HalfOK, IsList
<1>2. /\ IsList(acts) /\ IsList(h.acts) /\ IsList(h.next)
      /\ \A k \in 1..a : acts[k].seq \in 1..n /\ acts[k].dir \in Dirs
                        /\ acts[k].kind \in {"drop", "forward"}
      /\ \A m \in 1..n : \E k \in 1..a : acts[k].seq = m
      /\ \A k \in 1..b : h.acts[k].seq = n + 1 /\ h.acts[k].dir \in Dirs /\ h.acts[k].kind = "drop"
      /\ \A k \in 1..c : h.next[k].seq = n + 1 /\ h.next[k].dir \in Dirs
  BY <1>1 DEF ActsOK, HalfOK, DropOf, SamePacket
<1>3. IsList(fw) /\ Len(fw) = c /\ \A k \in 1..c : fw[k] = Forward(h.next[k])
  BY <1>1, <1>2, ForwardsList
<1> HIDE DEF fw
<1>4. \A k \in 1..c : fw[k].seq = n + 1 /\ fw[k].dir \in Dirs /\ fw[k].kind = "forward"
  <2>1. \A x : Forward(x).seq = x.seq /\ Forward(x).dir = x.dir /\ Forward(x).kind = "forward"
    BY DEF Forward
  <2> QED
    BY <1>2, <1>3, <2>1
<1>5. /\ IsList(acts) /\ IsList(h.acts) /\ IsList(fw)
      /\ a = Len(acts) /\ b = Len(h.acts) /\ c = Len(fw)
  BY <1>1, <1>2, <1>3
<1>6. /\ IsList(all) /\ Len(all) = a + b + c
      /\ \A k \in 1..a : all[k] = acts[k]
      /\ \A k \in 1..b : all[a + k] = h.acts[k]
      /\ \A k \in 1..c : all[a + b + k] = fw[k]
  <2>1. Joined(all, acts, h.acts, fw)
    BY <1>5, ThreeLists
  <2> HIDE DEF all
  <2> QED
    BY <1>5, <2>1 DEF Joined
<1> HIDE DEF all
<1>7. ASSUME NEW k \in 1..(a + b + c)
      PROVE  all[k].seq \in 1..(n + 1) /\ all[k].dir \in Dirs
             /\ all[k].kind \in {"drop", "forward"}
  <2>1. n + 1 \in 1..(n + 1) /\ \A m \in 1..n : m \in 1..(n + 1)
    OBVIOUS
  <2>2. CASE k <= a
    <3>1. k \in 1..a
      BY <2>2
    <3> QED
      BY <1>2, <1>6, <2>1, <3>1
  <2>3. CASE ~ (k <= a) /\ k <= a + b
    <3>1. k - a \in 1..b /\ a + (k - a) = k
      BY <2>3
    <3>2. \A i \in 1..b : all[a + i] = h.acts[i]
      BY <1>6
    <3>3. all[k] = h.acts[k - a]
      BY <3>1, <3>2
    <3>4. all[k].seq = n + 1 /\ all[k].dir \in Dirs /\ all[k].kind = "drop"
      BY <1>2, <3>1, <3>3
    <3> QED
      BY <2>1, <3>4
  <2>4. CASE ~ (k <= a + b)
    <3>1. k - (a + b) \in 1..c /\ a + b + (k - (a + b)) = k
      BY <2>4
    <3>2. \A i \in 1..c : all[a + b + i] = fw[i]
      BY <1>6
    <3>3. all[k] = fw[k - (a + b)]
      BY <3>1, <3>2
    <3>4. all[k].seq = n + 1 /\ all[k].dir \in Dirs /\ all[k].kind = "forward"
      BY <1>4, <3>1, <3>3
    <3> QED
      BY <2>1, <3>4
  <2> QED
    BY <2>2, <2>3, <2>4
<1>8. ASSUME NEW m \in 1..(n + 1) PROVE \E k \in 1..(a + b + c) : all[k].seq = m
  <2>1. CASE m <= n
    <3>1. m \in 1..n
      BY <2>1
    <3>2. PICK k \in 1..a : acts[k].seq = m
      BY <1>2, <3>1
    <3>3. k \in 1..(a + b + c)
      OBVIOUS
    <3>4. all[k] = acts[k]
      BY <1>6
    <3> QED
      BY <3>2, <3>3, <3>4
  <2>2. CASE ~ (m <= n)
    <3>1. m = n + 1
      BY <2>2
    <3>2. b > 0 \/ c > 0
      BY <1>1 DEF Busy
    <3>3. CASE b > 0
      <4>1. 1 \in 1..b /\ a + 1 \in 1..(a + b + c)
        BY <3>3
      <4>2. all[a + 1].seq = m
        BY <1>2, <1>6, <3>1, <4>1
      <4> QED
        BY <4>1, <4>2
    <3>4. CASE c > 0
      <4>1. 1 \in 1..c /\ a + b + 1 \in 1..(a + b + c)
        BY <3>4
      <4>2. all[a + b + 1].seq = m
        BY <1>4, <1>6, <3>1, <4>1
      <4> QED
        BY <4>1, <4>2
    <3> QED
      BY <3>2, <3>3, <3>4
  <2> QED
    BY <2>1, <2>2
<1>9. ActsOK(all, n + 1)
  BY <1>6, <1>7, <1>8 DEF ActsOK
<1> QED
  BY <1>9 DEF all, fw

\* One Handle.
LEMMA HandleOK ==
  ASSUME NEW e, EngineOK(e), NEW ev, ev.dir \in Dirs, NEW known, Known(known),
         NEW r \in Handle(e, ev, known)
  PROVE  /\ EngineOK(r.eng) /\ r.eng.seq = e.seq + 1
         /\ \A d \in Dirs : SameWiring(e.pipes[d], r.eng.pipes[d])
         /\ Known(r.known) /\ Among(known, r.known)
<1> DEFINE s == Starting(e, ev, known)
           f == Entering(e, ev)
           n == Len(e.pipes[ev.dir])
<1>1. PICK h \in Passed(s)[n] : Handled(e, ev, h, r)
  BY HandleParts
<1>2. /\ HalfOK(s, f) /\ Busy(s) /\ s.known = known /\ s.cells = e.pipes[ev.dir]
      /\ n \in Nat /\ n <= Len(s.cells)
  BY StartOK
<1>3. f.seq = e.seq + 1 /\ f.dir \in Dirs
  BY DEF Entering
<1> HIDE DEF s, f, n
<1>4. /\ HalfOK(h, f) /\ SameWiring(s.cells, h.cells) /\ Busy(h)
      /\ Known(h.known) /\ Among(known, h.known)
  BY <1>1, <1>2, PassedOK
<1> DEFINE pipes == [e.pipes EXCEPT ![ev.dir] = h.cells]
           acts == e.acts \o h.acts \o Forwards(h.next)
<1>5. r.eng.pipes = pipes /\ r.eng.seq = e.seq + 1 /\ r.eng.acts = acts /\ r.known = h.known
  <2>1. r.eng = [pipes |-> pipes, seq |-> e.seq + 1, acts |-> acts] /\ r.known = h.known
    BY <1>1 DEF Handled
  <2> HIDE DEF pipes, acts
  <2> QED
    BY <2>1
<1>6. ActsOK(r.eng.acts, e.seq + 1)
  BY <1>3, <1>4, <1>5, ActsGrow DEF EngineOK
<1>7. DOMAIN r.eng.pipes = Dirs
      /\ \A d \in Dirs : r.eng.pipes[d] = IF d = ev.dir THEN h.cells ELSE e.pipes[d]
  BY <1>5 DEF EngineOK
<1>8. PipeOK(h.cells)
  BY <1>4 DEF HalfOK, PipeOK
<1>9. EngineOK(r.eng)
  BY <1>5, <1>6, <1>7, <1>8 DEF EngineOK
<1>10. \A d \in Dirs : SameWiring(e.pipes[d], r.eng.pipes[d])
  BY <1>2, <1>4, <1>7 DEF SameWiring
<1> QED
  BY <1>4, <1>5, <1>9, <1>10

\* Two engines in the same state do the same with the same packet if their decisions
\* do not contradict each other.
LEMMA HandleOnce ==
  ASSUME NEW e, EngineOK(e), NEW ev, ev.dir \in Dirs,
         NEW j, Known(j), NEW r \in Handle(e, ev, j),
         NEW j2, Known(j2), NEW r2 \in Handle(e, ev, j2),
         NEW k, Among(r.known, k), Among(r2.known, k)
  PROVE  r.eng = r2.eng
<1> DEFINE s == Starting(e, ev, j)
           s2 == Starting(e, ev, j2)
           f == Entering(e, ev)
           n == Len(e.pipes[ev.dir])
<1>1. PICK h \in Passed(s)[n] : Handled(e, ev, h, r)
  BY HandleParts
<1>2. PICK h2 \in Passed(s2)[n] : Handled(e, ev, h2, r2)
  BY HandleParts
<1>3. /\ HalfOK(s, f) /\ Busy(s) /\ s.known = j /\ HalfOK(s2, f) /\ Busy(s2) /\ s2.known = j2
      /\ n \in Nat /\ n <= Len(s.cells)
  BY StartOK
<1>4. Leading(s, s2, n) /\ n <= Len(s2.cells) /\ s.cells = s2.cells /\ n = Len(s.cells)
  BY <1>3 DEF Starting, Leading
<1> HIDE DEF s, s2, f, n
<1>5. Among(h.known, k) /\ Among(h2.known, k)
  BY <1>1, <1>2 DEF Handled
<1>6. Leading(h, h2, n)
  BY <1>1, <1>2, <1>3, <1>4, <1>5, PassedOnce
<1>7. h.cells = h2.cells
  <2>1. /\ HalfOK(h, f) /\ SameWiring(s.cells, h.cells)
        /\ HalfOK(h2, f) /\ SameWiring(s2.cells, h2.cells)
    BY <1>1, <1>2, <1>3, <1>4, PassedOK
  <2>2. h.cells = [i \in 1..n |-> h.cells[i]] /\ h2.cells = [i \in 1..n |-> h2.cells[i]]
    BY <1>4, <2>1 DEF HalfOK, IsList, SameWiring
  <2> QED
    BY <1>6, <2>2 DEF Leading
<1> QED
  BY <1>1, <1>2, <1>6, <1>7 DEF Handled, Leading

-----------------------------------------------------------------------------
(***************************************************************************)
(* What is built.                                                          *)
(***************************************************************************)
\* A slice is a sequence.
LEMMA SliceList ==
  ASSUME NEW s, Slice(s)
  PROVE  IsList(s) /\ DOMAIN s = 1..Len(s) /\ \A i \in 1..Len(s) : s[i] \in Range(s)
<1>1. s \in Seq(Range(s))
  BY DEF Slice
<1>2. Len(s) \in Nat /\ s \in [1..Len(s) -> Range(s)] /\ DOMAIN s = 1..Len(s)
  BY <1>1, LenProperties
<1> QED
  BY <1>2 DEF IsList

\* The stages of a direction, as a job has them.
StagesOK(stages) ==
  IsList(stages) /\ DOMAIN stages = 1..Len(stages)
  /\ \A i \in 1..Len(stages) : DOMAIN stages[i] \subseteq Impairments

BuildAllowed(b) ==
  /\ b.via \in {"build", "link", "trace", "import", "manifest"}
  /\ b.via = "link" => b.link \in Int
  /\ FromScenario(b) => \A d \in Dirs : StagesOK(StagesOf(b.s, d))

\* What the assumption on the jobs says of one of them.
LEMMA JobFacts ==
  ASSUME NEW j \in Jobs
  PROVE  /\ IsList(j.trace) /\ DOMAIN j.trace = 1..Len(j.trace)
         /\ \A n \in 1..Len(j.trace) : j.trace[n].dir \in Dirs
         /\ IsList(j.builds) /\ \A i \in 1..Len(j.builds) : BuildAllowed(j.builds[i])
<1>1. IsList(j.trace) /\ DOMAIN j.trace = 1..Len(j.trace)
      /\ \A n \in 1..Len(j.trace) : j.trace[n].dir \in Dirs
  BY JobsAssumption, SliceList
<1>2. IsList(j.builds) /\ \A i \in 1..Len(j.builds) : j.builds[i] \in Range(j.builds)
  BY JobsAssumption, SliceList
<1>3. ASSUME NEW b \in Range(j.builds) PROVE BuildAllowed(b)
  <2>1. /\ b.via \in {"build", "link", "trace", "import", "manifest"}
        /\ b.via = "link" => b.link \in Int
        /\ FromScenario(b) =>
             \A field \in {"pipeline", "c2s", "s2c"} :
               Slice(b.s[field]) /\ \A st \in Range(b.s[field]) : DOMAIN st \subseteq Impairments
    BY JobsAssumption
  <2>2. ASSUME FromScenario(b), NEW field \in {"pipeline", "c2s", "s2c"}
        PROVE  StagesOK(b.s[field])
    BY <2>1, <2>2, SliceList DEF StagesOK
  <2>3. ASSUME FromScenario(b), NEW d \in Dirs PROVE StagesOK(StagesOf(b.s, d))
    <3>1. StagesOf(b.s, d) = b.s["pipeline"] \/ StagesOf(b.s, d) = b.s[d]
      BY DEF StagesOf
    <3> QED
      BY <2>2, <2>3, <3>1 DEF Dirs
  <2> QED
    BY <2>1, <2>3 DEF BuildAllowed
<1> QED
  BY <1>1, <1>2, <1>3

\* What a scenario is built into: cells in the order of the stages, each with the
\* substream of its place.
Prefix(b) == IF b.via = "link" THEN b.link ELSE NoPrefix

\* A scenario that is accepted has these two pipelines.
LEMMA ScenarioBuilt ==
  ASSUME NEW b, FromScenario(b), BuildAllowed(b), Built(b).err = "none"
  PROVE  /\ Built(b).pipes =
              [c2s |-> buildPipeline(b.s.seed, Prefix(b), "c2s", StagesOf(b.s, "c2s")),
               s2c |-> buildPipeline(b.s.seed, Prefix(b), "s2c", StagesOf(b.s, "s2c"))]
         /\ \A d \in Dirs : PipelineError(StagesOf(b.s, d)) = "none"
         /\ b.via = "link" => b.link \in Nat
<1>1. Built(b) = build(b.s, Prefix(b)) /\ (b.via = "link" => b.link \in Nat)
  <2>1. CASE b.via = "build"
    BY <2>1 DEF Built, Build, Prefix
  <2>2. CASE b.via = "link"
    <3>1. Built(b) = IF b.link < 0 THEN Refused("negative link") ELSE build(b.s, b.link)
      BY <2>2 DEF Built, BuildLink
    <3>2. Refused("negative link").err = "negative link"
      BY DEF Refused
    <3>3. ~ (b.link < 0) /\ b.link \in Int
      BY <2>2, <3>1, <3>2 DEF BuildAllowed
    <3> QED
      BY <2>2, <3>1, <3>3 DEF Prefix
  <2> QED
    BY <2>1, <2>2 DEF FromScenario
<1> DEFINE pipe(d) == buildPipeline(b.s.seed, Prefix(b), d, StagesOf(b.s, d))
           fault(d) == PipelineError(StagesOf(b.s, d))
<1>2. \A x : Refused(x).err = x
  BY DEF Refused
<1> DEFINE done == [err |-> "none", pipes |-> [c2s |-> pipe("c2s"), s2c |-> pipe("s2c")]]
           clear(d) == guardEncrypted(pipe(d))
<1>3. \/ build(b.s, Prefix(b)) = Refused("both")
      \/ fault("c2s") # "none" /\ build(b.s, Prefix(b)) = Refused(fault("c2s"))
      \/ fault("s2c") # "none" /\ build(b.s, Prefix(b)) = Refused(fault("s2c"))
      \/ build(b.s, Prefix(b)) = Refused("requires cleartext")
      \/ fault("c2s") = "none" /\ fault("s2c") = "none" /\ build(b.s, Prefix(b)) = done
  <2>1. build(b.s, Prefix(b)) =
          IF b.s.pipeline # << >> /\ (b.s.c2s # << >> \/ b.s.s2c # << >>) THEN Refused("both")
          ELSE IF fault("c2s") # "none" THEN Refused(fault("c2s"))
          ELSE IF fault("s2c") # "none" THEN Refused(fault("s2c"))
          ELSE IF b.s.encrypted /\ ~(clear("c2s") /\ clear("s2c")) THEN Refused("requires cleartext")
          ELSE done
    BY Zenon DEF build
  <2> HIDE DEF done, clear, fault
  <2> QED
    BY Zenon, <2>1
<1>4. /\ fault("c2s") = "none" /\ fault("s2c") = "none" /\ build(b.s, Prefix(b)) = done
  BY <1>1, <1>2, <1>3
<1> QED
  BY <1>1, <1>4 DEF Dirs

\* Stages without an error set one impairment each, at least.
LEMMA StagesSet ==
  ASSUME NEW stages, StagesOK(stages), PipelineError(stages) = "none"
  PROVE  \A i \in 1..Len(stages) : DOMAIN stages[i] # {}
<1> DEFINE bad == {i \in DOMAIN stages : StageError(stages[i]) # "none"}
<1>1. bad = {}
  <2>1. SUFFICES ASSUME bad # {} PROVE FALSE
    OBVIOUS
  <2>2. bad \subseteq Nat
    BY DEF StagesOK, IsList
  <2>3. \E i \in bad : \A j \in bad : i <= j
    <3> HIDE DEF bad
    <3> QED
      BY <2>1, <2>2, LeastNat
  <2> DEFINE first == CHOOSE i \in bad : \A j \in bad : i <= j
  <2>4. first \in bad
    BY <2>3
  <2>5. StageError(stages[first]) # "none"
    BY <2>4
  <2>6. PipelineError(stages) = StageError(stages[first])
    BY <2>1 DEF PipelineError
  <2> QED
    BY <2>5, <2>6
<1>2. ASSUME NEW i \in 1..Len(stages) PROVE DOMAIN stages[i] # {}
  <2>1. StageError(stages[i]) = "none"
    BY <1>1 DEF StagesOK
  <2> QED
    BY <2>1 DEF StageError
<1> QED
  BY <1>2

\* A pipeline whose cells are named for their places.
Placed(p, seed, prefix, d) ==
  /\ PipeOK(p)
  /\ \A i \in 1..Len(p) : \E kind :
       p[i].stream = [seed |-> seed, name |-> <<prefix, kind, d, i - 1>>]

\* Every cell of a pipeline that is built is named for its place.
LEMMA PipelineBuilt ==
  ASSUME NEW seed, NEW prefix, NEW d, NEW stages, StagesOK(stages),
         PipelineError(stages) = "none"
  PROVE  Placed(buildPipeline(seed, prefix, d, stages), seed, prefix, d)
<1> DEFINE p == buildPipeline(seed, prefix, d, stages)
           n == Len(stages)
<1>1. n \in Nat /\ DOMAIN stages = 1..n
  BY DEF StagesOK, IsList
<1>2. p = [i \in 1..n |-> buildCell(seed, prefix, d, i - 1, stages[i])]
  BY <1>1 DEF buildPipeline
<1>3. ASSUME NEW i \in 1..n
      PROVE  /\ CellLike(p[i].cell)
             /\ \E kind : p[i].stream = [seed |-> seed, name |-> <<prefix, kind, d, i - 1>>]
  <2> DEFINE kind == CHOOSE k \in DOMAIN stages[i] : TRUE
  <2>1. p[i] = Wired(NewCell(kind, stages[i][kind]), Sub(seed, <<prefix, kind, d, i - 1>>))
    BY <1>2 DEF buildCell
  <2>2. kind \in Impairments
    BY StagesSet DEF StagesOK
  <2> HIDE DEF kind, p
  <2>3. /\ p[i].cell = NewCell(kind, stages[i][kind])
        /\ p[i].stream = [seed |-> seed, name |-> <<prefix, kind, d, i - 1>>]
    BY <2>1 DEF Wired, Sub
  <2>4. \A x : CellLike(NewCell(kind, x))
    BY <2>2 DEF Impairments, NewCell, CellLike, Kinds, Bernoulli, GilbertElliott, Delay, Reorder,
       Corrupt, RateLimit, DropList, Blackhole
  <2> QED
    BY <2>3, <2>4
<1>4. p = [i \in 1..n |-> p[i]]
  BY <1>2
<1> HIDE DEF p
<1>5. IsList(p) /\ Len(p) = n
  BY <1>1, <1>4, ListOfFunction
<1> QED
  BY <1>3, <1>5 DEF PipeOK, Placed, p

\* An engine that was built is one.
LEMMA BuiltOK ==
  ASSUME NEW b, BuildAllowed(b), Built(b).err = "none"
  PROVE  EngineOK(NewEngine(Built(b).pipes))
<1>1. /\ DOMAIN Built(b).pipes = Dirs
      /\ \A d \in Dirs : PipeOK(Built(b).pipes[d])
  <2>1. CASE FromScenario(b)
    <3>1. \A d \in Dirs : PipelineError(StagesOf(b.s, d)) = "none" /\ StagesOK(StagesOf(b.s, d))
      BY <2>1, ScenarioBuilt DEF BuildAllowed
    <3> DEFINE pipe(d) == buildPipeline(b.s.seed, Prefix(b), d, StagesOf(b.s, d))
    <3>2. \A d \in Dirs : PipeOK(pipe(d))
      BY <3>1, PipelineBuilt DEF Placed
    <3>3. Built(b).pipes = [c2s |-> pipe("c2s"), s2c |-> pipe("s2c")]
      BY <2>1, ScenarioBuilt
    <3> HIDE DEF pipe
    <3> QED
      BY <3>2, <3>3 DEF Dirs
  <2>2. CASE ~ FromScenario(b)
    <3> DEFINE Traced(p) == p.err = "none" =>
                              /\ DOMAIN p.pipes = Dirs /\ \A d \in Dirs : PipeOK(p.pipes[d])
    <3>1. \A cfg : Traced(TracePipes(cfg))
      <4> TAKE cfg
      <4>1. CellLike(TraceCell(cfg).cell)
        BY DEF TraceCell, Wired, DeliveryTrace, CellLike, Kinds
      <4>2. PipeOK(<<TraceCell(cfg)>>) /\ PipeOK(<< >>)
        BY <4>1, ShortLists DEF PipeOK
      <4>3. TracePipes(cfg).pipes = [c2s |-> <<TraceCell(cfg)>>, s2c |-> << >>]
        BY DEF TracePipes
      <4> QED
        BY <4>2, <4>3 DEF Dirs
    <3>2. \A x : x # "none" => Traced(Refused(x))
      BY DEF Refused
    <3> HIDE DEF Traced
    <3>3. \A text, cited : Traced(ImportMahimahi(text, cited))
      BY <3>1, <3>2 DEF ImportMahimahi
    <3>4. \A man, name, file : Traced(ManifestTrace(man, name, file))
      BY <3>2, <3>3 DEF ManifestTrace
    <3>5. Traced(Built(b))
      BY <2>2, <3>1, <3>3, <3>4 DEF Built, BuildAllowed, FromScenario
    <3> QED
      BY <3>5 DEF Traced
  <2> QED
    BY <2>1, <2>2
<1>2. ActsOK(<< >>, 0)
  BY ShortLists DEF ActsOK
<1> QED
  BY <1>1, <1>2 DEF EngineOK, NewEngine

-----------------------------------------------------------------------------
(***************************************************************************)
(* Runs.                                                                   *)
(***************************************************************************)
\* The states of an engine, one for each number of packets handled: each Handle
\* decided among what is known now.
History(k, start, trace, states, n) ==
  /\ states[0] = start
  /\ \A m \in 1..n :
       /\ EngineOK(states[m - 1])
       /\ \E j : Known(j) /\ \E r \in Handle(states[m - 1], trace[m], j) :
            r.eng = states[m] /\ Among(r.known, k)

Replayed(k, start, trace, e) ==
  \E states : History(k, start, trace, states, e.seq) /\ states[e.seq] = e

\* There is one such state at most.
LEMMA HistoryOnce ==
  ASSUME NEW k, NEW start, NEW trace, NEW n \in Nat,
         \A m \in 1..n : trace[m].dir \in Dirs,
         NEW s, History(k, start, trace, s, n), NEW t, History(k, start, trace, t, n)
  PROVE  s[n] = t[n]
<1> DEFINE T == {m \in Nat : m <= n /\ s[m] # t[m]}
<1>1. SUFFICES ASSUME T # {} PROVE FALSE
  OBVIOUS
<1>2. PICK m \in T : \A l \in T : m <= l
  <2>1. T \subseteq Nat
    OBVIOUS
  <2> HIDE DEF T
  <2> QED
    BY <1>1, <2>1, LeastNat
<1>3. m \in Nat /\ m <= n /\ s[m] # t[m]
  BY <1>2
<1>4. m # 0
  BY <1>3 DEF History
<1>5. m \in 1..n /\ m - 1 \in Nat /\ m - 1 <= n /\ ~ (m <= m - 1)
  BY <1>3, <1>4
<1>6. s[m - 1] = t[m - 1]
  BY <1>2, <1>5
<1>7. /\ EngineOK(s[m - 1]) /\ trace[m].dir \in Dirs
      /\ \E j : Known(j) /\ \E r \in Handle(s[m - 1], trace[m], j) :
           r.eng = s[m] /\ Among(r.known, k)
      /\ \E j : Known(j) /\ \E r \in Handle(t[m - 1], trace[m], j) :
           r.eng = t[m] /\ Among(r.known, k)
  BY <1>5 DEF History
<1>8. PICK j : Known(j) /\ \E r \in Handle(s[m - 1], trace[m], j) :
                 r.eng = s[m] /\ Among(r.known, k)
  BY <1>7
<1>9. PICK j2 : Known(j2) /\ \E r \in Handle(s[m - 1], trace[m], j2) :
                  r.eng = t[m] /\ Among(r.known, k)
  BY <1>6, <1>7
<1>10. PICK r \in Handle(s[m - 1], trace[m], j) : r.eng = s[m] /\ Among(r.known, k)
  BY <1>8
<1>11. PICK r2 \in Handle(s[m - 1], trace[m], j2) : r2.eng = t[m] /\ Among(r2.known, k)
  BY <1>9
<1>12. r.eng = r2.eng
  <2> DEFINE e == s[m - 1]
             ev == trace[m]
  <2>1. /\ EngineOK(e) /\ ev.dir \in Dirs /\ Known(j) /\ Known(j2)
        /\ r \in Handle(e, ev, j) /\ r2 \in Handle(e, ev, j2)
        /\ Among(r.known, k) /\ Among(r2.known, k)
    BY <1>7, <1>8, <1>9, <1>10, <1>11
  <2> HIDE DEF e, ev
  <2> QED
    BY ONLY <2>1, HandleOnce, SMTT(30)
<1> QED
  BY <1>3, <1>10, <1>11, <1>12

\* An engine that has handled so many packets is in the one state they lead to.
LEMMA ReplayedOnce ==
  ASSUME NEW k, NEW start, NEW trace, NEW e, NEW g, e.seq \in Nat, g.seq = e.seq,
         \A m \in 1..e.seq : trace[m].dir \in Dirs,
         Replayed(k, start, trace, e), Replayed(k, start, trace, g)
  PROVE  e = g
  BY HistoryOnce DEF Replayed

\* More that is known changes nothing.
LEMMA ReplayedLater ==
  ASSUME NEW j, NEW k, Among(j, k), NEW start, NEW trace, NEW e, Replayed(j, start, trace, e)
  PROVE  Replayed(k, start, trace, e)
<1>1. PICK s : History(j, start, trace, s, e.seq) /\ s[e.seq] = e
  BY DEF Replayed
<1>2. History(k, start, trace, s, e.seq)
  BY <1>1, AmongTransitive DEF History
<1> QED
  BY <1>1, <1>2 DEF Replayed

\* The next packet leads to the next state.
LEMMA ReplayedNext ==
  ASSUME NEW k, Known(k), NEW start, NEW trace, NEW e, EngineOK(e),
         Replayed(k, start, trace, e), NEW r \in Handle(e, trace[e.seq + 1], k),
         r.eng.seq = e.seq + 1, Among(k, r.known)
  PROVE  Replayed(r.known, start, trace, r.eng)
<1>1. PICK n \in Nat : n = e.seq
  BY DEF EngineOK
<1>2. PICK s : History(r.known, start, trace, s, n) /\ s[n] = e
  <2>1. Replayed(r.known, start, trace, e)
    BY ReplayedLater
  <2>2. \E s : History(r.known, start, trace, s, e.seq) /\ s[e.seq] = e
    BY <2>1 DEF Replayed
  <2> QED
    BY <1>1, <2>2
<1> DEFINE t == [m \in 0..(n + 1) |-> IF m = n + 1 THEN r.eng ELSE s[m]]
<1>3. /\ t[n + 1] = r.eng /\ t[n] = e /\ t[0] = s[0]
      /\ \A m \in 0..n : t[m] = s[m]
  <2>1. \A m \in 0..n : m \in 0..(n + 1) /\ m # n + 1
    BY <1>1
  <2>2. n \in 0..n /\ 0 \in 0..n /\ n + 1 \in 0..(n + 1)
    BY <1>1
  <2> QED
    BY <1>2, <2>1, <2>2
<1> HIDE DEF t
<1>4. ASSUME NEW m \in 1..(n + 1)
      PROVE  /\ EngineOK(t[m - 1])
             /\ \E j : Known(j) /\ \E q \in Handle(t[m - 1], trace[m], j) :
                  q.eng = t[m] /\ Among(q.known, r.known)
  <2>1. CASE m = n + 1
    <3>1. m - 1 = n
      BY <2>1
    <3>2. Among(r.known, r.known)
      BY DEF Among
    <3> QED
      BY <1>1, <1>3, <2>1, <3>1, <3>2
  <2>2. CASE m # n + 1
    <3>1. m \in 1..n /\ m \in 0..n /\ m - 1 \in 0..n
      BY <2>2
    <3>2. t[m - 1] = s[m - 1] /\ t[m] = s[m]
      BY <1>3, <3>1
    <3> QED
      BY <1>2, <3>1, <3>2 DEF History
  <2> QED
    BY <2>1, <2>2
<1>5. History(r.known, start, trace, t, n + 1)
  BY <1>2, <1>3, <1>4 DEF History
<1> QED
  BY <1>1, <1>3, <1>5 DEF Replayed

\* What holds of every run: what is known is possible, and every engine is in the one
\* state that what is known leads it to, with the substreams it was built with.
EngineInv(e) ==
  LET b == Built(job.builds[e])
  IN  /\ b.err = "none"
      /\ EngineOK(eng[e]) /\ eng[e].seq <= Len(job.trace)
      /\ \A d \in Dirs : SameWiring(b.pipes[d], eng[e].pipes[d])
      /\ Replayed(fixed, NewEngine(b.pipes), job.trace, eng[e])

SimInv ==
  /\ job \in Jobs
  /\ Known(fixed)
  /\ IsList(eng) /\ Len(eng) <= Len(job.builds)
  /\ \A e \in 1..Len(eng) : EngineInv(e)

\* Initially nothing is built and nothing is known.
LEMMA InitInv ==
  ASSUME Init
  PROVE  SimInv
<1>1. Len(job.builds) \in Nat
  BY JobFacts DEF Init, IsList
<1>2. IsList(eng) /\ Len(eng) = 0
  BY ShortLists DEF Init
<1>3. fixed = << >>
  BY DEF Init
<1>4. DOMAIN fixed = {} /\ fixed = [q \in DOMAIN fixed |-> fixed[q]]
  BY <1>3
<1>5. Known(fixed)
  BY <1>4 DEF Known
<1> QED
  BY <1>1, <1>2, <1>5 DEF Init, SimInv

\* BuildEngine: a new engine has handled nothing, and its cells are in their places.
LEMMA BuildInv ==
  ASSUME SimInv, BuildEngine
  PROVE  SimInv'
<1> DEFINE n == Len(eng) + 1
           r == Built(job.builds[n])
           new == NewEngine(r.pipes)
<1>1. /\ r.err = "none" /\ eng' = Append(eng, new) /\ job' = job /\ fixed' = fixed
      /\ Len(eng) < Len(job.builds)
  BY DEF BuildEngine, MoreToBuild
<1>2. PICK l \in Nat : l = Len(eng)
  BY DEF SimInv, IsList
<1>3. IsList(job.trace) /\ IsList(job.builds) /\ Len(job.builds) \in Nat /\ Len(job.trace) \in Nat
  BY JobFacts DEF SimInv, IsList
<1>4. n \in 1..Len(job.builds)
  BY <1>1, <1>2, <1>3
<1>5. BuildAllowed(job.builds[n])
  BY <1>4, JobFacts DEF SimInv
<1>6. EngineOK(new)
  BY <1>1, <1>5, BuiltOK
<1>7. new.seq = 0 /\ new.pipes = r.pipes
  BY DEF NewEngine
<1> HIDE DEF new
<1>8. Replayed(fixed, new, job.trace, new)
  <2> DEFINE s == [m \in {0} |-> new]
  <2>1. s[0] = new
    OBVIOUS
  <2>2. 1..0 = {}
    OBVIOUS
  <2> HIDE DEF s
  <2>3. History(fixed, new, job.trace, s, 0)
    BY <2>1, <2>2 DEF History
  <2> QED
    BY <1>7, <2>1, <2>3 DEF Replayed
<1>9. \A d \in Dirs : SameWiring(r.pipes[d], new.pipes[d])
  BY <1>7 DEF SameWiring
<1>10. /\ IsList(eng') /\ Len(eng') = l + 1
       /\ \A i \in 1..(l + 1) : eng'[i] = IF i <= l THEN eng[i] ELSE new
  BY <1>1, <1>2, AppendList DEF SimInv
<1>11. ASSUME NEW e \in 1..(l + 1) PROVE EngineInv(e)'
  <2>1. CASE e <= l
    <3>1. e \in 1..l
      BY <2>1
    <3>2. EngineInv(e) /\ eng'[e] = eng[e]
      BY <1>2, <1>10, <2>1, <3>1 DEF SimInv
    <3> QED
      BY <1>1, <3>2 DEF EngineInv
  <2>2. CASE ~ (e <= l)
    <3>1. e = n
      BY <1>2, <2>2
    <3>2. eng'[e] = new
      BY <1>10, <2>2
    <3>3. new.seq <= Len(job.trace)
      BY <1>3, <1>7
    <3>4. job'.builds[e] = job.builds[n] /\ job'.trace = job.trace
      BY <1>1, <3>1
    <3>5. Built(job'.builds[e]) = r
      BY <3>4
    <3>6. NewEngine(Built(job'.builds[e]).pipes) = new
      BY <3>5 DEF new
    <3> HIDE DEF r
    <3> QED
      BY <1>1, <1>6, <1>8, <1>9, <3>2, <3>3, <3>4, <3>5, <3>6 DEF EngineInv
  <2> QED
    BY <2>1, <2>2
<1>12. Len(eng') <= Len(job'.builds)
  BY <1>1, <1>2, <1>3, <1>10
<1> QED
  BY <1>1, <1>10, <1>11, <1>12 DEF SimInv

\* Drive: the engine that is driven follows its trace; the others only learn.
LEMMA DriveInv ==
  ASSUME SimInv, NEW e \in DOMAIN eng, Drive(e)
  PROVE  SimInv'
<1>1. PICK l \in Nat : l = Len(eng) /\ DOMAIN eng = 1..l
  BY DEF SimInv, IsList
<1>2. e \in 1..l /\ EngineInv(e)
  BY <1>1 DEF SimInv
<1>3. PICK n \in Nat : n = eng[e].seq
  BY <1>2 DEF EngineInv, EngineOK
<1>4. PICK r \in Handle(eng[e], job.trace[n + 1], fixed) :
        eng' = [eng EXCEPT ![e] = r.eng] /\ fixed' = r.known
  BY <1>3 DEF Drive
<1>5. job' = job /\ n < Len(job.trace)
  BY <1>3 DEF Drive
<1>6. Len(job.trace) \in Nat /\ \A m \in 1..Len(job.trace) : job.trace[m].dir \in Dirs
  BY JobFacts DEF SimInv, IsList
<1>7. n + 1 \in 1..Len(job.trace) /\ n + 1 <= Len(job.trace)
  BY <1>5, <1>6
<1>8. /\ EngineOK(r.eng) /\ r.eng.seq = n + 1
      /\ \A d \in Dirs : SameWiring(eng[e].pipes[d], r.eng.pipes[d])
      /\ Known(r.known) /\ Among(fixed, r.known)
  BY <1>2, <1>3, <1>4, <1>6, <1>7, HandleOK DEF SimInv, EngineInv
<1>9. eng' = [i \in 1..l |-> eng'[i]] /\ eng'[e] = r.eng
      /\ \A i \in 1..l : i # e => eng'[i] = eng[i]
  BY <1>1, <1>2, <1>4
<1>10. IsList(eng') /\ Len(eng') = l
  BY <1>9, ListOfFunction
<1>11. EngineInv(e)'
  <2> DEFINE b == Built(job.builds[e])
  <2>1. /\ b.err = "none" /\ \A d \in Dirs : SameWiring(b.pipes[d], eng[e].pipes[d])
        /\ Replayed(fixed, NewEngine(b.pipes), job.trace, eng[e]) /\ EngineOK(eng[e])
    BY <1>2 DEF EngineInv
  <2> HIDE DEF b
  <2>2. \A d \in Dirs : SameWiring(b.pipes[d], r.eng.pipes[d])
    BY <1>8, <2>1 DEF SameWiring
  <2>3. Replayed(r.known, NewEngine(b.pipes), job.trace, r.eng)
    BY <1>3, <1>4, <1>8, <2>1, ReplayedNext DEF SimInv
  <2>4. Built(job'.builds[e]) = b
    BY <1>5 DEF b
  <2> QED
    BY <1>4, <1>5, <1>7, <1>8, <1>9, <2>1, <2>2, <2>3, <2>4 DEF EngineInv
<1>12. ASSUME NEW i \in 1..l, i # e PROVE EngineInv(i)'
  <2>1. EngineInv(i) /\ eng'[i] = eng[i]
    BY <1>1, <1>9, <1>12 DEF SimInv
  <2>2. Replayed(fixed', NewEngine(Built(job.builds[i]).pipes), job.trace, eng[i])
    BY <1>4, <1>8, <2>1, ReplayedLater DEF EngineInv
  <2> QED
    BY <1>5, <2>1, <2>2 DEF EngineInv
<1>13. Len(eng') <= Len(job'.builds) /\ job' \in Jobs /\ Known(fixed')
  BY <1>1, <1>4, <1>5, <1>8, <1>10 DEF SimInv
<1> QED
  BY <1>10, <1>11, <1>12, <1>13 DEF SimInv

\* It is inductive.
THEOREM SimInductive == Spec => []SimInv
<1>1. Init => SimInv
  BY InitInv
<1>2. SimInv /\ [Next]_vars => SimInv'
  <2>1. ASSUME SimInv, UNCHANGED <<job, eng, fixed>> PROVE SimInv'
    <3>1. \A e \in 1..Len(eng) : EngineInv(e)'
      BY <2>1 DEF SimInv, EngineInv
    <3> QED
      BY <2>1, <3>1 DEF SimInv
  <2>2. ASSUME SimInv, Next PROVE SimInv'
    <3>1. CASE BuildEngine
      BY <2>2, <3>1, BuildInv
    <3>2. CASE BuildFails \/ UNCHANGED vars
      BY <2>1, <2>2, <3>2 DEF BuildFails, vars
    <3>3. ASSUME NEW e \in DOMAIN eng, Drive(e) PROVE SimInv'
      BY <2>2, <3>3, DriveInv
    <3> QED
      BY <2>2, <3>1, <3>2, <3>3 DEF Next
  <2> QED
    BY <2>1, <2>2 DEF vars
<1> QED
  BY <1>1, <1>2, PTL DEF Spec

-----------------------------------------------------------------------------
(***************************************************************************)
(* Reproducibility and independence.                                       *)
(***************************************************************************)
LEMMA EngineOf ==
  ASSUME SimInv, NEW e \in DOMAIN eng
  PROVE  e \in 1..Len(eng) /\ EngineInv(e) /\ BuildAllowed(job.builds[e])
<1>1. PICK l \in Nat : l = Len(eng) /\ DOMAIN eng = 1..l
  BY DEF SimInv, IsList
<1>2. Len(job.builds) \in Nat /\ \A i \in 1..Len(job.builds) : BuildAllowed(job.builds[i])
  BY JobFacts DEF SimInv, IsList
<1>3. l <= Len(job.builds)
  BY <1>1 DEF SimInv
<1>4. e \in 1..l /\ e \in 1..Len(job.builds)
  BY <1>1, <1>2, <1>3
<1> QED
  BY <1>1, <1>2, <1>4 DEF SimInv

\* What a trace becomes in its file and back is the same pipeline.  (Writing, reading
\* and pinning it: SerializeTrace, ParseTrace, ManifestTrace.)
ImportsKeep ==
  \A e \in DOMAIN eng :
    ~FromScenario(job.builds[e]) =>
      Built(job.builds[e]).pipes = TracePipes(job.builds[e].cfg).pipes

\* Equal builds begin with equal pipelines and equal seeds.
LEMMA SamePipes ==
  ASSUME SimInv, ImportsKeep, NEW e \in DOMAIN eng, NEW g \in DOMAIN eng,
         SameBuild(job.builds[e], job.builds[g])
  PROVE  /\ Built(job.builds[e]).pipes = Built(job.builds[g]).pipes
         /\ SeedOf(job.builds[e]) = SeedOf(job.builds[g])
<1> DEFINE a == job.builds[e]
           b == job.builds[g]
<1>1. /\ BuildAllowed(a) /\ Built(a).err = "none" /\ BuildAllowed(b) /\ Built(b).err = "none"
  BY EngineOf DEF EngineInv
<1>2. /\ ~FromScenario(a) => Built(a).pipes = TracePipes(a.cfg).pipes
      /\ ~FromScenario(b) => Built(b).pipes = TracePipes(b.cfg).pipes
  BY DEF ImportsKeep
<1>3. \/ SameStreams(a, b) /\ \A d \in Dirs : StagesOf(a.s, d) = StagesOf(b.s, d)
      \/ ~FromScenario(a) /\ ~FromScenario(b) /\ a.cfg = b.cfg
  BY DEF SameBuild
<1> HIDE DEF a, b
<1>4. CASE SameStreams(a, b) /\ \A d \in Dirs : StagesOf(a.s, d) = StagesOf(b.s, d)
  <2>1. FromScenario(a) /\ FromScenario(b) /\ a.s.seed = b.s.seed /\ Prefix(a) = Prefix(b)
    BY <1>4 DEF SameStreams, Prefix
  <2>2. StagesOf(a.s, "c2s") = StagesOf(b.s, "c2s") /\ StagesOf(a.s, "s2c") = StagesOf(b.s, "s2c")
    BY <1>4 DEF Dirs
  <2>3. Built(a).pipes = Built(b).pipes
    BY <1>1, <2>1, <2>2, ScenarioBuilt
  <2>4. SeedOf(a) = SeedOf(b)
    BY <2>1 DEF SeedOf, FromScenario
  <2> QED
    BY <2>3, <2>4 DEF a, b
<1>5. CASE ~FromScenario(a) /\ ~FromScenario(b) /\ a.cfg = b.cfg
  <2>1. Built(a).pipes = Built(b).pipes
    BY <1>2, <1>5
  <2>2. SeedOf(a) = SeedOf(b)
    BY <1>5 DEF SeedOf, FromScenario
  <2> QED
    BY <2>1, <2>2 DEF a, b
<1> QED
  BY <1>3, <1>4, <1>5

\* A pattern does not differ from itself.
LEMMA CompareSelf ==
  ASSUME NEW text
  PROVE  Compare(text, text) = 0
  BY DEF Compare

\* ReplayExact, in a state that satisfies the invariant.
LEMMA ReplayHolds ==
  ASSUME SimInv, ImportsKeep
  PROVE  ReplayExact
<1>1. SUFFICES ASSUME NEW e \in DOMAIN eng, NEW g \in DOMAIN eng,
                      SameBuild(job.builds[e], job.builds[g]), eng[e].seq = eng[g].seq
               PROVE  Compare(Artifact(e), Artifact(g)) = 0 /\ RunStats(e) = RunStats(g)
  BY DEF ReplayExact
<1>2. EngineInv(e) /\ EngineInv(g)
  BY EngineOf
<1>3. /\ Built(job.builds[e]).pipes = Built(job.builds[g]).pipes
      /\ SeedOf(job.builds[e]) = SeedOf(job.builds[g])
  BY <1>1, SamePipes
<1>4. eng[e] = eng[g]
  <2> DEFINE start == NewEngine(Built(job.builds[e]).pipes)
  <2>1. /\ Replayed(fixed, start, job.trace, eng[e])
        /\ Replayed(fixed, start, job.trace, eng[g])
    BY <1>2, <1>3 DEF EngineInv
  <2>2. eng[e].seq \in Nat /\ eng[e].seq <= Len(job.trace)
    BY <1>2 DEF EngineInv, EngineOK
  <2>3. Len(job.trace) \in Nat /\ \A m \in 1..Len(job.trace) : job.trace[m].dir \in Dirs
    BY JobFacts DEF SimInv, IsList
  <2>4. \A m \in 1..eng[e].seq : m \in 1..Len(job.trace)
    BY <2>2, <2>3
  <2>5. \A m \in 1..eng[e].seq : job.trace[m].dir \in Dirs
    BY <2>3, <2>4
  <2> HIDE DEF start
  <2> QED
    BY <1>1, <2>1, <2>2, <2>5, ReplayedOnce
<1>5. Artifact(e) = Artifact(g)
  BY <1>3, <1>4 DEF Artifact, Records
<1>6. RunStats(e) = RunStats(g)
  BY <1>4 DEF RunStats
<1> QED
  BY <1>5, <1>6, CompareSelf

\* Runs reproduce (ReplayExact): two engines built from the same scenario, trace file
\* or manifest that have handled the same packets have the same recording and the same
\* statistics, for every job and every order in which the engines are built and driven,
\* if the trace formats keep what they are given.
THEOREM ReplayProved == Spec => [](ImportsKeep => ReplayExact)
<1>1. SimInv => (ImportsKeep => ReplayExact)
  BY ReplayHolds
<1> QED
  BY <1>1, SimInductive, PTL

\* The substream of a cell says where the cell is.
LEMMA StreamOf ==
  ASSUME SimInv, NEW e \in DOMAIN eng, FromScenario(job.builds[e]), NEW d \in Dirs,
         NEW i \in DOMAIN eng[e].pipes[d]
  PROVE  /\ i \in Nat
         /\ \E kind : eng[e].pipes[d][i].stream =
              [seed |-> job.builds[e].s.seed, name |-> <<Prefix(job.builds[e]), kind, d, i - 1>>]
<1> DEFINE b == job.builds[e]
           p == eng[e].pipes[d]
           q == buildPipeline(b.s.seed, Prefix(b), d, StagesOf(b.s, d))
<1>1. EngineInv(e) /\ BuildAllowed(b)
  BY EngineOf
<1>2. /\ Built(b).err = "none" /\ PipeOK(p) /\ SameWiring(Built(b).pipes[d], p)
  BY <1>1 DEF EngineInv, EngineOK
<1>3. Built(b).pipes[d] = q /\ PipelineError(StagesOf(b.s, d)) = "none" /\ StagesOK(StagesOf(b.s, d))
  <2> DEFINE pipe(c) == buildPipeline(b.s.seed, Prefix(b), c, StagesOf(b.s, c))
  <2>1. /\ Built(b).pipes = [c2s |-> pipe("c2s"), s2c |-> pipe("s2c")]
        /\ PipelineError(StagesOf(b.s, d)) = "none" /\ StagesOK(StagesOf(b.s, d))
    BY <1>1, <1>2, ScenarioBuilt DEF BuildAllowed
  <2> HIDE DEF pipe
  <2>2. Built(b).pipes[d] = pipe(d)
    BY <2>1 DEF Dirs
  <2> QED
    BY <2>1, <2>2 DEF pipe
<1> HIDE DEF b
<1>4. Placed(q, b.s.seed, Prefix(b), d)
  BY <1>3, PipelineBuilt
<1> HIDE DEF q
<1>5. Len(p) \in Nat /\ DOMAIN p = 1..Len(p)
  BY <1>2 DEF PipeOK, IsList
<1>6. i \in Nat /\ i \in 1..Len(p)
  BY <1>5
<1>7. Len(q) = Len(p) /\ p[i].stream = q[i].stream
  BY <1>2, <1>3, <1>5, <1>6 DEF SameWiring
<1> QED
  BY <1>4, <1>6, <1>7 DEF Placed, b

\* StreamsPrivate, in a state that satisfies the invariant.
LEMMA StreamsHold ==
  ASSUME SimInv
  PROVE  StreamsPrivate
<1>1. SUFFICES ASSUME NEW e \in DOMAIN eng, NEW g \in DOMAIN eng, NEW d \in Dirs, NEW c \in Dirs,
                      NEW i \in DOMAIN eng[e].pipes[d], NEW j \in DOMAIN eng[g].pipes[c],
                      FromScenario(job.builds[e]), FromScenario(job.builds[g]),
                      eng[e].pipes[d][i].stream = eng[g].pipes[c][j].stream
               PROVE  SameStreams(job.builds[e], job.builds[g]) /\ d = c /\ i = j
  BY DEF StreamsPrivate
<1> DEFINE a == job.builds[e]
           b == job.builds[g]
<1>2. i \in Nat /\ j \in Nat
  BY <1>1, StreamOf
<1>3. PICK kind : eng[e].pipes[d][i].stream =
                    [seed |-> a.s.seed, name |-> <<Prefix(a), kind, d, i - 1>>]
  BY <1>1, StreamOf
<1>4. PICK sort : eng[g].pipes[c][j].stream =
                    [seed |-> b.s.seed, name |-> <<Prefix(b), sort, c, j - 1>>]
  BY <1>1, StreamOf
<1>5. /\ BuildAllowed(a) /\ Built(a).err = "none" /\ BuildAllowed(b) /\ Built(b).err = "none"
  BY EngineOf DEF EngineInv
<1>6. /\ a.via = "link" => a.link \in Nat
      /\ b.via = "link" => b.link \in Nat
  BY <1>1, <1>5, ScenarioBuilt
<1>7. a.via \in {"build", "link"} /\ b.via \in {"build", "link"}
  BY <1>1 DEF FromScenario
<1> HIDE DEF a, b
<1>8. a.s.seed = b.s.seed /\ <<Prefix(a), kind, d, i - 1>> = <<Prefix(b), sort, c, j - 1>>
  <2> DEFINE x == <<Prefix(a), kind, d, i - 1>>
             y == <<Prefix(b), sort, c, j - 1>>
  <2>1. [seed |-> a.s.seed, name |-> x] = [seed |-> b.s.seed, name |-> y]
    BY <1>1, <1>3, <1>4
  <2> HIDE DEF x, y
  <2>2. a.s.seed = b.s.seed /\ x = y
    BY <2>1
  <2> QED
    BY <2>2 DEF x, y
<1>9. Prefix(a) = Prefix(b) /\ d = c /\ i - 1 = j - 1
  BY <1>8
<1>10. i = j
  BY <1>2, <1>9
<1>11. a.via = b.via /\ (a.via = "link" => a.link = b.link)
  BY <1>6, <1>7, <1>9 DEF Prefix, NoPrefix
<1> QED
  BY <1>1, <1>8, <1>9, <1>10, <1>11 DEF SameStreams, FromScenario, a, b

\* No random decision is made twice (StreamsPrivate): buildCell names the substream of a
\* cell for its link, its direction and its place.
THEOREM StreamsProved == Spec => []StreamsPrivate
<1>1. SimInv => StreamsPrivate
  BY StreamsHold
<1> QED
  BY <1>1, SimInductive, PTL

-----------------------------------------------------------------------------
(***************************************************************************)
(* Bonds.                                                                  *)
(***************************************************************************)
\* A run of links that have handled all packets: each packet was dropped or forwarded
\* by each link, or both, if it was duplicated.
Settled(l, t) ==
  /\ l \in Nat /\ DOMAIN eng = 1..l /\ Len(eng) = l
  /\ t \in Nat /\ Total = t
  /\ \A e \in 1..l : LinkLedger(e) \cup Arrived(e) = 1..t

\* A bonded job is settled when all its engines are built and have seen the trace.
LEMMA BondedSettled ==
  ASSUME SimInv, Bonded
  PROVE  \E l, t : Settled(l, t)
<1>1. PICK l \in Nat : l = Len(eng) /\ DOMAIN eng = 1..l
  BY DEF SimInv, IsList
<1>2. PICK t \in Nat : t = Len(job.trace)
  BY JobFacts DEF SimInv, IsList
<1>3. ASSUME NEW e \in 1..l PROVE LinkLedger(e) \cup Arrived(e) = 1..t
  <2> DEFINE acts == eng[e].acts
  <2>1. ActsOK(acts, t)
    BY <1>1, <1>2, <1>3 DEF SimInv, EngineInv, EngineOK, Bonded, Done
  <2>2. /\ LinkLedger(e) = SeqsOf(acts, "drop") /\ Arrived(e) = SeqsOf(acts, "forward")
    BY DEF LinkLedger, Arrived
  <2> HIDE DEF acts
  <2>3. DOMAIN acts = 1..Len(acts)
    BY <2>1 DEF ActsOK, IsList
  <2>4. SeqsOf(acts, "drop") \cup SeqsOf(acts, "forward") \subseteq 1..t
    BY <2>1, <2>3 DEF SeqsOf, ActsOK
  <2>5. ASSUME NEW m \in 1..t PROVE m \in SeqsOf(acts, "drop") \cup SeqsOf(acts, "forward")
    <3>1. PICK k \in 1..Len(acts) : acts[k].seq = m
      BY <2>1 DEF ActsOK
    <3>2. acts[k].kind \in {"drop", "forward"}
      BY <2>1 DEF ActsOK
    <3> QED
      BY <2>3, <3>1, <3>2 DEF SeqsOf
  <2> QED
    BY <2>2, <2>4, <2>5
<1>4. Settled(l, t)
  BY <1>1, <1>2, <1>3 DEF Settled, Total
<1> QED
  BY <1>4

\* What Merge computes: the packets that all links dropped, and the number of those
\* that some but not all of them dropped.
LEMMA Merged ==
  ASSUME NEW l, NEW t, Settled(l, t), l > 0
  PROVE  /\ Merge(Ledgers, Total).gaps = {n \in 1..t : \A e \in 1..l : n \in LinkLedger(e)}
         /\ Merge(Ledgers, Total).masked =
              Cardinality({n \in 1..t : /\ \E e \in 1..l : n \in LinkLedger(e)
                                        /\ \E e \in 1..l : n \notin LinkLedger(e)})
<1> DEFINE On(n) == {e \in 1..l : n \in LinkLedger(e)}
<1>1. l \in Nat /\ DOMAIN eng = 1..l /\ Total = t
  BY DEF Settled
<1>2. DOMAIN Ledgers = 1..l /\ \A e \in 1..l : Ledgers[e] = LinkLedger(e)
  BY <1>1 DEF Ledgers
<1>3. IsFiniteSet(1..l) /\ Cardinality(1..l) = l
  BY <1>1, FS_Interval
<1>4. \A n : DroppedOn(Ledgers, n) = Cardinality(On(n))
  <2> TAKE n
  <2>1. {e \in DOMAIN Ledgers : n \in Ledgers[e]} = On(n)
    BY <1>2
  <2> HIDE DEF On
  <2> QED
    BY <2>1 DEF DroppedOn
<1>5. ASSUME NEW n
      PROVE  /\ Cardinality(On(n)) \in Nat
             /\ Cardinality(On(n)) = l <=> \A e \in 1..l : n \in LinkLedger(e)
             /\ Cardinality(On(n)) \in 1..(l - 1) <=>
                  /\ \E e \in 1..l : n \in LinkLedger(e)
                  /\ \E e \in 1..l : n \notin LinkLedger(e)
  <2>1. On(n) \subseteq 1..l
    OBVIOUS
  <2>2. On(n) = 1..l <=> \A e \in 1..l : n \in LinkLedger(e)
    OBVIOUS
  <2>3. On(n) = {} <=> ~ \E e \in 1..l : n \in LinkLedger(e)
    OBVIOUS
  <2> HIDE DEF On
  <2>4. /\ IsFiniteSet(On(n)) /\ Cardinality(On(n)) <= l
        /\ Cardinality(On(n)) = l => On(n) = 1..l
    BY <1>3, <2>1, FS_Subset
  <2>5. Cardinality(On(n)) \in Nat /\ (Cardinality(On(n)) = 0 <=> On(n) = {})
    BY <2>4, FS_CardinalityType, FS_EmptySet
  <2>6. PICK c \in Nat : c = Cardinality(On(n))
    BY <2>5
  <2>7. c \in 1..(l - 1) <=> c # 0 /\ c # l
    BY <1>1, <2>4, <2>6
  <2>8. c = l <=> On(n) = 1..l
    BY <1>3, <2>4, <2>6
  <2> QED
    BY <2>2, <2>3, <2>5, <2>6, <2>7, <2>8
<1> HIDE DEF On
<1>6. /\ Merge(Ledgers, Total).gaps = {n \in 1..t : Cardinality(On(n)) = l}
      /\ Merge(Ledgers, Total).masked = Cardinality({n \in 1..t : Cardinality(On(n)) \in 1..(l - 1)})
  <2> DEFINE m == [gaps |-> IF l = 0 THEN {} ELSE {n \in 1..t : DroppedOn(Ledgers, n) = l},
                   masked |-> Cardinality({n \in 1..t : DroppedOn(Ledgers, n) \in 1..(l - 1)})]
  <2>1. Cardinality(DOMAIN Ledgers) = l
    BY <1>2, <1>3
  <2>2. Merge(Ledgers, Total) = m
    BY <1>1, <2>1, Zenon DEF Merge
  <2>3. /\ Merge(Ledgers, Total).gaps = {n \in 1..t : DroppedOn(Ledgers, n) = l}
        /\ Merge(Ledgers, Total).masked =
             Cardinality({n \in 1..t : DroppedOn(Ledgers, n) \in 1..(l - 1)})
    BY <2>2
  <2> QED
    BY <1>4, <2>3
<1>7. {n \in 1..t : Cardinality(On(n)) = l} = {n \in 1..t : \A e \in 1..l : n \in LinkLedger(e)}
  BY <1>5
<1>8. {n \in 1..t : Cardinality(On(n)) \in 1..(l - 1)} =
        {n \in 1..t : /\ \E e \in 1..l : n \in LinkLedger(e)
                      /\ \E e \in 1..l : n \notin LinkLedger(e)}
  BY <1>5
<1> QED
  BY <1>6, <1>7, <1>8

\* The gaps are the packets that survived nowhere.
LEMMA Gaps ==
  ASSUME NEW l, NEW t, Settled(l, t), l > 0
  PROVE  /\ (1..t) \ Survivors \subseteq Merge(Ledgers, Total).gaps
         /\ Merge(Ledgers, Total).gaps \subseteq 1..t /\ Survivors \subseteq 1..t
         /\ Unmixed => Merge(Ledgers, Total).gaps = (1..t) \ Survivors
<1> DEFINE G == Merge(Ledgers, Total).gaps
<1>1. G = {n \in 1..t : \A e \in 1..l : n \in LinkLedger(e)}
  BY Merged
<1>2. l \in Nat /\ DOMAIN eng = 1..l /\ \A e \in 1..l : LinkLedger(e) \cup Arrived(e) = 1..t
  BY DEF Settled
<1>3. \A n : n \in Survivors <=> \E e \in 1..l : n \in Arrived(e)
  BY <1>2 DEF Survivors
<1> HIDE DEF G
<1>4. Survivors \subseteq 1..t /\ (1..t) \ Survivors \subseteq G /\ G \subseteq 1..t
  BY <1>1, <1>2, <1>3
<1>5. ASSUME Unmixed PROVE G \subseteq (1..t) \ Survivors
  <2>1. \A e \in 1..l : LinkLedger(e) \cap Arrived(e) = {}
    BY <1>2, <1>5 DEF Unmixed
  <2> QED
    BY <1>1, <1>3, <2>1
<1> QED
  BY <1>4, <1>5 DEF G

\* MergeSound, in a state that satisfies the invariant.
LEMMA MergeHolds ==
  ASSUME SimInv
  PROVE  MergeSound
<1>1. SUFFICES ASSUME Bonded, eng # << >>
               PROVE  /\ (1..Total) \ Survivors \subseteq Merge(Ledgers, Total).gaps
                      /\ Unmixed => /\ Merge(Ledgers, Total).gaps = (1..Total) \ Survivors
                                    /\ Merge(Ledgers, Total).masked =
                                         Cardinality(Survivors \cap Lost)
  BY Zenon DEF MergeSound
<1>2. PICK l, t : Settled(l, t)
  BY <1>1, BondedSettled
<1>3. l > 0
  <2>1. CASE l = 0
    <3>1. eng = [i \in 1..0 |-> eng[i]]
      BY <1>2, <2>1 DEF Settled, SimInv, IsList
    <3>2. eng = << >>
      BY <3>1
    <3> QED
      BY <1>1, <3>2
  <2> QED
    BY <1>2, <2>1 DEF Settled
<1>4. /\ (1..t) \ Survivors \subseteq Merge(Ledgers, Total).gaps
      /\ Unmixed => Merge(Ledgers, Total).gaps = (1..t) \ Survivors
  BY <1>2, <1>3, Gaps
<1>5. ASSUME Unmixed PROVE Merge(Ledgers, Total).masked = Cardinality(Survivors \cap Lost)
  <2> DEFINE M == {n \in 1..t : /\ \E e \in 1..l : n \in LinkLedger(e)
                                /\ \E e \in 1..l : n \notin LinkLedger(e)}
  <2>1. Merge(Ledgers, Total).masked = Cardinality(M)
    BY <1>2, <1>3, Merged
  <2>2. DOMAIN eng = 1..l /\ \A e \in 1..l : LinkLedger(e) \cup Arrived(e) = 1..t
    BY <1>2 DEF Settled
  <2>3. \A e \in 1..l : LinkLedger(e) \cap Arrived(e) = {}
    BY <1>5, <2>2 DEF Unmixed
  <2>4. /\ \A n : n \in Survivors <=> \E e \in 1..l : n \in Arrived(e)
        /\ \A n : n \in Lost <=> \E e \in 1..l : n \in LinkLedger(e)
    BY <2>2 DEF Survivors, Lost
  <2>5. \A e \in 1..l : \A n \in 1..t : n \notin LinkLedger(e) <=> n \in Arrived(e)
    BY <2>2, <2>3
  <2>6. \A e \in 1..l : Arrived(e) \subseteq 1..t
    BY <2>2
  <2>7. M = Survivors \cap Lost
    BY <2>4, <2>5, <2>6
  <2> QED
    BY <2>1, <2>7
<1>6. Total = t
  BY <1>2 DEF Settled
<1> QED
  BY <1>4, <1>5, <1>6

\* What merge makes of the links of a bond is right (MergeSound), for any number of links
\* and packets.
THEOREM MergeProved == Spec => []MergeSound
<1>1. SimInv => MergeSound
  BY MergeHolds
<1> QED
  BY <1>1, SimInductive, PTL

\* The gaps of the merge are the packets that no link carried, and those that some link
\* carried though each lost a copy.
LEMMA GapsSplit ==
  ASSUME NEW l, NEW t, Settled(l, t), l > 0
  PROVE  /\ Merge(Ledgers, Total).gaps = ((1..t) \ Survivors) \cup CarriedAsGap
         /\ CarriedAsGap \subseteq Survivors /\ Survivors \subseteq 1..t
<1>1. Merge(Ledgers, Total).gaps = {n \in 1..t : \A e \in 1..l : n \in LinkLedger(e)}
  BY Merged
<1>2. DOMAIN eng = 1..l
  BY DEF Settled
<1>3. /\ (1..t) \ Survivors \subseteq Merge(Ledgers, Total).gaps /\ Survivors \subseteq 1..t
      /\ Merge(Ledgers, Total).gaps \subseteq 1..t
  BY Gaps
<1>4. CarriedAsGap = {n \in Survivors : \A e \in 1..l : n \in LinkLedger(e)}
  BY <1>2 DEF CarriedAsGap
<1> QED
  BY <1>1, <1>3, <1>4

\* ReceiverGraded, in a state that satisfies the invariant.
LEMMA GradeHolds ==
  ASSUME SimInv
  PROVE  ReceiverGraded
<1> DEFINE gaps == Cardinality(Merge(Ledgers, Total).gaps)
           drops == Cardinality(UNION {{e} \X LinkLedger(e) : e \in DOMAIN eng})
           In(delivered, exact) == Input(Len(eng), Total, Cardinality(delivered),
                                         IF exact THEN gaps ELSE -1, drops)
<1>1. SUFFICES ASSUME Bonded, Len(eng) > 1, NEW delivered \in SUBSET Survivors,
                      NEW exact \in BOOLEAN
               PROVE  /\ seamlessCoverage(In(delivered, exact)) = "fail" <=>
                           /\ exact
                           /\ Cardinality(Survivors \ delivered) > Cardinality(CarriedAsGap)
                      /\ seamlessCoverage(In(delivered, exact)) = "warn" <=>
                           ~exact /\ delivered # 1..Total
                      /\ bondedFlow(In(delivered, exact)) = "fail" <=>
                           delivered = {} /\ Total > 0
  BY Zenon DEF ReceiverGraded
<1>2. PICK l, t : Settled(l, t)
  BY <1>1, BondedSettled
<1>3. l \in Nat /\ t \in Nat /\ Len(eng) = l /\ l > 1 /\ Total = t
  BY <1>1, <1>2 DEF Settled
<1> DEFINE G == Merge(Ledgers, Total).gaps
<1>4. /\ G = ((1..t) \ Survivors) \cup CarriedAsGap
      /\ CarriedAsGap \subseteq Survivors /\ Survivors \subseteq 1..t
  BY <1>2, <1>3, GapsSplit
<1>5. gaps = Cardinality(G)
  OBVIOUS
<1> DEFINE in == In(delivered, exact)
<1>6. /\ in.links = l /\ in.total = t /\ in.delivered = Cardinality(delivered)
      /\ in.gaps = IF exact THEN Cardinality(G) ELSE -1
  BY <1>3 DEF Input
<1> HIDE DEF G, gaps, drops, In, in
<1> DEFINE S == 1..t
<1>7. IsFiniteSet(S) /\ Cardinality(S) = t
  <2>1. t \in Nat /\ 1 \in Int /\ t \in Int
    BY <1>3
  <2>2. /\ IsFiniteSet(1..t)
        /\ Cardinality(1..t) = IF 1 > t THEN 0 ELSE t - 1 + 1
    BY ONLY <2>1, FS_Interval
  <2>3. Cardinality(1..t) = t
    BY ONLY <2>1, <2>2
  <2> QED
    BY ONLY <2>2, <2>3 DEF S
<1>8. /\ G = (S \ Survivors) \cup CarriedAsGap
      /\ CarriedAsGap \subseteq Survivors /\ Survivors \subseteq S /\ delivered \subseteq Survivors
  BY <1>4
<1>9. delivered # 1..t <=> delivered # S
  OBVIOUS
<1> HIDE DEF S
<1>10. IsFiniteSet(Survivors) /\ IsFiniteSet(S \ Survivors)
  BY <1>7, <1>8, FS_Subset
<1>11. IsFiniteSet(CarriedAsGap) /\ IsFiniteSet(delivered)
  BY <1>8, <1>10, FS_Subset
<1>12. PICK d \in Nat, s \in Nat, h \in Nat :
         d = Cardinality(delivered) /\ s = Cardinality(Survivors) /\ h = Cardinality(CarriedAsGap)
  BY <1>10, <1>11, FS_CardinalityType
<1>13. Cardinality(S \ Survivors) = t - s
  <2>1. S \cap Survivors = Survivors
    BY <1>8
  <2>2. Cardinality(S \ Survivors) = Cardinality(S) - Cardinality(S \cap Survivors)
    BY <1>7, FS_Difference
  <2> QED
    BY <1>7, <1>12, <2>1, <2>2
<1>14. Cardinality(Survivors \ delivered) = s - d
  <2>1. Survivors \cap delivered = delivered
    BY <1>8
  <2>2. Cardinality(Survivors \ delivered) =
          Cardinality(Survivors) - Cardinality(Survivors \cap delivered)
    BY <1>10, FS_Difference
  <2> QED
    BY <1>12, <2>1, <2>2
<1>15. Cardinality(G) = (t - s) + h
  <2>1. (S \ Survivors) \cap CarriedAsGap = {}
    BY <1>8
  <2>2. Cardinality((S \ Survivors) \cup CarriedAsGap) =
          Cardinality(S \ Survivors) + Cardinality(CarriedAsGap)
            - Cardinality((S \ Survivors) \cap CarriedAsGap)
    BY <1>10, <1>11, FS_Union
  <2>3. Cardinality((S \ Survivors) \cap CarriedAsGap) = 0
    BY <2>1, FS_EmptySet
  <2> QED
    BY <1>3, <1>8, <1>12, <1>13, <2>2, <2>3
<1>16. /\ s <= t /\ d <= t /\ (d = t <=> delivered = S)
       /\ d = 0 <=> delivered = {}
  <2>1. s <= t
    BY <1>7, <1>8, <1>12, FS_Subset
  <2>2. delivered \subseteq S
    BY <1>8
  <2>3. d <= t /\ (d = t => delivered = S)
    BY <1>7, <1>12, <2>2, FS_Subset
  <2>4. delivered = S => d = t
    BY <1>7, <1>12
  <2>5. d = 0 <=> delivered = {}
    BY <1>11, <1>12, FS_EmptySet
  <2> QED
    BY <2>1, <2>3, <2>4, <2>5
<1>17. seamlessCoverage(in) = IF exact THEN (IF d >= t - ((t - s) + h) THEN "pass" ELSE "fail")
                              ELSE (IF d >= t THEN "pass" ELSE "warn")
  <2>1. seamlessCoverage(in) =
          IF in.gaps >= 0
          THEN IF in.delivered >= in.total - in.gaps THEN "pass" ELSE "fail"
          ELSE IF in.delivered >= in.total THEN "pass" ELSE "warn"
    BY DEF seamlessCoverage
  <2>2. t \in Nat /\ s \in Nat /\ h \in Nat /\ s <= t
    BY <1>3, <1>12, <1>16
  <2>3. (t - s) + h >= 0
    BY ONLY <2>2
  <2>4. /\ in.delivered = d /\ in.total = t
        /\ in.gaps = IF exact THEN (t - s) + h ELSE -1
    BY <1>6, <1>12, <1>15
  <2> QED
    BY ONLY <2>1, <2>2, <2>3, <2>4
<1>18. bondedFlow(in) = IF t = 0 THEN "error" ELSE IF d > 0 THEN "pass" ELSE "fail"
  <2>1. bondedFlow(in) = IF in.links < 2 THEN "fail"
                         ELSE IF in.total = 0 THEN "error"
                         ELSE IF in.delivered > 0 THEN "pass" ELSE "fail"
    BY DEF bondedFlow
  <2> QED
    BY <1>3, <1>6, <1>12, <2>1
<1>19. d >= t - ((t - s) + h) <=> ~ (s - d > h)
  <2>1. t \in Nat /\ d \in Nat /\ s \in Nat /\ h \in Nat
    BY <1>3, <1>12
  <2> QED
    BY ONLY <2>1
<1>20. d >= t <=> delivered = S
  BY <1>3, <1>12, <1>16
<1>21. seamlessCoverage(in) = "fail" <=> exact /\ s - d > h
  BY <1>17, <1>19
<1>22. seamlessCoverage(in) = "warn" <=> ~exact /\ delivered # S
  BY <1>17, <1>20
<1>23. bondedFlow(in) = "fail" <=> delivered = {} /\ t > 0
  BY <1>3, <1>12, <1>16, <1>18
<1> QED
  BY <1>3, <1>9, <1>12, <1>14, <1>21, <1>22, <1>23 DEF in

\* The bonding oracle fails a receiver exactly if what it lost is more than the packets
\* that the ledgers take for gaps though they were carried, and warns and finds no flow
\* as it should (Evaluate): for any number of links and packets, duplicated ones too.
THEOREM GradeProved == Spec => []ReceiverGraded
<1>1. SimInv => ReceiverGraded
  BY GradeHolds
<1> QED
  BY <1>1, SimInductive, PTL

-----------------------------------------------------------------------------
(***************************************************************************)
(* Statistics.                                                             *)
(***************************************************************************)
\* The statistics of a run: StatsOf.
Running(acts) == CHOOSE s : Always("stats", acts, 0, s)

\* The statistics of a list of actions, by recursion.
LEMMA StatsRecursion ==
  ASSUME NEW acts
  PROVE  /\ StatsOf(acts) = Running(acts)[Len(acts)]
         /\ Running(acts)[0] = NoStats
         /\ \A n \in Nat \ {0} : Running(acts)[n] = Count(Running(acts)[n - 1], acts[n])
<1>1. Always("stats", acts, 0, Running(acts))
  BY AlwaysExists DEF Running
<1>2. \A s : Always("stats", acts, 0, s) <=>
        s = [n \in Nat |-> IF n = 0 THEN NoStats ELSE Count(s[n - 1], acts[n])]
  BY DEF Always, First, More
<1>3. Running(acts) = CHOOSE s : s = [n \in Nat |-> IF n = 0 THEN NoStats
                                                    ELSE Count(s[n - 1], acts[n])]
  BY <1>2, Zenon DEF Running
<1>4. StatsOf(acts) = Running(acts)[Len(acts)]
  BY <1>3, Zenon DEF StatsOf
<1>5. Running(acts) = [n \in Nat |-> IF n = 0 THEN NoStats
                                     ELSE Count(Running(acts)[n - 1], acts[n])]
  BY <1>1, <1>2
<1> HIDE DEF Running
<1> QED
  BY <1>4, <1>5

\* Forwards of a direction, and those due before an earlier one.
Forwarded(acts, k, d) == acts[k].kind = "forward" /\ acts[k].dir = d

Overtakes(acts, k) ==
  /\ acts[k].kind = "forward"
  /\ \E j \in 1..(k - 1) : Forwarded(acts, j, acts[k].dir) /\ acts[j].deliverAt > acts[k].deliverAt

\* Actions as RunStats may count them.
Countable(acts) ==
  /\ IsList(acts)
  /\ \A k \in 1..Len(acts) :
       /\ acts[k].dir \in Dirs /\ acts[k].kind \in {"drop", "forward"}
       /\ acts[k].kind = "forward" => acts[k].deliverAt \in Nat

\* What the statistics s of the first n actions say.
Tally(acts, n, s) ==
  /\ s = [forwarded |-> s.forwarded, dropped |-> s.dropped, reordered |-> s.reordered,
          last |-> s.last]
  /\ s.last \in [Dirs -> Int]
  /\ s.forwarded \in Nat /\ s.dropped \in Nat /\ s.reordered \in Nat
  /\ s.forwarded + s.dropped = n
  /\ s.dropped = 0 <=> \A k \in 1..n : acts[k].kind # "drop"
  /\ s.reordered <= Cardinality({k \in 1..n : Overtakes(acts, k)})
  /\ s.reordered = 0 =>
       /\ \A k \in 1..n : ~Overtakes(acts, k)
       /\ \A d \in Dirs : \A k \in 1..n : Forwarded(acts, k, d) => acts[k].deliverAt <= s.last[d]
  /\ \A d \in Dirs : \/ s.last[d] = -1
                     \/ \E k \in 1..n : Forwarded(acts, k, d) /\ acts[k].deliverAt = s.last[d]

\* What one action adds to the statistics.
LEMMA CountParts ==
  ASSUME NEW acts, NEW n, NEW s, Tally(acts, n, s), NEW a, a.dir \in Dirs,
         a.kind \in {"drop", "forward"}
  PROVE  LET c == Count(s, a)
             late == a.deliverAt < s.last[a.dir]
         IN  /\ c = [forwarded |-> c.forwarded, dropped |-> c.dropped,
                     reordered |-> c.reordered, last |-> c.last]
             /\ a.kind = "drop" =>
                  /\ c.forwarded = s.forwarded /\ c.dropped = s.dropped + 1
                  /\ c.reordered = s.reordered /\ c.last = s.last
             /\ a.kind = "forward" =>
                  /\ c.forwarded = s.forwarded + 1 /\ c.dropped = s.dropped
                  /\ late => c.reordered = s.reordered + 1
                  /\ ~late => c.reordered = s.reordered
                  /\ c.last = [s.last EXCEPT ![a.dir] = a.deliverAt]
<1> DEFINE last == [s.last EXCEPT ![a.dir] = a.deliverAt]
           more == IF a.deliverAt < s.last[a.dir] THEN s.reordered + 1 ELSE s.reordered
           r1 == [forwarded |-> s.forwarded, dropped |-> s.dropped + 1,
                  reordered |-> s.reordered, last |-> s.last]
           r2 == [forwarded |-> s.forwarded + 1, dropped |-> s.dropped,
                  reordered |-> more, last |-> last]
<1>1. s = [forwarded |-> s.forwarded, dropped |-> s.dropped, reordered |-> s.reordered,
           last |-> s.last]
  BY DEF Tally
<1>2. CASE a.kind = "drop"
  <2>1. Count(s, a) = r1
    BY <1>1, <1>2 DEF Count
  <2> QED
    BY <1>2, <2>1
<1>3. CASE a.kind = "forward"
  <2>1. Count(s, a) = r2
    BY <1>1, <1>3 DEF Count
  <2>2. /\ a.deliverAt < s.last[a.dir] => more = s.reordered + 1
        /\ ~ (a.deliverAt < s.last[a.dir]) => more = s.reordered
    OBVIOUS
  <2> HIDE DEF more, last
  <2>3. Count(s, a) = [forwarded |-> s.forwarded + 1, dropped |-> s.dropped,
                       reordered |-> more, last |-> last]
    BY <2>1
  <2> QED
    BY <1>3, <2>2, <2>3 DEF last
<1> QED
  BY <1>2, <1>3

\* One more action.
LEMMA TallyNext ==
  ASSUME NEW acts, Countable(acts), NEW n \in Nat, n + 1 <= Len(acts),
         NEW s, Tally(acts, n, s)
  PROVE  Tally(acts, n + 1, Count(s, acts[n + 1]))
<1> DEFINE a == acts[n + 1]
           c == Count(s, a)
           d == a.dir
           at == a.deliverAt
<1>1. /\ n + 1 \in 1..Len(acts) /\ \A k \in 1..n : k \in 1..Len(acts)
  BY DEF Countable, IsList
<1>2. /\ d \in Dirs /\ a.kind \in {"drop", "forward"} /\ (a.kind = "forward" => at \in Nat)
      /\ \A k \in 1..n : acts[k].kind = "forward" => acts[k].deliverAt \in Nat
  BY <1>1 DEF Countable
<1>3. \A k \in 1..(n + 1) : k \in 1..n \/ k = n + 1
  OBVIOUS
<1>4. /\ c = [forwarded |-> c.forwarded, dropped |-> c.dropped,
              reordered |-> c.reordered, last |-> c.last]
      /\ a.kind = "drop" =>
           /\ c.forwarded = s.forwarded /\ c.dropped = s.dropped + 1
           /\ c.reordered = s.reordered /\ c.last = s.last
      /\ a.kind = "forward" =>
           /\ c.forwarded = s.forwarded + 1 /\ c.dropped = s.dropped
           /\ at < s.last[d] => c.reordered = s.reordered + 1
           /\ ~ (at < s.last[d]) => c.reordered = s.reordered
           /\ c.last = [s.last EXCEPT ![d] = at]
  BY <1>2, CountParts
<1> HIDE DEF a, c, d, at
<1>5. /\ s.last \in [Dirs -> Int]
      /\ s.forwarded \in Nat /\ s.dropped \in Nat /\ s.reordered \in Nat
      /\ s.forwarded + s.dropped = n
      /\ s.dropped = 0 <=> \A k \in 1..n : acts[k].kind # "drop"
      /\ s.reordered = 0 =>
           /\ \A k \in 1..n : ~Overtakes(acts, k)
           /\ \A b \in Dirs : \A k \in 1..n :
                Forwarded(acts, k, b) => acts[k].deliverAt <= s.last[b]
      /\ \A b \in Dirs :
           \/ s.last[b] = -1
           \/ \E k \in 1..n : Forwarded(acts, k, b) /\ acts[k].deliverAt = s.last[b]
  BY DEF Tally
<1> DEFINE O == {k \in 1..n : Overtakes(acts, k)}
           P == {k \in 1..(n + 1) : Overtakes(acts, k)}
<1>6. s.reordered <= Cardinality(O)
  BY DEF Tally
<1>7. /\ n + 1 \notin O
      /\ Overtakes(acts, n + 1) => P = O \cup {n + 1}
      /\ ~Overtakes(acts, n + 1) => P = O
  BY <1>3
<1>8. IsFiniteSet(O)
  <2>1. IsFiniteSet(1..n)
    BY FS_Interval
  <2>2. O \subseteq 1..n
    OBVIOUS
  <2> HIDE DEF O
  <2> QED
    BY <2>1, <2>2, FS_Subset
<1>9. /\ Cardinality(O) \in Nat
      /\ Overtakes(acts, n + 1) => Cardinality(P) = Cardinality(O) + 1
      /\ ~Overtakes(acts, n + 1) => Cardinality(P) = Cardinality(O)
  <2> HIDE DEF O, P
  <2> QED
    BY <1>7, <1>8, FS_AddElement, FS_CardinalityType
<1>10. PICK o \in Nat : o = Cardinality(O)
  BY <1>9
<1>11. Overtakes(acts, n + 1) <=>
         a.kind = "forward" /\ \E j \in 1..n : Forwarded(acts, j, d) /\ acts[j].deliverAt > at
  <2>1. (n + 1) - 1 = n
    OBVIOUS
  <2> QED
    BY <2>1 DEF Overtakes, a, d, at
<1> HIDE DEF O, P
<1>12. c.dropped = 0 <=> \A k \in 1..(n + 1) : acts[k].kind # "drop"
  <2>1. CASE a.kind = "drop"
    <3>1. c.dropped # 0
      BY <1>4, <1>5, <2>1
    <3>2. n + 1 \in 1..(n + 1) /\ acts[n + 1].kind = "drop"
      BY <2>1 DEF a
    <3> QED
      BY <3>1, <3>2
  <2>2. CASE a.kind = "forward"
    <3>1. c.dropped = s.dropped /\ acts[n + 1].kind # "drop"
      BY <1>4, <2>2 DEF a
    <3>2. \A k \in 1..n : k \in 1..(n + 1)
      OBVIOUS
    <3> QED
      BY <1>3, <1>5, <3>1, <3>2
  <2> QED
    BY <1>2, <2>1, <2>2
<1>13. /\ c.forwarded \in Nat /\ c.dropped \in Nat /\ c.reordered \in Nat
       /\ c.forwarded + c.dropped = n + 1
  <2>1. /\ s.forwarded \in Nat /\ s.dropped \in Nat /\ s.reordered \in Nat
        /\ s.forwarded + s.dropped = n
    BY <1>5
  <2>2. \/ /\ c.forwarded = s.forwarded /\ c.dropped = s.dropped + 1
           /\ c.reordered = s.reordered
        \/ /\ c.forwarded = s.forwarded + 1 /\ c.dropped = s.dropped
           /\ c.reordered = s.reordered \/ c.reordered = s.reordered + 1
    BY <1>2, <1>4
  <2> QED
    BY ONLY <2>1, <2>2, n \in Nat
<1>14. c.last \in [Dirs -> Int] /\ \A b \in Dirs : c.last[b] =
         IF a.kind = "forward" /\ b = d THEN at ELSE s.last[b]
  <2>1. CASE a.kind = "drop"
    BY <1>4, <1>5, <2>1
  <2>2. CASE a.kind = "forward"
    <3>1. c.last = [s.last EXCEPT ![d] = at] /\ at \in Int
      BY <1>2, <1>4, <2>2
    <3> QED
      BY <1>2, <1>5, <2>2, <3>1
  <2> QED
    BY <1>2, <2>1, <2>2
<1>15. \A b \in Dirs :
         \/ c.last[b] = -1
         \/ \E k \in 1..(n + 1) : Forwarded(acts, k, b) /\ acts[k].deliverAt = c.last[b]
  <2> TAKE b \in Dirs
  <2>1. CASE a.kind = "forward" /\ b = d
    <3>1. n + 1 \in 1..(n + 1) /\ Forwarded(acts, n + 1, b) /\ acts[n + 1].deliverAt = c.last[b]
      BY <1>14, <2>1 DEF Forwarded, a, d, at
    <3> QED
      BY <3>1
  <2>2. CASE ~ (a.kind = "forward" /\ b = d)
    <3>1. c.last[b] = s.last[b]
      BY <1>14, <2>2
    <3>2. \A k \in 1..n : k \in 1..(n + 1)
      OBVIOUS
    <3> QED
      BY <1>5, <3>1, <3>2
  <2> QED
    BY <2>1, <2>2
<1>16. a.kind = "forward" /\ at < s.last[d] => Overtakes(acts, n + 1)
  <2> SUFFICES ASSUME a.kind = "forward", at < s.last[d] PROVE Overtakes(acts, n + 1)
    OBVIOUS
  <2>1. s.last[d] # -1
    BY <1>2
  <2>2. PICK k \in 1..n : Forwarded(acts, k, d) /\ acts[k].deliverAt = s.last[d]
    BY <1>2, <1>5, <2>1
  <2>3. acts[k].deliverAt \in Nat
    BY <1>2, <2>2 DEF Forwarded
  <2>4. acts[k].deliverAt > at
    BY <1>2, <2>2, <2>3
  <2> QED
    BY <1>11, <2>2, <2>4
<1>17. c.reordered <= Cardinality(P)
  <2>1. CASE a.kind = "forward" /\ at < s.last[d]
    BY <1>4, <1>5, <1>6, <1>9, <1>10, <1>16, <2>1
  <2>2. CASE ~ (a.kind = "forward" /\ at < s.last[d])
    <3>1. c.reordered = s.reordered
      BY <1>2, <1>4, <2>2
    <3>2. Cardinality(P) = o \/ Cardinality(P) = o + 1
      BY <1>9, <1>10
    <3> QED
      BY <1>5, <1>6, <1>10, <3>1, <3>2
  <2> QED
    BY <2>1, <2>2
<1>18. ASSUME c.reordered = 0
       PROVE  /\ \A k \in 1..(n + 1) : ~Overtakes(acts, k)
              /\ \A b \in Dirs : \A k \in 1..(n + 1) :
                   Forwarded(acts, k, b) => acts[k].deliverAt <= c.last[b]
  <2>1. s.reordered = 0 /\ ~ (a.kind = "forward" /\ at < s.last[d])
    BY <1>2, <1>4, <1>5, <1>18
  <2>2. \A b \in Dirs : \A k \in 1..n :
          Forwarded(acts, k, b) => acts[k].deliverAt <= s.last[b]
    BY <1>5, <2>1
  <2>3. ASSUME a.kind = "forward", NEW k \in 1..n, Forwarded(acts, k, d)
        PROVE  acts[k].deliverAt <= at
    <3>1. /\ acts[k].deliverAt <= s.last[d] /\ acts[k].deliverAt \in Nat
          /\ s.last[d] \in Int /\ at \in Nat /\ ~ (at < s.last[d])
      BY <1>2, <1>5, <2>1, <2>2, <2>3 DEF Forwarded
    <3> QED
      BY <3>1
  <2>4. ~Overtakes(acts, n + 1)
    <3> SUFFICES ASSUME Overtakes(acts, n + 1) PROVE FALSE
      OBVIOUS
    <3>1. PICK j \in 1..n : Forwarded(acts, j, d) /\ acts[j].deliverAt > at
      BY <1>11
    <3>2. a.kind = "forward" /\ acts[j].deliverAt <= at /\ at \in Nat /\ acts[j].deliverAt \in Nat
      BY <1>2, <1>11, <2>3, <3>1 DEF Forwarded
    <3> QED
      BY <3>1, <3>2
  <2>5. ASSUME NEW b \in Dirs, NEW k \in 1..(n + 1), Forwarded(acts, k, b)
        PROVE  acts[k].deliverAt <= c.last[b]
    <3>1. CASE k = n + 1
      <4>1. a.kind = "forward" /\ b = d /\ acts[k].deliverAt = at
        BY <2>5, <3>1 DEF Forwarded, a, d, at
      <4> QED
        BY <1>2, <1>14, <4>1
    <3>2. CASE k # n + 1
      <4>1. k \in 1..n
        BY <3>2
      <4>2. CASE a.kind = "forward" /\ b = d
        BY <1>14, <2>3, <2>5, <4>1, <4>2
      <4>3. CASE ~ (a.kind = "forward" /\ b = d)
        BY <1>14, <2>2, <2>5, <4>1, <4>3
      <4> QED
        BY <4>2, <4>3
    <3> QED
      BY <3>1, <3>2
  <2> QED
    BY <1>3, <1>5, <2>1, <2>4, <2>5
<1>19. Tally(acts, n + 1, c)
  BY <1>4, <1>12, <1>13, <1>14, <1>15, <1>17, <1>18 DEF Tally, P
<1> QED
  BY <1>19 DEF c, a

\* The statistics count what they should.
LEMMA Tallied ==
  ASSUME NEW acts, Countable(acts)
  PROVE  Tally(acts, Len(acts), StatsOf(acts))
<1> DEFINE T == {n \in Nat : n <= Len(acts) /\ ~Tally(acts, n, Running(acts)[n])}
<1>1. Len(acts) \in Nat
  BY DEF Countable, IsList
<1>2. T = {}
  <2>1. SUFFICES ASSUME T # {} PROVE FALSE
    OBVIOUS
  <2>2. PICK n \in T : \A l \in T : n <= l
    <3>1. T \subseteq Nat
      OBVIOUS
    <3> HIDE DEF T
    <3> QED
      BY <2>1, <3>1, LeastNat
  <2>3. n \in Nat /\ n <= Len(acts) /\ ~Tally(acts, n, Running(acts)[n])
    BY <2>2
  <2>4. CASE n = 0
    <3>1. Running(acts)[n] = NoStats
      BY <2>4, StatsRecursion
    <3>2. 1..0 = {}
      OBVIOUS
    <3>3. \A d \in Dirs : NoStats.last[d] = -1
      BY DEF NoStats
    <3>4. NoStats.last \in [Dirs -> Int]
      BY DEF NoStats
    <3>5. {k \in 1..0 : Overtakes(acts, k)} = {}
      BY <3>2
    <3>6. /\ NoStats.forwarded = 0 /\ NoStats.dropped = 0 /\ NoStats.reordered = 0
          /\ NoStats = [forwarded |-> NoStats.forwarded, dropped |-> NoStats.dropped,
                        reordered |-> NoStats.reordered, last |-> NoStats.last]
      BY DEF NoStats
    <3>7. Tally(acts, 0, NoStats)
      BY <3>2, <3>3, <3>4, <3>5, <3>6, FS_EmptySet DEF Tally
    <3> QED
      BY <2>3, <2>4, <3>1, <3>7
  <2>5. CASE n # 0
    <3>1. n - 1 \in Nat /\ ~ (n <= n - 1) /\ n \in Nat \ {0} /\ n - 1 <= Len(acts)
          /\ (n - 1) + 1 = n
      BY <1>1, <2>3, <2>5
    <3>2. Tally(acts, n - 1, Running(acts)[n - 1])
      <4>1. n - 1 \notin T
        BY <2>2, <3>1
      <4> QED
        BY <3>1, <4>1
    <3>3. Running(acts)[n] = Count(Running(acts)[n - 1], acts[n])
      BY <3>1, StatsRecursion
    <3>4. Tally(acts, (n - 1) + 1, Count(Running(acts)[n - 1], acts[(n - 1) + 1]))
      BY <2>3, <3>1, <3>2, TallyNext
    <3> QED
      BY <2>3, <3>1, <3>3, <3>4
  <2> QED
    BY <2>4, <2>5
<1>3. Tally(acts, Len(acts), Running(acts)[Len(acts)])
  BY <1>1, <1>2
<1> QED
  BY <1>3, StatsRecursion

\* Survivors are due at a time, and none before the clock began.
Dated ==
  \A e \in DOMAIN eng : \A i \in DOMAIN eng[e].acts :
    eng[e].acts[i].kind = "forward" => eng[e].acts[i].deliverAt \in Nat

\* StatsExact, in a state that satisfies the invariant.
LEMMA StatsHold ==
  ASSUME SimInv, Dated
  PROVE  StatsExact
<1>1. SUFFICES ASSUME NEW e \in DOMAIN eng
               PROVE  /\ RunStats(e).forwarded + RunStats(e).dropped = Len(eng[e].acts)
                      /\ RunStats(e).dropped = 0 <=> LinkLedger(e) = {}
                      /\ RunStats(e).reordered = 0 <=> Overtaking(e) = {}
                      /\ RunStats(e).reordered <= Cardinality(Overtaking(e))
  BY Zenon DEF StatsExact
<1> DEFINE acts == eng[e].acts
           s == RunStats(e)
<1>2. ActsOK(acts, eng[e].seq)
  BY EngineOf DEF EngineInv, EngineOK
<1>3. s = StatsOf(acts) /\ LinkLedger(e) = SeqsOf(acts, "drop")
  BY DEF RunStats, LinkLedger
<1>4. DOMAIN acts = 1..Len(acts) /\ Len(acts) \in Nat /\ IsList(acts)
  BY <1>2 DEF ActsOK, IsList
<1>5. Countable(acts)
  BY <1>2, <1>4 DEF ActsOK, Countable, Dated
<1>6. Overtaking(e) = {k \in 1..Len(acts) : Overtakes(acts, k)}
  <2> DEFINE fwds(d) == {i \in DOMAIN acts : acts[i].kind = "forward" /\ acts[i].dir = d}
  <2>1. Overtaking(e) =
          UNION {{i \in fwds(d) : \E j \in fwds(d) : j < i /\ acts[j].deliverAt > acts[i].deliverAt} :
                   d \in Dirs}
    BY DEF Overtaking
  <2>2. \A d : \A i : i \in fwds(d) <=> i \in 1..Len(acts) /\ Forwarded(acts, i, d)
    BY <1>4 DEF Forwarded
  <2>3. ASSUME NEW k \in Overtaking(e)
        PROVE  k \in 1..Len(acts) /\ Overtakes(acts, k)
    <3>1. PICK d \in Dirs : k \in fwds(d) /\ \E j \in fwds(d) :
                               j < k /\ acts[j].deliverAt > acts[k].deliverAt
      BY <2>1
    <3>2. PICK j \in fwds(d) : j < k /\ acts[j].deliverAt > acts[k].deliverAt
      BY <3>1
    <3>3. /\ k \in 1..Len(acts) /\ Forwarded(acts, k, d)
          /\ j \in 1..Len(acts) /\ Forwarded(acts, j, d)
      BY <2>2, <3>1, <3>2
    <3>4. j \in 1..(k - 1)
      BY <1>4, <3>2, <3>3
    <3> QED
      BY <3>2, <3>3, <3>4 DEF Overtakes, Forwarded
  <2>4. ASSUME NEW k \in 1..Len(acts), Overtakes(acts, k)
        PROVE  k \in Overtaking(e)
    <3>1. PICK j \in 1..(k - 1) : Forwarded(acts, j, acts[k].dir)
                                  /\ acts[j].deliverAt > acts[k].deliverAt
      BY <2>4 DEF Overtakes
    <3>2. j \in 1..Len(acts) /\ j < k
      BY <1>4
    <3>3. acts[k].dir \in Dirs /\ Forwarded(acts, k, acts[k].dir)
      BY <1>5, <2>4 DEF Countable, Overtakes, Forwarded
    <3>4. j \in fwds(acts[k].dir) /\ k \in fwds(acts[k].dir)
      BY <2>2, <3>1, <3>2, <3>3
    <3> QED
      BY <2>1, <3>1, <3>2, <3>3, <3>4
  <2> QED
    BY <2>3, <2>4
<1>7. LinkLedger(e) = {} <=> \A k \in 1..Len(acts) : acts[k].kind # "drop"
  BY <1>3, <1>4 DEF SeqsOf
<1> HIDE DEF acts, s
<1>8. Tally(acts, Len(acts), s)
  BY <1>3, <1>5, Tallied
<1> DEFINE O == {k \in 1..Len(acts) : Overtakes(acts, k)}
<1>9. /\ s.forwarded + s.dropped = Len(acts)
      /\ s.dropped = 0 <=> \A k \in 1..Len(acts) : acts[k].kind # "drop"
      /\ s.reordered \in Nat /\ s.reordered <= Cardinality(O)
      /\ s.reordered = 0 => O = {}
  BY <1>8 DEF Tally
<1>10. O = {} => Cardinality(O) = 0
  BY FS_EmptySet
<1> HIDE DEF O
<1>11. s.reordered = 0 <=> O = {}
  BY <1>9, <1>10
<1>12. Overtaking(e) = O
  BY <1>6 DEF O
<1> QED
  BY <1>7, <1>9, <1>11, <1>12 DEF acts, s

\* The statistics of a run are right (StatsExact): what RunStats counts among the actions,
\* for every run whose survivors are due at natural times.
THEOREM StatsProved == Spec => [](Dated => StatsExact)
<1>1. SimInv => (Dated => StatsExact)
  BY StatsHold
<1> QED
  BY <1>1, SimInductive, PTL

-----------------------------------------------------------------------------
(***************************************************************************)
(* Appended stages.                                                        *)
(***************************************************************************)
\* Sequence t begins with s.
Begins(s, t) ==
  IsList(s) /\ IsList(t) /\ Len(s) <= Len(t) /\ \A i \in 1..Len(s) : s[i] = t[i]

\* A beginning of a beginning is a beginning.
LEMMA BeginsTransitive ==
  ASSUME NEW s, NEW t, NEW u, Begins(s, t), Begins(t, u)
  PROVE  Begins(s, u)
<1>1. PICK a \in Nat, b \in Nat, c \in Nat : a = Len(s) /\ b = Len(t) /\ c = Len(u)
  BY DEF Begins, IsList
<1>2. a <= b /\ b <= c /\ a <= c /\ \A i \in 1..a : i \in 1..b
  BY <1>1 DEF Begins
<1> QED
  BY <1>1, <1>2 DEF Begins

\* What happens behind the first n cells: they stay as they are, and so do the drops.
Behind(h, g, n) ==
  (\A i \in 1..n : g.cells[i] = h.cells[i]) /\ Begins(h.acts, g.acts)

\* An invocation of a later cell happens behind.
LEMMA InvokeBehind ==
  ASSUME NEW p, NEW h, HalfOK(h, p), NEW n \in Nat, NEW i \in 1..Len(h.cells), i > n,
         NEW f, NEW g \in Invoke(h, i, f)
  PROVE  Behind(h, g, n)
<1>1. PICK r : Invoked(h, i, f, r, g)
  BY InvokeParts
<1> DEFINE c == [cell |-> r.cell, stream |-> h.cells[i].stream, used |-> h.cells[i].used + 1]
           a == [kind |-> "drop", seq |-> f.seq, dir |-> f.dir, recvAt |-> f.recvAt,
                 reason |-> h.cells[i].cell.kind]
<1>2. g.cells = [h.cells EXCEPT ![i] = c] /\ (g.acts = h.acts \/ g.acts = Append(h.acts, a))
  BY <1>1 DEF Invoked
<1> HIDE DEF c, a
<1>3. PICK m \in Nat : m = Len(h.cells) /\ DOMAIN h.cells = 1..m
  BY DEF HalfOK, IsList
<1>4. \A j \in 1..n : j \in 1..m /\ j # i
  BY <1>3
<1>5. \A j \in 1..n : g.cells[j] = h.cells[j]
  BY <1>2, <1>3, <1>4
<1>6. PICK l \in Nat : l = Len(h.acts) /\ IsList(h.acts)
  BY DEF HalfOK, IsList
<1>7. Begins(h.acts, g.acts)
  <2>1. CASE g.acts = h.acts
    BY <1>6, <2>1 DEF Begins
  <2>2. CASE g.acts = Append(h.acts, a)
    <3>1. /\ IsList(g.acts) /\ Len(g.acts) = l + 1
          /\ \A j \in 1..(l + 1) : g.acts[j] = IF j <= l THEN h.acts[j] ELSE a
      BY <1>6, <2>2, AppendList
    <3>2. l <= l + 1 /\ \A j \in 1..l : j \in 1..(l + 1) /\ j <= l
      BY <1>6
    <3> QED
      BY <1>6, <3>1, <3>2 DEF Begins
  <2> QED
    BY <1>2, <2>1, <2>2
<1> QED
  BY <1>5, <1>7 DEF Behind

\* One thing that happens behind, and then another.
LEMMA BehindTransitive ==
  ASSUME NEW h, NEW g, NEW f, NEW n, Behind(h, g, n), Behind(g, f, n)
  PROVE  Behind(h, f, n)
<1>1. Begins(h.acts, f.acts)
  BY BeginsTransitive DEF Behind
<1> QED
  BY <1>1 DEF Behind

\* A stage, up to its packet m.
LEMMA ServedBehind ==
  ASSUME NEW p, NEW h, HalfOK(h, p), Known(h.known), NEW n \in Nat,
         NEW i \in 1..Len(h.cells), i > n,
         NEW m \in Nat, m <= Len(h.next), NEW g \in Served(h, i)[m]
  PROVE  Behind(h, g, n)
<1> DEFINE Fails(q) == \E o \in Served(h, i)[q] : ~ Behind(h, o, n)
           T == {q \in Nat : q <= Len(h.next) /\ Fails(q)}
<1>1. SUFFICES ASSUME T # {} PROVE FALSE
  OBVIOUS
<1>2. PICK q \in T : \A l \in T : q <= l
  <2>1. T \subseteq Nat
    OBVIOUS
  <2> HIDE DEF T
  <2> QED
    BY <1>1, <2>1, LeastNat
<1>3. q \in Nat /\ q <= Len(h.next) /\ Len(h.next) \in Nat
  BY <1>2 DEF HalfOK, IsList
<1>4. PICK g1 \in Served(h, i)[q] : ~ Behind(h, g1, n)
  BY <1>2
<1>5. CASE q = 0
  <2>1. g1 = [h EXCEPT !.next = << >>]
    BY <1>4, <1>5, ServedRecursion
  <2>2. g1.cells = h.cells /\ g1.acts = h.acts
    BY <2>1 DEF HalfOK
  <2>3. Begins(h.acts, h.acts)
    BY DEF HalfOK, IsList, Begins
  <2> QED
    BY <1>4, <2>2, <2>3 DEF Behind
<1>6. CASE q # 0
  <2>1. q - 1 \in Nat /\ ~ (q <= q - 1) /\ q \in Nat \ {0} /\ q - 1 <= Len(h.next)
    BY <1>3, <1>6
  <2>2. PICK o \in Served(h, i)[q - 1] : g1 \in Invoke(o, i, h.next[q])
    BY <1>4, <2>1, ServedRecursion
  <2>3. Behind(h, o, n)
    <3>1. q - 1 \notin T
      BY <1>2, <2>1
    <3> QED
      BY <2>1, <2>2, <3>1
  <2>4. HalfOK(o, p) /\ SameWiring(h.cells, o.cells)
    BY <2>1, <2>2, ServedOK
  <2>5. i \in 1..Len(o.cells)
    BY <2>4 DEF SameWiring
  <2>6. Behind(o, g1, n)
    BY <2>2, <2>4, <2>5, InvokeBehind
  <2> QED
    BY <1>4, <2>3, <2>6, BehindTransitive
<1> QED
  BY <1>5, <1>6

\* A pipeline, up to its stage m, beginning behind its stage n.
LEMMA PassedBehind ==
  ASSUME NEW p, NEW h, HalfOK(h, p), Known(h.known), Busy(h),
         NEW n \in Nat, NEW m \in Nat, n <= m, m <= Len(h.cells), NEW g \in Passed(h)[m]
  PROVE  \E o \in Passed(h)[n] : Behind(o, g, n) /\ Among(o.known, g.known)
<1> DEFINE Fine(x) == \E o \in Passed(h)[n] : Behind(o, x, n) /\ Among(o.known, x.known)
           Fails(q) == \E x \in Passed(h)[q] : ~ Fine(x)
           T == {q \in Nat : n <= q /\ q <= Len(h.cells) /\ Fails(q)}
<1>1. SUFFICES ASSUME T # {} PROVE FALSE
  OBVIOUS
<1>2. PICK q \in T : \A l \in T : q <= l
  <2>1. T \subseteq Nat
    OBVIOUS
  <2> HIDE DEF T
  <2> QED
    BY <1>1, <2>1, LeastNat
<1>3. q \in Nat /\ n <= q /\ q <= Len(h.cells) /\ Len(h.cells) \in Nat
  BY <1>2 DEF HalfOK, IsList
<1>4. PICK g1 \in Passed(h)[q] : ~ Fine(g1)
  BY <1>2
<1>5. CASE q = n
  <2>1. HalfOK(g1, p)
    BY <1>3, <1>4, PassedOK
  <2>2. Begins(g1.acts, g1.acts)
    BY <2>1 DEF HalfOK, IsList, Begins
  <2>3. Behind(g1, g1, n) /\ Among(g1.known, g1.known)
    BY <2>2 DEF Behind, Among
  <2> QED
    BY <1>4, <1>5, <2>3
<1>6. CASE q # n
  <2>1. /\ q - 1 \in Nat /\ ~ (q <= q - 1) /\ q \in Nat \ {0} /\ n <= q - 1 /\ q > n
        /\ q - 1 <= Len(h.cells) /\ q \in 1..Len(h.cells)
    BY <1>3, <1>6
  <2>2. PICK x \in Passed(h)[q - 1] : g1 \in Stage(x, q)
    BY <1>4, <2>1, PassedRecursion
  <2>3. Fine(x)
    <3>1. q - 1 \notin T
      BY <1>2, <2>1
    <3> QED
      BY <2>1, <2>2, <3>1
  <2>4. HalfOK(x, p) /\ SameWiring(h.cells, x.cells) /\ Busy(x) /\ Known(x.known)
    BY <2>1, <2>2, PassedOK
  <2>5. q \in 1..Len(x.cells) /\ Len(x.next) \in Nat /\ Len(x.next) <= Len(x.next)
    BY <2>1, <2>4 DEF SameWiring, HalfOK, IsList
  <2>6. g1 \in Served(x, q)[Len(x.next)]
    BY <2>2 DEF Stage
  <2>7. Behind(x, g1, n)
    BY <2>1, <2>4, <2>5, <2>6, ServedBehind
  <2>8. Among(x.known, g1.known)
    BY <2>2, <2>4, <2>5, StageOK
  <2>9. PICK o \in Passed(h)[n] : Behind(o, x, n) /\ Among(o.known, x.known)
    BY <2>3
  <2>10. Behind(o, g1, n) /\ Among(o.known, g1.known)
    BY <2>7, <2>8, <2>9, BehindTransitive, AmongTransitive
  <2> QED
    BY <1>4, <2>10
<1> QED
  BY <1>5, <1>6

\* Two engines that have handled the same number of packets, and whose pipelines for
\* direction d are the same as far as the first one goes.
Ahead(u, v, d) ==
  /\ u.seq = v.seq
  /\ Len(u.pipes[d]) <= Len(v.pipes[d])
  /\ \A i \in 1..Len(u.pipes[d]) : u.pipes[d][i] = v.pipes[d][i]

\* What a packet adds to the actions: its drops, and then its survivors.
Added(u, r, x) ==
  r.acts = u.acts \o x.acts \o Forwards(x.next)

\* Handle, part by part.
LEMMA HandledParts ==
  ASSUME NEW e, EngineOK(e), NEW ev, ev.dir \in Dirs, NEW h, NEW r, Handled(e, ev, h, r)
  PROVE  /\ r.eng.seq = e.seq + 1 /\ Added(e, r.eng, h) /\ r.known = h.known
         /\ r.eng.pipes[ev.dir] = h.cells
         /\ \A d \in Dirs : d # ev.dir => r.eng.pipes[d] = e.pipes[d]
<1> DEFINE pipes == [e.pipes EXCEPT ![ev.dir] = h.cells]
           acts == e.acts \o h.acts \o Forwards(h.next)
<1>1. r.eng = [pipes |-> pipes, seq |-> e.seq + 1, acts |-> acts] /\ r.known = h.known
  BY DEF Handled
<1>2. /\ pipes[ev.dir] = h.cells
      /\ \A d \in Dirs : d # ev.dir => pipes[d] = e.pipes[d]
  BY DEF EngineOK
<1> HIDE DEF pipes, acts
<1>3. r.eng.pipes = pipes /\ r.eng.seq = e.seq + 1 /\ r.eng.acts = acts
  BY <1>1
<1>4. Added(e, r.eng, h)
  BY <1>3 DEF Added, acts
<1> QED
  BY <1>1, <1>2, <1>3, <1>4

\* Two such engines handle a packet of that direction.
LEMMA HandleAhead ==
  ASSUME NEW u, EngineOK(u), NEW v, EngineOK(v), NEW ev, ev.dir \in Dirs, Ahead(u, v, ev.dir),
         NEW j, Known(j), NEW r \in Handle(u, ev, j),
         NEW j2, Known(j2), NEW r2 \in Handle(v, ev, j2),
         NEW k, Among(r.known, k), Among(r2.known, k)
  PROVE  /\ Ahead(r.eng, r2.eng, ev.dir)
         /\ \E x, x2 :
              /\ HalfOK(x, Entering(u, ev)) /\ HalfOK(x2, Entering(u, ev))
              /\ Added(u, r.eng, x) /\ Added(v, r2.eng, x2)
              /\ Begins(x.acts, x2.acts)
              /\ Len(u.pipes[ev.dir]) = Len(v.pipes[ev.dir]) => x.acts = x2.acts /\ x.next = x2.next
<1> DEFINE d == ev.dir
           s == Starting(u, ev, j)
           s2 == Starting(v, ev, j2)
           f == Entering(u, ev)
           f2 == Entering(v, ev)
<1>1. PICK n \in Nat, m \in Nat : n = Len(u.pipes[d]) /\ m = Len(v.pipes[d])
  BY DEF EngineOK, PipeOK, IsList
<1>2. PICK x \in Passed(s)[n] : Handled(u, ev, x, r)
  BY <1>1, HandleParts
<1>3. PICK x2 \in Passed(s2)[m] : Handled(v, ev, x2, r2)
  BY <1>1, HandleParts
<1>4. /\ HalfOK(s, f) /\ Busy(s) /\ s.known = j /\ s.cells = u.pipes[d]
      /\ HalfOK(s2, f2) /\ Busy(s2) /\ s2.known = j2 /\ s2.cells = v.pipes[d]
  BY StartOK
<1>5. f2 = f /\ n <= m /\ \A i \in 1..n : u.pipes[d][i] = v.pipes[d][i]
  BY <1>1 DEF Ahead, Entering
<1>6. s.heap = s2.heap /\ s.next = s2.next /\ s.acts = s2.acts
  BY <1>5 DEF Starting
<1>7. Leading(s, s2, n)
  BY <1>4, <1>5, <1>6 DEF Leading
<1>8. r.known = x.known /\ r2.known = x2.known
  BY <1>2, <1>3 DEF Handled
<1>9. DOMAIN u.pipes = Dirs /\ DOMAIN v.pipes = Dirs /\ d \in Dirs /\ u.seq = v.seq
  BY DEF EngineOK, Ahead
<1>10. /\ r.eng.pipes[d] = x.cells /\ r.eng.seq = u.seq + 1 /\ Added(u, r.eng, x)
       /\ r2.eng.pipes[d] = x2.cells /\ r2.eng.seq = v.seq + 1 /\ Added(v, r2.eng, x2)
  BY <1>2, <1>3, HandledParts
<1> HIDE DEF d, s, s2, f, f2
<1>11. PICK y \in Passed(s2)[n] : Behind(y, x2, n) /\ Among(y.known, x2.known)
  BY <1>1, <1>3, <1>4, <1>5, PassedBehind
<1>12. Among(x.known, k) /\ Among(x2.known, k) /\ Among(y.known, k)
  BY <1>8, <1>11, AmongTransitive
<1>13. Leading(x, y, n)
  <2>1. n <= Len(s.cells) /\ n <= Len(s2.cells) /\ n <= n /\ Known(s.known) /\ Known(s2.known)
    BY <1>1, <1>4, <1>5
  <2>2. HalfOK(s, f) /\ Busy(s) /\ HalfOK(s2, f) /\ Busy(s2)
    BY <1>4, <1>5
  <2> QED
    BY <1>2, <1>7, <1>11, <1>12, <2>1, <2>2, PassedOnce
<1>14. /\ HalfOK(x, f) /\ SameWiring(s.cells, x.cells)
       /\ HalfOK(x2, f) /\ SameWiring(s2.cells, x2.cells)
  BY <1>1, <1>2, <1>3, <1>4, <1>5, PassedOK
<1>15. Begins(x.acts, x2.acts)
  BY <1>11, <1>13 DEF Leading, Behind
<1>16. Len(x.cells) = n /\ Len(x2.cells) = m
  BY <1>1, <1>4, <1>14 DEF SameWiring
<1>17. \A i \in 1..n : x.cells[i] = x2.cells[i]
  BY <1>11, <1>13 DEF Leading, Behind
<1>18. Ahead(r.eng, r2.eng, d)
  BY <1>5, <1>9, <1>10, <1>16, <1>17 DEF Ahead
<1>19. ASSUME n = m PROVE x.acts = x2.acts /\ x.next = x2.next
  <2>1. Leading(x, x2, n)
    BY <1>1, <1>2, <1>3, <1>4, <1>5, <1>7, <1>12, <1>19, PassedOnce
  <2> QED
    BY <2>1 DEF Leading
<1> QED
  BY <1>1, <1>10, <1>14, <1>15, <1>18, <1>19 DEF d, f

\* A selection of actions, one action after the other.
Asked(n, kinds) == [seq |-> n, kinds |-> kinds]
Chosen(acts, q) == CHOOSE s : Always("select", acts, q, s)

Choosing(c, acts, n, kinds) ==
  /\ c[0] = << >>
  /\ \A k \in Nat \ {0} :
       c[k] = IF acts[k].seq = n /\ acts[k].kind \in kinds
              THEN Append(c[k - 1], acts[k]) ELSE c[k - 1]

\* The selection is that recursion.
LEMMA SelectRecursion ==
  ASSUME NEW acts, NEW n, NEW kinds
  PROVE  /\ Selected(acts, n, kinds) = Chosen(acts, Asked(n, kinds))[Len(acts)]
         /\ Choosing(Chosen(acts, Asked(n, kinds)), acts, n, kinds)
<1> DEFINE q == Asked(n, kinds)
           Fits(s) == s = [k \in Nat |->
             IF k = 0 THEN << >>
             ELSE IF acts[k].seq = n /\ acts[k].kind \in kinds
             THEN Append(s[k - 1], acts[k]) ELSE s[k - 1]]
<1>1. \A a : Picks(q, a) <=> a.seq = n /\ a.kind \in kinds
  BY DEF Picks, Asked
<1>2. \A s : Always("select", acts, q, s) <=> Fits(s)
  <2> HIDE DEF q
  <2> QED
    BY <1>1 DEF Always, First, More
<1>3. Always("select", acts, q, Chosen(acts, q))
  BY AlwaysExists DEF Chosen
<1>4. Chosen(acts, q) = CHOOSE s : Fits(s)
  <2> HIDE DEF q, Fits
  <2> QED
    BY <1>2, Zenon DEF Chosen
<1>5. Selected(acts, n, kinds) = Chosen(acts, q)[Len(acts)]
  BY <1>4, Zenon DEF Selected
<1>6. Fits(Chosen(acts, q))
  BY <1>2, <1>3
<1> DEFINE c == Chosen(acts, q)
<1> HIDE DEF c
<1>7. Fits(c)
  BY <1>6 DEF c
<1>8. Choosing(c, acts, n, kinds)
  BY <1>7 DEF Choosing
<1> QED
  BY <1>5, <1>8 DEF c

\* What is chosen from actions i+1 to m: nothing, if none of them is asked for.
LEMMA ChosenNone ==
  ASSUME NEW acts, NEW n, NEW kinds, NEW i \in Nat, NEW m \in Nat, i <= m,
         \A k \in (i + 1)..m : ~ (acts[k].seq = n /\ acts[k].kind \in kinds)
  PROVE  Chosen(acts, Asked(n, kinds))[m] = Chosen(acts, Asked(n, kinds))[i]
<1> DEFINE c == Chosen(acts, Asked(n, kinds))
           T == {l \in Nat : i <= l /\ l <= m /\ c[l] # c[i]}
<1>1. \A k \in Nat \ {0} :
        c[k] = IF acts[k].seq = n /\ acts[k].kind \in kinds
               THEN Append(c[k - 1], acts[k]) ELSE c[k - 1]
  BY SelectRecursion DEF Choosing
<1> HIDE DEF c
<1>2. T = {}
  <2>1. SUFFICES ASSUME T # {} PROVE FALSE
    OBVIOUS
  <2>2. PICK l \in T : \A o \in T : l <= o
    <3>1. T \subseteq Nat
      OBVIOUS
    <3> HIDE DEF T
    <3> QED
      BY <2>1, <3>1, LeastNat
  <2>3. l \in Nat /\ i <= l /\ l <= m /\ c[l] # c[i] /\ l # i
    BY <2>2
  <2>4. l - 1 \in Nat /\ l \in Nat \ {0} /\ i <= l - 1 /\ l - 1 <= m /\ ~ (l <= l - 1)
        /\ l \in (i + 1)..m
    BY <2>3
  <2>5. c[l - 1] = c[i]
    BY <2>2, <2>4
  <2>6. c[l] = c[l - 1]
    BY <1>1, <2>4
  <2> QED
    BY <2>3, <2>5, <2>6
<1>3. c[m] = c[i]
  BY <1>2
<1> QED
  BY <1>3 DEF c

\* Actions i+1 to m, as a sequence of their own.
Taken(s, acts, i, m) ==
  IsList(s) /\ Len(s) = m - i /\ \A k \in 1..(m - i) : s[k] = acts[i + k]

\* All of them, if all are asked for.
LEMMA ChosenAll ==
  ASSUME NEW acts, NEW n, NEW kinds, NEW i \in Nat, NEW m \in Nat, i <= m,
         Chosen(acts, Asked(n, kinds))[i] = << >>,
         \A k \in (i + 1)..m : acts[k].seq = n /\ acts[k].kind \in kinds
  PROVE  Taken(Chosen(acts, Asked(n, kinds))[m], acts, i, m)
<1> DEFINE c == Chosen(acts, Asked(n, kinds))
           Fine(l) == /\ IsList(c[l]) /\ Len(c[l]) = l - i
                      /\ \A k \in 1..(l - i) : c[l][k] = acts[i + k]
           T == {l \in Nat : i <= l /\ l <= m /\ ~Fine(l)}
<1>1. /\ \A k \in Nat \ {0} :
           c[k] = IF acts[k].seq = n /\ acts[k].kind \in kinds
                  THEN Append(c[k - 1], acts[k]) ELSE c[k - 1]
      /\ c[i] = << >>
  BY SelectRecursion DEF Choosing
<1> HIDE DEF c
<1>2. T = {}
  <2>1. SUFFICES ASSUME T # {} PROVE FALSE
    OBVIOUS
  <2>2. PICK l \in T : \A o \in T : l <= o
    <3>1. T \subseteq Nat
      OBVIOUS
    <3> HIDE DEF T
    <3> QED
      BY <2>1, <3>1, LeastNat
  <2>3. l \in Nat /\ i <= l /\ l <= m /\ ~Fine(l)
    BY <2>2
  <2>4. CASE l = i
    <3>1. IsList(c[l]) /\ Len(c[l]) = 0
      BY <1>1, <2>4, ShortLists
    <3>2. l - i = 0 /\ 1..0 = {}
      BY <2>4
    <3> QED
      BY <2>3, <3>1, <3>2
  <2>5. CASE l # i
    <3>1. l - 1 \in Nat /\ l \in Nat \ {0} /\ i <= l - 1 /\ l - 1 <= m /\ ~ (l <= l - 1)
          /\ l \in (i + 1)..m
      BY <2>3, <2>5
    <3>2. Fine(l - 1)
      BY <2>2, <3>1
    <3>3. c[l] = Append(c[l - 1], acts[l])
      BY <1>1, <3>1
    <3>4. PICK b \in Nat : b = (l - 1) - i
      BY <3>1
    <3>5. IsList(c[l - 1]) /\ Len(c[l - 1]) = b /\ \A k \in 1..b : c[l - 1][k] = acts[i + k]
      BY <3>2, <3>4
    <3>6. /\ IsList(c[l]) /\ Len(c[l]) = b + 1
          /\ \A k \in 1..(b + 1) : c[l][k] = IF k <= b THEN c[l - 1][k] ELSE acts[l]
      BY <3>3, <3>5, AppendList
    <3>7. l - i = b + 1 /\ i + (b + 1) = l
      BY <2>3, <3>4
    <3>8. ASSUME NEW k \in 1..(b + 1) PROVE c[l][k] = acts[i + k]
      <4>1. CASE k <= b
        <5>1. k \in 1..b
          BY <4>1
        <5> QED
          BY <3>5, <3>6, <4>1, <5>1
      <4>2. CASE ~ (k <= b)
        <5>1. k = b + 1
          BY <4>2
        <5> QED
          BY <3>6, <3>7, <4>2, <5>1
      <4> QED
        BY <4>1, <4>2
    <3> QED
      BY <2>3, <3>6, <3>7, <3>8
  <2> QED
    BY <2>4, <2>5
<1>3. Fine(m)
  BY <1>2
<1>4. Taken(c[m], acts, i, m)
  BY <1>3 DEF Taken
<1> QED
  BY <1>4 DEF c

\* Two sequences with the same beginning give the same choice from it.
LEMMA ChosenFront ==
  ASSUME NEW acts, NEW more, NEW n, NEW kinds, NEW m \in Nat,
         \A k \in 1..m : acts[k] = more[k]
  PROVE  Chosen(acts, Asked(n, kinds))[m] = Chosen(more, Asked(n, kinds))[m]
<1> DEFINE c == Chosen(acts, Asked(n, kinds))
           d == Chosen(more, Asked(n, kinds))
           T == {l \in Nat : l <= m /\ c[l] # d[l]}
<1>1. /\ c[0] = << >>
      /\ \A k \in Nat \ {0} :
           c[k] = IF acts[k].seq = n /\ acts[k].kind \in kinds
                  THEN Append(c[k - 1], acts[k]) ELSE c[k - 1]
  BY SelectRecursion DEF Choosing
<1>2. /\ d[0] = << >>
      /\ \A k \in Nat \ {0} :
           d[k] = IF more[k].seq = n /\ more[k].kind \in kinds
                  THEN Append(d[k - 1], more[k]) ELSE d[k - 1]
  BY SelectRecursion DEF Choosing
<1> HIDE DEF c, d
<1>3. T = {}
  <2>1. SUFFICES ASSUME T # {} PROVE FALSE
    OBVIOUS
  <2>2. PICK l \in T : \A o \in T : l <= o
    <3>1. T \subseteq Nat
      OBVIOUS
    <3> HIDE DEF T
    <3> QED
      BY <2>1, <3>1, LeastNat
  <2>3. l \in Nat /\ l <= m /\ c[l] # d[l]
    BY <2>2
  <2>4. l # 0
    BY <1>1, <1>2, <2>3
  <2>5. l - 1 \in Nat /\ l \in Nat \ {0} /\ l - 1 <= m /\ ~ (l <= l - 1) /\ l \in 1..m
    BY <2>3, <2>4
  <2>6. c[l - 1] = d[l - 1] /\ acts[l] = more[l]
    BY <2>2, <2>5
  <2> QED
    BY <1>1, <1>2, <2>3, <2>5, <2>6
<1>4. c[m] = d[m]
  BY <1>3
<1> QED
  BY <1>4 DEF c, d

\* What is selected of a packet when it has just been handled: its drops, or all its
\* actions.
SelectsNow(all, n, x) ==
  /\ Selected(all, n, {"drop"}) = x.acts
  /\ Selected(all, n, {"drop", "forward"}) = x.acts \o Forwards(x.next)

\* Drops come first and survivors last, all of them with the number of the packet.
LEMMA SelectedNow ==
  ASSUME NEW acts, NEW n \in Nat, ActsOK(acts, n), NEW f, f.seq = n + 1, NEW x, HalfOK(x, f)
  PROVE  SelectsNow(acts \o x.acts \o Forwards(x.next), n + 1, x)
<1> DEFINE fw == Forwards(x.next)
           all == acts \o x.acts \o fw
           drops == Chosen(all, Asked(n + 1, {"drop"}))
           every == Chosen(all, Asked(n + 1, {"drop", "forward"}))
<1>1. PICK a \in Nat, b \in Nat, c \in Nat :
        a = Len(acts) /\ b = Len(x.acts) /\ c = Len(x.next)
  BY DEF ActsOK, HalfOK, IsList
<1>2. IsList(acts) /\ IsList(x.acts) /\ IsList(x.next)
  BY DEF ActsOK, HalfOK
<1>3. \A k \in 1..a : ~ (acts[k].seq = n + 1)
  BY <1>1 DEF ActsOK
<1>4. \A k \in 1..b : x.acts[k].seq = n + 1 /\ x.acts[k].kind = "drop"
  BY <1>1 DEF HalfOK, DropOf
<1>5. IsList(fw) /\ Len(fw) = c /\ \A k \in 1..c : fw[k] = Forward(x.next[k])
  BY <1>1, <1>2, ForwardsList
<1>6. \A k \in 1..c : fw[k].seq = n + 1 /\ fw[k].kind = "forward"
  <2>1. \A y : Forward(y).seq = y.seq /\ Forward(y).kind = "forward"
    BY DEF Forward
  <2>2. \A k \in 1..c : x.next[k].seq = n + 1
    BY <1>1 DEF HalfOK, SamePacket
  <2> HIDE DEF fw
  <2> QED
    BY <1>5, <2>1, <2>2
<1> HIDE DEF fw
<1>7. Joined(all, acts, x.acts, fw)
  BY <1>2, <1>5, ThreeLists
<1> HIDE DEF all
<1>8. /\ Selected(all, n + 1, {"drop"}) = drops[Len(all)] /\ drops[0] = << >>
      /\ Selected(all, n + 1, {"drop", "forward"}) = every[Len(all)] /\ every[0] = << >>
  BY SelectRecursion DEF Choosing
<1>9. /\ IsList(all) /\ Len(all) = a + b + c
      /\ \A k \in 1..a : all[k] = acts[k]
      /\ \A k \in 1..b : all[a + k] = x.acts[k]
      /\ \A k \in 1..c : all[a + b + k] = fw[k]
  BY <1>1, <1>5, <1>7 DEF Joined
<1>10. \A k \in (0 + 1)..a : ~ (all[k].seq = n + 1)
  BY <1>3, <1>9
<1>11. \A k \in (a + 1)..(a + b) : all[k].seq = n + 1 /\ all[k].kind = "drop"
  <2> TAKE k \in (a + 1)..(a + b)
  <2>1. k - a \in 1..b /\ a + (k - a) = k
    OBVIOUS
  <2>2. all[k] = x.acts[k - a]
    BY <1>9, <2>1
  <2> QED
    BY <1>4, <2>1, <2>2
<1>12. \A k \in (a + b + 1)..(a + b + c) : all[k].seq = n + 1 /\ all[k].kind = "forward"
  <2> TAKE k \in (a + b + 1)..(a + b + c)
  <2>1. k - (a + b) \in 1..c /\ a + b + (k - (a + b)) = k
    OBVIOUS
  <2>2. all[k] = fw[k - (a + b)]
    BY <1>9, <2>1
  <2> QED
    BY <1>6, <2>1, <2>2
<1>13. drops[a] = << >> /\ every[a] = << >>
  <2>1. 0 \in Nat /\ 0 <= a
    OBVIOUS
  <2>2. drops[a] = drops[0]
    BY <1>10, <2>1, ChosenNone
  <2>3. every[a] = every[0]
    BY <1>10, <2>1, ChosenNone
  <2> QED
    BY <1>8, <2>2, <2>3
<1>14. drops[a + b + c] = x.acts
  <2>1. a + b \in Nat /\ a <= a + b /\ a + b + c \in Nat /\ a + b <= a + b + c
        /\ (a + b) - a = b
    OBVIOUS
  <2>2. \A k \in (a + 1)..(a + b) : all[k].seq = n + 1 /\ all[k].kind \in {"drop"}
    BY <1>11
  <2>3. Taken(drops[a + b], all, a, a + b)
    BY <1>13, <2>1, <2>2, ChosenAll
  <2>4. \A k \in (a + b + 1)..(a + b + c) : ~ (all[k].seq = n + 1 /\ all[k].kind \in {"drop"})
    BY <1>12
  <2>5. drops[a + b + c] = drops[a + b]
    BY <2>1, <2>4, ChosenNone
  <2> HIDE DEF drops
  <2>6. IsList(drops[a + b]) /\ Len(drops[a + b]) = b /\ \A k \in 1..b : drops[a + b][k] = x.acts[k]
    BY <1>9, <2>1, <2>3 DEF Taken
  <2>7. drops[a + b] = x.acts
    BY <1>1, <1>2, <2>6 DEF IsList
  <2> QED
    BY <2>5, <2>7
<1>15. every[a + b + c] = x.acts \o fw
  <2>1. a + b + c \in Nat /\ a <= a + b + c /\ (a + b + c) - a = b + c
    OBVIOUS
  <2>2. \A k \in (a + 1)..(a + b + c) :
          all[k].seq = n + 1 /\ all[k].kind \in {"drop", "forward"}
    <3> TAKE k \in (a + 1)..(a + b + c)
    <3>1. k \in (a + 1)..(a + b) \/ k \in (a + b + 1)..(a + b + c)
      OBVIOUS
    <3> QED
      BY <1>11, <1>12, <3>1
  <2>3. Taken(every[a + b + c], all, a, a + b + c)
    BY <1>13, <2>1, <2>2, ChosenAll
  <2> HIDE DEF every
  <2> DEFINE s == every[a + b + c]
             t == x.acts \o fw
  <2>4. IsList(s) /\ Len(s) = b + c /\ \A k \in 1..(b + c) : s[k] = all[a + k]
    BY <2>1, <2>3 DEF Taken
  <2>5. /\ IsList(t) /\ Len(t) = b + c
        /\ \A k \in 1..(b + c) : t[k] = IF k <= b THEN x.acts[k] ELSE fw[k - b]
    <3>1. IsList(x.acts) /\ IsList(fw) /\ Len(x.acts) = b /\ Len(fw) = c
      BY <1>1, <1>2, <1>5
    <3> QED
      BY ONLY <3>1, ConcatList, SMTT(30)
  <2> HIDE DEF s, t
  <2>6. ASSUME NEW k \in 1..(b + c) PROVE s[k] = t[k]
    <3>1. CASE k <= b
      <4>1. k \in 1..b
        BY <3>1
      <4> QED
        BY <1>9, <2>4, <2>5, <3>1, <4>1
    <3>2. CASE ~ (k <= b)
      <4>1. k - b \in 1..c /\ a + k = a + b + (k - b)
        BY <3>2
      <4>2. all[a + b + (k - b)] = fw[k - b]
        BY <1>9, <4>1
      <4> QED
        BY <2>4, <2>5, <3>2, <4>1, <4>2
    <3> QED
      BY <3>1, <3>2
  <2>7. s = t
    BY <2>4, <2>5, <2>6 DEF IsList
  <2> QED
    BY <2>7 DEF s, t
<1> QED
  BY <1>8, <1>9, <1>14, <1>15 DEF SelectsNow, all, fw

\* Later packets change nothing in that.
LEMMA SelectedLater ==
  ASSUME NEW acts, NEW n \in Nat, ActsOK(acts, n), NEW f, f.seq = n + 1, NEW x, HalfOK(x, f),
         NEW m \in 1..n, NEW kinds
  PROVE  Selected(acts \o x.acts \o Forwards(x.next), m, kinds) = Selected(acts, m, kinds)
<1> DEFINE fw == Forwards(x.next)
           all == acts \o x.acts \o fw
           c == Chosen(all, Asked(m, kinds))
           d == Chosen(acts, Asked(m, kinds))
<1>1. PICK i \in Nat, j \in Nat, l \in Nat :
        i = Len(acts) /\ j = Len(x.acts) /\ l = Len(x.next)
  BY DEF ActsOK, HalfOK, IsList
<1>2. IsList(acts) /\ IsList(x.acts) /\ IsList(x.next)
  BY DEF ActsOK, HalfOK
<1>3. \A k \in 1..j : x.acts[k].seq = n + 1
  BY <1>1 DEF HalfOK, DropOf
<1>4. IsList(fw) /\ Len(fw) = l /\ \A k \in 1..l : fw[k] = Forward(x.next[k])
  BY <1>1, <1>2, ForwardsList
<1>5. \A k \in 1..l : fw[k].seq = n + 1
  <2>1. \A y : Forward(y).seq = y.seq
    BY DEF Forward
  <2>2. \A k \in 1..l : x.next[k].seq = n + 1
    BY <1>1 DEF HalfOK, SamePacket
  <2> HIDE DEF fw
  <2> QED
    BY <1>4, <2>1, <2>2
<1> HIDE DEF fw
<1>6. Joined(all, acts, x.acts, fw)
  BY <1>2, <1>4, ThreeLists
<1> HIDE DEF all
<1>7. Selected(all, m, kinds) = c[Len(all)] /\ Selected(acts, m, kinds) = d[Len(acts)]
  BY SelectRecursion
<1>8. /\ Len(all) = i + j + l
      /\ \A k \in 1..i : all[k] = acts[k]
      /\ \A k \in 1..j : all[i + k] = x.acts[k]
      /\ \A k \in 1..l : all[i + j + k] = fw[k]
  BY <1>1, <1>4, <1>6 DEF Joined
<1>9. \A k \in (i + 1)..(i + j + l) : ~ (all[k].seq = m /\ all[k].kind \in kinds)
  <2> TAKE k \in (i + 1)..(i + j + l)
  <2>1. CASE k <= i + j
    <3>1. k - i \in 1..j /\ i + (k - i) = k
      BY <2>1
    <3>2. all[k] = x.acts[k - i]
      BY <1>8, <3>1
    <3>3. all[k].seq = n + 1
      BY <1>3, <3>1, <3>2
    <3> QED
      BY <3>3
  <2>2. CASE ~ (k <= i + j)
    <3>1. k - (i + j) \in 1..l /\ i + j + (k - (i + j)) = k
      BY <2>2
    <3>2. all[k] = fw[k - (i + j)]
      BY <1>8, <3>1
    <3>3. all[k].seq = n + 1
      BY <1>5, <3>1, <3>2
    <3> QED
      BY <3>3
  <2> QED
    BY <2>1, <2>2
<1>10. c[i + j + l] = c[i]
  <2>1. i + j + l \in Nat /\ i <= i + j + l
    OBVIOUS
  <2> QED
    BY <1>9, <2>1, ChosenNone
<1>11. d[i] = c[i]
  <2>1. \A k \in 1..i : acts[k] = all[k]
    BY <1>8
  <2> QED
    BY <2>1, ChosenFront
<1> QED
  BY <1>1, <1>7, <1>8, <1>10, <1>11 DEF all, fw

\* The first n packets of a trace have directions.
Directed(trace, n) == \A l \in 1..n : trace[l].dir \in Dirs

\* A history of the first n packets of a trace, from an engine that has seen none.
Story(k, start, trace, s, n) ==
  n \in Nat /\ start.seq = 0 /\ Directed(trace, n) /\ History(k, start, trace, s, n)

\* Its packet m.
Packet(s, trace, m) ==
  /\ EngineOK(s[m - 1]) /\ EngineOK(s[m]) /\ s[m].seq = s[m - 1].seq + 1
  /\ \E x : HalfOK(x, Entering(s[m - 1], trace[m])) /\ Added(s[m - 1], s[m], x)

Packets(s, trace, n) == \A m \in 1..n : Packet(s, trace, m)

\* The number of packets before each of its states.
Counted(s, n) == \A m \in 0..n : s[m].seq = m

\* What a packet adds, and to what.
LEMMA HandleAdds ==
  ASSUME NEW u, EngineOK(u), NEW ev, ev.dir \in Dirs, NEW j, Known(j), NEW r \in Handle(u, ev, j)
  PROVE  \E x : HalfOK(x, Entering(u, ev)) /\ Added(u, r.eng, x)
<1> DEFINE s == Starting(u, ev, j)
           f == Entering(u, ev)
<1>1. PICK n \in Nat : n = Len(u.pipes[ev.dir])
  BY DEF EngineOK, PipeOK, IsList
<1>2. PICK x \in Passed(s)[n] : Handled(u, ev, x, r)
  BY <1>1, HandleParts
<1>3. HalfOK(s, f) /\ Busy(s) /\ s.known = j /\ s.cells = u.pipes[ev.dir]
  BY StartOK
<1>4. Added(u, r.eng, x)
  BY <1>2, HandledParts
<1> HIDE DEF s, f
<1>5. n <= Len(s.cells)
  BY <1>1, <1>3
<1>6. HalfOK(x, f)
  BY <1>2, <1>3, <1>5, PassedOK
<1> QED
  BY <1>4, <1>6 DEF f

\* One step of a history.
LEMMA HistoryStep ==
  ASSUME NEW k, NEW start, NEW trace, NEW n, NEW s, Story(k, start, trace, s, n)
  PROVE  Packets(s, trace, n)
<1> SUFFICES ASSUME NEW m \in 1..n PROVE Packet(s, trace, m)
  BY DEF Packets
<1>1. EngineOK(s[m - 1]) /\ trace[m].dir \in Dirs
  BY DEF Story, History, Directed
<1>2. PICK j : Known(j) /\ \E r \in Handle(s[m - 1], trace[m], j) :
                             r.eng = s[m] /\ Among(r.known, k)
  BY DEF Story, History
<1>3. PICK r \in Handle(s[m - 1], trace[m], j) : r.eng = s[m] /\ Among(r.known, k)
  BY <1>2
<1>4. EngineOK(r.eng) /\ r.eng.seq = s[m - 1].seq + 1
  BY <1>1, <1>2, HandleOK
<1>5. \E x : HalfOK(x, Entering(s[m - 1], trace[m])) /\ Added(s[m - 1], r.eng, x)
  BY <1>1, <1>2, HandleAdds
<1> QED
  BY <1>1, <1>3, <1>4, <1>5 DEF Packet

\* An engine counts the packets it handles.
LEMMA HistorySeq ==
  ASSUME NEW k, NEW start, NEW trace, NEW n, NEW s, Story(k, start, trace, s, n)
  PROVE  Counted(s, n)
<1> DEFINE T == {l \in Nat : l <= n /\ s[l].seq # l}
<1>1. T = {}
  <2>1. SUFFICES ASSUME T # {} PROVE FALSE
    OBVIOUS
  <2>2. PICK l \in T : \A o \in T : l <= o
    <3>1. T \subseteq Nat
      OBVIOUS
    <3> HIDE DEF T
    <3> QED
      BY <2>1, <3>1, LeastNat
  <2>3. l \in Nat /\ l <= n /\ s[l].seq # l /\ n \in Nat
    BY <2>2 DEF Story
  <2>4. l # 0
    BY <2>3 DEF Story, History
  <2>5. l - 1 \in Nat /\ l - 1 <= n /\ ~ (l <= l - 1) /\ l \in 1..n
    BY <2>3, <2>4
  <2>6. s[l - 1].seq = l - 1
    BY <2>2, <2>5
  <2>7. s[l].seq = s[l - 1].seq + 1
    <3>1. Packets(s, trace, n)
      BY HistoryStep
    <3> QED
      BY <2>5, <3>1 DEF Packets, Packet
  <2> QED
    BY <2>3, <2>6, <2>7
<1> QED
  BY <1>1 DEF Counted, Story

\* What is selected of a packet just after it.
LEMMA SelectedAt ==
  ASSUME NEW k, NEW start, NEW trace, NEW n, NEW s, Story(k, start, trace, s, n),
         NEW m \in 1..n,
         NEW x, HalfOK(x, Entering(s[m - 1], trace[m])), Added(s[m - 1], s[m], x)
  PROVE  SelectsNow(s[m].acts, m, x)
<1> DEFINE f == Entering(s[m - 1], trace[m])
           acts == s[m - 1].acts
           more == s[m].acts
<1>1. PICK i \in Nat : i = m - 1 /\ m = i + 1 /\ i \in 0..n
  BY DEF Story
<1>2. s[m - 1].seq = i
  <2>1. Counted(s, n)
    BY HistorySeq
  <2> QED
    BY <1>1, <2>1 DEF Counted
<1>3. f.seq = i + 1
  BY <1>2 DEF Entering
<1>4. ActsOK(acts, i)
  <2>1. Packets(s, trace, n)
    BY HistoryStep
  <2> QED
    BY <1>2, <2>1 DEF EngineOK, Packets, Packet
<1>5. more = acts \o x.acts \o Forwards(x.next)
  BY DEF Added
<1>6. HalfOK(x, f)
  OBVIOUS
<1> HIDE DEF f, acts, more
<1>7. SelectsNow(acts \o x.acts \o Forwards(x.next), i + 1, x)
  BY <1>3, <1>4, <1>6, SelectedNow
<1> QED
  BY <1>1, <1>5, <1>7 DEF SelectsNow, more

\* And ever after.
SelectsAlike(u, v, m) ==
  \A kinds : Selected(u.acts, m, kinds) = Selected(v.acts, m, kinds)

\* A packet is settled when it has been handled.
LEMMA SelectedAfter ==
  ASSUME NEW k, NEW start, NEW trace, NEW n, NEW s, Story(k, start, trace, s, n),
         NEW m \in 1..n
  PROVE  SelectsAlike(s[n], s[m], m)
<1> SUFFICES ASSUME NEW kinds
             PROVE  Selected(s[n].acts, m, kinds) = Selected(s[m].acts, m, kinds)
  BY DEF SelectsAlike
<1> DEFINE Same(l) == Selected(s[l].acts, m, kinds) = Selected(s[m].acts, m, kinds)
           T == {l \in Nat : m <= l /\ l <= n /\ ~ Same(l)}
<1>1. T = {}
  <2>1. SUFFICES ASSUME T # {} PROVE FALSE
    OBVIOUS
  <2>2. PICK l \in T : \A o \in T : l <= o
    <3>1. T \subseteq Nat
      OBVIOUS
    <3> HIDE DEF T
    <3> QED
      BY <2>1, <3>1, LeastNat
  <2>3. l \in Nat /\ m <= l /\ l <= n /\ ~ Same(l) /\ l # m /\ n \in Nat
    BY <2>2 DEF Story
  <2>4. PICK i \in Nat : i = l - 1 /\ m <= i /\ i <= n /\ ~ (l <= i) /\ l \in 1..n /\ l = i + 1
                         /\ m \in 1..i /\ i \in 0..n
    BY <2>3
  <2>5. Same(i)
    BY <2>2, <2>4
  <2>6. PICK x : HalfOK(x, Entering(s[i], trace[l])) /\ Added(s[i], s[l], x)
    <3>1. Packets(s, trace, n)
      BY HistoryStep
    <3> QED
      BY <2>4, <3>1 DEF Packets, Packet
  <2>7. EngineOK(s[i]) /\ s[i].seq = i
    <3>1. Packets(s, trace, n)
      BY HistoryStep
    <3>2. Counted(s, n)
      BY HistorySeq
    <3> QED
      BY <2>4, <3>1, <3>2 DEF Packets, Packet, Counted
  <2> DEFINE f == Entering(s[i], trace[l])
             acts == s[i].acts
             more == s[l].acts
  <2>8. ActsOK(acts, i) /\ f.seq = i + 1 /\ HalfOK(x, f)
    BY <2>6, <2>7 DEF EngineOK, Entering
  <2>9. more = acts \o x.acts \o Forwards(x.next)
    BY <2>6 DEF Added
  <2> HIDE DEF f, acts, more
  <2>10. Selected(more, m, kinds) = Selected(acts, m, kinds)
    BY <2>4, <2>8, <2>9, SelectedLater
  <2> QED
    BY <2>3, <2>5, <2>10 DEF acts, more
<1>2. Same(n)
  BY <1>1 DEF Story
<1> QED
  BY <1>2

\* Two histories of the same trace.
LEMMA HistoryAhead ==
  ASSUME NEW k, NEW trace, NEW n, NEW a, NEW s, Story(k, a, trace, s, n),
         NEW b, NEW t, Story(k, b, trace, t, n),
         NEW d \in Dirs, Ahead(a, b, d), NEW m \in 0..n
  PROVE  Ahead(s[m], t[m], d)
<1> DEFINE T == {l \in Nat : l <= n /\ ~ Ahead(s[l], t[l], d)}
<1>1. T = {}
  <2>1. SUFFICES ASSUME T # {} PROVE FALSE
    OBVIOUS
  <2>2. PICK l \in T : \A o \in T : l <= o
    <3>1. T \subseteq Nat
      OBVIOUS
    <3> HIDE DEF T
    <3> QED
      BY <2>1, <3>1, LeastNat
  <2>3. l \in Nat /\ l <= n /\ ~ Ahead(s[l], t[l], d) /\ n \in Nat
    BY <2>2 DEF Story
  <2>4. l # 0
    BY <2>3 DEF Story, History
  <2>5. l - 1 \in Nat /\ l - 1 <= n /\ ~ (l <= l - 1) /\ l \in 1..n
    BY <2>3, <2>4
  <2>6. Ahead(s[l - 1], t[l - 1], d)
    BY <2>2, <2>5
  <2> DEFINE u == s[l - 1]
             v == t[l - 1]
             ev == trace[l]
  <2>7. EngineOK(u) /\ EngineOK(v) /\ ev.dir \in Dirs
    BY <2>5 DEF Story, History, Directed
  <2>8. PICK j : Known(j) /\ \E r \in Handle(u, ev, j) : r.eng = s[l] /\ Among(r.known, k)
    BY <2>5 DEF Story, History
  <2>9. PICK r \in Handle(u, ev, j) : r.eng = s[l] /\ Among(r.known, k)
    BY <2>8
  <2>10. PICK j2 : Known(j2) /\ \E r2 \in Handle(v, ev, j2) : r2.eng = t[l] /\ Among(r2.known, k)
    BY <2>5 DEF Story, History
  <2>11. PICK r2 \in Handle(v, ev, j2) : r2.eng = t[l] /\ Among(r2.known, k)
    BY <2>10
  <2> HIDE DEF u, v, ev
  <2>12. CASE ev.dir = d
    <3>1. Ahead(u, v, ev.dir)
      BY <2>6, <2>12 DEF u, v
    <3>2. Ahead(r.eng, r2.eng, ev.dir)
      BY <2>7, <2>8, <2>9, <2>10, <2>11, <3>1, HandleAhead
    <3> QED
      BY <2>3, <2>9, <2>11, <2>12, <3>2
  <2>13. CASE ev.dir # d
    <3>1. PICK h : Handled(u, ev, h, r)
      BY HandleParts
    <3>2. PICK h2 : Handled(v, ev, h2, r2)
      BY HandleParts
    <3>3. r.eng.seq = u.seq + 1 /\ r.eng.pipes[d] = u.pipes[d]
      BY <2>7, <2>13, <3>1, HandledParts
    <3>4. r2.eng.seq = v.seq + 1 /\ r2.eng.pipes[d] = v.pipes[d]
      BY <2>7, <2>13, <3>2, HandledParts
    <3>5. Ahead(r.eng, r2.eng, d)
      BY <2>6, <3>3, <3>4 DEF Ahead, u, v
    <3> QED
      BY <2>3, <2>9, <2>11, <3>5
  <2> QED
    BY <2>12, <2>13
<1> QED
  BY <1>1 DEF Story

\* The front of a sequence.
LEMMA FrontOf ==
  ASSUME NEW s, IsList(s), NEW n \in Nat, n <= Len(s)
  PROVE  SubSeq(s, 1, n) = [i \in 1..n |-> s[i]]
<1> DEFINE S == {s[i] : i \in 1..n}
           t == SubSeq(s, 1, n)
<1>1. \A i \in 1..n : s[i] \in S
  OBVIOUS
<1>2. n - 1 + 1 = n /\ (1 <= n => n - 1 + 1 = n) /\ (~ (1 <= n) => n = 0) /\ 1 \in Int /\ n \in Int
      /\ \A i \in 1..n : 1 + i - 1 = i
  OBVIOUS
<1> HIDE DEF S
<1>3. t \in Seq(S) /\ Len(t) = n /\ \A i \in 1..n : t[i] = s[i]
  BY <1>1, <1>2, SubSeqProperties
<1> HIDE DEF t
<1>4. t \in [1..n -> S]
  BY <1>3
<1>5. t = [i \in 1..n |-> s[i]]
  BY <1>3, <1>4
<1> QED
  BY <1>5 DEF t

Lengths(s, a, d, n) == \A m \in 0..n : Len(s[m].pipes[d]) = Len(a.pipes[d])

\* A history changes the length of no pipeline.
LEMMA HistoryLength ==
  ASSUME NEW k, NEW a, NEW trace, NEW n, NEW s, Story(k, a, trace, s, n), NEW d \in Dirs
  PROVE  Lengths(s, a, d, n)
<1> DEFINE T == {l \in Nat : l <= n /\ Len(s[l].pipes[d]) # Len(a.pipes[d])}
<1>1. T = {}
  <2>1. SUFFICES ASSUME T # {} PROVE FALSE
    OBVIOUS
  <2>2. PICK l \in T : \A o \in T : l <= o
    <3>1. T \subseteq Nat
      OBVIOUS
    <3> HIDE DEF T
    <3> QED
      BY <2>1, <3>1, LeastNat
  <2>3. l \in Nat /\ l <= n /\ Len(s[l].pipes[d]) # Len(a.pipes[d]) /\ n \in Nat
    BY <2>2 DEF Story
  <2>4. l # 0
    BY <2>3 DEF Story, History
  <2>5. l - 1 \in Nat /\ l - 1 <= n /\ ~ (l <= l - 1) /\ l \in 1..n
    BY <2>3, <2>4
  <2>6. Len(s[l - 1].pipes[d]) = Len(a.pipes[d])
    BY <2>2, <2>5
  <2> HIDE DEF T
  <2>7. EngineOK(s[l - 1]) /\ trace[l].dir \in Dirs
    BY <2>5 DEF Story, History, Directed
  <2>8. PICK j : Known(j) /\ \E r \in Handle(s[l - 1], trace[l], j) :
                               r.eng = s[l] /\ Among(r.known, k)
    BY <2>5 DEF Story, History
  <2>9. PICK r \in Handle(s[l - 1], trace[l], j) : r.eng = s[l] /\ Among(r.known, k)
    BY <2>8
  <2>10. SameWiring(s[l - 1].pipes[d], r.eng.pipes[d])
    BY <2>7, <2>8, HandleOK
  <2> QED
    BY <2>3, <2>6, <2>9, <2>10 DEF SameWiring
<1> QED
  BY <1>1 DEF Lengths, Story

\* The pipeline of a direction.
LEMMA ScenarioPipe ==
  ASSUME NEW b, FromScenario(b), BuildAllowed(b), Built(b).err = "none", NEW d \in Dirs
  PROVE  Built(b).pipes[d] = buildPipeline(b.s.seed, Prefix(b), d, StagesOf(b.s, d))
<1> DEFINE pipe(c) == buildPipeline(b.s.seed, Prefix(b), c, StagesOf(b.s, c))
<1>1. Built(b).pipes = [c2s |-> pipe("c2s"), s2c |-> pipe("s2c")]
  BY ScenarioBuilt
<1> HIDE DEF pipe
<1>2. Built(b).pipes[d] = pipe(d)
  BY <1>1 DEF Dirs
<1> QED
  BY <1>2 DEF pipe

\* A beginning is a prefix, and the other way round.
LEMMA PrefixBegins ==
  ASSUME NEW s, NEW t, IsList(s), IsList(t), IsPrefix(s, t)
  PROVE  Begins(s, t)
<1>1. PICK n \in Nat, m \in Nat : n = Len(s) /\ m = Len(t)
  BY DEF IsList
<1>2. n <= m /\ SubSeq(s, 1, n) = SubSeq(t, 1, n)
  BY <1>1 DEF IsPrefix
<1>3. \A i \in 1..n : SubSeq(s, 1, n)[i] = s[i] /\ SubSeq(t, 1, n)[i] = t[i]
  BY <1>1, <1>2, FrontOf
<1>4. \A i \in 1..n : s[i] = t[i]
  BY <1>2, <1>3
<1> QED
  BY <1>1, <1>2, <1>4 DEF Begins

\* The other direction.
LEMMA BeginsPrefix ==
  ASSUME NEW s, NEW t, Begins(s, t)
  PROVE  IsPrefix(s, t)
<1>1. PICK n \in Nat, m \in Nat : n = Len(s) /\ m = Len(t) /\ n <= m
  BY DEF Begins, IsList
<1>2. IsList(s) /\ IsList(t) /\ \A i \in 1..n : s[i] = t[i]
  BY <1>1 DEF Begins
<1>3. /\ SubSeq(s, 1, n) = [i \in 1..n |-> s[i]]
      /\ SubSeq(t, 1, n) = [i \in 1..n |-> t[i]]
  BY <1>1, <1>2, FrontOf
<1>4. SubSeq(s, 1, n) = SubSeq(t, 1, n)
  BY <1>2, <1>3
<1> QED
  BY <1>1, <1>4 DEF IsPrefix

\* The last packet of two histories.
Twins(a, b, s, t, trace, n) ==
  \E x, y :
    /\ HalfOK(x, Entering(s[n - 1], trace[n])) /\ HalfOK(y, Entering(t[n - 1], trace[n]))
    /\ Added(s[n - 1], s[n], x) /\ Added(t[n - 1], t[n], y)
    /\ Begins(x.acts, y.acts)
    /\ Len(a.pipes[trace[n].dir]) = Len(b.pipes[trace[n].dir])
       => x.acts = y.acts /\ x.next = y.next

\* Their drops begin alike, and pipelines of equal length do the same.
LEMMA HistoryPacket ==
  ASSUME NEW k, NEW trace, NEW n, n \in 1..n, NEW a, NEW s, Story(k, a, trace, s, n),
         NEW b, NEW t, Story(k, b, trace, t, n),
         Ahead(a, b, trace[n].dir)
  PROVE  Twins(a, b, s, t, trace, n)
<1> DEFINE u == s[n - 1]
           v == t[n - 1]
           ev == trace[n]
<1>1. n - 1 \in 0..n /\ ev.dir \in Dirs
  BY DEF Story, Directed
<1>2. Ahead(u, v, ev.dir)
  BY <1>1, HistoryAhead
<1>3. EngineOK(u) /\ EngineOK(v)
  BY DEF Story, History
<1>4. PICK j : Known(j) /\ \E r \in Handle(u, ev, j) : r.eng = s[n] /\ Among(r.known, k)
  BY DEF Story, History
<1>5. PICK r \in Handle(u, ev, j) : r.eng = s[n] /\ Among(r.known, k)
  BY <1>4
<1>6. PICK j2 : Known(j2) /\ \E r2 \in Handle(v, ev, j2) : r2.eng = t[n] /\ Among(r2.known, k)
  BY DEF Story, History
<1>7. PICK r2 \in Handle(v, ev, j2) : r2.eng = t[n] /\ Among(r2.known, k)
  BY <1>6
<1>8. /\ Len(u.pipes[ev.dir]) = Len(a.pipes[ev.dir])
      /\ Len(v.pipes[ev.dir]) = Len(b.pipes[ev.dir])
  <2>1. Lengths(s, a, ev.dir, n) /\ Lengths(t, b, ev.dir, n)
    BY <1>1, HistoryLength
  <2> QED
    BY <1>1, <2>1 DEF Lengths
<1>9. Entering(u, ev) = Entering(v, ev)
  BY <1>2 DEF Ahead, Entering
<1> HIDE DEF u, v, ev
<1>10. \E x, y :
         /\ HalfOK(x, Entering(u, ev)) /\ HalfOK(y, Entering(u, ev))
         /\ Added(u, r.eng, x) /\ Added(v, r2.eng, y)
         /\ Begins(x.acts, y.acts)
         /\ Len(u.pipes[ev.dir]) = Len(v.pipes[ev.dir]) => x.acts = y.acts /\ x.next = y.next
  BY <1>1, <1>2, <1>3, <1>4, <1>5, <1>6, <1>7, HandleAhead
<1> QED
  BY <1>5, <1>7, <1>8, <1>9, <1>10 DEF Twins, u, v, ev

\* Pipelines of the same place begin alike, if their stages do.
LEMMA PipesBegin ==
  ASSUME NEW seed, NEW prefix, NEW d, NEW s, StagesOK(s), NEW t, StagesOK(t), IsPrefix(s, t)
  PROVE  LET p == buildPipeline(seed, prefix, d, s)
             q == buildPipeline(seed, prefix, d, t)
         IN  Len(p) <= Len(q) /\ \A i \in 1..Len(p) : p[i] = q[i]
<1> DEFINE p == buildPipeline(seed, prefix, d, s)
           q == buildPipeline(seed, prefix, d, t)
<1>1. PICK n \in Nat, m \in Nat : n = Len(s) /\ DOMAIN s = 1..n /\ m = Len(t) /\ DOMAIN t = 1..m
  BY DEF StagesOK, IsList
<1>2. Begins(s, t)
  BY PrefixBegins DEF StagesOK
<1>3. n <= m /\ \A i \in 1..n : s[i] = t[i] /\ i \in 1..m
  BY <1>1, <1>2 DEF Begins
<1>4. /\ p = [i \in 1..n |-> buildCell(seed, prefix, d, i - 1, s[i])]
      /\ q = [i \in 1..m |-> buildCell(seed, prefix, d, i - 1, t[i])]
  BY <1>1 DEF buildPipeline
<1> HIDE DEF p, q
<1>5. Len(p) = n /\ Len(q) = m
  BY <1>4
<1>6. \A i \in 1..n : p[i] = q[i]
  BY <1>3, <1>4
<1> QED
  BY <1>3, <1>5, <1>6 DEF p, q

\* Appended stages are local, in a state that satisfies the invariant.
LEMMA AppendedHold ==
  ASSUME SimInv
  PROVE  AppendedStagesLocal
<1>1. SUFFICES ASSUME NEW e \in DOMAIN eng, NEW g \in DOMAIN eng, NEW n \in 1..Len(job.trace),
                      SameStreams(job.builds[e], job.builds[g]),
                      n <= eng[e].seq, n <= eng[g].seq,
                      IsPrefix(StagesOf(job.builds[e].s, job.trace[n].dir),
                               StagesOf(job.builds[g].s, job.trace[n].dir))
               PROVE  /\ IsPrefix(DropsOn(e, n), DropsOn(g, n))
                      /\ StagesOf(job.builds[e].s, job.trace[n].dir)
                           = StagesOf(job.builds[g].s, job.trace[n].dir)
                         => ActionsOn(e, n) = ActionsOn(g, n)
  BY DEF AppendedStagesLocal
<1> DEFINE a == job.builds[e]
           b == job.builds[g]
           d == job.trace[n].dir
           p == StagesOf(a.s, d)
           q == StagesOf(b.s, d)
           u == NewEngine(Built(a).pipes)
           v == NewEngine(Built(b).pipes)
<1>2. EngineInv(e) /\ EngineInv(g) /\ BuildAllowed(a) /\ BuildAllowed(b)
  BY EngineOf
<1>3. PICK k \in Nat, l \in Nat :
        k = eng[e].seq /\ l = eng[g].seq /\ k <= Len(job.trace) /\ l <= Len(job.trace)
  BY <1>2 DEF EngineInv, EngineOK
<1>4. Len(job.trace) \in Nat /\ \A m \in 1..Len(job.trace) : job.trace[m].dir \in Dirs
  BY JobFacts DEF SimInv, IsList
<1>5. /\ n \in Nat /\ n \in 1..k /\ n \in 1..l /\ d \in Dirs
      /\ Directed(job.trace, k) /\ Directed(job.trace, l) /\ Directed(job.trace, n) /\ n \in 1..n
  BY <1>1, <1>3, <1>4 DEF Directed
<1>6. /\ Built(a).err = "none" /\ Built(b).err = "none"
      /\ Replayed(fixed, u, job.trace, eng[e]) /\ Replayed(fixed, v, job.trace, eng[g])
  BY <1>2 DEF EngineInv
<1>7. u.seq = 0 /\ v.seq = 0 /\ u.pipes = Built(a).pipes /\ v.pipes = Built(b).pipes
  BY DEF NewEngine
<1>8. /\ FromScenario(a) /\ FromScenario(b) /\ a.s.seed = b.s.seed /\ Prefix(a) = Prefix(b)
  BY <1>1 DEF SameStreams, Prefix
<1>9. StagesOK(p) /\ StagesOK(q) /\ IsPrefix(p, q)
  BY <1>1, <1>2, <1>5, <1>8 DEF BuildAllowed
<1>10. /\ u.pipes[d] = buildPipeline(a.s.seed, Prefix(a), d, p)
       /\ v.pipes[d] = buildPipeline(b.s.seed, Prefix(b), d, q)
  BY <1>2, <1>5, <1>6, <1>7, <1>8, ScenarioPipe
<1> HIDE DEF u, v, p, q, d
<1>11. Ahead(u, v, d)
  BY <1>7, <1>8, <1>9, <1>10, PipesBegin DEF Ahead
<1>12. p = q => Len(u.pipes[d]) = Len(v.pipes[d])
  BY <1>8, <1>10
<1>13. PICK s : History(fixed, u, job.trace, s, k) /\ s[k] = eng[e]
  BY <1>3, <1>6 DEF Replayed
<1>14. PICK t : History(fixed, v, job.trace, t, l) /\ t[l] = eng[g]
  BY <1>3, <1>6 DEF Replayed
<1>15. /\ Story(fixed, u, job.trace, s, k) /\ Story(fixed, v, job.trace, t, l)
       /\ Story(fixed, u, job.trace, s, n) /\ Story(fixed, v, job.trace, t, n)
  <2>1. \A m \in 1..n : m \in 1..k /\ m \in 1..l
    BY <1>5
  <2> QED
    BY <1>5, <1>7, <1>13, <1>14, <2>1 DEF History, Story
<1>16. PICK x, y :
         /\ HalfOK(x, Entering(s[n - 1], job.trace[n])) /\ HalfOK(y, Entering(t[n - 1], job.trace[n]))
         /\ Added(s[n - 1], s[n], x) /\ Added(t[n - 1], t[n], y)
         /\ Begins(x.acts, y.acts)
         /\ p = q => x.acts = y.acts /\ x.next = y.next
  <2>1. Twins(u, v, s, t, job.trace, n)
    BY <1>5, <1>11, <1>15, HistoryPacket DEF d
  <2>2. d = job.trace[n].dir
    BY DEF d
  <2> QED
    BY <1>12, <2>1, <2>2 DEF Twins
<1>17. /\ DropsOn(e, n) = x.acts /\ ActionsOn(e, n) = x.acts \o Forwards(x.next)
  <2>1. SelectsNow(s[n].acts, n, x)
    BY <1>5, <1>15, <1>16, SelectedAt
  <2>2. SelectsAlike(s[k], s[n], n)
    BY <1>5, <1>15, SelectedAfter
  <2> QED
    BY <1>13, <2>1, <2>2 DEF DropsOn, ActionsOn, SelectsNow, SelectsAlike
<1>18. /\ DropsOn(g, n) = y.acts /\ ActionsOn(g, n) = y.acts \o Forwards(y.next)
  <2>1. SelectsNow(t[n].acts, n, y)
    BY <1>5, <1>15, <1>16, SelectedAt
  <2>2. SelectsAlike(t[l], t[n], n)
    BY <1>5, <1>15, SelectedAfter
  <2> QED
    BY <1>14, <2>1, <2>2 DEF DropsOn, ActionsOn, SelectsNow, SelectsAlike
<1>19. IsPrefix(DropsOn(e, n), DropsOn(g, n))
  BY <1>16, <1>17, <1>18, BeginsPrefix
<1>20. p = q => ActionsOn(e, n) = ActionsOn(g, n)
  BY <1>16, <1>17, <1>18
<1> QED
  BY <1>19, <1>20 DEF p, q, d

\* Stages that are appended to a scenario perturb nothing (AppendedStagesLocal): build
\* gives the stages before them the same cells and the same substreams.  For every job
\* and every order in which its engines are built and driven.
THEOREM AppendedProved == Spec => []AppendedStagesLocal
<1>1. SimInv => AppendedStagesLocal
  BY AppendedHold
<1> QED
  BY <1>1, SimInductive, PTL

===========================================================================
