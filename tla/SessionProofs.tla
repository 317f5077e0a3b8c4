--------------------------- MODULE SessionProofs ---------------------------
(***************************************************************************)
(* What the observers count and what the oracles conclude from it, proved  *)
(* for every sequence number space, initial number, number of packets,     *)
(* retransmissions and feedback packets.                                   *)
(*                                                                         *)
(* The module starts with arithmetic modulo the space and with least and   *)
(* greatest elements; then the effect of each observation, one lemma per   *)
(* kind of packet; then one inductive invariant per property.              *)
(***************************************************************************)
EXTENDS Session, FiniteSetTheorems, SequenceTheorems, WellFoundedInduction, TLAPS

-----------------------------------------------------------------------------
(* Arithmetic modulo the space; least and greatest elements. *)

\* A remainder is a number of the space.
LEMMA ModRange ==
  ASSUME NEW S \in Nat \ {0}, NEW x \in Int
  PROVE  x % S \in 0..(S - 1)
OBVIOUS

\* A number of the space is its own remainder.
LEMMA ModSmall ==
  ASSUME NEW S \in Nat \ {0}, NEW x \in Nat, x < S
  PROVE  x % S = x
OBVIOUS

\* Every number is a multiple of the space and its remainder.
LEMMA DivMod ==
  ASSUME NEW S \in Nat \ {0}, NEW x \in Int
  PROVE  \E q \in Int : x = S * q + (x % S)
<1>1. x = S * (x \div S) + (x % S) /\ x \div S \in Int
  OBVIOUS
<1> QED BY <1>1

\* There is one way to write it so.
LEMMA ModUnique ==
  ASSUME NEW S \in Nat \ {0}, NEW x \in Int,
         NEW q \in Int, NEW r \in 0..(S - 1), x = S * q + r
  PROVE  x % S = r
OBVIOUS

\* parseGenericNACK adds an offset to a number that was already reduced.
LEMMA ModAdd ==
  ASSUME NEW S \in Nat \ {0}, NEW x \in Int, NEW y \in Int
  PROVE  ((x % S) + y) % S = (x + y) % S
<1>1. x % S \in 0..(S - 1) /\ ((x % S) + y) % S \in 0..(S - 1)
  BY ModRange
<1>2. PICK q \in Int : x = S * q + (x % S)
  BY DivMod
<1>3. PICK p \in Int : (x % S) + y = S * p + (((x % S) + y) % S)
  <2>1. (x % S) + y \in Int
    BY <1>1
  <2> QED BY <2>1, DivMod
<1>4. PICK r \in 0..(S - 1), t \in 0..(S - 1) : r = x % S /\ t = ((x % S) + y) % S
  BY <1>1
<1>5. x + y = S * (q + p) + t
  BY <1>2, <1>3, <1>4
<1>6. (x + y) % S = t
  <2>1. x + y \in Int /\ q + p \in Int
    OBVIOUS
  <2> QED BY <1>5, <2>1, ModUnique
<1> QED BY <1>4, <1>6

\* recordSeq takes the difference of two numbers that were already reduced.
LEMMA ModSub ==
  ASSUME NEW S \in Nat \ {0}, NEW x \in Int, NEW y \in Int
  PROVE  ((x % S) - (y % S)) % S = (x - y) % S
<1>1. x % S \in 0..(S - 1) /\ y % S \in 0..(S - 1)
  BY ModRange
<1>2. PICK q \in Int : x = S * q + (x % S)
  BY DivMod
<1>3. PICK p \in Int : y = S * p + (y % S)
  BY <1>1, DivMod
<1>4. PICK r \in 0..(S - 1), t \in 0..(S - 1) : r = x % S /\ t = y % S
  BY <1>1
<1>5. r - t \in Int /\ (r - t) % S \in 0..(S - 1)
  BY ModRange
<1>6. PICK k \in Int : r - t = S * k + ((r - t) % S)
  BY <1>5, DivMod
<1>7. PICK u \in 0..(S - 1) : u = (r - t) % S
  BY <1>5
<1>8. x - y = S * ((q - p) + k) + u
  <2>1. x = S * q + r /\ y = S * p + t /\ r - t = S * k + u
    BY <1>2, <1>3, <1>4, <1>6, <1>7
  <2>2. S * ((q - p) + k) = ((S * q) - (S * p)) + (S * k)
    OBVIOUS
  <2>3. S * q \in Int /\ S * p \in Int /\ S * k \in Int
    OBVIOUS
  <2>4. PICK a \in Int, b \in Int, c \in Int : a = S * q /\ b = S * p /\ c = S * k
    BY <2>3
  <2> QED BY <2>1, <2>2, <2>4
<1>9. (x - y) % S = u
  <2>1. x - y \in Int /\ (q - p) + k \in Int
    OBVIOUS
  <2> QED BY <1>8, <2>1, ModUnique
<1> QED BY <1>4, <1>7, <1>9

\* Two packets less than a whole space apart carry different numbers.
LEMMA ModInjective ==
  ASSUME NEW S \in Nat \ {0}, NEW x \in Int, NEW y \in Int,
         x % S = y % S, x <= y, y - x < S
  PROVE  x = y
<1>1. ((y % S) - (x % S)) % S = (y - x) % S
  BY ModSub
<1>2. x % S \in Int
  BY ModRange
<1>3. (y - x) % S = 0 % S
  BY <1>1, <1>2
<1>4. y - x \in Nat /\ 0 \in Nat /\ 0 < S
  OBVIOUS
<1>5. (y - x) % S = y - x /\ 0 % S = 0
  BY <1>4, ModSmall
<1> QED BY <1>3, <1>5

\* A set of numbers that is not empty has a least one.
LEMMA LeastNat ==
  ASSUME NEW T, T \subseteq Nat, T # {}
  PROVE  \E x \in T : \A y \in T : x <= y
<1> DEFINE R == OpToRel(<, Nat)
<1>1. IsWellFoundedOn(R, Nat)
  BY NatLessThanWellFounded
<1>2. \E x \in T : \A y \in T : ~ (<<y, x>> \in R)
  <2> HIDE DEF R
  <2> QED BY <1>1, WFMin
<1>3. \A x, y \in Nat : <<y, x>> \in R <=> y < x
  BY DEF OpToRel
<1> HIDE DEF R
<1>4. PICK x \in T : \A y \in T : ~ (<<y, x>> \in R)
  BY <1>2
<1>5. ASSUME NEW y \in T PROVE x <= y
  <2>1. x \in Nat /\ y \in Nat
    OBVIOUS
  <2>2. ~ (y < x)
    BY <2>1, <1>3, <1>4
  <2> QED BY <2>1, <2>2
<1> QED BY <1>5

\* Min picks the least element, where there is one.
LEMMA MinIsLeast ==
  ASSUME NEW T, T \subseteq Nat, T # {}
  PROVE  Min(T) \in T /\ \A y \in T : Min(T) <= y
<1>1. \E x \in T : \A y \in T : x <= y
  BY LeastNat
<1> QED BY <1>1 DEF Min

\* Max is any element that is at least as great as every other.
LEMMA MaxIsGreatest ==
  ASSUME NEW T, T \subseteq Int, NEW x \in T, \A y \in T : y <= x
  PROVE  Max(T) = x
<1>1. \E z \in T : \A y \in T : z >= y
  OBVIOUS
<1>2. Max(T) \in T /\ \A y \in T : Max(T) >= y
  BY <1>1 DEF Max
<1>3. Max(T) >= x /\ x >= Max(T) /\ Max(T) \in Int /\ x \in Int
  BY <1>2
<1> QED BY <1>3
-----------------------------------------------------------------------------
(***************************************************************************)
(* The observers.                                                          *)
(***************************************************************************)
Counters == [data : Nat, control : Nat, reqs : Nat, retrans : Nat,
             reqSeqs : SUBSET Nat, retransSeqs : SUBSET Nat]

SrtObservers ==
  [cnt : Counters, handshakes : Nat, acks : Nat, maxAck : Nat, monotonic : BOOLEAN,
   ackSeen : [Dirs -> BOOLEAN], lastAck : [Dirs -> Nat]]

RistObservers ==
  [cnt : Counters, seen : SUBSET Nat, seqSeen : BOOLEAN, maxSeq : Nat, gaps : Int]

\* What an SRT observer keeps of acknowledgements is left alone.
SameAcks(o, q) ==
  /\ q.acks = o.acks /\ q.monotonic = o.monotonic
  /\ q.ackSeen = o.ackSeen /\ q.lastAck = o.lastAck

\* What a RIST observer keeps of the sequence is left alone.
SameSequence(o, q) ==
  /\ q.seen = o.seen /\ q.seqSeen = o.seqSeen /\ q.maxSeq = o.maxSeq
  /\ q.gaps = o.gaps

SameRequests(o, q) == q.cnt.reqs = o.cnt.reqs /\ q.cnt.reqSeqs = o.cnt.reqSeqs

SameData(o, q) == q.cnt.data = o.cnt.data /\ q.cnt.retrans = o.cnt.retrans

\* A counter's fields after each operation on it (wireobs.Counters).
LEMMA DataCounted ==
  ASSUME NEW c \in Counters, NEW e, e = Data(c)
  PROVE  /\ e \in Counters
         /\ e.data = c.data + 1 /\ e.control = c.control /\ e.reqs = c.reqs
         /\ e.retrans = c.retrans /\ e.reqSeqs = c.reqSeqs /\ e.retransSeqs = c.retransSeqs
BY DEF Data, Counters

\* Control packets.
LEMMA ControlCounted ==
  ASSUME NEW c \in Counters, NEW e, e = Control(c)
  PROVE  /\ e \in Counters
         /\ e.data = c.data /\ e.control = c.control + 1 /\ e.reqs = c.reqs
         /\ e.retrans = c.retrans /\ e.reqSeqs = c.reqSeqs /\ e.retransSeqs = c.retransSeqs
BY DEF Control, Counters

\* Requests.
LEMMA RequestCounted ==
  ASSUME NEW c \in Counters, NEW T, T \subseteq Nat, NEW e, e = Request(c, T)
  PROVE  /\ e \in Counters
         /\ e.data = c.data /\ e.control = c.control /\ e.reqs = c.reqs + 1
         /\ e.retrans = c.retrans /\ e.reqSeqs = c.reqSeqs \cup T
         /\ e.retransSeqs = c.retransSeqs
<1>1. c.reqSeqs \cup T \in SUBSET Nat /\ c.reqs + 1 \in Nat
  <2>1. c.reqSeqs \subseteq Nat /\ c.reqs \in Nat
    BY DEF Counters
  <2>2. c.reqSeqs \cup T \in SUBSET Nat
    BY <2>1
  <2>3. c.reqs + 1 \in Nat
    BY <2>1
  <2> QED BY <2>2, <2>3
<1> DEFINE U == c.reqSeqs \cup T
<1>2. e = [c EXCEPT !.reqs = c.reqs + 1, !.reqSeqs = U]
  BY DEF Request
<1>3. c.reqs + 1 \in Nat /\ U \in SUBSET Nat
  BY <1>1
<1> HIDE DEF U
<1>4. e \in Counters
  BY <1>2, <1>3 DEF Counters
<1>5. e.data = c.data /\ e.control = c.control /\ e.reqs = c.reqs + 1
      /\ e.retrans = c.retrans /\ e.reqSeqs = U /\ e.retransSeqs = c.retransSeqs
  BY <1>2 DEF Counters
<1> QED BY <1>4, <1>5 DEF U

\* Retransmissions.
LEMMA RetransmitCounted ==
  ASSUME NEW c \in Counters, NEW s \in Nat, NEW e, e = Retransmit(c, s)
  PROVE  /\ e \in Counters
         /\ e.data = c.data /\ e.control = c.control /\ e.reqs = c.reqs
         /\ e.retrans = c.retrans + 1 /\ e.reqSeqs = c.reqSeqs
         /\ e.retransSeqs = c.retransSeqs \cup {s}
<1> DEFINE U == c.retransSeqs \cup {s}
<1>1. e = [c EXCEPT !.retrans = c.retrans + 1, !.retransSeqs = U]
  BY DEF Retransmit
<1>2. c.retrans + 1 \in Nat /\ U \in SUBSET Nat
  BY DEF Counters
<1> HIDE DEF U
<1>3. e \in Counters
  BY <1>1, <1>2 DEF Counters
<1>4. e.data = c.data /\ e.control = c.control /\ e.reqs = c.reqs
      /\ e.retrans = c.retrans + 1 /\ e.reqSeqs = c.reqSeqs /\ e.retransSeqs = U
  BY <1>1 DEF Counters
<1> QED BY <1>3, <1>4 DEF U

\* An SRT data packet is a retransmission if its header says so.
LEMMA SrtData ==
  ASSUME NEW o \in SrtObservers, NEW d, NEW s \in Nat, NEW r \in BOOLEAN, NEW q,
         q = SrtObserve(o, d, [kind |-> "data", seq |-> s, retrans |-> r])
  PROVE  /\ q \in SrtObservers
         /\ SameAcks(o, q) /\ SameRequests(o, q) /\ q.handshakes = o.handshakes
         /\ ~r => q.cnt.retrans = o.cnt.retrans
<1> DEFINE c == Data(o.cnt)
           e == IF r THEN Retransmit(c, s) ELSE c
<1>1. q = [o EXCEPT !.cnt = e]
  BY DEF SrtObserve
<1>2. /\ e \in Counters
      /\ e.reqs = o.cnt.reqs /\ e.reqSeqs = o.cnt.reqSeqs
      /\ ~r => e.retrans = o.cnt.retrans
  <2>1. o.cnt \in Counters
    BY DEF SrtObservers
  <2>2. c \in Counters /\ c.reqs = o.cnt.reqs /\ c.reqSeqs = o.cnt.reqSeqs
        /\ c.retrans = o.cnt.retrans
    BY <2>1, DataCounted
  <2> HIDE DEF c
  <2>3. CASE r
    BY <2>2, <2>3, RetransmitCounted
  <2>4. CASE ~r
    BY <2>2, <2>4
  <2> QED BY <2>3, <2>4
<1> HIDE DEF e
<1> QED BY <1>1, <1>2 DEF SrtObservers, SameAcks, SameRequests

\* A handshake is counted.
LEMMA SrtHandshake ==
  ASSUME NEW o \in SrtObservers, NEW d, NEW q,
         q = SrtObserve(o, d, [kind |-> "handshake"])
  PROVE  /\ q \in SrtObservers
         /\ SameAcks(o, q) /\ SameRequests(o, q) /\ SameData(o, q)
         /\ q.handshakes = o.handshakes + 1
<1> DEFINE e == Control(o.cnt)
<1>1. q = [o EXCEPT !.cnt = e, !.handshakes = o.handshakes + 1]
  BY DEF SrtObserve, SrtObservers
<1>2. /\ e \in Counters
      /\ e.reqs = o.cnt.reqs /\ e.reqSeqs = o.cnt.reqSeqs
      /\ e.retrans = o.cnt.retrans /\ e.data = o.cnt.data
  <2>1. o.cnt \in Counters
    BY DEF SrtObservers
  <2> QED BY <2>1, ControlCounted
<1> HIDE DEF e
<1>3. PICK k \in Nat : k = o.handshakes + 1
  BY DEF SrtObservers
<1>4. q = [o EXCEPT !.cnt = e, !.handshakes = k]
  BY <1>1, <1>3
<1>5. /\ q \in SrtObservers
      /\ q.cnt = e /\ q.handshakes = k /\ SameAcks(o, q)
  BY <1>2, <1>4 DEF SrtObservers, SameAcks
<1> QED BY <1>2, <1>3, <1>5 DEF SameRequests, SameData

\* An ACK is compared with the last one of its own direction.
LEMMA SrtAck ==
  ASSUME NEW o \in SrtObservers, NEW d \in Dirs, NEW s \in Nat, NEW q,
         q = SrtObserve(o, d, [kind |-> "ack", seq |-> s])
  PROVE  /\ q \in SrtObservers
         /\ SameRequests(o, q) /\ SameData(o, q) /\ q.handshakes = o.handshakes
         /\ q.monotonic <=> o.monotonic /\ ~(o.ackSeen[d] /\ s < o.lastAck[d])
         /\ q.ackSeen = [o.ackSeen EXCEPT ![d] = TRUE]
         /\ q.lastAck = [o.lastAck EXCEPT ![d] = s]
<1> DEFINE e == Control(o.cnt)
           a == [o EXCEPT !.cnt = e, !.acks = o.acks + 1]
<1>1. q = recordAck(a, d, s)
  BY DEF SrtObserve, SrtObservers
<1>2. /\ e \in Counters
      /\ e.reqs = o.cnt.reqs /\ e.reqSeqs = o.cnt.reqSeqs
      /\ e.retrans = o.cnt.retrans /\ e.data = o.cnt.data
  <2>1. o.cnt \in Counters
    BY DEF SrtObservers
  <2> QED BY <2>1, ControlCounted
<1> HIDE DEF e
<1>3. /\ a \in SrtObservers
      /\ a.cnt = e /\ a.handshakes = o.handshakes /\ a.monotonic = o.monotonic
      /\ a.ackSeen = o.ackSeen /\ a.lastAck = o.lastAck
  <2>1. o.acks + 1 \in Nat
    BY DEF SrtObservers
  <2>2. PICK k \in Nat : k = o.acks + 1
    BY <2>1
  <2>3. a = [o EXCEPT !.cnt = e, !.acks = k]
    BY <2>2
  <2> HIDE DEF a
  <2>4. a \in SrtObservers
    BY <1>2, <2>3 DEF SrtObservers
  <2> QED BY <2>3, <2>4 DEF SrtObservers
<1> HIDE DEF a
<1>4. q = [a EXCEPT !.monotonic = a.monotonic /\ ~(a.ackSeen[d] /\ s < a.lastAck[d]),
                    !.maxAck = IF s > a.maxAck THEN s ELSE a.maxAck,
                    !.lastAck = [a.lastAck EXCEPT ![d] = s],
                    !.ackSeen = [a.ackSeen EXCEPT ![d] = TRUE]]
  BY <1>1, <1>3 DEF recordAck, SrtObservers
<1>5. /\ q \in SrtObservers
      /\ q.cnt = e /\ q.handshakes = o.handshakes
      /\ q.ackSeen = [o.ackSeen EXCEPT ![d] = TRUE]
      /\ q.lastAck = [o.lastAck EXCEPT ![d] = s]
  <2> DEFINE m == a.monotonic /\ ~(a.ackSeen[d] /\ s < a.lastAck[d])
             x == IF s > a.maxAck THEN s ELSE a.maxAck
             l == [a.lastAck EXCEPT ![d] = s]
             k == [a.ackSeen EXCEPT ![d] = TRUE]
  <2>1. m \in BOOLEAN /\ x \in Nat
    BY <1>3 DEF SrtObservers
  <2>2. l \in [Dirs -> Nat] /\ k \in [Dirs -> BOOLEAN]
    BY <1>3 DEF SrtObservers
  <2>3. l = [o.lastAck EXCEPT ![d] = s] /\ k = [o.ackSeen EXCEPT ![d] = TRUE]
    BY <1>3
  <2>4. q = [a EXCEPT !.monotonic = m, !.maxAck = x, !.lastAck = l, !.ackSeen = k]
    BY <1>4
  <2> HIDE DEF m, x, l, k
  <2>5. q \in SrtObservers
    BY <1>3, <2>1, <2>2, <2>4 DEF SrtObservers
  <2> QED BY <1>3, <2>3, <2>4, <2>5 DEF SrtObservers
<1>6. q.monotonic <=> o.monotonic /\ ~(o.ackSeen[d] /\ s < o.lastAck[d])
  BY <1>3, <1>4 DEF SrtObservers
<1> QED BY <1>2, <1>5, <1>6 DEF SameRequests, SameData, SrtObservers

\* A loss report requests what its ranges hold.
LEMMA SrtNak ==
  ASSUME NEW o \in SrtObservers, NEW d, NEW ranges, decodeNak(ranges) \subseteq Nat, NEW q,
         q = SrtObserve(o, d, [kind |-> "nak", ranges |-> ranges])
  PROVE  /\ q \in SrtObservers
         /\ SameAcks(o, q) /\ SameData(o, q) /\ q.handshakes = o.handshakes
         /\ q.cnt.reqSeqs = o.cnt.reqSeqs \cup decodeNak(ranges)
<1> DEFINE e == Request(Control(o.cnt), decodeNak(ranges))
<1>1. q = [o EXCEPT !.cnt = e]
  BY DEF SrtObserve, SrtObservers
<1>2. /\ e \in Counters
      /\ e.reqSeqs = o.cnt.reqSeqs \cup decodeNak(ranges)
      /\ e.retrans = o.cnt.retrans /\ e.data = o.cnt.data
  <2> DEFINE c == Control(o.cnt)
  <2>1. o.cnt \in Counters
    BY DEF SrtObservers
  <2>2. c \in Counters /\ c.reqSeqs = o.cnt.reqSeqs
        /\ c.retrans = o.cnt.retrans /\ c.data = o.cnt.data
    BY <2>1, ControlCounted
  <2> HIDE DEF c
  <2>3. e = Request(c, decodeNak(ranges))
    BY DEF c
  <2> HIDE DEF e
  <2> QED BY <2>2, <2>3, RequestCounted
<1> HIDE DEF e
<1> QED BY <1>1, <1>2 DEF SrtObservers, SameAcks, SameData

\* A report is counted.
LEMMA RistReport ==
  ASSUME NEW o \in RistObservers, NEW q, q = RistObserve(o, [kind |-> "report"])
  PROVE  /\ q \in RistObservers
         /\ SameSequence(o, q) /\ SameRequests(o, q) /\ SameData(o, q)
<1> DEFINE e == Control(o.cnt)
<1>1. q = [o EXCEPT !.cnt = e]
  BY DEF RistObserve, RistObservers
<1>2. /\ e \in Counters
      /\ e.reqs = o.cnt.reqs /\ e.reqSeqs = o.cnt.reqSeqs
      /\ e.retrans = o.cnt.retrans /\ e.data = o.cnt.data
  <2>1. o.cnt \in Counters
    BY DEF RistObservers
  <2> QED BY <2>1, ControlCounted
<1> HIDE DEF e
<1> QED BY <1>1, <1>2 DEF RistObservers, SameSequence, SameRequests, SameData

\* A generic NACK requests what its entries stand for.
LEMMA RistNack ==
  ASSUME NEW o \in RistObservers, NEW entries, parseGenericNACK(entries) \subseteq Nat,
         NEW q, q = RistObserve(o, [kind |-> "nack", entries |-> entries])
  PROVE  /\ q \in RistObservers
         /\ SameSequence(o, q) /\ SameData(o, q)
         /\ q.cnt.reqSeqs = o.cnt.reqSeqs \cup parseGenericNACK(entries)
<1> DEFINE e == Request(Control(o.cnt), parseGenericNACK(entries))
<1>1. q = [o EXCEPT !.cnt = e]
  BY DEF RistObserve, RistObservers
<1>2. /\ e \in Counters
      /\ e.reqSeqs = o.cnt.reqSeqs \cup parseGenericNACK(entries)
      /\ e.retrans = o.cnt.retrans /\ e.data = o.cnt.data
  <2> DEFINE c == Control(o.cnt)
  <2>1. o.cnt \in Counters
    BY DEF RistObservers
  <2>2. c \in Counters /\ c.reqSeqs = o.cnt.reqSeqs
        /\ c.retrans = o.cnt.retrans /\ c.data = o.cnt.data
    BY <2>1, ControlCounted
  <2> HIDE DEF c
  <2>3. e = Request(c, parseGenericNACK(entries))
    BY DEF c
  <2> HIDE DEF e
  <2> QED BY <2>2, <2>3, RequestCounted
<1> HIDE DEF e
<1> QED BY <1>1, <1>2 DEF RistObservers, SameSequence, SameData

\* A data packet seen before is a retransmission; a new one joins the numbers
\* seen and, if it is ahead of the highest one, moves it and opens gaps.
LEMMA RistData ==
  ASSUME NEW o \in RistObservers, NEW s \in Nat, NEW r, NEW q,
         q = RistObserve(o, [kind |-> "data", seq |-> s, retrans |-> r])
  PROVE  /\ q \in RistObservers
         /\ SameRequests(o, q)
         /\ q.cnt.data = o.cnt.data + 1
         /\ q.cnt.retrans = o.cnt.retrans + (IF s \in o.seen THEN 1 ELSE 0)
         /\ q.seen = o.seen \cup {s}
         /\ s \in o.seen => SameSequence(o, q)
         /\ s \notin o.seen /\ ~o.seqSeen =>
              q.seqSeen /\ q.maxSeq = s /\ q.gaps = o.gaps
         /\ s \notin o.seen /\ o.seqSeen =>
              LET delta == (s - o.maxSeq) % Space
              IN  /\ q.seqSeen
                  /\ IF delta # 0 /\ delta <= Space \div 2
                     THEN q.maxSeq = s /\ q.gaps = (o.gaps + delta) - 1
                     ELSE q.maxSeq = o.maxSeq /\ q.gaps = o.gaps
<1> DEFINE e == Data(o.cnt)
           a == [o EXCEPT !.cnt = e]
           delta == (s - o.maxSeq) % Space
<1>1. q = recordSeq(a, s)
  BY DEF RistObserve, RistObservers
<1>2. /\ e \in Counters /\ e.reqs = o.cnt.reqs /\ e.reqSeqs = o.cnt.reqSeqs
      /\ e.retrans = o.cnt.retrans /\ e.data = o.cnt.data + 1
  <2>1. o.cnt \in Counters
    BY DEF RistObservers
  <2> QED BY <2>1, DataCounted
<1> HIDE DEF e
<1>3. /\ a \in RistObservers
      /\ a.cnt = e /\ a.seen = o.seen /\ a.seqSeen = o.seqSeen /\ a.maxSeq = o.maxSeq
      /\ a.gaps = o.gaps
  BY <1>2 DEF RistObservers
<1> HIDE DEF a
<1>4. delta \in Nat
  BY SpaceAssumption, ModRange DEF RistObservers
<1>5. CASE s \in o.seen
  <2> DEFINE f == Retransmit(e, s)
  <2>1. q = [a EXCEPT !.cnt = f]
    BY <1>1, <1>3, <1>5 DEF recordSeq, RistObservers
  <2>2. /\ f \in Counters /\ f.reqs = e.reqs /\ f.reqSeqs = e.reqSeqs
        /\ f.retrans = e.retrans + 1 /\ f.data = e.data
    <3>1. e \in Counters /\ s \in Nat /\ f = Retransmit(e, s)
      BY <1>2
    <3> HIDE DEF f
    <3> QED BY ONLY <3>1, RetransmitCounted
  <2> HIDE DEF f
  <2> QED BY <1>2, <1>3, <1>5, <2>1, <2>2 DEF RistObservers, SameRequests, SameSequence
<1>6. CASE s \notin o.seen /\ ~o.seqSeen
  <2>1. q = [a EXCEPT !.seen = a.seen \cup {s}, !.seqSeen = TRUE, !.maxSeq = s]
    BY <1>1, <1>3, <1>6 DEF recordSeq, RistObservers
  <2>2. PICK u \in SUBSET Nat : u = a.seen \cup {s}
    BY <1>3 DEF RistObservers
  <2>3. /\ q \in RistObservers /\ q.cnt = e /\ q.seen = u
        /\ q.seqSeen /\ q.maxSeq = s /\ q.gaps = o.gaps
    BY <1>3, <2>1, <2>2 DEF RistObservers
  <2>4. o.cnt.retrans \in Nat
    BY DEF RistObservers, Counters
  <2> QED BY <1>2, <1>3, <1>6, <2>2, <2>3, <2>4 DEF SameRequests
<1>7. CASE s \notin o.seen /\ o.seqSeen /\ delta # 0 /\ delta <= Space \div 2
  <2>1. q = [a EXCEPT !.seen = a.seen \cup {s}, !.gaps = a.gaps + delta - 1, !.maxSeq = s]
    BY <1>1, <1>3, <1>7 DEF recordSeq, RistObservers
  <2> HIDE DEF delta
  <2>2. /\ q \in RistObservers /\ q.cnt = e /\ q.seen = o.seen \cup {s}
        /\ q.seqSeen /\ q.maxSeq = s /\ q.gaps = (o.gaps + delta) - 1
    <3>1. PICK u \in SUBSET Nat : u = a.seen \cup {s}
      BY <1>3 DEF RistObservers
    <3>2. PICK g \in Int : g = a.gaps + delta - 1
      BY <1>3, <1>4 DEF RistObservers
    <3>3. q = [a EXCEPT !.seen = u, !.gaps = g, !.maxSeq = s]
      BY <2>1, <3>1, <3>2
    <3>4. /\ q \in RistObservers /\ q.cnt = e /\ q.seen = u
          /\ q.seqSeen /\ q.maxSeq = s /\ q.gaps = g
      BY <1>3, <1>7, <3>3 DEF RistObservers
    <3>5. a.gaps + delta - 1 = (o.gaps + delta) - 1
      BY <1>3, <1>4 DEF RistObservers
    <3> QED BY <1>3, <3>1, <3>2, <3>4, <3>5
  <2>3. o.cnt.retrans \in Nat
    BY DEF RistObservers, Counters
  <2> QED BY <1>2, <1>7, <2>2, <2>3 DEF SameRequests, delta
<1>8. CASE s \notin o.seen /\ o.seqSeen /\ ~(delta # 0 /\ delta <= Space \div 2)
  <2>1. q = [a EXCEPT !.seen = a.seen \cup {s}]
    BY <1>1, <1>3, <1>8 DEF recordSeq, RistObservers
  <2> HIDE DEF delta
  <2>2. /\ q \in RistObservers /\ q.cnt = e /\ q.seen = o.seen \cup {s}
        /\ q.seqSeen /\ q.maxSeq = o.maxSeq /\ q.gaps = o.gaps
    <3>1. PICK u \in SUBSET Nat : u = a.seen \cup {s}
      BY <1>3 DEF RistObservers
    <3> QED BY <1>3, <1>8, <2>1, <3>1 DEF RistObservers
  <2>3. o.cnt.retrans \in Nat
    BY DEF RistObservers, Counters
  <2> QED BY <1>2, <1>8, <2>2, <2>3 DEF SameRequests, delta
<1> HIDE DEF delta
<1> QED BY <1>5, <1>6, <1>7, <1>8
-----------------------------------------------------------------------------
(***************************************************************************)
(* Types, and what each step does to the observation.                      *)
(***************************************************************************)
ConfigOK ==
  /\ proto \in {"srt", "rist"} /\ loss \in BOOLEAN /\ opaque \in BOOLEAN
  /\ sut \in {"arq", "mute", "regress"}
  /\ isn \in 0..(Space - 1)

RunOK ==
  /\ up \in BOOLEAN /\ next \in Nat
  /\ path \subseteq (0..(next - 1)) \X BOOLEAN
  /\ rx \subseteq 0..(next - 1) /\ asked \subseteq 0..(next - 1)
  /\ resent \in Nat /\ corrupt \in Nat /\ dropped \in Nat /\ feedback \in Nat

HistoryOK ==
  /\ tapped \in Seq(Nat) /\ \A i \in DOMAIN tapped : tapped[i] < next
  /\ acked \in Seq(Nat) /\ \A i \in DOMAIN acked : acked[i] <= next

ObsOK ==
  /\ proto = "srt" => obs \in SrtObservers
  /\ proto = "rist" => obs \in RistObservers

TypeInv == ConfigOK /\ RunOK /\ HistoryOK /\ ObsOK

\* Wire numbers are numbers of the space, and before a wrap they are the packet's
\* own, moved by the initial one.
LEMMA SeqnoFacts ==
  ASSUME ConfigOK, NEW n \in Nat
  PROVE  /\ Seqno(n) \in 0..(Space - 1)
         /\ isn + n < Space => Seqno(n) = isn + n
<1>1. isn + n \in Nat /\ Space \in Nat \ {0}
  BY SpaceAssumption DEF ConfigOK
<1> QED BY <1>1, ModRange, ModSmall DEF Seqno

\* What the receiver misses are packets that were sent.
LEMMA MissingFacts ==
  ASSUME RunOK
  PROVE  Missing \subseteq 0..(next - 1) /\ Missing \subseteq Nat
BY DEF RunOK, Missing

\* The numbers of a loss report are numbers.
LEMMA RangesTyped ==
  ASSUME ConfigOK, RunOK
  PROVE  decodeNak(Ranges) \subseteq Nat
<1>1. ASSUME NEW r \in Ranges PROVE r[1] \in Nat /\ r[2] \in Nat
  <2>1. PICK t \in Missing \X Missing : r = <<Seqno(t[1]), Seqno(t[2])>>
    BY DEF Ranges
  <2>2. t[1] \in Nat /\ t[2] \in Nat
    BY MissingFacts
  <2> QED BY <2>1, <2>2, SeqnoFacts
<1>2. ASSUME NEW x \in decodeNak(Ranges) PROVE x \in Nat
  <2>1. PICK r \in Ranges : x \in IF r[2] < r[1] THEN {r[1]} ELSE r[1]..r[2]
    BY DEF decodeNak
  <2> QED BY <1>1, <2>1
<1> QED BY <1>2

\* So are those of a NACK.
LEMMA EntryTyped ==
  ASSUME ConfigOK, RunOK, Missing # {}
  PROVE  parseGenericNACK({Entry}) \subseteq Nat
<1>1. Min(Missing) \in Missing /\ Missing \subseteq Nat
  BY MinIsLeast, MissingFacts
<1>2. Entry[1] \in Nat
  <2>1. Min(Missing) \in Nat
    BY <1>1
  <2>2. Seqno(Min(Missing)) \in 0..(Space - 1)
    BY <2>1, SeqnoFacts
  <2>3. Seqno(Min(Missing)) \in Nat
    BY <2>2, SpaceAssumption
  <2> QED BY <2>3 DEF Entry
<1>3. ASSUME NEW i \in Entry[2] PROVE (Entry[1] + i + 1) % Space \in Nat
  <2>1. PICK n \in Missing \ {Min(Missing)} : i = n - Min(Missing) - 1
    BY DEF Entry
  <2>2. i \in Int
    BY <1>1, <2>1
  <2>3. Entry[1] + i + 1 \in Int
    BY <1>2, <2>2
  <2> QED BY <2>3, ModRange, SpaceAssumption
<1>4. ASSUME NEW x \in parseGenericNACK({Entry}) PROVE x \in Nat
  <2>1. x \in {Entry[1]} \cup {(Entry[1] + i + 1) % Space : i \in Entry[2]}
    BY DEF parseGenericNACK
  <2> QED BY <2>1, <1>2, <1>3
<1> QED BY <1>4

\* The handshake is seen.
LEMMA ConnectSeen ==
  ASSUME ConfigOK, ObsOK, Connect
  PROVE  /\ ObsOK'
         /\ proto = "srt" => /\ SameAcks(obs, obs') /\ SameRequests(obs, obs')
                             /\ SameData(obs, obs')
                             /\ obs'.handshakes = obs.handshakes + 1
         /\ proto = "rist" => obs' = obs
<1>1. proto' = proto
  BY DEF Connect, config
<1>2. CASE proto = "srt"
  <2>1. obs' = SrtObserve(obs, "c2s", [kind |-> "handshake"]) /\ obs \in SrtObservers
    BY <1>2 DEF Connect, ObsOK
  <2> QED BY <1>1, <1>2, <2>1, SrtHandshake DEF ObsOK
<1>3. CASE proto = "rist"
  BY <1>1, <1>3 DEF Connect, ObsOK
<1> QED BY <1>2, <1>3 DEF ConfigOK

\* A datagram at the tap is seen, whatever the relay then does to it.
LEMMA RelayedSeen ==
  ASSUME TypeInv, NEW p \in path, NEW fate, Relayed(p, fate)
  PROVE  /\ ObsOK' /\ SameRequests(obs, obs')
         /\ p[1] \in 0..(next - 1) /\ p[2] \in BOOLEAN
         /\ proto = "srt" =>
              /\ SameAcks(obs, obs') /\ obs'.handshakes = obs.handshakes
              /\ ~p[2] => obs'.cnt.retrans = obs.cnt.retrans
         /\ proto = "rist" =>
              obs' = RistObserve(obs, [kind |-> "data", seq |-> Seqno(p[1]), retrans |-> p[2]])
<1>1. proto' = proto
  BY DEF Relayed, config
<1>2. p[1] \in 0..(next - 1) /\ p[2] \in BOOLEAN
  BY DEF TypeInv, RunOK
<1>3. Seqno(p[1]) \in Nat
  BY <1>2, SeqnoFacts DEF TypeInv
<1>4. CASE proto = "srt"
  <2>1. /\ obs' = SrtObserve(obs, "c2s",
                             [kind |-> "data", seq |-> Seqno(p[1]), retrans |-> p[2]])
        /\ obs \in SrtObservers
    BY <1>4 DEF Relayed, ObsOK, Observed, TypeInv
  <2> QED BY <1>1, <1>2, <1>3, <1>4, <2>1, SrtData DEF ObsOK
<1>5. CASE proto = "rist"
  <2>1. /\ obs' = RistObserve(obs, [kind |-> "data", seq |-> Seqno(p[1]), retrans |-> p[2]])
        /\ obs \in RistObservers
    BY <1>5 DEF Relayed, ObsOK, Observed, TypeInv
  <2>2. obs' \in RistObservers /\ SameRequests(obs, obs')
    BY <1>3, <2>1, RistData
  <2> QED BY <1>1, <1>2, <1>5, <2>1, <2>2 DEF ObsOK
<1> QED BY <1>4, <1>5 DEF ConfigOK, TypeInv

\* A request is seen.
LEMMA AskSeen ==
  ASSUME TypeInv, Ask
  PROVE  /\ ObsOK' /\ SameData(obs, obs')
         /\ proto = "srt" =>
              /\ SameAcks(obs, obs') /\ obs'.handshakes = obs.handshakes
              /\ obs'.cnt.reqSeqs = obs.cnt.reqSeqs \cup decodeNak(Ranges)
         /\ proto = "rist" =>
              /\ SameSequence(obs, obs')
              /\ obs'.cnt.reqSeqs = obs.cnt.reqSeqs \cup parseGenericNACK({Entry})
<1>1. proto' = proto
  BY DEF Ask, config
<1>2. CASE proto = "srt"
  <2>1. /\ obs' = SrtObserve(obs, "s2c", [kind |-> "nak", ranges |-> Ranges])
        /\ obs \in SrtObservers
    BY <1>2 DEF Ask, ObsOK, Observed, TypeInv
  <2>2. decodeNak(Ranges) \subseteq Nat
    BY RangesTyped DEF TypeInv
  <2> QED BY <1>1, <1>2, <2>1, <2>2, SrtNak DEF ObsOK
<1>3. CASE proto = "rist"
  <2>1. /\ obs' = RistObserve(obs, [kind |-> "nack", entries |-> {Entry}])
        /\ obs \in RistObservers
    BY <1>3 DEF Ask, ObsOK, Observed, TypeInv
  <2>2. parseGenericNACK({Entry}) \subseteq Nat
    BY EntryTyped DEF TypeInv, Ask
  <2> QED BY <1>1, <1>3, <2>1, <2>2, RistNack DEF ObsOK
<1> QED BY <1>2, <1>3 DEF ConfigOK, TypeInv

\* An ACK, of either direction, is seen.
LEMMA AckSeen ==
  ASSUME TypeInv, proto = "srt", proto' = proto, NEW d \in Dirs, NEW s \in Nat,
         obs' = SrtObserve(obs, d, [kind |-> "ack", seq |-> s])
  PROVE  /\ ObsOK' /\ SameRequests(obs, obs') /\ SameData(obs, obs')
         /\ obs'.handshakes = obs.handshakes
         /\ obs'.monotonic <=> obs.monotonic /\ ~(obs.ackSeen[d] /\ s < obs.lastAck[d])
         /\ obs'.ackSeen = [obs.ackSeen EXCEPT ![d] = TRUE]
         /\ obs'.lastAck = [obs.lastAck EXCEPT ![d] = s]
<1>1. obs \in SrtObservers
  BY DEF TypeInv, ObsOK
<1>2. /\ obs' \in SrtObservers /\ SameRequests(obs, obs') /\ SameData(obs, obs')
      /\ obs'.handshakes = obs.handshakes
      /\ obs'.monotonic <=> obs.monotonic /\ ~(obs.ackSeen[d] /\ s < obs.lastAck[d])
      /\ obs'.ackSeen = [obs.ackSeen EXCEPT ![d] = TRUE]
      /\ obs'.lastAck = [obs.lastAck EXCEPT ![d] = s]
  BY <1>1, SrtAck
<1> QED BY <1>2 DEF ObsOK

\* A report is seen.
LEMMA ReportSeen ==
  ASSUME TypeInv, Report
  PROVE  /\ ObsOK' /\ SameSequence(obs, obs') /\ SameRequests(obs, obs')
         /\ SameData(obs, obs')
<1>1. obs \in RistObservers /\ obs' = RistObserve(obs, [kind |-> "report"]) /\ proto' = proto
      /\ proto = "rist"
  BY DEF TypeInv, ObsOK, Report, config
<1> QED BY <1>1, RistReport DEF ObsOK

\* One step keeps the types.
LEMMA TypeStep ==
  ASSUME TypeInv, Next
  PROVE  TypeInv'
<1> USE DEF TypeInv
<1>1. CASE Connect
  <2>1. ConfigOK' /\ RunOK' /\ HistoryOK'
    BY <1>1 DEF Connect, config, ConfigOK, RunOK, HistoryOK
  <2> QED BY <1>1, <2>1, ConnectSeen
<1>2. CASE Send
  <2>1. ConfigOK' /\ ObsOK'
    BY <1>2 DEF Send, config, ConfigOK, ObsOK
  <2>2. next \in Nat /\ next' = next + 1 /\ next \in 0..(next' - 1)
    BY <1>2 DEF Send, RunOK
  <2>3. 0..(next - 1) \subseteq 0..(next' - 1)
    BY <2>2
  <2>4. RunOK'
    <3>1. path' = path \cup {<<next, FALSE>>} /\ rx' = rx /\ asked' = asked
          /\ resent' = resent /\ corrupt' = corrupt /\ dropped' = dropped
          /\ feedback' = feedback /\ up' = up
      BY <1>2 DEF Send
    <3> DEFINE P == 0..(next - 1)
               Q == 0..(next' - 1)
    <3>2. path \subseteq P \X BOOLEAN /\ rx \subseteq P /\ asked \subseteq P
      BY DEF RunOK
    <3>3. P \subseteq Q /\ next \in Q
      BY <2>2, <2>3
    <3> HIDE DEF P, Q
    <3>4. rx' \subseteq Q /\ asked' \subseteq Q
      BY <3>1, <3>2, <3>3
    <3>6. path' \subseteq Q \X BOOLEAN
      <4>1. <<next, FALSE>> \in Q \X BOOLEAN
        BY <3>3
      <4>2. P \X BOOLEAN \subseteq Q \X BOOLEAN
        BY <3>3
      <4> QED BY <3>1, <3>2, <4>1, <4>2
    <3>5. next' \in Nat
      BY <2>2
    <3> QED BY <3>1, <3>4, <3>5, <3>6 DEF RunOK, Q
  <2>5. HistoryOK'
    <3>1. tapped' = tapped /\ acked' = acked
      BY <1>2 DEF Send
    <3>2. \A i \in DOMAIN tapped : tapped[i] \in Nat
      BY ElementOfSeq, LenProperties DEF HistoryOK
    <3>3. \A i \in DOMAIN acked : acked[i] \in Nat
      BY ElementOfSeq, LenProperties DEF HistoryOK
    <3> QED BY <2>2, <3>1, <3>2, <3>3 DEF HistoryOK
  <2> QED BY <2>1, <2>4, <2>5
<1>3. CASE Ask
  <2>1. ConfigOK' /\ HistoryOK'
    BY <1>3 DEF Ask, config, ConfigOK, HistoryOK
  <2>2. RunOK'
    BY <1>3, MissingFacts DEF Ask, RunOK
  <2> QED BY <1>3, <2>1, <2>2, AskSeen
<1>4. CASE IdleAck
  <2>1. ConfigOK' /\ RunOK' /\ HistoryOK'
    BY <1>4 DEF IdleAck, config, ConfigOK, RunOK, HistoryOK
  <2>2. /\ proto = "srt" /\ proto' = proto /\ "c2s" \in Dirs
        /\ obs' = SrtObserve(obs, "c2s", [kind |-> "ack", seq |-> 0])
    BY <1>4 DEF IdleAck, config, Dirs
  <2> QED BY <2>1, <2>2, AckSeen
<1>5. CASE Report
  <2>1. ConfigOK' /\ RunOK' /\ HistoryOK'
    BY <1>5 DEF Report, config, ConfigOK, RunOK, HistoryOK
  <2> QED BY <1>5, <2>1, ReportSeen
<1>6. ASSUME NEW p \in path, LostOnPath(p)
      PROVE  TypeInv'
  BY <1>6 DEF LostOnPath, config, ConfigOK, RunOK, HistoryOK, ObsOK
<1>7. ASSUME NEW p \in path, NEW fate \in {"forward", "drop", "corrupt"}, Relayed(p, fate)
      PROVE  TypeInv'
  <2>1. ConfigOK'
    BY <1>7 DEF Relayed, config, ConfigOK
  <2>2. p[1] \in 0..(next - 1) /\ ObsOK'
    BY <1>7, RelayedSeen
  <2>3. RunOK'
    <3>1. path' \subseteq path /\ rx' \subseteq rx \cup {p[1]}
      BY <1>7 DEF Relayed
    <3>2. dropped' \in Nat /\ corrupt' \in Nat
      BY <1>7 DEF Relayed, RunOK
    <3>3. UNCHANGED <<up, next, asked, resent, feedback>>
      BY <1>7 DEF Relayed
    <3> QED BY <2>2, <3>1, <3>2, <3>3 DEF RunOK
  <2>4. HistoryOK'
    <3>1. tapped' = Append(tapped, p[1]) /\ acked' = acked /\ next' = next
      BY <1>7 DEF Relayed
    <3>2. p[1] \in Nat /\ p[1] < next
      BY <2>2 DEF RunOK
    <3>3. tapped \in Seq(Nat) /\ \A i \in 1..Len(tapped) : tapped[i] < next
      BY DEF HistoryOK
    <3>4. tapped' \in Seq(Nat) /\ \A i \in 1..Len(tapped') : tapped'[i] < next
      BY <3>1, <3>2, <3>3, AppendProperties
    <3> QED BY <3>1, <3>4 DEF HistoryOK
  <2> QED BY <2>1, <2>2, <2>3, <2>4
<1>8. ASSUME NEW n \in asked, Resend(n)
      PROVE  TypeInv'
  <2>1. ConfigOK' /\ HistoryOK' /\ ObsOK'
    BY <1>8 DEF Resend, config, ConfigOK, HistoryOK, ObsOK
  <2>2. RunOK'
    <3>1. path' = path \cup {<<n, TRUE>>} /\ n \in 0..(next - 1)
      BY <1>8 DEF Resend, RunOK
    <3>2. resent' \in Nat
      BY <1>8 DEF Resend, RunOK
    <3>3. UNCHANGED <<up, next, rx, asked, corrupt, dropped, feedback>>
      BY <1>8 DEF Resend
    <3> DEFINE P == 0..(next - 1)
    <3>4. path \subseteq P \X BOOLEAN /\ n \in P
      BY <3>1 DEF RunOK
    <3> HIDE DEF P
    <3>5. path' \subseteq P \X BOOLEAN
      <4>1. <<n, TRUE>> \in P \X BOOLEAN
        BY <3>4
      <4> QED BY <3>1, <3>4, <4>1
    <3>6. P' = P
      BY <3>3 DEF P
    <3>7. path' \subseteq (0..(next' - 1)) \X BOOLEAN
      BY <3>5, <3>6 DEF P
    <3> QED BY <3>2, <3>3, <3>7 DEF RunOK
  <2> QED BY <2>1, <2>2
<1>9. ASSUME NEW n \in 0..next, Ack(n)
      PROVE  TypeInv'
  <2>1. ConfigOK' /\ RunOK'
    BY <1>9 DEF Ack, config, ConfigOK, RunOK
  <2>2. n \in Nat /\ n <= next
    BY DEF RunOK
  <2>3. Seqno(n) \in Nat
    BY <2>2, SeqnoFacts
  <2>4. /\ proto = "srt" /\ proto' = proto /\ "s2c" \in Dirs
        /\ obs' = SrtObserve(obs, "s2c", [kind |-> "ack", seq |-> Seqno(n)])
    BY <1>9 DEF Ack, config, Dirs
  <2>5. ObsOK'
    BY <2>3, <2>4, AckSeen
  <2>6. HistoryOK'
    <3>1. acked' = Append(acked, n) /\ tapped' = tapped /\ next' = next
      BY <1>9 DEF Ack
    <3>2. acked \in Seq(Nat) /\ \A i \in 1..Len(acked) : acked[i] <= next
      BY DEF HistoryOK
    <3>3. acked' \in Seq(Nat) /\ \A i \in 1..Len(acked') : acked'[i] <= next
      BY <2>2, <3>1, <3>2, AppendProperties
    <3> QED BY <3>1, <3>3 DEF HistoryOK
  <2> QED BY <2>1, <2>5, <2>6
<1> QED BY <1>1, <1>2, <1>3, <1>4, <1>5, <1>6, <1>7, <1>8, <1>9 DEF Next

\* The initial state has the types.
LEMMA TypeInit ==
  ASSUME Init
  PROVE  TypeInv
<1>1. ConfigOK
  <2>1. proto \in {"srt", "rist"}
    BY SessionAssumption DEF Init
  <2>2. isn \in 0..(Space - 1)
    BY SessionAssumption DEF Init
  <2>3. sut \in {"arq", "mute", "regress"}
    BY DEF Init
  <2>4. loss \in BOOLEAN /\ opaque \in BOOLEAN
    BY DEF Init
  <2> QED BY <2>1, <2>2, <2>3, <2>4 DEF ConfigOK
<1>2. RunOK
  <2>1. path = {} /\ rx = {} /\ asked = {} /\ up \in BOOLEAN /\ next \in Nat
        /\ resent \in Nat /\ corrupt \in Nat /\ dropped \in Nat /\ feedback \in Nat
    BY DEF Init
  <2> QED BY <2>1 DEF RunOK
<1>6. HistoryOK
  BY EmptySeq DEF Init, HistoryOK
<1>3. NewCounters \in Counters
  BY DEF NewCounters, Counters
<1>4. NewSrtObserver \in SrtObservers /\ NewRistObserver \in RistObservers
  BY <1>3 DEF NewSrtObserver, NewRistObserver, SrtObservers, RistObservers
<1>5. ObsOK
  BY <1>4 DEF Init, ObsOK
<1> QED BY <1>1, <1>2, <1>5, <1>6 DEF TypeInv

\* Nothing changes in a stutter.
LEMMA TypeStutter ==
  ASSUME TypeInv, UNCHANGED vars
  PROVE  TypeInv'
BY DEF vars, config, TypeInv, ConfigOK, RunOK, HistoryOK, ObsOK

\* Every reachable state of a run has the types, with the observer of its protocol.
THEOREM TypeCorrect == Spec => []TypeInv
<1>1. Init => TypeInv
  BY TypeInit
<1>2. TypeInv /\ [Next]_vars => TypeInv'
  BY TypeStep, TypeStutter
<1> QED BY <1>1, <1>2, PTL DEF Spec
-----------------------------------------------------------------------------
(***************************************************************************)
(* What no step takes back.                                                *)
(***************************************************************************)
\* Nothing is unsent: a run that has not wrapped, or not used a number twice, had
\* not before the step either.
LEMMA StepFrame ==
  ASSUME TypeInv, [Next]_vars
  PROVE  /\ UNCHANGED config
         /\ proto' = proto /\ sut' = sut /\ isn' = isn /\ loss' = loss /\ opaque' = opaque
         /\ next' \in Nat /\ next \in Nat /\ next <= next' /\ (up => up')
         /\ NoWrap' => NoWrap
         /\ NoReuse' => NoReuse
<1>1. UNCHANGED config /\ (next' = next \/ next' = next + 1) /\ (up => up')
  <2>1. CASE UNCHANGED vars
    BY <2>1 DEF vars
  <2>2. CASE Next
    <3>1. CASE Connect
      BY <3>1 DEF Connect
    <3>2. CASE Send
      BY <3>2 DEF Send
    <3>3. CASE Ask
      BY <3>3 DEF Ask
    <3>4. CASE IdleAck \/ Report
      BY <3>4 DEF IdleAck, Report
    <3>5. ASSUME NEW p \in path, LostOnPath(p)
          PROVE  UNCHANGED config /\ next' = next /\ up' = up
      BY <3>5 DEF LostOnPath
    <3>6. ASSUME NEW p \in path, NEW fate \in {"forward", "drop", "corrupt"},
                 Relayed(p, fate)
          PROVE  UNCHANGED config /\ next' = next /\ up' = up
      BY <3>6 DEF Relayed
    <3>7. ASSUME NEW n \in asked, Resend(n)
          PROVE  UNCHANGED config /\ next' = next /\ up' = up
      BY <3>7 DEF Resend
    <3>8. ASSUME NEW n \in 0..next, Ack(n)
          PROVE  UNCHANGED config /\ next' = next /\ up' = up
      BY <3>8 DEF Ack
    <3> QED BY <2>2, <3>1, <3>2, <3>3, <3>4, <3>5, <3>6, <3>7, <3>8 DEF Next
  <2> QED BY <2>1, <2>2
<1>2. proto' = proto /\ sut' = sut /\ isn' = isn /\ loss' = loss /\ opaque' = opaque
  BY <1>1 DEF config
<1>3. next \in Nat /\ isn \in Int /\ Space \in Int
  BY SpaceAssumption DEF TypeInv, RunOK, ConfigOK
<1>4. next' \in Nat /\ next <= next'
  <2>1. next' = next \/ next' = next + 1
    BY <1>1
  <2> QED BY <2>1, <1>3
<1>5. NoWrap' => NoWrap
  <2>1. PICK a \in Int, b \in Int, c \in Int : a = isn /\ b = next /\ c = next'
    BY <1>3, <1>4
  <2>2. NoWrap' <=> a + c < Space
    BY <1>2, <2>1 DEF NoWrap
  <2>3. NoWrap <=> a + b < Space
    BY <2>1 DEF NoWrap
  <2>4. b <= c
    BY <1>4, <2>1
  <2> QED BY <1>3, <2>2, <2>3, <2>4
<1>6. NoReuse' => NoReuse
  BY <1>3, <1>4 DEF NoReuse
<1> QED BY <1>1, <1>2, <1>3, <1>4, <1>5, <1>6
-----------------------------------------------------------------------------
(***************************************************************************)
(* The acknowledgements.                                                   *)
(***************************************************************************)
Sorted(s) == \A i, j \in DOMAIN s : i < j => s[i] <= s[j]

\* A sequence stays sorted if what is appended is not below its end.
LEMMA SortedAppend ==
  ASSUME NEW s \in Seq(Nat), NEW n \in Nat
  PROVE  Sorted(Append(s, n)) <=> Sorted(s) /\ (s # << >> => s[Len(s)] <= n)
<1> DEFINE t == Append(s, n)
<1>1. /\ Len(t) = Len(s) + 1 /\ t[Len(s) + 1] = n /\ t \in Seq(Nat)
      /\ \A i \in 1..Len(s) : t[i] = s[i]
  BY AppendProperties
<1>2. Len(s) \in Nat /\ DOMAIN s = 1..Len(s) /\ DOMAIN t = 1..Len(t)
  BY <1>1, LenProperties
<1>3. \A i \in 1..Len(s) : s[i] \in Nat
  BY ElementOfSeq
<1>4. s # << >> <=> Len(s) > 0
  BY <1>2, EmptySeq
<1> HIDE DEF t
<1>5. ASSUME Sorted(t) PROVE Sorted(s) /\ (s # << >> => s[Len(s)] <= n)
  <2>1. \A i, j \in 1..Len(t) : i < j => t[i] <= t[j]
    BY <1>2, <1>5 DEF Sorted
  <2>2. Sorted(s)
    BY <2>1, <1>1, <1>2 DEF Sorted
  <2>3. s # << >> => t[Len(s)] <= t[Len(s) + 1]
    BY <2>1, <1>1, <1>2, <1>4
  <2> QED BY <2>2, <2>3, <1>1, <1>2, <1>4
<1>6. ASSUME Sorted(s), s # << >> => s[Len(s)] <= n PROVE Sorted(t)
  <2>1. \A i \in 1..Len(s) : s[i] <= n
    BY <1>2, <1>3, <1>4, <1>6 DEF Sorted
  <2>2. ASSUME NEW i \in 1..Len(t), NEW j \in 1..Len(t), i < j PROVE t[i] <= t[j]
    <3>1. i \in 1..Len(s)
      BY <1>1, <1>2, <2>2
    <3>2. CASE j = Len(s) + 1
      BY <3>1, <3>2, <2>1, <1>1
    <3>3. CASE j # Len(s) + 1
      <4>1. j \in 1..Len(s)
        BY <3>3, <1>1, <1>2
      <4> QED BY <3>1, <4>1, <2>2, <1>1, <1>2, <1>6 DEF Sorted
    <3> QED BY <3>2, <3>3
  <2> QED BY <2>2, <1>2 DEF Sorted
<1> QED BY <1>5, <1>6 DEF t

\* The observer's last ACK of the receiver's direction is the receiver's last; the
\* ACKs of the other direction stay at zero; the flag is up while the receiver's
\* ACKs are sorted.
AckInv ==
  proto = "srt" /\ NoWrap =>
    /\ obs.lastAck["c2s"] = 0
    /\ obs.ackSeen["s2c"] <=> acked # << >>
    /\ acked # << >> => obs.lastAck["s2c"] = isn + acked[Len(acked)]
    /\ obs.monotonic <=> Sorted(acked)

\* Only an acknowledgement changes what is kept of acknowledgements.
LEMMA OtherStepsNoAck ==
  ASSUME TypeInv, proto = "srt", Next
  PROVE  \/ SameAcks(obs, obs') /\ acked' = acked
         \/ IdleAck
         \/ \E n \in 0..next : Ack(n)
<1>1. ConfigOK /\ ObsOK
  BY DEF TypeInv
<1>2. CASE Connect
  BY <1>1, <1>2, ConnectSeen DEF Connect
<1>3. CASE Send
  BY <1>3 DEF Send, SameAcks
<1>4. CASE Ask
  BY <1>4, AskSeen DEF Ask
<1>5. CASE Report
  BY <1>5 DEF Report
<1>6. ASSUME NEW p \in path, LostOnPath(p) PROVE SameAcks(obs, obs') /\ acked' = acked
  BY <1>6 DEF LostOnPath, SameAcks
<1>7. ASSUME NEW p \in path, NEW fate \in {"forward", "drop", "corrupt"}, Relayed(p, fate)
      PROVE  SameAcks(obs, obs') /\ acked' = acked
  <2>1. acked' = acked
    BY <1>7 DEF Relayed
  <2> QED BY <1>7, <2>1, RelayedSeen
<1>8. ASSUME NEW n \in asked, Resend(n) PROVE SameAcks(obs, obs') /\ acked' = acked
  BY <1>8 DEF Resend, SameAcks
<1> QED BY <1>2, <1>3, <1>4, <1>5, <1>6, <1>7, <1>8 DEF Next

\* Every step keeps the relation between ACKs and observation.
LEMMA AckStep ==
  ASSUME TypeInv, AckInv, Next
  PROVE  AckInv'
<1> SUFFICES ASSUME proto' = "srt", NoWrap' PROVE AckInv'
  BY DEF AckInv
<1>1. proto = "srt" /\ NoWrap /\ isn' = isn /\ proto' = proto
  BY StepFrame
<1>2. /\ obs.lastAck["c2s"] = 0
      /\ obs.ackSeen["s2c"] <=> acked # << >>
      /\ acked # << >> => obs.lastAck["s2c"] = isn + acked[Len(acked)]
      /\ obs.monotonic <=> Sorted(acked)
  BY <1>1 DEF AckInv
<1>3. obs.lastAck \in [Dirs -> Nat] /\ obs.ackSeen \in [Dirs -> BOOLEAN]
  BY <1>1 DEF TypeInv, ObsOK, SrtObservers
<1>4. CASE SameAcks(obs, obs') /\ acked' = acked
  BY <1>1, <1>2, <1>4 DEF SameAcks, AckInv
<1>5. CASE IdleAck
  <2>1. /\ "c2s" \in Dirs /\ 0 \in Nat /\ acked' = acked
        /\ obs' = SrtObserve(obs, "c2s", [kind |-> "ack", seq |-> 0])
    BY <1>5 DEF IdleAck, Dirs
  <2>2. /\ obs'.monotonic <=> obs.monotonic /\ ~(obs.ackSeen["c2s"] /\ 0 < obs.lastAck["c2s"])
        /\ obs'.ackSeen = [obs.ackSeen EXCEPT !["c2s"] = TRUE]
        /\ obs'.lastAck = [obs.lastAck EXCEPT !["c2s"] = 0]
    BY <1>1, <2>1, AckSeen
  <2>3. obs'.monotonic <=> obs.monotonic
    BY <1>2, <2>2
  <2>4. /\ obs'.lastAck["c2s"] = 0 /\ obs'.lastAck["s2c"] = obs.lastAck["s2c"]
        /\ obs'.ackSeen["s2c"] = obs.ackSeen["s2c"]
    BY <1>3, <2>2 DEF Dirs
  <2> QED BY <1>1, <1>2, <2>1, <2>3, <2>4 DEF AckInv
<1>6. ASSUME NEW n \in 0..next, Ack(n) PROVE AckInv'
  <2>1. /\ "s2c" \in Dirs /\ acked' = Append(acked, n) /\ next' = next
        /\ obs' = SrtObserve(obs, "s2c", [kind |-> "ack", seq |-> Seqno(n)])
    BY <1>6 DEF Ack, Dirs
  <2>2. n \in Nat /\ n <= next /\ next \in Nat /\ isn \in Nat /\ Space \in Nat
    BY SpaceAssumption DEF TypeInv, RunOK, ConfigOK
  <2>3. Seqno(n) = isn + n /\ Seqno(n) \in Nat
    <3>1. isn + n < Space
      BY <1>1, <2>2 DEF NoWrap
    <3> QED BY <2>2, <3>1, SeqnoFacts DEF TypeInv
  <2>4. /\ obs'.monotonic <=>
             obs.monotonic /\ ~(obs.ackSeen["s2c"] /\ Seqno(n) < obs.lastAck["s2c"])
        /\ obs'.ackSeen = [obs.ackSeen EXCEPT !["s2c"] = TRUE]
        /\ obs'.lastAck = [obs.lastAck EXCEPT !["s2c"] = Seqno(n)]
    BY <1>1, <2>1, <2>3, AckSeen
  <2>5. acked \in Seq(Nat)
    BY DEF TypeInv, HistoryOK
  <2>6. /\ acked' # << >> /\ acked'[Len(acked')] = n
    BY <2>1, <2>2, <2>5, AppendProperties
  <2>7. /\ obs'.lastAck["c2s"] = 0 /\ obs'.lastAck["s2c"] = isn + n
        /\ obs'.ackSeen["s2c"]
    BY <1>2, <1>3, <2>3, <2>4 DEF Dirs
  <2>8. obs'.monotonic <=> Sorted(acked')
    <3>1. Sorted(acked') <=> Sorted(acked) /\ (acked # << >> => acked[Len(acked)] <= n)
      BY <2>1, <2>2, <2>5, SortedAppend
    <3>2. ASSUME acked # << >>
          PROVE  Seqno(n) < obs.lastAck["s2c"] <=> ~(acked[Len(acked)] <= n)
      <4>1. acked[Len(acked)] \in Nat
        <5>1. Len(acked) \in 1..Len(acked)
          BY <2>5, <3>2, EmptySeq, LenProperties
        <5> QED BY <2>5, <5>1, ElementOfSeq
      <4> QED BY <1>2, <2>2, <2>3, <3>2, <4>1
    <3> QED BY <1>2, <2>4, <3>1, <3>2
  <2> QED BY <1>1, <2>6, <2>7, <2>8 DEF AckInv
<1> QED BY <1>1, <1>4, <1>5, <1>6, OtherStepsNoAck

\* The ack-monotonic check fails exactly if the receiver took an ACK back, in runs
\* of any length before the wrap, whatever the other direction acknowledges.
THEOREM AckVerdictProved == Spec => []AckVerdictExact
<1>1. Init => TypeInv /\ AckInv
  <2>1. ASSUME Init PROVE AckInv
    <3>1. proto = "srt" => obs = NewSrtObserver
      BY <2>1 DEF Init
    <3>2. acked = << >>
      BY <2>1 DEF Init
    <3>3. Sorted(acked)
      BY <3>2, EmptySeq DEF Sorted
    <3>4. proto = "srt" => /\ obs.lastAck["c2s"] = 0 /\ obs.ackSeen["s2c"] = FALSE
                           /\ obs.monotonic = TRUE
      BY <3>1 DEF NewSrtObserver, Dirs
    <3> QED BY <3>2, <3>3, <3>4 DEF AckInv
  <2> QED BY <2>1, TypeInit
<1>2. TypeInv /\ AckInv /\ [Next]_vars => (TypeInv /\ AckInv)'
  <2>1. ASSUME TypeInv, AckInv, UNCHANGED vars PROVE AckInv'
    BY <2>1 DEF vars, config, AckInv, NoWrap
  <2> QED BY <2>1, AckStep, TypeStep, TypeStutter
<1>3. TypeInv /\ AckInv => AckVerdictExact
  BY DEF AckInv, AckVerdictExact, Sorted
<1> QED BY <1>1, <1>2, <1>3, PTL DEF Spec
-----------------------------------------------------------------------------
(***************************************************************************)
(* The requests.                                                           *)
(***************************************************************************)
\* A bounded set of numbers that is not empty has a greatest one.
LEMMA GreatestNat ==
  ASSUME NEW T, T \subseteq Nat, T # {}, NEW u \in Nat, \A t \in T : t <= u
  PROVE  \E x \in T : \A y \in T : y <= x
<1> DEFINE U == {k \in Nat : \A t \in T : t <= k}
<1>1. U \subseteq Nat /\ u \in U
  OBVIOUS
<1>2. PICK x \in U : \A y \in U : x <= y
  <2> HIDE DEF U
  <2> QED BY <1>1, LeastNat
<1>3. x \in Nat /\ \A t \in T : t <= x
  BY <1>2
<1>4. ASSUME x \notin T PROVE FALSE
  <2>1. PICK t \in T : TRUE
    OBVIOUS
  <2>2. \A y \in T : y \in Nat /\ y < x
    BY <1>3, <1>4
  <2>3. x - 1 \in Nat /\ \A y \in T : y <= x - 1
    BY <1>3, <2>1, <2>2
  <2>4. x - 1 \in U
    BY <2>3
  <2> QED BY <1>2, <1>3, <2>4
<1> QED BY <1>3, <1>4

\* A NACK's base and bits expand to the wire numbers of what is missing, through
\* the end of the space too.
LEMMA NackExact ==
  ASSUME ConfigOK, RunOK, Missing # {}
  PROVE  parseGenericNACK({Entry}) = {Seqno(n) : n \in Missing}
<1> DEFINE m == Min(Missing)
<1>1. m \in Missing /\ Missing \subseteq Nat
  BY MinIsLeast, MissingFacts
<1> HIDE DEF m
<1>2. Entry[1] = Seqno(m) /\ Entry[2] = {n - m - 1 : n \in Missing \ {m}}
  BY DEF Entry, m
<1>3. parseGenericNACK({Entry}) =
        {Seqno(m)} \cup {(Seqno(m) + i + 1) % Space : i \in {n - m - 1 : n \in Missing \ {m}}}
  BY <1>2 DEF parseGenericNACK
<1>4. ASSUME NEW n \in Missing
      PROVE  (Seqno(m) + (n - m - 1) + 1) % Space = Seqno(n)
  <2>1. n \in Nat /\ m \in Nat /\ isn \in Nat /\ Space \in Nat \ {0}
    BY <1>1, SpaceAssumption DEF ConfigOK
  <2>2. Seqno(m) \in Int
    BY <2>1, SeqnoFacts
  <2>3. isn + m \in Int /\ n - m \in Int /\ (isn + m) + (n - m) = isn + n
    BY <2>1
  <2>4. (((isn + m) % Space) + (n - m)) % Space = ((isn + m) + (n - m)) % Space
    BY <2>1, <2>3, ModAdd
  <2>5. Seqno(m) + (n - m - 1) + 1 = Seqno(m) + (n - m)
    BY <2>1, <2>2
  <2>6. (Seqno(m) + (n - m)) % Space = (isn + n) % Space
    BY <2>3, <2>4 DEF Seqno
  <2> QED BY <2>5, <2>6 DEF Seqno
<1>5. ASSUME NEW x \in parseGenericNACK({Entry}) PROVE x \in {Seqno(n) : n \in Missing}
  BY <1>1, <1>3, <1>4
<1>6. ASSUME NEW n \in Missing PROVE Seqno(n) \in parseGenericNACK({Entry})
  <2>1. CASE n = m
    BY <1>3, <2>1
  <2>2. CASE n # m
    <3>1. n - m - 1 \in {k - m - 1 : k \in Missing \ {m}}
      BY <2>2
    <3> QED BY <1>3, <1>4, <3>1
  <2> QED BY <2>1, <2>2
<1> QED BY <1>5, <1>6

\* What is missing lies in maximal ranges of missing packets.
LEMMA MaximalRange ==
  ASSUME RunOK, NEW n \in Missing
  PROVE  \E a, b \in Missing : /\ a <= n /\ n <= b /\ a..b \subseteq Missing
                               /\ a - 1 \notin Missing /\ b + 1 \notin Missing
<1>1. Missing \subseteq Nat /\ n \in Nat /\ next \in Nat /\ \A k \in Missing : k < next
  BY MissingFacts DEF RunOK
<1> DEFINE L == {k \in Nat : k <= n /\ k..n \subseteq Missing}
           H == {k \in Nat : n <= k /\ n..k \subseteq Missing}
<1>2. n \in L /\ n \in H /\ L \subseteq Nat /\ H \subseteq Nat
  BY <1>1
<1>3. PICK a \in L : \A y \in L : a <= y
  <2> HIDE DEF L
  <2> QED BY <1>2, LeastNat
<1>4. \A k \in H : k <= next
  BY <1>1
<1>5. PICK b \in H : \A y \in H : y <= b
  <2> HIDE DEF H
  <2> QED BY <1>1, <1>2, <1>4, GreatestNat
<1>6. a \in Nat /\ b \in Nat /\ a <= n /\ n <= b /\ a..n \subseteq Missing /\ n..b \subseteq Missing
  BY <1>3, <1>5
<1>7. a \in Missing /\ b \in Missing
  BY <1>1, <1>6
<1>8. ASSUME NEW x \in a..b PROVE x \in Missing
  <2>1. x \in a..n \/ x \in n..b
    BY <1>1, <1>6
  <2> QED BY <1>6, <2>1
<1>9. ASSUME a - 1 \in Missing PROVE FALSE
  <2>1. a - 1 \in Nat /\ a - 1 <= n
    BY <1>1, <1>6, <1>9
  <2>2. ASSUME NEW x \in (a - 1)..n PROVE x \in Missing
    <3>1. x = a - 1 \/ x \in a..n
      BY <1>1, <1>6
    <3> QED BY <1>6, <1>9, <3>1
  <2>3. a - 1 \in L
    BY <2>1, <2>2
  <2> QED BY <1>3, <1>6, <2>3
<1>10. ASSUME b + 1 \in Missing PROVE FALSE
  <2>1. b + 1 \in Nat /\ n <= b + 1
    BY <1>1, <1>6
  <2>2. ASSUME NEW x \in n..(b + 1) PROVE x \in Missing
    <3>1. x = b + 1 \/ x \in n..b
      BY <1>1, <1>6
    <3> QED BY <1>6, <1>10, <3>1
  <2>3. b + 1 \in H
    BY <2>1, <2>2
  <2> QED BY <1>5, <1>6, <2>3
<1> QED BY <1>6, <1>7, <1>8, <1>9, <1>10

\* Before a wrap, the ranges of a loss report expand to the wire numbers of what
\* is missing: none is left out and none is added between two ranges.
LEMMA NakExact ==
  ASSUME ConfigOK, RunOK, NoWrap
  PROVE  decodeNak(Ranges) = {Seqno(n) : n \in Missing}
<1>1. /\ isn \in Nat /\ Space \in Nat /\ next \in Nat /\ Missing \subseteq Nat
      /\ \A n \in Missing : n < next
  BY MissingFacts, SpaceAssumption DEF ConfigOK, RunOK
<1>2. ASSUME NEW n \in Missing PROVE Seqno(n) = isn + n
  <2>1. isn + n < Space /\ n \in Nat
    BY <1>1 DEF NoWrap
  <2> QED BY <2>1, SeqnoFacts
<1>3. ASSUME NEW x \in decodeNak(Ranges) PROVE x \in {Seqno(n) : n \in Missing}
  <2>1. PICK r \in Ranges : x \in IF r[2] < r[1] THEN {r[1]} ELSE r[1]..r[2]
    BY DEF decodeNak
  <2>2. PICK t \in Missing \X Missing : /\ t[1] <= t[2] /\ t[1]..t[2] \subseteq Missing
                                        /\ r = <<Seqno(t[1]), Seqno(t[2])>>
    BY DEF Ranges
  <2>3. PICK a \in Missing, b \in Missing :
           a <= b /\ a..b \subseteq Missing /\ r[1] = isn + a /\ r[2] = isn + b
    <3>1. t[1] \in Missing /\ t[2] \in Missing
      OBVIOUS
    <3> QED BY <2>2, <3>1, <1>2
  <2>4. a \in Nat /\ b \in Nat
    BY <1>1
  <2>5. x \in (isn + a)..(isn + b)
    <3>1. ~(isn + b < isn + a)
      BY <1>1, <2>3, <2>4
    <3> QED BY <2>1, <2>3, <3>1
  <2>6. x \in Int /\ x - isn \in a..b /\ isn + (x - isn) = x
    BY <1>1, <2>4, <2>5
  <2>7. x - isn \in Missing
    BY <2>3, <2>6
  <2>8. Seqno(x - isn) = x
    BY <1>2, <2>6, <2>7
  <2> QED BY <2>7, <2>8
<1>4. ASSUME NEW n \in Missing PROVE Seqno(n) \in decodeNak(Ranges)
  <2>1. PICK a \in Missing, b \in Missing :
           /\ a <= n /\ n <= b /\ a..b \subseteq Missing
           /\ a - 1 \notin Missing /\ b + 1 \notin Missing
    BY MaximalRange
  <2>2. a \in Nat /\ b \in Nat /\ n \in Nat /\ a <= b
    BY <1>1, <2>1
  <2>3. <<Seqno(a), Seqno(b)>> \in Ranges
    <3> DEFINE t == <<a, b>>
    <3>1. t \in Missing \X Missing /\ t[1] = a /\ t[2] = b
      OBVIOUS
    <3> HIDE DEF t
    <3>2. t \in {r \in Missing \X Missing :
                   /\ r[1] <= r[2] /\ r[1]..r[2] \subseteq Missing
                   /\ r[1] - 1 \notin Missing /\ r[2] + 1 \notin Missing}
      BY <2>1, <2>2, <3>1
    <3>3. <<Seqno(t[1]), Seqno(t[2])>> \in Ranges
      BY <3>2 DEF Ranges
    <3> QED BY <3>1, <3>3
  <2>4. Seqno(n) \in Seqno(a)..Seqno(b) /\ ~(Seqno(b) < Seqno(a))
    <3>1. isn + n \in (isn + a)..(isn + b) /\ ~(isn + b < isn + a)
      BY <1>1, <2>1, <2>2
    <3> QED BY <1>2, <3>1
  <2> QED
    <3> DEFINE r == <<Seqno(a), Seqno(b)>>
    <3>1. r[1] = Seqno(a) /\ r[2] = Seqno(b)
      OBVIOUS
    <3>2. r \in Ranges
      BY <2>3
    <3> HIDE DEF r
    <3>3. Seqno(n) \in IF r[2] < r[1] THEN {r[1]} ELSE r[1]..r[2]
      BY <2>4, <3>1
    <3> QED BY <3>2, <3>3 DEF decodeNak
<1> QED BY <1>3, <1>4

\* Only a request changes what is kept of requests.
LEMMA OtherStepsNoRequest ==
  ASSUME TypeInv, Next
  PROVE  \/ SameRequests(obs, obs') /\ asked' = asked
         \/ Ask
<1>1. ConfigOK /\ ObsOK
  BY DEF TypeInv
<1>2. CASE Connect
  <2>1. asked' = asked
    BY <1>2 DEF Connect
  <2>2. SameRequests(obs, obs')
    BY <1>1, <1>2, ConnectSeen DEF ConfigOK, SameRequests
  <2> QED BY <2>1, <2>2
<1>3. CASE Send
  BY <1>3 DEF Send, SameRequests
<1>4. CASE IdleAck
  <2>1. /\ proto = "srt" /\ proto' = proto /\ "c2s" \in Dirs /\ 0 \in Nat /\ asked' = asked
        /\ obs' = SrtObserve(obs, "c2s", [kind |-> "ack", seq |-> 0])
    BY <1>4 DEF IdleAck, config, Dirs
  <2> QED BY <2>1, AckSeen
<1>5. CASE Report
  <2>1. asked' = asked
    BY <1>5 DEF Report
  <2> QED BY <1>5, <2>1, ReportSeen
<1>6. ASSUME NEW p \in path, LostOnPath(p) PROVE SameRequests(obs, obs') /\ asked' = asked
  BY <1>6 DEF LostOnPath, SameRequests
<1>7. ASSUME NEW p \in path, NEW fate \in {"forward", "drop", "corrupt"}, Relayed(p, fate)
      PROVE  SameRequests(obs, obs') /\ asked' = asked
  <2>1. asked' = asked
    BY <1>7 DEF Relayed
  <2> QED BY <1>7, <2>1, RelayedSeen
<1>8. ASSUME NEW n \in asked, Resend(n) PROVE SameRequests(obs, obs') /\ asked' = asked
  BY <1>8 DEF Resend, SameRequests
<1>9. ASSUME NEW n \in 0..next, Ack(n) PROVE SameRequests(obs, obs') /\ asked' = asked
  <2>1. n \in Nat
    BY DEF TypeInv, RunOK
  <2>2. Seqno(n) \in Nat
    BY <1>1, <2>1, SeqnoFacts
  <2>3. /\ proto = "srt" /\ proto' = proto /\ "s2c" \in Dirs /\ asked' = asked
        /\ obs' = SrtObserve(obs, "s2c", [kind |-> "ack", seq |-> Seqno(n)])
    BY <1>9 DEF Ack, config, Dirs
  <2> QED BY <2>2, <2>3, AckSeen
<1> QED BY <1>2, <1>3, <1>4, <1>5, <1>6, <1>7, <1>8, <1>9 DEF Next

\* The observer has every number the receiver requested, and no other: ranges, bit
\* masks and the end of the space included.
THEOREM RequestsProved == Spec => []RequestsExact
<1>1. Init => TypeInv /\ RequestsExact
  <2>1. ASSUME Init PROVE RequestsExact
    <3>1. obs.cnt = NewCounters
      BY <2>1 DEF Init, NewSrtObserver, NewRistObserver
    <3>2. asked = {} /\ obs.cnt.reqSeqs = {}
      BY <2>1, <3>1 DEF Init, NewCounters
    <3> QED BY <3>2 DEF RequestsExact
  <2> QED BY <2>1, TypeInit
<1>2. TypeInv /\ RequestsExact /\ [Next]_vars => (TypeInv /\ RequestsExact)'
  <2>1. ASSUME TypeInv, RequestsExact, UNCHANGED vars PROVE RequestsExact'
    BY <2>1 DEF vars, config, RequestsExact, NoWrap, Seqno
  <2>2. ASSUME TypeInv, RequestsExact, Next, (proto = "rist" \/ NoWrap)'
        PROVE  obs'.cnt.reqSeqs = {Seqno(n)' : n \in asked'}
    <3>1. (proto = "rist" \/ NoWrap) /\ isn' = isn
      BY <2>2, StepFrame
    <3>2. obs.cnt.reqSeqs = {Seqno(n) : n \in asked}
      BY <2>2, <3>1 DEF RequestsExact
    <3>3. \A n : Seqno(n)' = Seqno(n)
      BY <3>1 DEF Seqno
    <3>4. CASE SameRequests(obs, obs') /\ asked' = asked
      BY <3>2, <3>3, <3>4 DEF SameRequests
    <3>5. CASE Ask
      <4>1. asked' = asked \cup Missing /\ Missing # {}
        BY <3>5 DEF Ask
      <4>2. obs'.cnt.reqSeqs = obs.cnt.reqSeqs \cup {Seqno(n) : n \in Missing}
        <5>1. ConfigOK /\ RunOK /\ proto \in {"srt", "rist"}
          BY <2>2 DEF TypeInv, ConfigOK
        <5>2. CASE proto = "rist"
          BY <2>2, <3>5, <4>1, <5>1, <5>2, AskSeen, NackExact
        <5>3. CASE proto = "srt"
          BY <2>2, <3>1, <3>5, <5>1, <5>3, AskSeen, NakExact
        <5> QED BY <5>1, <5>2, <5>3
      <4> QED BY <3>2, <3>3, <4>1, <4>2
    <3> QED BY <2>2, <3>4, <3>5, OtherStepsNoRequest
  <2>3. ASSUME TypeInv, RequestsExact, Next PROVE RequestsExact'
    BY <2>2, <2>3 DEF RequestsExact
  <2> QED BY <2>1, <2>3, TypeStep, TypeStutter
<1> QED BY <1>1, <1>2, PTL DEF Spec
-----------------------------------------------------------------------------
(***************************************************************************)
(* What was shown.                                                         *)
(***************************************************************************)
\* The packets shown are packets that were sent.
LEMMA DistinctFacts ==
  ASSUME TypeInv
  PROVE  /\ Distinct \subseteq Nat /\ \A n \in Distinct : n < next
         /\ IsFiniteSet(Distinct) /\ Cardinality(Distinct) \in Nat
         /\ Distinct = {} <=> tapped = << >>
<1>1. tapped \in Seq(Nat) /\ (\A i \in DOMAIN tapped : tapped[i] < next) /\ next \in Nat
  BY DEF TypeInv, HistoryOK, RunOK
<1>2. DOMAIN tapped = 1..Len(tapped) /\ \A i \in DOMAIN tapped : tapped[i] \in Nat
  BY <1>1, ElementOfSeq, LenProperties
<1>3. Distinct \subseteq Nat /\ \A n \in Distinct : n < next
  BY <1>1, <1>2 DEF Distinct
<1>4. IsFiniteSet(Distinct) /\ Cardinality(Distinct) \in Nat
  <2>1. Distinct \in SUBSET Nat /\ \A n \in Distinct : n <= next
    BY <1>1, <1>3
  <2>2. IsFiniteSet(Distinct)
    BY <1>1, <2>1, FS_BoundedSetOfNaturals
  <2> QED BY <2>2, FS_CardinalityType
<1>5. Distinct = {} <=> tapped = << >>
  <2>1. tapped = << >> <=> Len(tapped) = 0
    BY <1>1, EmptySeq
  <2>2. Len(tapped) \in Nat
    BY <1>1, LenProperties
  <2>3. Distinct = {} <=> DOMAIN tapped = {}
    BY DEF Distinct
  <2> QED BY <1>2, <2>1, <2>2, <2>3
<1> QED BY <1>3, <1>4, <1>5

\* One more packet shown.
LEMMA DistinctAppend ==
  ASSUME TypeInv, NEW n \in Nat, tapped' = Append(tapped, n)
  PROVE  /\ Distinct' = Distinct \cup {n}
         /\ Len(tapped') = Len(tapped) + 1 /\ Len(tapped) \in Nat
         /\ tapped'[Len(tapped) + 1] = n
         /\ \A i \in 1..Len(tapped) : tapped'[i] = tapped[i]
         /\ DOMAIN tapped = 1..Len(tapped) /\ DOMAIN tapped' = 1..(Len(tapped) + 1)
<1>1. tapped \in Seq(Nat)
  BY DEF TypeInv, HistoryOK
<1>2. /\ tapped' \in Seq(Nat) /\ Len(tapped') = Len(tapped) + 1
      /\ tapped'[Len(tapped) + 1] = n
      /\ \A i \in 1..Len(tapped) : tapped'[i] = tapped[i]
  BY <1>1, AppendProperties
<1>3. Len(tapped) \in Nat /\ DOMAIN tapped = 1..Len(tapped)
      /\ DOMAIN tapped' = 1..(Len(tapped) + 1)
  BY <1>1, <1>2, LenProperties
<1>4. DOMAIN tapped' = DOMAIN tapped \cup {Len(tapped) + 1}
  BY <1>3
<1>5. Distinct' = {tapped'[i] : i \in DOMAIN tapped'}
  BY DEF Distinct
<1>6. Distinct' = Distinct \cup {n}
  BY <1>2, <1>3, <1>4, <1>5 DEF Distinct
<1> QED BY <1>2, <1>3, <1>6

\* Two packets carry one number only if a number was used twice.
LEMMA SeqnoInjective ==
  ASSUME TypeInv, NoReuse, NEW m \in Nat, NEW n \in Nat, m < next, n < next,
         Seqno(m) = Seqno(n)
  PROVE  m = n
<1>1. /\ isn + m \in Int /\ isn + n \in Int /\ Space \in Nat \ {0} /\ isn \in Nat
      /\ next \in Nat /\ next <= Space
  BY SpaceAssumption DEF TypeInv, ConfigOK, RunOK, NoReuse
<1>2. (isn + m) % Space = (isn + n) % Space
  BY DEF Seqno
<1>3. CASE m <= n
  <2>1. isn + m <= isn + n /\ (isn + n) - (isn + m) < Space
    BY <1>1, <1>3
  <2>2. isn + m = isn + n
    BY <1>1, <1>2, <2>1, ModInjective
  <2> QED BY <1>1, <2>2
<1>4. CASE n <= m
  <2>1. isn + n <= isn + m /\ (isn + m) - (isn + n) < Space
    BY <1>1, <1>4
  <2>2. isn + n = isn + m
    BY <1>1, <1>2, <2>1, ModInjective
  <2> QED BY <1>1, <2>2
<1> QED BY <1>3, <1>4

\* Only a datagram at the relay changes what was shown, received and counted.
LEMMA OtherStepsNotShown ==
  ASSUME TypeInv, Next
  PROVE  \/ /\ tapped' = tapped /\ rx' = rx /\ dropped' = dropped /\ corrupt' = corrupt
            /\ SameData(obs, obs')
            /\ proto = "rist" => SameSequence(obs, obs')
         \/ \E p \in path, fate \in {"forward", "drop", "corrupt"} : Relayed(p, fate)
<1> DEFINE Quiet == /\ tapped' = tapped /\ rx' = rx /\ dropped' = dropped
                    /\ corrupt' = corrupt /\ SameData(obs, obs')
                    /\ proto = "rist" => SameSequence(obs, obs')
<1>1. ConfigOK /\ ObsOK
  BY DEF TypeInv
<1>2. ASSUME Connect PROVE Quiet
  <2>1. tapped' = tapped /\ rx' = rx /\ dropped' = dropped /\ corrupt' = corrupt
    BY <1>2 DEF Connect
  <2>2. SameData(obs, obs') /\ (proto = "rist" => SameSequence(obs, obs'))
    BY <1>1, <1>2, ConnectSeen DEF ConfigOK, SameData, SameSequence
  <2> QED BY <2>1, <2>2
<1>3. ASSUME Send PROVE Quiet
  BY <1>3 DEF Send, SameData, SameSequence
<1>4. ASSUME IdleAck PROVE Quiet
  <2>1. /\ proto = "srt" /\ proto' = proto /\ "c2s" \in Dirs /\ 0 \in Nat
        /\ tapped' = tapped /\ rx' = rx /\ dropped' = dropped /\ corrupt' = corrupt
        /\ obs' = SrtObserve(obs, "c2s", [kind |-> "ack", seq |-> 0])
    BY <1>4 DEF IdleAck, config, Dirs
  <2> QED BY <2>1, AckSeen
<1>5. ASSUME Report PROVE Quiet
  <2>1. tapped' = tapped /\ rx' = rx /\ dropped' = dropped /\ corrupt' = corrupt
    BY <1>5 DEF Report
  <2> QED BY <1>5, <2>1, ReportSeen
<1>6. ASSUME Ask PROVE Quiet
  <2>1. tapped' = tapped /\ rx' = rx /\ dropped' = dropped /\ corrupt' = corrupt
    BY <1>6 DEF Ask
  <2> QED BY <1>6, <2>1, AskSeen
<1>7. ASSUME NEW p \in path, LostOnPath(p) PROVE Quiet
  BY <1>7 DEF LostOnPath, SameData, SameSequence
<1>8. ASSUME NEW n \in asked, Resend(n) PROVE Quiet
  BY <1>8 DEF Resend, SameData, SameSequence
<1>9. ASSUME NEW n \in 0..next, Ack(n) PROVE Quiet
  <2>1. n \in Nat
    BY DEF TypeInv, RunOK
  <2>2. Seqno(n) \in Nat
    BY <1>1, <2>1, SeqnoFacts
  <2>3. /\ proto = "srt" /\ proto' = proto /\ "s2c" \in Dirs
        /\ tapped' = tapped /\ rx' = rx /\ dropped' = dropped /\ corrupt' = corrupt
        /\ obs' = SrtObserve(obs, "s2c", [kind |-> "ack", seq |-> Seqno(n)])
    BY <1>9 DEF Ack, config, Dirs
  <2> QED BY <2>2, <2>3, AckSeen
<1> HIDE DEF Quiet
<1>10. Quiet \/ \E p \in path, fate \in {"forward", "drop", "corrupt"} : Relayed(p, fate)
  <2>1. Connect \/ Send \/ IdleAck \/ Report \/ Ask => Quiet
    BY <1>2, <1>3, <1>4, <1>5, <1>6 DEF Quiet
  <2> QED BY <2>1, <1>7, <1>8, <1>9 DEF Next
<1> QED BY <1>10 DEF Quiet

\* The RIST observer has the wire numbers of the packets shown, counts them all,
\* and the receiver has nothing that was not shown.
SeenInv ==
  proto = "rist" =>
    /\ obs.seen = {Seqno(n) : n \in Distinct}
    /\ obs.seqSeen <=> tapped # << >>
    /\ obs.cnt.data = Len(tapped)
    /\ rx \subseteq Distinct

\* Every step keeps it.
LEMMA SeenStep ==
  ASSUME TypeInv, SeenInv, Next
  PROVE  SeenInv'
<1> SUFFICES ASSUME proto' = "rist" PROVE SeenInv'
  BY DEF SeenInv
<1>1. proto = "rist" /\ isn' = isn
  BY StepFrame
<1>2. /\ obs.seen = {Seqno(n) : n \in Distinct}
      /\ obs.seqSeen <=> tapped # << >>
      /\ obs.cnt.data = Len(tapped)
      /\ rx \subseteq Distinct
  BY <1>1 DEF SeenInv
<1>3. \A n : Seqno(n)' = Seqno(n)
  BY <1>1 DEF Seqno
<1>4. CASE tapped' = tapped /\ rx' = rx /\ SameData(obs, obs') /\ SameSequence(obs, obs')
  <2>1. Distinct' = Distinct
    BY <1>4 DEF Distinct
  <2>2. obs'.seen = {Seqno(n)' : n \in Distinct'}
    BY <1>2, <1>3, <1>4, <2>1 DEF SameSequence
  <2> QED BY <1>2, <1>4, <2>1, <2>2 DEF SeenInv, SameData, SameSequence
<1>5. ASSUME NEW p \in path, NEW fate \in {"forward", "drop", "corrupt"}, Relayed(p, fate)
      PROVE  SeenInv'
  <2>1. /\ p[1] \in 0..(next - 1) /\ next \in Nat
        /\ obs' = RistObserve(obs, [kind |-> "data", seq |-> Seqno(p[1]), retrans |-> p[2]])
    BY <1>1, <1>5, RelayedSeen DEF TypeInv, RunOK
  <2>2. p[1] \in Nat
    BY <2>1
  <2>3. Seqno(p[1]) \in Nat /\ obs \in RistObservers
    BY <1>1, <2>2, SeqnoFacts DEF TypeInv, ObsOK
  <2>4. /\ obs'.cnt.data = obs.cnt.data + 1
        /\ obs'.seen = obs.seen \cup {Seqno(p[1])}
        /\ Seqno(p[1]) \in obs.seen => SameSequence(obs, obs')
        /\ Seqno(p[1]) \notin obs.seen => obs'.seqSeen
    BY <2>1, <2>3, RistData
  <2>5. tapped' = Append(tapped, p[1]) /\ rx' \subseteq rx \cup {p[1]}
    BY <1>5 DEF Relayed
  <2>6. Distinct' = Distinct \cup {p[1]} /\ Len(tapped') = Len(tapped) + 1
    BY <2>2, <2>5, DistinctAppend
  <2>7. obs'.seen = {Seqno(n)' : n \in Distinct'}
    BY <1>2, <1>3, <2>4, <2>6
  <2>8. obs'.seqSeen /\ tapped' # << >>
    <3>1. Seqno(p[1]) \in obs.seen => obs.seqSeen
      BY <1>2, DistinctFacts
    <3>2. tapped' # << >>
      BY <2>6, <2>2, <2>5, DistinctAppend, EmptySeq
    <3> QED BY <2>4, <3>1, <3>2 DEF SameSequence
  <2> QED BY <1>2, <2>4, <2>5, <2>6, <2>7, <2>8 DEF SeenInv
<1> QED BY <1>1, <1>4, <1>5, OtherStepsNotShown

\* A second sighting, and nothing else, is counted as a retransmission, as long as
\* no number was used twice.
RetransInv ==
  proto = "rist" /\ NoReuse => obs.cnt.retrans = Len(tapped) - Cardinality(Distinct)

\* Every step keeps it.
LEMMA RetransStep ==
  ASSUME TypeInv, SeenInv, RetransInv, Next
  PROVE  RetransInv'
<1> SUFFICES ASSUME proto' = "rist", NoReuse' PROVE RetransInv'
  BY DEF RetransInv
<1>1. proto = "rist" /\ NoReuse
  BY StepFrame
<1>2. obs.cnt.retrans = Len(tapped) - Cardinality(Distinct)
  BY <1>1 DEF RetransInv
<1>3. CASE tapped' = tapped /\ SameData(obs, obs')
  <2>1. Distinct' = Distinct
    BY <1>3 DEF Distinct
  <2> QED BY <1>2, <1>3, <2>1 DEF RetransInv, SameData
<1>4. ASSUME NEW p \in path, NEW fate \in {"forward", "drop", "corrupt"}, Relayed(p, fate)
      PROVE  RetransInv'
  <2>1. /\ p[1] \in 0..(next - 1) /\ next \in Nat
        /\ obs' = RistObserve(obs, [kind |-> "data", seq |-> Seqno(p[1]), retrans |-> p[2]])
    BY <1>1, <1>4, RelayedSeen DEF TypeInv, RunOK
  <2>2. p[1] \in Nat /\ p[1] < next
    BY <2>1
  <2>3. Seqno(p[1]) \in Nat /\ obs \in RistObservers
    BY <1>1, <2>2, SeqnoFacts DEF TypeInv, ObsOK
  <2>4. obs'.cnt.retrans = obs.cnt.retrans + (IF Seqno(p[1]) \in obs.seen THEN 1 ELSE 0)
    BY <2>1, <2>3, RistData
  <2>5. Seqno(p[1]) \in obs.seen <=> p[1] \in Distinct
    <3>1. obs.seen = {Seqno(n) : n \in Distinct}
      BY <1>1 DEF SeenInv
    <3>2. ASSUME NEW n \in Distinct, Seqno(p[1]) = Seqno(n) PROVE p[1] = n
      BY <1>1, <2>2, <3>2, SeqnoInjective, DistinctFacts
    <3> QED BY <3>1, <3>2
  <2>6. tapped' = Append(tapped, p[1])
    BY <1>4 DEF Relayed
  <2>7. /\ Distinct' = Distinct \cup {p[1]}
        /\ Len(tapped') = Len(tapped) + 1 /\ Len(tapped) \in Nat
    BY <2>2, <2>6, DistinctAppend
  <2>8. Cardinality(Distinct') =
          Cardinality(Distinct) + (IF p[1] \in Distinct THEN 0 ELSE 1)
    <3>1. IsFiniteSet(Distinct) /\ Cardinality(Distinct) \in Nat
      BY DistinctFacts
    <3>2. Cardinality(Distinct \cup {p[1]}) =
            IF p[1] \in Distinct THEN Cardinality(Distinct) ELSE Cardinality(Distinct) + 1
      BY <3>1, FS_AddElement
    <3> QED BY <2>7, <3>1, <3>2
  <2>9. PICK l \in Nat, c \in Nat : l = Len(tapped) /\ c = Cardinality(Distinct)
    BY <2>7, DistinctFacts
  <2>10. obs'.cnt.retrans = Len(tapped') - Cardinality(Distinct')
    BY <1>2, <2>4, <2>5, <2>7, <2>8, <2>9
  <2> QED BY <2>10 DEF RetransInv
<1> QED BY <1>1, <1>3, <1>4, OtherStepsNotShown
-----------------------------------------------------------------------------
(***************************************************************************)
(* An implementation without recovery.                                     *)
(***************************************************************************)
\* Until something is resent, nothing on the path is a retransmission or was shown
\* before, and none is counted.
FreshInv ==
  resent = 0 =>
    /\ \A p \in path : ~p[2]
    /\ proto = "srt" => obs.cnt.retrans = 0
    /\ proto = "rist" /\ NoReuse =>
         obs.cnt.retrans = 0 /\ \A p \in path : p[1] \notin Distinct

\* A mute receiver requests nothing, so nothing is resent.
MuteInv == sut = "mute" => asked = {} /\ obs.cnt.reqs = 0 /\ resent = 0

\* Only packets that were sent are dropped.
DroppedInv == dropped > 0 => next > 0

\* A drop is of a packet that was sent.
LEMMA DroppedStep ==
  ASSUME TypeInv, DroppedInv, Next
  PROVE  DroppedInv'
<1>1. next \in Nat /\ next' \in Nat /\ next <= next'
  BY StepFrame
<1>2. CASE dropped' = dropped
  BY <1>1, <1>2 DEF DroppedInv
<1>3. ASSUME NEW p \in path, NEW fate, Relayed(p, fate) PROVE DroppedInv'
  <2>1. p[1] \in 0..(next - 1)
    BY <1>3, RelayedSeen
  <2>2. next' > 0
    BY <1>1, <2>1
  <2> QED BY <2>2 DEF DroppedInv
<1> QED BY <1>2, <1>3, OtherStepsNotShown

\* Only a request, and a retransmission, give a receiver something to ask for.
LEMMA OtherStepsNotResent ==
  ASSUME TypeInv, Next
  PROVE  (resent' = resent \/ \E n \in asked : Resend(n)) /\ (resent' = 0 => resent = 0)
<1>1. resent \in Nat
  BY DEF TypeInv, RunOK
<1>2. CASE Connect \/ Send \/ Ask \/ IdleAck \/ Report
  BY <1>2 DEF Connect, Send, Ask, IdleAck, Report
<1>3. ASSUME NEW p \in path, LostOnPath(p) PROVE resent' = resent
  BY <1>3 DEF LostOnPath
<1>4. ASSUME NEW p \in path, NEW fate, Relayed(p, fate) PROVE resent' = resent
  BY <1>4 DEF Relayed
<1>5. ASSUME NEW n \in asked, Resend(n) PROVE resent' # 0
  BY <1>1, <1>5 DEF Resend
<1>6. ASSUME NEW n \in 0..next, Ack(n) PROVE resent' = resent
  BY <1>6 DEF Ack
<1> QED BY <1>2, <1>3, <1>4, <1>5, <1>6 DEF Next

\* Every step keeps a mute receiver mute.
LEMMA MuteStep ==
  ASSUME TypeInv, MuteInv, Next
  PROVE  MuteInv'
<1> SUFFICES ASSUME sut' = "mute" PROVE MuteInv'
  BY DEF MuteInv
<1>1. sut = "mute"
  BY StepFrame
<1>2. asked = {} /\ obs.cnt.reqs = 0 /\ resent = 0
  BY <1>1 DEF MuteInv
<1>3. ~Ask
  BY <1>1 DEF Ask
<1>4. SameRequests(obs, obs') /\ asked' = asked
  BY <1>3, OtherStepsNoRequest
<1>5. resent' = resent
  BY <1>2, OtherStepsNotResent
<1> QED BY <1>2, <1>4, <1>5 DEF MuteInv, SameRequests

\* Every step keeps the path fresh, until a retransmission.
LEMMA FreshStep ==
  ASSUME TypeInv, SeenInv, FreshInv, Next
  PROVE  FreshInv'
<1> SUFFICES ASSUME resent' = 0 PROVE FreshInv'
  BY DEF FreshInv
<1>1. resent = 0 /\ proto' = proto /\ isn' = isn /\ (NoReuse' => NoReuse)
  BY StepFrame, OtherStepsNotResent
<1>2. /\ \A p \in path : ~p[2]
      /\ proto = "srt" => obs.cnt.retrans = 0
      /\ proto = "rist" /\ NoReuse =>
           obs.cnt.retrans = 0 /\ \A p \in path : p[1] \notin Distinct
  BY <1>1 DEF FreshInv
<1>6. ASSUME tapped' = tapped, SameData(obs, obs') PROVE FreshInv'
  <2>1. Distinct' = Distinct
    BY <1>6 DEF Distinct
  <2>2. CASE path' \subseteq path
    BY <1>1, <1>2, <1>6, <2>1, <2>2 DEF FreshInv, SameData
  <2>3. CASE path' = path \cup {<<next, FALSE>>}
    <3>1. next \notin Distinct
      <4>1. next \in Nat
        BY StepFrame
      <4>2. next \in Distinct => next < next
        BY DistinctFacts
      <4> QED BY <4>1, <4>2
    <3>2. \A p \in path' : p \in path \/ (p[1] = next /\ ~p[2])
      <4>1. <<next, FALSE>>[1] = next /\ ~(<<next, FALSE>>[2])
        OBVIOUS
      <4> QED BY <2>3, <4>1
    <3>3. \A p \in path' : ~p[2]
      BY <1>2, <3>2
    <3>4. proto' = "rist" /\ NoReuse' => \A p \in path' : p[1] \notin Distinct'
      BY <1>1, <1>2, <2>1, <3>1, <3>2
    <3>5. obs'.cnt.retrans = obs.cnt.retrans
      BY <1>6 DEF SameData
    <3> QED BY <1>1, <1>2, <3>3, <3>4, <3>5 DEF FreshInv
  <2>4. path' \subseteq path \/ path' = path \cup {<<next, FALSE>>}
        \/ \E p \in path, fate \in {"forward", "drop", "corrupt"} : Relayed(p, fate)
    <3>1. ~ \E n \in asked : Resend(n)
      BY <1>1 DEF Resend, TypeInv, RunOK
    <3>2. CASE Connect \/ Ask \/ IdleAck \/ Report
      BY <3>2 DEF Connect, Ask, IdleAck, Report
    <3>3. CASE Send
      BY <3>3 DEF Send
    <3>4. ASSUME NEW p \in path, LostOnPath(p) PROVE path' \subseteq path
      BY <3>4 DEF LostOnPath
    <3>5. ASSUME NEW n \in 0..next, Ack(n) PROVE path' \subseteq path
      BY <3>5 DEF Ack
    <3> QED BY <3>1, <3>2, <3>3, <3>4, <3>5 DEF Next
  <2>5. ASSUME NEW p \in path, NEW fate, Relayed(p, fate) PROVE path' \subseteq path
    BY <2>5 DEF Relayed
  <2> QED BY <2>2, <2>3, <2>4, <2>5
<1>7. ASSUME NEW p \in path, NEW fate \in {"forward", "drop", "corrupt"}, Relayed(p, fate)
      PROVE  FreshInv'
  <2>1. path' = path \ {p} /\ tapped' = Append(tapped, p[1])
    BY <1>7 DEF Relayed
  <2>2. ~p[2] /\ p[1] \in 0..(next - 1) /\ p[2] \in BOOLEAN /\ next \in Nat
    BY <1>2, <1>7, RelayedSeen DEF TypeInv, RunOK
  <2>3. p[1] \in Nat
    BY <2>2
  <2>4. proto = "srt" => obs'.cnt.retrans = 0
    BY <1>2, <1>7, <2>2, RelayedSeen
  <2>5. ASSUME proto = "rist", NoReuse
        PROVE  obs'.cnt.retrans = 0 /\ \A q \in path' : q[1] \notin Distinct'
    <3>1. p[1] \notin Distinct
      BY <1>2, <2>5
    <3>2. Seqno(p[1]) \notin obs.seen
      <4>1. obs.seen = {Seqno(n) : n \in Distinct}
        BY <2>5 DEF SeenInv
      <4>2. p[1] < next
        BY <2>2
      <4>3. ASSUME NEW n \in Distinct, Seqno(p[1]) = Seqno(n) PROVE p[1] = n
        BY <2>3, <2>5, <4>2, <4>3, SeqnoInjective, DistinctFacts
      <4> QED BY <3>1, <4>1, <4>3
    <3>3. /\ obs' = RistObserve(obs, [kind |-> "data", seq |-> Seqno(p[1]), retrans |-> p[2]])
          /\ Seqno(p[1]) \in Nat /\ obs \in RistObservers
      BY <1>7, <2>3, <2>5, RelayedSeen, SeqnoFacts DEF TypeInv, ObsOK
    <3>4. obs'.cnt.retrans = obs.cnt.retrans + 0
      BY <3>2, <3>3, RistData
    <3>5. Distinct' = Distinct \cup {p[1]}
      BY <2>1, <2>3, DistinctAppend
    <3>6. ASSUME NEW q \in path' PROVE q[1] \notin Distinct'
      <4>1. q \in path /\ q # p /\ ~q[2]
        BY <1>2, <2>1
      <4>2. q \in Nat \X BOOLEAN /\ p \in Nat \X BOOLEAN
        <5>1. path \subseteq (0..(next - 1)) \X BOOLEAN
          BY DEF TypeInv, RunOK
        <5>2. (0..(next - 1)) \X BOOLEAN \subseteq Nat \X BOOLEAN
          OBVIOUS
        <5> QED BY <4>1, <5>1, <5>2
      <4>3. q[1] # p[1]
        <5>1. q = <<q[1], q[2]>> /\ p = <<p[1], p[2]>> /\ q[2] \in BOOLEAN
          BY <4>2
        <5>2. q[2] = FALSE /\ p[2] = FALSE
          BY <2>2, <4>1, <5>1
        <5> QED BY <4>1, <5>1, <5>2
      <4> QED BY <1>2, <2>5, <3>5, <4>1, <4>3
    <3> QED BY <1>2, <2>5, <3>4, <3>6
  <2>6. \A q \in path' : ~q[2]
    BY <1>2, <2>1
  <2> QED BY <1>1, <2>4, <2>5, <2>6 DEF FreshInv
<1> QED BY <1>6, <1>7, OtherStepsNotShown

\* What nothing has happened to holds of the initial state.
LEMMA CountersInit ==
  ASSUME Init
  PROVE  /\ obs.cnt.retrans = 0 /\ obs.cnt.reqs = 0 /\ obs.cnt.data = 0
         /\ Distinct = {} /\ Len(tapped) = 0 /\ tapped = << >> /\ acked = << >>
         /\ SeenInv
<1>1. obs.cnt = NewCounters
  BY DEF Init, NewSrtObserver, NewRistObserver
<1>2. tapped = << >> /\ acked = << >> /\ rx = {}
  BY DEF Init
<1>3. Distinct = {} /\ Len(tapped) = 0
  BY <1>2, EmptySeq DEF Distinct
<1>4. proto = "rist" => obs = NewRistObserver
  BY DEF Init
<1>5. SeenInv
  BY <1>1, <1>2, <1>3, <1>4 DEF SeenInv, NewRistObserver, NewCounters
<1> QED BY <1>1, <1>2, <1>3, <1>5 DEF NewCounters

\* Neither roster credits it with recovery once the relay dropped a packet.
LEMMA MuteGraded ==
  ASSUME TypeInv, MuteInv, FreshInv, DroppedInv
  PROVE  MuteNotCredited
<1> SUFFICES ASSUME NoReuse, sut = "mute", loss, dropped > 0 PROVE ArqCheck # "pass"
  BY DEF MuteNotCredited
<1>1. next > 0 /\ next \in Nat /\ dropped \in Nat
  BY DEF DroppedInv, TypeInv, RunOK
<1>2. /\ Accounting.loss = loss /\ Accounting.opaque = opaque /\ Accounting.sent = next
      /\ Accounting.dropped = dropped
  BY DEF Accounting
<1> DEFINE A == Accounting
<1> HIDE DEF A
<1>3. A.loss /\ A.opaque \in BOOLEAN /\ A.sent # 0 /\ A.dropped # 0
      /\ A.opaque = opaque /\ A.sent = next
  BY <1>1, <1>2 DEF A, TypeInv, ConfigOK
<1>4. CASE proto = "srt"
  <2>1. ArqCheck = arqEngagedUnderLoss(A, obs.cnt)
    BY <1>4 DEF ArqCheck, Checks, SrtEvaluate, A
  <2>2. obs.cnt.reqs = 0 /\ obs.cnt.retrans = 0
    BY <1>4 DEF MuteInv, FreshInv
  <2>3. CASE A.opaque
    BY <1>3, <2>1, <2>2, <2>3 DEF arqEngagedUnderLoss, PassIf
  <2>4. CASE ~A.opaque
    BY <1>3, <2>1, <2>2, <2>4 DEF arqEngagedUnderLoss, PassIf
  <2> QED BY <1>3, <2>3, <2>4
<1>5. CASE proto = "rist"
  <2>1. ArqCheck = retransmitUnderLoss(A, obs.cnt)
    BY <1>5 DEF ArqCheck, Checks, RistEvaluate, A
  <2>2. obs.cnt.retrans = 0
    BY <1>5 DEF MuteInv, FreshInv
  <2> QED BY <1>3, <2>1, <2>2 DEF retransmitUnderLoss, PassIf
<1> QED BY <1>4, <1>5 DEF TypeInv, ConfigOK

\* What the proofs about recovery stand on.
RecoveryInv == TypeInv /\ SeenInv /\ MuteInv /\ FreshInv /\ DroppedInv

\* It holds of every reachable state.
LEMMA RecoveryCorrect == Spec => []RecoveryInv
<1>1. Init => RecoveryInv
  <2>1. ASSUME Init PROVE MuteInv /\ FreshInv /\ DroppedInv
    <3>1. asked = {} /\ path = {} /\ dropped = 0 /\ resent = 0
      BY <2>1 DEF Init
    <3> QED BY <2>1, <3>1, CountersInit DEF MuteInv, FreshInv, DroppedInv
  <2> QED BY <2>1, TypeInit, CountersInit DEF RecoveryInv
<1>2. RecoveryInv /\ [Next]_vars => RecoveryInv'
  <2>1. ASSUME RecoveryInv, UNCHANGED vars PROVE SeenInv' /\ MuteInv' /\ FreshInv' /\ DroppedInv'
    <3>1. Distinct' = Distinct
      BY <2>1 DEF vars, Distinct
    <3>2. \A n : Seqno(n)' = Seqno(n)
      BY <2>1 DEF vars, config, Seqno
    <3>3. {Seqno(n)' : n \in Distinct'} = {Seqno(n) : n \in Distinct}
      BY <3>1, <3>2
    <3>4. SeenInv'
      BY <2>1, <3>1, <3>3 DEF vars, config, SeenInv, RecoveryInv
    <3>5. MuteInv' /\ FreshInv' /\ DroppedInv'
      BY <2>1, <3>1 DEF vars, config, MuteInv, FreshInv, DroppedInv, NoReuse, RecoveryInv
    <3> QED BY <3>4, <3>5
  <2>2. ASSUME RecoveryInv, Next PROVE RecoveryInv'
    BY <2>2, TypeStep, SeenStep, MuteStep, FreshStep, DroppedStep DEF RecoveryInv
  <2> QED BY <2>1, <2>2, TypeStutter DEF RecoveryInv
<1> QED BY <1>1, <1>2, PTL DEF Spec

\* An implementation without recovery does not pass the recovery check of a run in
\* which a packet was dropped: whatever was reordered, lost before the relay, or
\* delivered in spite of it.
THEOREM MuteProved == Spec => []MuteNotCredited
<1>1. RecoveryInv => MuteNotCredited
  BY MuteGraded DEF RecoveryInv
<1> QED BY <1>1, RecoveryCorrect, PTL

\* As long as no number was used for two packets, a retransmission that the
\* observer reports is one, in both protocols: only the wrap can make it wrong.
THEOREM RetransmissionsRealUntilReuse ==
  Spec => [](NoReuse => RetransmissionsReal)
<1>1. RecoveryInv => (NoReuse => RetransmissionsReal)
  <2>1. ASSUME RecoveryInv, NoReuse, obs.cnt.retrans > 0 PROVE resent > 0
    <3>1. resent \in Nat /\ proto \in {"srt", "rist"}
      BY <2>1 DEF RecoveryInv, TypeInv, RunOK, ConfigOK
    <3>2. resent # 0
      BY <2>1, <3>1 DEF RecoveryInv, FreshInv
    <3> QED BY <3>1, <3>2
  <2> QED BY <2>1 DEF RetransmissionsReal
<1> QED BY <1>1, RecoveryCorrect, PTL
-----------------------------------------------------------------------------
(***************************************************************************)
(* An honest run.                                                          *)
(***************************************************************************)
\* A run whose checks all pass or warn rolls up to pass or warn.
LEMMA RollupMild ==
  ASSUME NEW checks, DOMAIN checks # {},
         \A n \in DOMAIN checks : checks[n] \in {"pass", "warn"}
  PROVE  Rollup(checks) \in {"pass", "warn"}
<1>1. Verdicts[1] = "pass" /\ Verdicts[2] = "warn" /\ Verdicts[3] = "fail"
      /\ Verdicts[4] = "unsupported" /\ Verdicts[5] = "error" /\ DOMAIN Verdicts = 1..5
  BY DEF Verdicts
<1>2. Severity("pass") = 1
  <2>1. \A i \in DOMAIN Verdicts : Verdicts[i] = "pass" <=> i = 1
    BY <1>1
  <2> QED BY <1>1, <2>1 DEF Severity
<1>3. Severity("warn") = 2
  <2>1. \A i \in DOMAIN Verdicts : Verdicts[i] = "warn" <=> i = 2
    BY <1>1
  <2> QED BY <1>1, <2>1 DEF Severity
<1> DEFINE V == {checks[n] : n \in DOMAIN checks}
<1>4. \E v \in V : \A n \in DOMAIN checks : Severity(checks[n]) <= Severity(v)
  <2>1. CASE \E k \in DOMAIN checks : checks[k] = "warn"
    BY <1>2, <1>3, <2>1
  <2>2. CASE \A k \in DOMAIN checks : checks[k] = "pass"
    BY <1>2, <2>2
  <2> QED BY <2>1, <2>2
<1>5. Rollup(checks) \in V
  BY <1>4 DEF Rollup
<1> QED BY <1>5

\* The handshake of an established connection was seen; an honest SRT receiver's
\* ACKs are in order, and it has what it acknowledged.
HonestInv ==
  proto = "srt" =>
    /\ up => obs.handshakes > 0
    /\ sut = "arq" =>
         /\ Sorted(acked)
         /\ \A i \in DOMAIN acked : \A m \in Nat : m < acked[i] => m \in rx

\* The first packet that the receiver does not have.
LEMMA AckPointFacts ==
  ASSUME RunOK
  PROVE  /\ AckPoint \in Nat /\ AckPoint \notin rx
         /\ \A m \in Nat : m < AckPoint => m \in rx
<1> DEFINE T == {n \in 0..next : n \notin rx}
<1>1. next \in Nat /\ next \notin rx
  BY DEF RunOK
<1>2. T \subseteq Nat /\ next \in T
  BY <1>1
<1>3. AckPoint = Min(T)
  BY DEF AckPoint
<1>4. Min(T) \in T /\ \A y \in T : Min(T) <= y
  <2> HIDE DEF T
  <2> QED BY <1>2, MinIsLeast
<1>5. AckPoint \in T /\ AckPoint \in Nat /\ AckPoint <= next
  BY <1>1, <1>3, <1>4
<1>6. ASSUME NEW m \in Nat, m < AckPoint PROVE m \in rx
  <2>1. m \in 0..next
    BY <1>1, <1>5, <1>6
  <2>2. m \notin T
    BY <1>3, <1>4, <1>5, <1>6
  <2> QED BY <2>1, <2>2
<1> QED BY <1>5, <1>6

\* Every step keeps an honest run honest.
LEMMA HonestStep ==
  ASSUME TypeInv, HonestInv, Next
  PROVE  HonestInv'
<1> SUFFICES ASSUME proto' = "srt" PROVE HonestInv'
  BY DEF HonestInv
<1>1. proto = "srt" /\ sut' = sut /\ proto' = proto
  BY StepFrame
<1>2. ConfigOK /\ RunOK /\ ObsOK /\ acked \in Seq(Nat) /\ obs \in SrtObservers
  BY <1>1 DEF TypeInv, HistoryOK, ObsOK
<1>3. /\ up => obs.handshakes > 0
      /\ sut = "arq" =>
           /\ Sorted(acked)
           /\ \A i \in DOMAIN acked : \A m \in Nat : m < acked[i] => m \in rx
  BY <1>1 DEF HonestInv
<1>4. rx \subseteq rx'
  <2>1. ASSUME NEW p \in path, NEW fate, Relayed(p, fate) PROVE rx \subseteq rx'
    BY <2>1 DEF Relayed
  <2> QED BY <2>1, OtherStepsNotShown
<1>5. up' => obs'.handshakes > 0
  <2>1. CASE Connect
    <3>1. obs'.handshakes = obs.handshakes + 1 /\ obs.handshakes \in Nat
      BY <1>1, <1>2, <2>1, ConnectSeen DEF SrtObservers
    <3> QED BY <3>1
  <2>2. CASE Send
    BY <1>3, <2>2 DEF Send
  <2>3. CASE Ask
    BY <1>1, <1>3, <2>3, AskSeen DEF Ask
  <2>4. CASE IdleAck
    <3>1. /\ "c2s" \in Dirs /\ 0 \in Nat /\ up' = up
          /\ obs' = SrtObserve(obs, "c2s", [kind |-> "ack", seq |-> 0])
      BY <2>4 DEF IdleAck, Dirs
    <3> QED BY <1>1, <1>3, <3>1, AckSeen
  <2>5. CASE Report
    BY <1>1, <2>5 DEF Report
  <2>6. ASSUME NEW p \in path, LostOnPath(p) PROVE up' => obs'.handshakes > 0
    BY <1>3, <2>6 DEF LostOnPath
  <2>7. ASSUME NEW p \in path, NEW fate, Relayed(p, fate)
        PROVE  up' => obs'.handshakes > 0
    <3>1. obs'.handshakes = obs.handshakes
      BY <1>1, <2>7, RelayedSeen
    <3> QED BY <1>3, <2>7, <3>1 DEF Relayed
  <2>8. ASSUME NEW n \in asked, Resend(n) PROVE up' => obs'.handshakes > 0
    BY <1>3, <2>8 DEF Resend
  <2>9. ASSUME NEW n \in 0..next, Ack(n) PROVE up' => obs'.handshakes > 0
    <3>1. n \in Nat
      BY <1>2 DEF RunOK
    <3>2. Seqno(n) \in Nat
      BY <1>2, <3>1, SeqnoFacts
    <3>3. /\ "s2c" \in Dirs /\ up' = up
          /\ obs' = SrtObserve(obs, "s2c", [kind |-> "ack", seq |-> Seqno(n)])
      BY <2>9 DEF Ack, Dirs
    <3> QED BY <1>1, <1>3, <3>2, <3>3, AckSeen
  <2> QED BY <2>1, <2>2, <2>3, <2>4, <2>5, <2>6, <2>7, <2>8, <2>9 DEF Next
<1>6. CASE acked' = acked
  BY <1>1, <1>3, <1>4, <1>5, <1>6 DEF HonestInv
<1>7. ASSUME NEW n \in 0..next, Ack(n), sut = "arq" PROVE HonestInv'
  <2>1. n = AckPoint /\ acked' = Append(acked, n) /\ rx' = rx
    BY <1>7 DEF Ack
  <2>2. n \in Nat /\ n \notin rx /\ \A m \in Nat : m < n => m \in rx
    BY <1>2, <2>1, AckPointFacts
  <2>3. ASSUME acked # << >> PROVE acked[Len(acked)] <= n
    <3>1. Len(acked) \in DOMAIN acked /\ acked[Len(acked)] \in Nat
      <4>1. Len(acked) \in 1..Len(acked)
        BY <1>2, <2>3, EmptySeq, LenProperties
      <4> QED BY <1>2, <4>1, ElementOfSeq, LenProperties
    <3>2. ~(n < acked[Len(acked)])
      BY <1>3, <1>7, <2>2, <3>1
    <3> QED BY <2>2, <3>1, <3>2
  <2>4. Sorted(acked')
    BY <1>2, <1>3, <1>7, <2>1, <2>2, <2>3, SortedAppend
  <2>5. \A i \in DOMAIN acked' : \A m \in Nat : m < acked'[i] => m \in rx'
    <3>1. \A i \in DOMAIN acked' : (i \in DOMAIN acked /\ acked'[i] = acked[i]) \/ acked'[i] = n
      BY <1>2, <2>1, <2>2, AppendProperties, LenProperties
    <3> QED BY <1>3, <1>7, <2>1, <2>2, <3>1
  <2> QED BY <1>1, <1>5, <2>4, <2>5 DEF HonestInv
<1>8. ASSUME sut # "arq" PROVE HonestInv'
  BY <1>1, <1>5, <1>8 DEF HonestInv
<1> QED BY <1>1, <1>6, <1>7, <1>8, OtherStepsNoAck DEF IdleAck

\* A finished honest run has no failed check.
LEMMA HonestGraded ==
  ASSUME TypeInv, SeenInv, AckInv, HonestInv
  PROVE  HonestNotFailed
<1> SUFFICES ASSUME proto = "rist" \/ NoWrap, sut = "arq", up, next > 0, corrupt = 0,
                    Cardinality(rx) = next
             PROVE  Rollup(Checks) \in {"pass", "warn"}
  BY DEF HonestNotFailed
<1> DEFINE A == Accounting
           Mild == {"pass", "warn"}
<1>1. /\ next \in Nat /\ loss \in BOOLEAN /\ opaque \in BOOLEAN
      /\ rx \subseteq 0..(next - 1) /\ dropped \in Nat
  BY DEF TypeInv, RunOK, ConfigOK
<1>2. /\ A.loss = loss /\ A.opaque = opaque /\ A.sent = next /\ A.dropped = dropped
      /\ A.delivered = (IF opaque THEN 0 ELSE next) /\ A.corrupt = 0
  BY DEF Accounting
<1> HIDE DEF A
<1>3. ~A.opaque => A.delivered = A.sent
  BY <1>2
<1>4. A.sent \in Nat /\ A.sent > 0 /\ A.corrupt = 0 /\ A.loss \in BOOLEAN /\ A.opaque \in BOOLEAN
  BY <1>1, <1>2
<1>5. ~(A.sent < A.sent \div 2)
  BY <1>4
<1>6. DeliveryIntegrity(A) \in Mild /\ DeliveryComplete(A) \in Mild
  BY <1>3, <1>4 DEF DeliveryIntegrity, DeliveryComplete, PassIf
<1>7. CASE proto = "srt"
  <2>1. Presence(obs.handshakes, A.sent > 0 \/ A.opaque) \in Mild
    BY <1>7 DEF HonestInv, Presence, PassIf
  <2>2. arqEngagedUnderLoss(A, obs.cnt) \in Mild
    <3>1. CASE ~A.loss
      BY <3>1 DEF arqEngagedUnderLoss
    <3>2. CASE A.loss /\ A.opaque
      BY <3>2 DEF arqEngagedUnderLoss, PassIf
    <3>3. CASE A.loss /\ ~A.opaque
      BY <3>3, <1>3, <1>5 DEF arqEngagedUnderLoss
    <3> QED BY <1>4, <3>1, <3>2, <3>3
  <2>3. PassIf(obs.monotonic, "fail") \in Mild
    <3>1. obs.monotonic <=> Sorted(acked)
      BY <1>7 DEF AckInv
    <3>2. Sorted(acked)
      BY <1>7 DEF HonestInv
    <3> QED BY <3>1, <3>2 DEF PassIf
  <2>4. Feedback(obs.acks) \in Mild
    BY DEF Feedback, PassIf
  <2> DEFINE c == SrtEvaluate(A, obs)
  <2>5. Checks = c
    BY <1>7 DEF Checks, A
  <2>6. \A n \in DOMAIN c : c[n] \in Mild
    <3> DEFINE v1 == Presence(obs.handshakes, A.sent > 0 \/ A.opaque)
               v2 == DeliveryIntegrity(A)
               v3 == DeliveryComplete(A)
               v4 == arqEngagedUnderLoss(A, obs.cnt)
               v5 == PassIf(obs.monotonic, "fail")
               v6 == Feedback(obs.acks)
    <3>1. c = [handshakeCompleted |-> v1, deliveryIntegrity |-> v2, deliveryComplete |-> v3,
               arqEngagedUnderLoss |-> v4, ackMonotonic |-> v5, ackActivity |-> v6]
      BY DEF SrtEvaluate
    <3>2. v1 \in Mild /\ v2 \in Mild /\ v3 \in Mild /\ v4 \in Mild /\ v5 \in Mild /\ v6 \in Mild
      BY <1>6, <2>1, <2>2, <2>3, <2>4
    <3> HIDE DEF v1, v2, v3, v4, v5, v6, c
    <3> QED BY <3>1, <3>2
  <2>7. "ackActivity" \in DOMAIN c
    BY DEF SrtEvaluate
  <2> HIDE DEF c
  <2> QED BY <2>5, <2>6, <2>7, RollupMild
<1>8. CASE proto = "rist"
  <2>1. obs.cnt.data > 0
    <3>1. rx # {}
      BY FS_EmptySet
    <3>2. Distinct # {} /\ obs.cnt.data = Len(tapped)
      BY <1>8, <3>1 DEF SeenInv
    <3>3. tapped # << >> /\ tapped \in Seq(Nat)
      BY <3>2, DistinctFacts DEF TypeInv, HistoryOK
    <3> QED BY <3>2, <3>3, EmptySeq, LenProperties
  <2>2. Presence(obs.cnt.data, A.sent > 0 \/ A.opaque) \in Mild
    BY <2>1 DEF Presence, PassIf
  <2>3. retransmitUnderLoss(A, obs.cnt) \in Mild
    BY <1>3, <1>5 DEF retransmitUnderLoss
  <2>4. Feedback(obs.cnt.control) \in Mild
    BY DEF Feedback, PassIf
  <2> DEFINE c == RistEvaluate(A, obs)
  <2>5. Checks = c
    BY <1>8 DEF Checks, A
  <2>6. \A n \in DOMAIN c : c[n] \in Mild
    <3> DEFINE v1 == Presence(obs.cnt.data, A.sent > 0 \/ A.opaque)
               v2 == DeliveryIntegrity(A)
               v3 == DeliveryComplete(A)
               v4 == retransmitUnderLoss(A, obs.cnt)
               v5 == Feedback(obs.cnt.control)
    <3>1. c = [rtpFlow |-> v1, deliveryIntegrity |-> v2, deliveryComplete |-> v3,
               retransmitUnderLoss |-> v4, rtcpActivity |-> v5]
      BY DEF RistEvaluate
    <3>2. v1 \in Mild /\ v2 \in Mild /\ v3 \in Mild /\ v4 \in Mild /\ v5 \in Mild
      BY <1>6, <2>2, <2>3, <2>4
    <3> HIDE DEF v1, v2, v3, v4, v5, c
    <3> QED BY <3>1, <3>2
  <2>7. "rtpFlow" \in DOMAIN c
    BY DEF RistEvaluate
  <2> HIDE DEF c
  <2> QED BY <2>5, <2>6, <2>7, RollupMild
<1> QED BY <1>7, <1>8 DEF TypeInv, ConfigOK

\* A run in which everything sent was delivered by an honest implementation is not
\* failed by any check, for every loss, reordering and number of retransmissions.
THEOREM HonestProved == Spec => []HonestNotFailed
<1> DEFINE I == TypeInv /\ SeenInv /\ AckInv /\ HonestInv
<1>1. Init => I
  <2>1. ASSUME Init PROVE AckInv /\ HonestInv
    <3>1. proto = "srt" => obs = NewSrtObserver
      BY <2>1 DEF Init
    <3>2. acked = << >> /\ up = FALSE
      BY <2>1 DEF Init
    <3>3. Sorted(acked)
      BY <3>2, EmptySeq DEF Sorted
    <3>4. proto = "srt" => /\ obs.lastAck["c2s"] = 0 /\ obs.ackSeen["s2c"] = FALSE
                           /\ obs.monotonic = TRUE
      BY <3>1 DEF NewSrtObserver, Dirs
    <3>5. DOMAIN acked = {}
      BY <3>2, EmptySeq
    <3> QED BY <3>2, <3>3, <3>4, <3>5 DEF AckInv, HonestInv
  <2> QED BY <2>1, TypeInit, CountersInit
<1>2. I /\ [Next]_vars => I'
  <2>1. ASSUME I, UNCHANGED vars PROVE SeenInv' /\ AckInv' /\ HonestInv'
    <3>1. Distinct' = Distinct
      BY <2>1 DEF vars, Distinct
    <3>2. \A n : Seqno(n)' = Seqno(n)
      BY <2>1 DEF vars, config, Seqno
    <3>3. {Seqno(n)' : n \in Distinct'} = {Seqno(n) : n \in Distinct}
      BY <3>1, <3>2
    <3>4. SeenInv'
      BY <2>1, <3>1, <3>3 DEF vars, config, SeenInv
    <3>5. AckInv' /\ HonestInv'
      BY <2>1 DEF vars, config, AckInv, HonestInv, NoWrap
    <3> QED BY <3>4, <3>5
  <2>2. ASSUME I, Next PROVE I'
    BY <2>2, TypeStep, SeenStep, AckStep, HonestStep
  <2> QED BY <2>1, <2>2, TypeStutter
<1>3. I => HonestNotFailed
  BY HonestGraded
<1> QED BY <1>1, <1>2, <1>3, PTL DEF Spec
-----------------------------------------------------------------------------
(***************************************************************************)
(* The sequence.                                                           *)
(***************************************************************************)
\* Each packet shown for the first time is less than half the space behind, and at
\* most half the space ahead of, the highest shown before it: the window in which
\* recordSeq can tell ahead from behind.  Beyond it no observer of numbers modulo
\* the space can.
WithinHalf ==
  \A i \in DOMAIN tapped : i > 1 /\ (\A j \in 1..(i - 1) : tapped[j] # tapped[i]) =>
    /\ \E j \in 1..(i - 1) : tapped[i] - tapped[j] <= Space \div 2
    /\ \A j \in 1..(i - 1) : tapped[j] - tapped[i] < Space \div 2

\* The highest number and the gaps are those of the packets shown.
SequenceInv ==
  proto = "rist" =>
    /\ tapped = << >> => obs.gaps = 0
    /\ NoReuse /\ WithinHalf /\ tapped # << >> =>
         /\ obs.maxSeq = Seqno(Max(Distinct))
         /\ obs.gaps = Cardinality(NeverShown) + Cardinality(ShownLate)

\* There is a highest packet shown.
LEMMA HighestShown ==
  ASSUME TypeInv, tapped # << >>
  PROVE  /\ Max(Distinct) \in Distinct /\ Max(Distinct) \in Nat
         /\ \A k \in Distinct : k <= Max(Distinct)
         /\ tapped[1] \in Distinct /\ tapped[1] \in Nat
<1>1. Distinct \subseteq Nat /\ Distinct # {} /\ next \in Nat /\ \A k \in Distinct : k < next
  BY DistinctFacts DEF TypeInv, RunOK
<1>2. \A k \in Distinct : k <= next
  BY <1>1
<1>3. PICK x \in Distinct : \A y \in Distinct : y <= x
  BY <1>1, <1>2, GreatestNat
<1>4. Max(Distinct) = x
  <2>1. Distinct \subseteq Int
    BY <1>1
  <2> QED BY <2>1, <1>3, MaxIsGreatest
<1>5. 1 \in DOMAIN tapped
  BY EmptySeq, LenProperties DEF TypeInv, HistoryOK
<1> QED BY <1>1, <1>3, <1>4, <1>5 DEF Distinct

\* What is skipped or late is finitely much.
LEMMA GapsFinite ==
  ASSUME TypeInv, tapped # << >>
  PROVE  /\ IsFiniteSet(NeverShown) /\ Cardinality(NeverShown) \in Nat
         /\ IsFiniteSet(ShownLate) /\ Cardinality(ShownLate) \in Nat
<1>1. tapped[1] \in Int /\ Max(Distinct) \in Int /\ IsFiniteSet(Distinct)
  BY HighestShown, DistinctFacts
<1>2. IsFiniteSet(tapped[1]..Max(Distinct))
  BY <1>1, FS_Interval
<1>3. NeverShown \in SUBSET (tapped[1]..Max(Distinct)) /\ ShownLate \in SUBSET Distinct
  BY DEF NeverShown, ShownLate
<1>4. IsFiniteSet(NeverShown) /\ IsFiniteSet(ShownLate)
  BY <1>1, <1>2, <1>3, FS_Subset
<1> QED BY <1>4, FS_CardinalityType

\* A further packet makes no earlier one late.
LEMMA LateAppend ==
  ASSUME TypeInv, tapped # << >>, NEW n \in Nat, tapped' = Append(tapped, n)
  PROVE  /\ tapped'[1] = tapped[1]
         /\ \A k \in Distinct : k \in ShownLate' <=> k \in ShownLate
         /\ n \notin Distinct =>
              (n \in ShownLate' <=> n > tapped[1] /\ n < Max(Distinct))
<1> DEFINE L == Len(tapped)
<1>1. /\ Distinct' = Distinct \cup {n} /\ L \in Nat
      /\ tapped'[L + 1] = n /\ \A i \in 1..L : tapped'[i] = tapped[i]
      /\ DOMAIN tapped = 1..L /\ DOMAIN tapped' = 1..(L + 1)
  BY DistinctAppend
<1>2. L > 0
  BY <1>1, EmptySeq DEF TypeInv, HistoryOK
<1> HIDE DEF L
<1>3. tapped'[1] = tapped[1]
  BY <1>1, <1>2
<1>4. \A i \in 1..L : tapped[i] \in Nat /\ tapped[i] \in Distinct
  BY <1>1, DistinctFacts DEF Distinct
<1>5. ASSUME NEW k
      PROVE  k \in ShownLate <=>
               /\ k \in Distinct /\ k > tapped[1]
               /\ \E i \in 1..L : tapped[i] > k /\ \A j \in 1..i : tapped[j] # k
  BY <1>1 DEF ShownLate
<1>6. ASSUME NEW k
      PROVE  k \in ShownLate' <=>
               /\ k \in Distinct' /\ k > tapped[1]
               /\ \E i \in 1..(L + 1) : tapped'[i] > k /\ \A j \in 1..i : tapped'[j] # k
  BY <1>1, <1>3 DEF ShownLate
<1>7. ASSUME NEW k, NEW i \in 1..L
      PROVE  (tapped'[i] > k /\ \A j \in 1..i : tapped'[j] # k)
               <=> (tapped[i] > k /\ \A j \in 1..i : tapped[j] # k)
  <2>1. \A j \in 1..i : j \in 1..L
    BY <1>1
  <2> QED BY <1>1, <2>1
<1>8. ASSUME NEW k \in Distinct PROVE k \in ShownLate' <=> k \in ShownLate
  <2>1. PICK j \in 1..L : tapped[j] = k
    BY <1>1 DEF Distinct
  <2>2. j \in 1..(L + 1) /\ tapped'[j] = k
    BY <1>1, <2>1
  <2>3. \A i \in 1..(L + 1) : (\A jj \in 1..i : tapped'[jj] # k) => i \in 1..L
    BY <1>1, <2>2
  <2>4. k \in Distinct' /\ 1..L \subseteq 1..(L + 1)
    BY <1>1
  <2>5. (\E i \in 1..(L + 1) : tapped'[i] > k /\ \A jj \in 1..i : tapped'[jj] # k)
        <=> (\E i \in 1..L : tapped[i] > k /\ \A jj \in 1..i : tapped[jj] # k)
    BY <1>7, <2>3, <2>4
  <2> QED BY <1>5, <1>6, <2>4, <2>5
<1>9. ASSUME n \notin Distinct
      PROVE  n \in ShownLate' <=> n > tapped[1] /\ n < Max(Distinct)
  <2>1. \A j \in 1..L : tapped[j] # n
    BY <1>4, <1>9
  <2>2. Max(Distinct) \in Distinct /\ Max(Distinct) \in Nat /\ \A k \in Distinct : k <= Max(Distinct)
    BY HighestShown
  <2>3. PICK m \in 1..L : tapped[m] = Max(Distinct)
    BY <1>1, <2>2 DEF Distinct
  <2>4. ASSUME n < Max(Distinct)
        PROVE  \E i \in 1..(L + 1) : tapped'[i] > n /\ \A j \in 1..i : tapped'[j] # n
    <3>1. m \in 1..(L + 1) /\ \A j \in 1..m : j \in 1..L
      BY <1>1
    <3>2. tapped'[m] = Max(Distinct)
      BY <1>1, <2>3
    <3>3. tapped'[m] > n
      BY <2>2, <2>4, <3>2
    <3>4. \A j \in 1..m : tapped'[j] # n
      BY <1>1, <2>1, <3>1
    <3> QED BY <3>1, <3>3, <3>4
  <2>5. ASSUME NEW i \in 1..(L + 1), tapped'[i] > n PROVE n < Max(Distinct)
    <3>1. i \in 1..L
      BY <1>1, <2>5
    <3>2. tapped'[i] = tapped[i] /\ tapped[i] \in Distinct /\ tapped[i] \in Nat
      BY <1>1, <1>4, <3>1
    <3> QED BY <2>2, <2>5, <3>2
  <2> QED BY <1>1, <1>6, <2>4, <2>5
<1> QED BY <1>3, <1>8, <1>9

\* A packet ahead of all before it skips the ones between; one behind fills a gap
\* and was late; one seen before changes nothing.
LEMMA GapsAppend ==
  ASSUME TypeInv, tapped # << >>, NEW n \in Nat, tapped' = Append(tapped, n)
  PROVE  LET g == Cardinality(NeverShown) + Cardinality(ShownLate)
             M == Max(Distinct)
         IN  IF n > M
             THEN Max(Distinct)' = n
                  /\ (Cardinality(NeverShown) + Cardinality(ShownLate))' = (g + (n - M)) - 1
             ELSE Max(Distinct)' = M
                  /\ (Cardinality(NeverShown) + Cardinality(ShownLate))' = g
<1>1. PICK M \in Nat : M = Max(Distinct) /\ M \in Distinct /\ \A k \in Distinct : k <= M
  BY HighestShown
<1>2. PICK f \in Nat : f = tapped[1] /\ f \in Distinct /\ f <= M
  BY <1>1, HighestShown
<1>3. Distinct' = Distinct \cup {n} /\ Distinct \subseteq Nat
  BY DistinctAppend, DistinctFacts
<1>4. /\ tapped'[1] = f
      /\ \A k \in Distinct : k \in ShownLate' <=> k \in ShownLate
      /\ n \notin Distinct => (n \in ShownLate' <=> n > f /\ n < M)
  BY <1>1, <1>2, LateAppend
<1>5. ShownLate \subseteq Distinct /\ ShownLate' \subseteq Distinct \cup {n}
  BY <1>3 DEF ShownLate
<1>6. PICK M2 \in Nat : M2 = IF n > M THEN n ELSE M
  OBVIOUS
<1>7. Max(Distinct') = M2
  <2>1. M2 \in Distinct' /\ Distinct' \subseteq Int /\ \A k \in Distinct' : k <= M2
    BY <1>1, <1>3, <1>6
  <2> QED BY <2>1, MaxIsGreatest
<1>8. NeverShown = {k \in f..M : k \notin Distinct}
  BY <1>1, <1>2 DEF NeverShown
<1>9. NeverShown' = {k \in f..M2 : k \notin Distinct \cup {n}}
  BY <1>3, <1>4, <1>7 DEF NeverShown
<1>10. /\ IsFiniteSet(NeverShown) /\ Cardinality(NeverShown) \in Nat
       /\ IsFiniteSet(ShownLate) /\ Cardinality(ShownLate) \in Nat
  BY GapsFinite
<1>11. PICK a \in Nat, b \in Nat : a = Cardinality(NeverShown) /\ b = Cardinality(ShownLate)
  BY <1>10
<1>12. CASE n > M
  <2>1. n \notin Distinct /\ M2 = n
    BY <1>1, <1>6, <1>12
  <2>2. ShownLate' = ShownLate
    <3>1. n \notin ShownLate' /\ n \notin ShownLate
      BY <1>4, <1>5, <1>12, <2>1
    <3> QED BY <1>4, <1>5, <3>1
  <2>3. NeverShown' = NeverShown \cup ((M + 1)..(n - 1))
    <3>1. ASSUME NEW k \in NeverShown' PROVE k \in NeverShown \cup ((M + 1)..(n - 1))
      <4>1. k \in f..n /\ k \notin Distinct /\ k # n
        BY <1>9, <2>1
      <4>2. k \in f..M \/ k \in (M + 1)..(n - 1)
        BY <4>1, <1>12
      <4> QED BY <1>8, <4>1, <4>2
    <3>2. ASSUME NEW k \in NeverShown PROVE k \in NeverShown'
      <4>1. k \in f..M /\ k \notin Distinct
        BY <1>8
      <4>2. k \in f..n /\ k # n
        BY <4>1, <1>12
      <4> QED BY <1>9, <2>1, <4>1, <4>2
    <3>3. ASSUME NEW k \in (M + 1)..(n - 1) PROVE k \in NeverShown'
      <4>1. k \in f..n /\ k # n /\ k > M
        BY <1>2, <1>12
      <4>2. k \notin Distinct
        BY <1>1, <4>1
      <4> QED BY <1>9, <2>1, <4>1, <4>2
    <3> QED BY <3>1, <3>2, <3>3
  <2>4. NeverShown \cap ((M + 1)..(n - 1)) = {}
    BY <1>8
  <2>5. IsFiniteSet((M + 1)..(n - 1)) /\ Cardinality((M + 1)..(n - 1)) = (n - M) - 1
    <3>1. M + 1 \in Int /\ n - 1 \in Int
      OBVIOUS
    <3>2. /\ IsFiniteSet((M + 1)..(n - 1))
          /\ Cardinality((M + 1)..(n - 1)) =
               IF M + 1 > n - 1 THEN 0 ELSE (n - 1) - (M + 1) + 1
      BY <3>1, FS_Interval
    <3> QED BY <1>12, <3>2
  <2>6. PICK c \in Nat : c = Cardinality((M + 1)..(n - 1)) /\ c = (n - M) - 1
    <3>1. (n - M) - 1 \in Nat
      BY <1>12
    <3> QED BY <2>5, <3>1
  <2>7. Cardinality(NeverShown') = (a + (n - M)) - 1
    <3>1. Cardinality(NeverShown \cup ((M + 1)..(n - 1))) =
            Cardinality(NeverShown) + Cardinality((M + 1)..(n - 1))
              - Cardinality(NeverShown \cap ((M + 1)..(n - 1)))
      BY <1>10, <2>5, FS_Union
    <3>2. Cardinality({}) = 0
      BY FS_EmptySet
    <3>3. Cardinality(NeverShown') = a + c - 0
      BY <1>11, <2>3, <2>4, <2>6, <3>1, <3>2
    <3> QED BY <2>6, <3>3
  <2>8. Cardinality(NeverShown') + Cardinality(ShownLate') = ((a + b) + (n - M)) - 1
    BY <1>11, <2>2, <2>7
  <2> QED BY <1>1, <1>7, <1>11, <1>12, <2>1, <2>8
<1>13. CASE ~(n > M)
  <2>1. M2 = M
    BY <1>6, <1>13
  <2>2. CASE n \in Distinct
    <3>1. NeverShown' = NeverShown
      BY <1>8, <1>9, <2>1, <2>2
    <3>2. ShownLate' = ShownLate
      BY <1>4, <1>5, <2>2
    <3> QED BY <1>1, <1>7, <1>13, <2>1, <3>1, <3>2
  <2>3. CASE n \notin Distinct
    <3>1. n < M /\ n # f
      BY <1>1, <1>2, <1>13, <2>3
    <3>2. CASE n < f
      <4>1. NeverShown' = NeverShown
        BY <1>8, <1>9, <2>1, <3>2
      <4>2. n \notin ShownLate' /\ n \notin ShownLate
        BY <1>4, <1>5, <2>3, <3>2
      <4>3. ShownLate' = ShownLate
        BY <1>4, <1>5, <4>2
      <4> QED BY <1>1, <1>7, <1>13, <2>1, <4>1, <4>3
    <3>3. CASE n > f
      <4>1. NeverShown' = NeverShown \ {n} /\ n \in NeverShown
        BY <1>8, <1>9, <2>1, <2>3, <3>1, <3>3
      <4>2. ShownLate' = ShownLate \cup {n} /\ n \notin ShownLate
        <5>1. n \in ShownLate' /\ n \notin ShownLate
          BY <1>4, <1>5, <2>3, <3>1, <3>3
        <5> QED BY <1>4, <1>5, <5>1
      <4>3. Cardinality(NeverShown') = a - 1
        BY <1>10, <1>11, <4>1, FS_RemoveElement
      <4>4. Cardinality(ShownLate') = b + 1
        BY <1>10, <1>11, <4>2, FS_AddElement
      <4>5. Cardinality(NeverShown') + Cardinality(ShownLate') = a + b
        BY <4>3, <4>4
      <4> QED BY <1>1, <1>7, <1>11, <1>13, <2>1, <4>5
    <3> QED BY <3>1, <3>2, <3>3
  <2> QED BY <2>2, <2>3
<1> QED BY <1>12, <1>13

\* How far ahead, modulo the space, a packet of the window is.
LEMMA ForwardDistance ==
  ASSUME ConfigOK, NEW n \in Nat, NEW m \in Nat, n # m,
         n - m <= Space \div 2, m - n < Space \div 2
  PROVE  LET delta == (Seqno(n) - Seqno(m)) % Space
         IN  IF n > m THEN delta = n - m /\ delta # 0 /\ delta <= Space \div 2
             ELSE ~(delta # 0 /\ delta <= Space \div 2)
<1> DEFINE delta == (Seqno(n) - Seqno(m)) % Space
<1>1. isn \in Nat /\ Space \in Nat \ {0} /\ Space % 2 = 0
  BY SpaceAssumption DEF ConfigOK
<1>2. delta = (n - m) % Space
  <2>1. isn + n \in Int /\ isn + m \in Int /\ (isn + n) - (isn + m) = n - m
    BY <1>1
  <2>2. (((isn + n) % Space) - ((isn + m) % Space)) % Space = ((isn + n) - (isn + m)) % Space
    BY <1>1, <2>1, ModSub
  <2> QED BY <2>1, <2>2 DEF Seqno
<1>3. PICK h \in Nat : h = Space \div 2 /\ Space = 2 * h /\ h > 0
  BY <1>1
<1> HIDE DEF delta
<1>4. CASE n > m
  <2>1. n - m \in Nat /\ n - m < Space
    BY <1>3, <1>4
  <2>2. delta = n - m
    BY <1>1, <1>2, <2>1, ModSmall
  <2> QED BY <1>3, <1>4, <2>2 DEF delta
<1>5. CASE ~(n > m)
  <2>1. m - n < h /\ m - n > 0
    BY <1>3, <1>5
  <2> DEFINE r == (n - m) + Space
  <2>2. r \in 0..(Space - 1) /\ r > h
    BY <1>3, <2>1
  <2>3. n - m = Space * (-1) + r
    BY <1>1
  <2>4. n - m \in Int /\ -1 \in Int
    OBVIOUS
  <2> HIDE DEF r
  <2>5. (n - m) % Space = r
    BY <1>1, <2>2, <2>3, <2>4, ModUnique
  <2>6. delta = r
    BY <1>2, <2>5
  <2> QED BY <1>3, <1>5, <2>2, <2>6 DEF delta
<1> QED BY <1>4, <1>5

\* The window is a property of the history: it held before.
LEMMA WindowBefore ==
  ASSUME TypeInv, NEW n \in Nat, tapped' = Append(tapped, n), WithinHalf'
  PROVE  /\ WithinHalf
         /\ tapped # << >> /\ n \notin Distinct =>
              /\ n - Max(Distinct) <= Space \div 2
              /\ Max(Distinct) - n < Space \div 2
<1> DEFINE L == Len(tapped)
<1>1. /\ L \in Nat /\ tapped'[L + 1] = n /\ \A i \in 1..L : tapped'[i] = tapped[i]
      /\ DOMAIN tapped = 1..L /\ DOMAIN tapped' = 1..(L + 1)
  BY DistinctAppend
<1>2. L = 0 <=> tapped = << >>
  BY EmptySeq DEF TypeInv, HistoryOK
<1> HIDE DEF L
<1>3. \A i \in 1..(L + 1) : i > 1 /\ (\A j \in 1..(i - 1) : tapped'[j] # tapped'[i]) =>
        /\ \E j \in 1..(i - 1) : tapped'[i] - tapped'[j] <= Space \div 2
        /\ \A j \in 1..(i - 1) : tapped'[j] - tapped'[i] < Space \div 2
  BY <1>1 DEF WithinHalf
<1>4. WithinHalf
  <2>1. SUFFICES ASSUME NEW i \in 1..L, i > 1, \A j \in 1..(i - 1) : tapped[j] # tapped[i]
                 PROVE  /\ \E j \in 1..(i - 1) : tapped[i] - tapped[j] <= Space \div 2
                        /\ \A j \in 1..(i - 1) : tapped[j] - tapped[i] < Space \div 2
    BY <1>1 DEF WithinHalf
  <2>2. i \in 1..(L + 1) /\ tapped'[i] = tapped[i]
    BY <1>1
  <2>3. \A j \in 1..(i - 1) : tapped'[j] = tapped[j]
    <3>1. \A j \in 1..(i - 1) : j \in 1..L
      BY <1>1
    <3> QED BY <1>1, <3>1
  <2> QED BY <1>3, <2>1, <2>2, <2>3
<1>5. ASSUME tapped # << >>, n \notin Distinct
      PROVE  n - Max(Distinct) <= Space \div 2 /\ Max(Distinct) - n < Space \div 2
  <2>1. PICK M \in Nat : M = Max(Distinct) /\ M \in Distinct /\ \A k \in Distinct : k <= M
    BY <1>5, HighestShown
  <2>2. PICK m \in 1..L : tapped[m] = M
    BY <1>1, <2>1 DEF Distinct
  <2>3. \A j \in 1..L : tapped[j] \in Distinct /\ tapped[j] \in Nat /\ tapped[j] <= M
    BY <1>1, <2>1, DistinctFacts DEF Distinct
  <2>4. \A j \in 1..L : tapped'[j] # n
    BY <1>1, <1>5, <2>3
  <2>5. L + 1 \in 1..(L + 1) /\ L + 1 > 1 /\ (L + 1) - 1 = L
    BY <1>1, <1>2, <1>5
  <2>6. /\ \E j \in 1..L : n - tapped'[j] <= Space \div 2
        /\ \A j \in 1..L : tapped'[j] - n < Space \div 2
    BY <1>1, <1>3, <2>4, <2>5
  <2>7. PICK j \in 1..L : n - tapped[j] <= Space \div 2
    BY <1>1, <2>6
  <2>8. Space \div 2 \in Int
    BY SpaceAssumption
  <2>9. n - M <= Space \div 2
    <3>1. PICK t \in Nat, h \in Int : t = tapped[j] /\ h = Space \div 2
      BY <2>3, <2>8
    <3>2. t <= M /\ n - t <= h
      BY <2>3, <2>7, <3>1
    <3> QED BY <3>1, <3>2
  <2>10. M - n < Space \div 2
    BY <1>1, <2>2, <2>6
  <2> QED BY <2>1, <2>9, <2>10
<1> QED BY <1>4, <1>5

\* Every step keeps the count of the gaps.
LEMMA SequenceStep ==
  ASSUME TypeInv, SeenInv, SequenceInv, Next
  PROVE  SequenceInv'
<1> SUFFICES ASSUME proto' = "rist" PROVE SequenceInv'
  BY DEF SequenceInv
<1>1. proto = "rist" /\ isn' = isn /\ (NoReuse' => NoReuse)
  BY StepFrame
<1>2. \A k : Seqno(k)' = Seqno(k)
  BY <1>1 DEF Seqno
<1>3. /\ tapped = << >> => obs.gaps = 0
      /\ NoReuse /\ WithinHalf /\ tapped # << >> =>
           /\ obs.maxSeq = Seqno(Max(Distinct))
           /\ obs.gaps = Cardinality(NeverShown) + Cardinality(ShownLate)
      /\ obs.seen = {Seqno(n) : n \in Distinct}
      /\ obs.seqSeen <=> tapped # << >>
  BY <1>1 DEF SequenceInv, SeenInv
<1>4. CASE tapped' = tapped /\ SameSequence(obs, obs')
  <2>1. Distinct' = Distinct
    BY <1>4 DEF Distinct
  <2>2. Max(Distinct)' = Max(Distinct) /\ NeverShown' = NeverShown /\ ShownLate' = ShownLate
    BY <1>4, <2>1 DEF NeverShown, ShownLate
  <2>3. WithinHalf' = WithinHalf
    BY <1>4 DEF WithinHalf
  <2>4. Seqno(Max(Distinct))' = Seqno(Max(Distinct))
    BY <1>1, <2>2 DEF Seqno
  <2> QED BY <1>1, <1>3, <1>4, <2>2, <2>3, <2>4 DEF SequenceInv, SameSequence
<1>5. ASSUME NEW p \in path, NEW fate \in {"forward", "drop", "corrupt"}, Relayed(p, fate)
      PROVE  SequenceInv'
  <2>1. PICK n \in Nat : n = p[1] /\ n < next
    <3>1. p[1] \in 0..(next - 1) /\ next \in Nat
      BY <1>5, RelayedSeen DEF TypeInv, RunOK
    <3> QED BY <3>1
  <2>2. tapped' = Append(tapped, n) /\ tapped' # << >>
    <3>1. tapped' = Append(tapped, n)
      BY <1>5, <2>1 DEF Relayed
    <3> QED BY <3>1, AppendProperties DEF TypeInv, HistoryOK
  <2>3. SUFFICES ASSUME NoReuse', WithinHalf'
                 PROVE  /\ obs'.maxSeq = Seqno(Max(Distinct))'
                        /\ obs'.gaps = (Cardinality(NeverShown) + Cardinality(ShownLate))'
    BY <1>1, <2>2 DEF SequenceInv
  <2>4. NoReuse /\ WithinHalf
    BY <1>1, <2>2, <2>3, WindowBefore
  <2>5. /\ obs' = RistObserve(obs, [kind |-> "data", seq |-> Seqno(n), retrans |-> p[2]])
        /\ Seqno(n) \in Nat /\ obs \in RistObservers
    BY <1>1, <1>5, <2>1, RelayedSeen, SeqnoFacts DEF TypeInv, ObsOK
  <2>6. /\ Seqno(n) \in obs.seen => SameSequence(obs, obs')
        /\ Seqno(n) \notin obs.seen /\ ~obs.seqSeen =>
             obs'.seqSeen /\ obs'.maxSeq = Seqno(n) /\ obs'.gaps = obs.gaps
        /\ Seqno(n) \notin obs.seen /\ obs.seqSeen =>
             LET delta == (Seqno(n) - obs.maxSeq) % Space
             IN  /\ obs'.seqSeen
                 /\ IF delta # 0 /\ delta <= Space \div 2
                    THEN obs'.maxSeq = Seqno(n) /\ obs'.gaps = (obs.gaps + delta) - 1
                    ELSE obs'.maxSeq = obs.maxSeq /\ obs'.gaps = obs.gaps
    BY <2>5, RistData
  <2>7. Seqno(n) \in obs.seen <=> n \in Distinct
    <3>1. ASSUME NEW k \in Distinct, Seqno(n) = Seqno(k) PROVE n = k
      BY <2>1, <2>4, <3>1, SeqnoInjective, DistinctFacts
    <3> QED BY <1>3, <3>1
  <2>8. CASE tapped = << >>
    <3>1. Distinct = {}
      BY <2>8, DistinctFacts
    <3>2. Distinct' = {n} /\ tapped'[1] = n
      <4>1. Len(tapped) = 0
        BY <2>8, EmptySeq
      <4> QED BY <2>2, <3>1, <4>1, DistinctAppend
    <3>3. Max({n}) = n
      <4>1. {n} \subseteq Int /\ n \in {n} /\ \A y \in {n} : y <= n
        OBVIOUS
      <4> QED BY <4>1, MaxIsGreatest
    <3>4. NeverShown' = {}
      BY <3>2, <3>3 DEF NeverShown
    <3>5. ShownLate' = {}
      BY <3>2 DEF ShownLate
    <3>6. Cardinality({}) = 0
      BY FS_EmptySet
    <3>7. (Cardinality(NeverShown) + Cardinality(ShownLate))' = 0
      BY <3>4, <3>5, <3>6
    <3>8. obs'.maxSeq = Seqno(n) /\ obs'.gaps = 0
      BY <1>3, <2>6, <2>7, <2>8, <3>1
    <3>9. Seqno(Max(Distinct))' = Seqno(n)
      BY <1>1, <3>2, <3>3 DEF Seqno
    <3> QED BY <3>7, <3>8, <3>9
  <2>9. CASE tapped # << >>
    <3>1. PICK M \in Nat : M = Max(Distinct) /\ M \in Distinct /\ \A k \in Distinct : k <= M
      BY <2>9, HighestShown
    <3>2. obs.maxSeq = Seqno(M) /\ obs.gaps = Cardinality(NeverShown) + Cardinality(ShownLate)
          /\ obs.seqSeen
      BY <1>3, <2>4, <2>9, <3>1
    <3>3. IF n > M
          THEN Max(Distinct)' = n
               /\ (Cardinality(NeverShown) + Cardinality(ShownLate))' = (obs.gaps + (n - M)) - 1
          ELSE Max(Distinct)' = M
               /\ (Cardinality(NeverShown) + Cardinality(ShownLate))' = obs.gaps
      BY <2>2, <2>9, <3>1, <3>2, GapsAppend
    <3>4. Seqno(Max(Distinct))' = IF n > M THEN Seqno(n) ELSE Seqno(M)
      BY <1>1, <3>3 DEF Seqno
    <3>5. CASE n \in Distinct
      <4>1. ~(n > M)
        BY <3>1, <3>5
      <4> QED BY <2>6, <2>7, <3>2, <3>3, <3>4, <3>5, <4>1 DEF SameSequence
    <3>6. CASE n \notin Distinct
      <4>1. n # M /\ n - M <= Space \div 2 /\ M - n < Space \div 2
        BY <2>2, <2>3, <2>9, <3>1, <3>6, WindowBefore
      <4> DEFINE delta == (Seqno(n) - Seqno(M)) % Space
      <4>2. IF n > M THEN delta = n - M /\ delta # 0 /\ delta <= Space \div 2
            ELSE ~(delta # 0 /\ delta <= Space \div 2)
        BY <4>1, ForwardDistance DEF TypeInv
      <4>3. IF delta # 0 /\ delta <= Space \div 2
            THEN obs'.maxSeq = Seqno(n) /\ obs'.gaps = (obs.gaps + delta) - 1
            ELSE obs'.maxSeq = obs.maxSeq /\ obs'.gaps = obs.gaps
        BY <2>6, <2>7, <3>2, <3>6
      <4> HIDE DEF delta
      <4>4. CASE n > M
        BY <3>3, <3>4, <4>2, <4>3, <4>4
      <4>5. CASE ~(n > M)
        BY <3>2, <3>3, <3>4, <4>2, <4>3, <4>5
      <4> QED BY <4>4, <4>5
    <3> QED BY <3>5, <3>6
  <2> QED BY <2>8, <2>9
<1> QED BY <1>1, <1>4, <1>5, OtherStepsNotShown

\* What the counting proofs stand on.
CountInv == TypeInv /\ SeenInv /\ RetransInv /\ SequenceInv

\* It holds of every reachable state.
LEMMA CountCorrect == Spec => []CountInv
<1>1. Init => CountInv
  <2>1. ASSUME Init PROVE RetransInv /\ SequenceInv
    <3>1. Cardinality({}) = 0
      BY FS_EmptySet
    <3>2. RetransInv
      <4>1. obs.cnt.retrans = 0 /\ Len(tapped) = 0 /\ Cardinality(Distinct) = 0
        BY <2>1, <3>1, CountersInit
      <4> QED BY <4>1 DEF RetransInv
    <3>3. proto = "rist" => obs.gaps = 0
      BY <2>1 DEF Init, NewRistObserver
    <3> QED BY <2>1, <3>2, <3>3, CountersInit DEF SequenceInv
  <2> QED BY <2>1, TypeInit, CountersInit DEF CountInv
<1>2. CountInv /\ [Next]_vars => CountInv'
  <2>1. ASSUME CountInv, UNCHANGED vars PROVE SeenInv' /\ RetransInv' /\ SequenceInv'
    <3>1. Distinct' = Distinct /\ WithinHalf' = WithinHalf
      BY <2>1 DEF vars, Distinct, WithinHalf
    <3>2. NeverShown' = NeverShown /\ ShownLate' = ShownLate
      BY <2>1, <3>1 DEF vars, NeverShown, ShownLate
    <3>3. \A n : Seqno(n)' = Seqno(n)
      BY <2>1 DEF vars, config, Seqno
    <3>4. {Seqno(n)' : n \in Distinct'} = {Seqno(n) : n \in Distinct}
      BY <3>1, <3>3
    <3>5. Seqno(Max(Distinct))' = Seqno(Max(Distinct))
      BY <2>1, <3>1 DEF vars, config, Seqno
    <3>6. SeenInv'
      BY <2>1, <3>1, <3>4 DEF vars, config, SeenInv, CountInv
    <3>7. RetransInv' /\ SequenceInv'
      BY <2>1, <3>1, <3>2, <3>5
         DEF vars, config, RetransInv, SequenceInv, NoReuse, CountInv
    <3> QED BY <3>6, <3>7
  <2>2. ASSUME CountInv, Next PROVE CountInv'
    BY <2>2, TypeStep, SeenStep, RetransStep, SequenceStep DEF CountInv
  <2> QED BY <2>1, <2>2, TypeStutter DEF CountInv
<1> QED BY <1>1, <1>2, PTL DEF Spec

\* Within the window, RIST's gaps are the packets that were skipped when a higher
\* one came, and its retransmissions the repeated sightings, through any number of
\* reorderings and through the end of the space.
THEOREM SequenceProved == Spec => [](WithinHalf => SequenceAccounted)
<1>1. CountInv => (WithinHalf => SequenceAccounted)
  BY DEF CountInv, RetransInv, SequenceInv, SequenceAccounted
<1> QED BY <1>1, CountCorrect, PTL

\* A run of no more packets than half the space stays in the window by itself.
THEOREM ShortRunAccounted ==
  ASSUME 2 * MaxSend <= Space
  PROVE  Spec => []SequenceAccounted
<1> DEFINE Bounded == next <= MaxSend
<1>1. Init => Bounded
  BY SessionAssumption DEF Init
<1>2. TypeInv /\ Bounded /\ [Next]_vars => Bounded'
  <2>1. ASSUME TypeInv, Bounded, [Next]_vars PROVE Bounded'
    <3>1. CASE Send
      <4>1. next \in Nat /\ MaxSend \in Nat /\ next < MaxSend /\ next' = next + 1
        BY <2>1, <3>1, SessionAssumption DEF Send, TypeInv, RunOK
      <4> QED BY <4>1
    <3>2. CASE UNCHANGED vars
      BY <2>1, <3>2 DEF vars
    <3>3. CASE Next /\ ~Send
      <4>1. CASE Connect \/ Ask \/ IdleAck \/ Report
        BY <2>1, <4>1 DEF Connect, Ask, IdleAck, Report
      <4>2. ASSUME NEW p \in path, LostOnPath(p) PROVE next' = next
        BY <4>2 DEF LostOnPath
      <4>3. ASSUME NEW p \in path, NEW fate, Relayed(p, fate) PROVE next' = next
        BY <4>3 DEF Relayed
      <4>4. ASSUME NEW n \in asked, Resend(n) PROVE next' = next
        BY <4>4 DEF Resend
      <4>5. ASSUME NEW n \in 0..next, Ack(n) PROVE next' = next
        BY <4>5 DEF Ack
      <4> QED BY <2>1, <3>3, <4>1, <4>2, <4>3, <4>4, <4>5 DEF Next
    <3> QED BY <2>1, <3>1, <3>2, <3>3
  <2> QED BY <2>1
<1>3. ASSUME TypeInv, Bounded PROVE WithinHalf
  <2>1. /\ next \in Nat /\ MaxSend \in Nat /\ tapped \in Seq(Nat)
        /\ \A i \in DOMAIN tapped : tapped[i] < next
    BY <1>3, SessionAssumption DEF TypeInv, RunOK, HistoryOK
  <2>2. PICK h \in Nat : h = Space \div 2 /\ MaxSend <= h
    BY <2>1, SpaceAssumption
  <2>3. \A i \in DOMAIN tapped : tapped[i] \in Nat /\ tapped[i] < h
    <3>1. \A i \in DOMAIN tapped : tapped[i] \in Nat
      BY <2>1, ElementOfSeq, LenProperties
    <3> QED BY <1>3, <2>1, <2>2, <3>1
  <2>4. \A i, j \in DOMAIN tapped : tapped[i] - tapped[j] < h
    BY <2>3
  <2>5. \A i \in DOMAIN tapped : i > 1 => 1 \in 1..(i - 1) /\ \A j \in 1..(i - 1) : j \in DOMAIN tapped
    <3>1. DOMAIN tapped = 1..Len(tapped) /\ Len(tapped) \in Nat
      BY <2>1, LenProperties
    <3> QED BY <3>1
  <2>6. \A i, j \in DOMAIN tapped : tapped[i] - tapped[j] <= h
    BY <2>3, <2>4
  <2> QED BY <2>2, <2>4, <2>5, <2>6 DEF WithinHalf
<1>4. TypeInv /\ Bounded /\ (WithinHalf => SequenceAccounted) => SequenceAccounted
  BY <1>3
<1> HIDE DEF Bounded
<1> QED BY <1>1, <1>2, <1>4, TypeCorrect, SequenceProved, PTL DEF Spec
=============================================================================
