------------------------ MODULE RelayCoreLedgerProofs ------------------------
(***************************************************************************)
(* The ledger of RelayCore, for every capacity, number of datagrams and    *)
(* interleaving: a snapshot is the recent admissions without gaps; and as  *)
(* long as no ring was replaced by another one, finalize never leaves the  *)
(* ring, every entry has exactly the egress time of its own forward, and   *)
(* the delay decomposition is one of the forwards that went out.           *)
(***************************************************************************)
EXTENDS RelayCoreProofs, WellFoundedInduction

\* A ring of positive capacity.
IsRing(l) == l.cap \in Nat \ {0} /\ l \in Ledgers(l.cap)

Slots(l) == 0..(l.cap - 1)

\* The slots that hold an entry.
Used(l, s) == s < l.next \/ l.count >= l.cap

\* The slots before next hold the last admissions up to number "last"; the ones from
\* next on hold, once the ring has been filled, the ones before.
RingOK(l, last) ==
  /\ l.count <= l.cap => l.next = (IF l.count = l.cap THEN 0 ELSE l.count)
  /\ \A s \in Slots(l) :
       IF s < l.next THEN l.buf[s].own = last - l.next + s + 1
       ELSE l.count >= l.cap => l.buf[s].own = last - l.next - l.cap + s + 1

\* Where a cursor that is less than two rounds on ends up.
LEMMA ModWrap ==
  ASSUME NEW c \in Nat \ {0}, NEW x \in Nat, x < 2 * c
  PROVE  x % c = IF x < c THEN x ELSE x - c
<1>1. x % c \in 0..(c - 1) /\ x = c * (x \div c) + (x % c) /\ x \div c \in Int
  OBVIOUS
<1> DEFINE q == x \div c
           r == x % c
<1>2. q \in Int /\ r \in 0..(c - 1) /\ x = c * q + r
  BY <1>1
<1> HIDE DEF q, r
<1>3. q < 2
  <2> SUFFICES ASSUME q >= 2 PROVE FALSE
    BY <1>2
  <2>1. c * q >= c * 2
    BY <1>2
  <2> QED
    BY <1>2, <2>1
<1>4. q >= 0
  <2> SUFFICES ASSUME q <= -1 PROVE FALSE
    BY <1>2
  <2>1. c * q <= c * (-1)
    BY <1>2
  <2> QED
    BY <1>2, <2>1
<1>5. q = 0 \/ q = 1
  BY <1>2, <1>3, <1>4
<1>6. x % c = r
  BY DEF r
<1> QED
  BY <1>2, <1>5, <1>6

\* The parts of a ring.
LEMMA RingParts ==
  ASSUME NEW l, IsRing(l)
  PROVE  /\ l.cap \in Nat \ {0} /\ l.next \in 0..(l.cap - 1) /\ l.count \in Nat
         /\ l.buf \in [0..(l.cap - 1) -> Entries] /\ l.gen \in [0..(l.cap - 1) -> Nat]
  BY DEF IsRing, Ledgers

\* What start does to a ring, part by part.
LEMMA StartParts ==
  ASSUME NEW l, IsRing(l), NEW e,
         NEW seq, NEW r, NEW d, NEW o,
         e = [seq |-> seq, recvAt |-> r, deliverAt |-> d, egressAt |-> 0, own |-> o]
  PROVE  LET n == StartEntry(l, seq, r, d, o)
         IN  /\ n.cap = l.cap /\ n.count = l.count + 1
             /\ n.next = IF l.next + 1 = l.cap THEN 0 ELSE l.next + 1
             /\ n.buf[l.next] = e /\ n.gen[l.next] = l.gen[l.next] + 1
             /\ \A s \in Slots(l) \ {l.next} : n.buf[s] = l.buf[s] /\ n.gen[s] = l.gen[s]
<1> DEFINE cap == l.cap
           next == l.next
           n == StartEntry(l, seq, r, d, o)
<1>1. /\ cap \in Nat \ {0} /\ next \in 0..(cap - 1)
      /\ l.buf \in [0..(cap - 1) -> Entries] /\ l.gen \in [0..(cap - 1) -> Nat]
  BY RingParts
<1>2. /\ n.cap = cap /\ n.count = l.count + 1 /\ n.next = (next + 1) % cap
      /\ n.buf = [l.buf EXCEPT ![next] = e]
      /\ n.gen = [l.gen EXCEPT ![next] = l.gen[next] + 1]
  BY DEF StartEntry
<1>3. (next + 1) % cap = IF next + 1 = cap THEN 0 ELSE next + 1
  <2> HIDE DEF cap, next
  <2> DEFINE x == next + 1
  <2>1. x \in Nat /\ x < 2 * cap /\ x <= cap
    BY <1>1
  <2> HIDE DEF x
  <2>2. x % cap = IF x < cap THEN x ELSE x - cap
    BY <1>1, <2>1, ModWrap
  <2>3. x % cap = IF x = cap THEN 0 ELSE x
    BY <1>1, <2>1, <2>2
  <2> QED
    BY <2>3 DEF x
<1> HIDE DEF n
<1>4. n.buf[next] = e /\ n.gen[next] = l.gen[next] + 1
      /\ \A s \in (0..(cap - 1)) \ {next} : n.buf[s] = l.buf[s] /\ n.gen[s] = l.gen[s]
  <2> HIDE DEF cap, next
  <2> QED
    BY <1>1, <1>2
<1> QED
  BY <1>2, <1>3, <1>4 DEF Slots, n

\* What finalize does to a ring, part by part: it stamps the handle's slot if the
\* generation is still the handle's.
LEMMA FinalizeParts ==
  ASSUME NEW l, IsRing(l), NEW h \in Handles, ~FinalizePanics(l, h), NEW t \in Nat,
         NEW n, n = FinalizeEntry(l, h, t)
  PROVE  /\ n.cap = l.cap /\ n.count = l.count /\ n.next = l.next /\ n.gen = l.gen
         /\ \A s \in Slots(l) :
              /\ n.buf[s].recvAt = l.buf[s].recvAt /\ n.buf[s].own = l.buf[s].own
              /\ n.buf[s].deliverAt = l.buf[s].deliverAt
              /\ n.buf[s].egressAt = IF s = h.slot /\ l.gen[s] = h.gen THEN t
                                     ELSE l.buf[s].egressAt
<1>1. /\ l.cap \in Nat \ {0} /\ l.buf \in [0..(l.cap - 1) -> Entries]
      /\ l \in Ledgers(l.cap) /\ h.slot \in Int /\ h.slot < l.cap
  BY RingParts DEF IsRing, FinalizePanics, Handles
<1>2. CASE h.slot >= 0 /\ l.gen[h.slot] = h.gen
  <2>1. h.slot \in 0..(l.cap - 1)
    BY <1>1, <1>2
  <2>2. n = [l EXCEPT !.buf = [l.buf EXCEPT ![h.slot] = [l.buf[h.slot] EXCEPT !.egressAt = t]]]
    BY <1>2 DEF FinalizeEntry
  <2>3. /\ n.cap = l.cap /\ n.count = l.count /\ n.next = l.next /\ n.gen = l.gen
        /\ n.buf = [l.buf EXCEPT ![h.slot] = [l.buf[h.slot] EXCEPT !.egressAt = t]]
    BY <1>1, <2>2 DEF Ledgers
  <2>4. \A s \in 0..(l.cap - 1) : s # h.slot => n.buf[s] = l.buf[s]
    BY <1>1, <2>3
  <2>5. n.buf[h.slot] = [l.buf[h.slot] EXCEPT !.egressAt = t] /\ l.buf[h.slot] \in Entries
    BY <1>1, <2>1, <2>3
  <2>6. /\ n.buf[h.slot].recvAt = l.buf[h.slot].recvAt /\ n.buf[h.slot].own = l.buf[h.slot].own
        /\ n.buf[h.slot].deliverAt = l.buf[h.slot].deliverAt
        /\ n.buf[h.slot].egressAt = t
    BY <2>5 DEF Entries
  <2> QED
    BY <1>2, <2>3, <2>4, <2>6 DEF Slots
<1>3. CASE ~(h.slot >= 0 /\ l.gen[h.slot] = h.gen)
  <2>1. n = l
    BY <1>3 DEF FinalizeEntry
  <2>2. \A s \in 0..(l.cap - 1) : ~(s = h.slot /\ l.gen[s] = h.gen)
    BY <1>1, <1>3
  <2> QED
    BY <2>1, <2>2 DEF Slots
<1> QED
  BY <1>2, <1>3

\* start keeps the order of the ring: its entry is the newest.
LEMMA StartKeepsOrder ==
  ASSUME NEW l, IsRing(l), NEW last \in Nat, RingOK(l, last),
         NEW seq, NEW r, NEW d, NEW n, n = StartEntry(l, seq, r, d, last + 1)
  PROVE  RingOK(n, last + 1)
<1> DEFINE cap == l.cap
           next == l.next
           count == l.count
           e == [seq |-> seq, recvAt |-> r, deliverAt |-> d, egressAt |-> 0, own |-> last + 1]
<1>1. cap \in Nat \ {0} /\ next \in 0..(cap - 1) /\ count \in Nat
  BY RingParts
<1>2. /\ n.cap = cap /\ n.count = count + 1
      /\ n.next = (IF next + 1 = cap THEN 0 ELSE next + 1)
      /\ n.buf[next].own = last + 1
      /\ \A s \in (0..(cap - 1)) \ {next} : n.buf[s].own = l.buf[s].own
  <2>1. e.own = last + 1
    OBVIOUS
  <2>2. n.buf[next] = e
    BY StartParts
  <2> QED
    BY <2>1, <2>2, StartParts DEF Slots
<1>3. /\ count <= cap => next = (IF count = cap THEN 0 ELSE count)
      /\ \A s \in 0..(cap - 1) :
           /\ s < next => l.buf[s].own = last - next + s + 1
           /\ s >= next /\ count >= cap => l.buf[s].own = last - next - cap + s + 1
  BY <1>1 DEF RingOK, Slots
<1> HIDE DEF cap, next, count, e
<1>4. n.count <= n.cap => n.next = (IF n.count = n.cap THEN 0 ELSE n.count)
  BY <1>1, <1>2, <1>3
<1>5. ASSUME NEW s \in 0..(cap - 1)
      PROVE  IF s < n.next THEN n.buf[s].own = (last + 1) - n.next + s + 1
             ELSE n.count >= cap => n.buf[s].own = (last + 1) - n.next - cap + s + 1
  <2>1. CASE s = next
    BY <1>1, <1>2, <2>1
  <2>2. CASE s < next
    <3>1. n.buf[s].own = last - next + s + 1
      BY <1>1, <1>2, <1>3, <2>2
    <3> QED
      BY <1>1, <1>2, <2>2, <3>1
  <2>3. CASE s > next
    <3>1. n.next = next + 1 /\ ~(s < n.next)
      BY <1>1, <1>2, <2>3
    <3>2. n.count >= cap => count >= cap
      BY <1>1, <1>2, <1>3, <2>3
    <3>3. n.count >= cap => n.buf[s].own = last - next - cap + s + 1
      BY <1>1, <1>2, <1>3, <2>3, <3>2
    <3> QED
      BY <1>1, <3>1, <3>3
  <2> QED
    BY <1>1, <2>1, <2>2, <2>3
<1>6. n.cap = cap
  BY <1>2
<1>7. \A s \in 0..(n.cap - 1) :
        IF s < n.next THEN n.buf[s].own = (last + 1) - n.next + s + 1
        ELSE n.count >= n.cap => n.buf[s].own = (last + 1) - n.next - n.cap + s + 1
  BY <1>5, <1>6, Zenon
<1> QED
  BY <1>4, <1>7 DEF RingOK, Slots

\* No entry claims an admission that has not been made.
LEMMA OwnersAdmitted ==
  ASSUME NEW l, IsRing(l), NEW last \in Nat, RingOK(l, last),
         NEW s \in Slots(l), Used(l, s)
  PROVE  l.buf[s].own <= last /\ l.buf[s].own \in Int
<1> DEFINE cap == l.cap
           next == l.next
           count == l.count
<1>1. cap \in Nat \ {0} /\ next \in 0..(cap - 1) /\ count \in Nat /\ s \in 0..(cap - 1)
  BY RingParts DEF Slots
<1>2. \/ s < next /\ l.buf[s].own = last - next + s + 1
      \/ l.buf[s].own = last - next - cap + s + 1
  BY <1>1 DEF RingOK, Used, Slots
<1> HIDE DEF cap, next, count
<1> QED
  BY <1>1, <1>2

\* A snapshot is read off the used slots, in the order of admission.
LEMMA SnapshotSlots ==
  ASSUME NEW l, IsRing(l), NEW last \in Nat, RingOK(l, last), NEW snap, snap = Snapshot(l)
  PROVE  /\ Len(snap) = Min2(l.count, l.cap) /\ DOMAIN snap = 1..Min2(l.count, l.cap)
         /\ \A i \in DOMAIN snap :
              /\ \E s \in Slots(l) : Used(l, s) /\ snap[i] = l.buf[s]
              /\ snap[i].own = last - Min2(l.count, l.cap) + i
<1> DEFINE cap == l.cap
           next == l.next
           count == l.count
           m == Min2(count, cap)
<1>1. cap \in Nat \ {0} /\ next \in 0..(cap - 1) /\ count \in Nat
      /\ l.buf \in [0..(cap - 1) -> Entries]
  BY RingParts
<1>2. /\ count <= cap => next = (IF count = cap THEN 0 ELSE count)
      /\ \A s \in 0..(cap - 1) :
           /\ s < next => l.buf[s].own = last - next + s + 1
           /\ s >= next /\ count >= cap => l.buf[s].own = last - next - cap + s + 1
  BY <1>1 DEF RingOK, Slots
<1>3. /\ count <= cap => snap = [i \in 1..count |-> l.buf[i - 1]]
      /\ ~(count <= cap) => snap = [i \in 1..cap |-> l.buf[(next + i - 1) % cap]]
  BY DEF Snapshot
<1>4. m = (IF count < cap THEN count ELSE cap)
  BY DEF Min2
<1>5. \A s \in 0..(cap - 1) : s < next \/ count >= cap => Used(l, s)
  BY DEF Used
<1> HIDE DEF cap, next, count, m
<1>6. m \in Nat
  BY <1>1, <1>4
<1>7. CASE count <= cap
  <2>1. m = count /\ snap = [i \in 1..m |-> l.buf[i - 1]]
    BY <1>1, <1>3, <1>4, <1>7
  <2>2. \A i \in 1..m : i - 1 \in 0..(cap - 1) /\ snap[i] = l.buf[i - 1]
    BY <1>1, <1>7, <2>1
  <2>3. ASSUME NEW i \in 1..m
        PROVE  /\ i - 1 < next \/ count >= cap
               /\ l.buf[i - 1].own = last - m + i
    <3> DEFINE s == i - 1
    <3>1. s \in 0..(cap - 1)
      BY <2>2
    <3>2. CASE count = cap
      <4>1. next = 0 /\ s >= next
        BY <1>1, <1>2, <3>1, <3>2
      <4>2. l.buf[s].own = last - next - cap + s + 1
        BY <1>1, <1>2, <3>1, <3>2, <4>1
      <4> QED
        BY <1>1, <2>1, <3>2, <4>1, <4>2
    <3>3. CASE count < cap
      <4>1. next = count /\ s < next
        BY <1>1, <1>2, <2>1, <3>1, <3>3
      <4>2. l.buf[s].own = last - next + s + 1
        BY <1>2, <3>1, <4>1
      <4> QED
        BY <1>1, <2>1, <3>3, <4>1, <4>2
    <3> QED
      BY <1>1, <1>7, <3>2, <3>3
  <2>4. Len(snap) = m /\ DOMAIN snap = 1..m
    BY <1>6, <2>1
  <2> QED
    BY <1>5, <2>2, <2>3, <2>4 DEF Slots, cap, m, count
<1>8. CASE count > cap
  <2>1. m = cap /\ snap = [i \in 1..m |-> l.buf[(next + i - 1) % cap]]
    BY <1>1, <1>3, <1>4, <1>8
  <2>2. ASSUME NEW i \in 1..m
        PROVE  \E s \in 0..(cap - 1) : snap[i] = l.buf[s] /\ l.buf[s].own = last - m + i
    <3> DEFINE x == next + i - 1
               s == IF x < cap THEN x ELSE x - cap
    <3>1. x \in Nat /\ x < 2 * cap /\ x >= next /\ x - cap < next
      BY <1>1, <2>1
    <3>2. x % cap = s
      <4> HIDE DEF x
      <4> QED
        BY <1>1, <3>1, ModWrap
    <3>3. s \in 0..(cap - 1)
      BY <1>1, <3>1
    <3>4. snap[i] = l.buf[s]
      BY <2>1, <3>2
    <3>5. l.buf[s].own = last - m + i
      <4>1. CASE x < cap
        <5>1. s = x /\ s >= next
          BY <3>1, <4>1
        <5>2. l.buf[s].own = last - next - cap + s + 1
          <6> HIDE DEF s
          <6> QED
            BY <1>1, <1>2, <1>8, <3>3, <5>1
        <5> QED
          BY <1>1, <2>1, <5>1, <5>2
      <4>2. CASE ~(x < cap)
        <5>1. s = x - cap /\ s < next
          BY <3>1, <4>2
        <5>2. l.buf[s].own = last - next + s + 1
          <6> HIDE DEF s
          <6> QED
            BY <1>1, <1>2, <1>8, <3>3, <5>1
        <5> QED
          BY <1>1, <2>1, <5>1, <5>2
      <4> QED
        BY <4>1, <4>2
    <3> HIDE DEF s
    <3> QED
      BY <3>3, <3>4, <3>5
  <2>3. Len(snap) = m /\ DOMAIN snap = 1..m
    BY <1>6, <2>1
  <2>4. \A s \in 0..(cap - 1) : Used(l, s)
    BY <1>1, <1>5, <1>8
  <2> QED
    BY <2>2, <2>3, <2>4 DEF Slots, cap, m, count
<1> QED
  BY <1>1, <1>7, <1>8

\* A new ring is empty.
LEMMA FreshRing ==
  ASSUME NEW c \in Int, NEW last, NEW l, l = NewLedger(c)
  PROVE  /\ IsRing(l) /\ RingOK(l, last) /\ l # NoLedger
         /\ \A s \in Slots(l) : ~Used(l, s)
<1>1. IsRing(l)
  BY NewLedgerType DEF IsRing
<1>2. l.next = 0 /\ l.count = 0
  BY DEF NewLedger
<1>3. l.cap \in Nat \ {0}
  BY <1>1 DEF IsRing
<1>4. l # NoLedger
  BY <1>3 DEF NoLedger
<1> QED
  BY <1>1, <1>2, <1>3, <1>4 DEF RingOK, Used, Slots

\* start fills exactly one slot that may have been empty.
LEMMA StartUsed ==
  ASSUME NEW l, IsRing(l), NEW last \in Nat, RingOK(l, last),
         NEW seq, NEW r, NEW d, NEW o, NEW n, n = StartEntry(l, seq, r, d, o)
  PROVE  /\ Used(n, l.next)
         /\ \A s \in Slots(l) \ {l.next} : Used(n, s) <=> Used(l, s)
<1> DEFINE cap == l.cap
           next == l.next
           count == l.count
           e == [seq |-> seq, recvAt |-> r, deliverAt |-> d, egressAt |-> 0, own |-> o]
<1>1. cap \in Nat \ {0} /\ next \in 0..(cap - 1) /\ count \in Nat
  BY RingParts
<1>2. /\ n.cap = cap /\ n.count = count + 1
      /\ n.next = (IF next + 1 = cap THEN 0 ELSE next + 1)
      /\ n.buf[next] = e
  BY StartParts
<1>3. count <= cap => next = (IF count = cap THEN 0 ELSE count)
  BY DEF RingOK
<1> HIDE DEF cap, next, count
<1>4. next < n.next \/ n.count >= cap
  BY <1>1, <1>2, <1>3
<1>5. \A s \in (0..(cap - 1)) \ {next} :
        (s < n.next \/ n.count >= cap) <=> (s < next \/ count >= cap)
  BY <1>1, <1>2, <1>3
<1> QED
  BY <1>2, <1>4, <1>5 DEF Used, Slots, cap, next, count
-----------------------------------------------------------------------------
(***************************************************************************)
(* The snapshot.                                                           *)
(***************************************************************************)
RingInv == ledger # NoLedger => RingOK(ledger, egOrd)

Enable == \E a \in EnableArgs : EnableLedger(a)

\* The steps that neither handle a forward nor touch the ledger.
LEMMA QuietSteps ==
  ASSUME TypeOK, [Next]_vars,
         ~(Admit \/ EgressPop \/ SendCheck \/ SendWrite \/ SendFinish \/ SendPanic \/ Enable)
  PROVE  /\ UNCHANGED <<ledger, egOrd, eg, hand, sent, enables>>
         /\ epc' \in {"send", "write", "final", "panic"} => epc' = epc
         /\ epc \in {"send", "write", "final", "panic"} => epc' = epc
<1> USE DEF readerVars, egressVars, heapVars, bufVars, closeVars, ctlVars
<1>1. CASE Reader
  <2>1. UNCHANGED enables
    BY <1>1 DEF Reader, ReadCheck, ReadArm, ReadDatagram, ReadTimeout, ReadError, Handle,
         ProcessDrop, ProcessDone, GetBuf, TailDrop, SendWake, TailDropExcept,
         SendWakeExcept, ReaderExcept
  <2> QED
    BY <1>1, <2>1, ReaderSteps
<1>2. CASE EgressIdle
  BY <1>2 DEF EgressIdle, EgressPark, EgressArm, EgressWoken, EgressTimer, EgressExit,
              EgressExcept
<1>3. CASE (\E e \in Engines : SetEngine(e)) \/ Tick
  BY <1>3 DEF SetEngine, Tick, ControlExcept
<1>4. ASSUME NEW c \in Closers, Closer(c)
      PROVE  UNCHANGED <<ledger, egOrd, eg, hand, sent, enables, epc>>
  BY <1>4 DEF Closer, CloseFirst, CloseWake, CloseSocks, CloseAgain, CloseReturn, ControlExcept
<1>5. CASE UNCHANGED vars
  BY <1>5 DEF vars
<1> QED
  BY <1>1, <1>2, <1>3, <1>4, <1>5 DEF Next, Egress, EgressIdle, Control, Enable, Stopped

\* A ledger that is on is a ring.
LEMMA LedgerIsRing ==
  ASSUME TypeOK, ledger # NoLedger
  PROVE  IsRing(ledger)
  BY DEF TypeOK, IsRing

\* What Admit does to the ledger and the queue.
LEMMA AdmitParts ==
  ASSUME TypeOK, Admit
  PROVE  \E it \in Items :
           /\ it.ord = egOrd + 1 /\ rpkt.recvAt \in Nat /\ it.at \in Nat
           /\ rpkt.recvAt <= it.at
           /\ it.led = IF ledger = NoLedger THEN NoHandle ELSE StartHandle(ledger)
           /\ eg' = eg \cup {it} /\ egOrd' = egOrd + 1
           /\ ledger' = IF ledger = NoLedger THEN NoLedger
                        ELSE StartEntry(ledger, rpkt.seq, rpkt.recvAt, it.at, egOrd + 1)
           /\ UNCHANGED <<hand, sent, epc, enables>>
<1> USE DEF readerVars, egressVars, heapVars, bufVars, closeVars, ctlVars
<1>1. PICK b \in rbuf :
        /\ eg' = eg \cup {NewItem(b)} /\ egOrd' = egOrd + 1
        /\ ledger' = IF ledger = NoLedger THEN NoLedger
                     ELSE StartEntry(ledger, rpkt.seq, rpkt.recvAt, NewItem(b).at, NewItem(b).ord)
  BY DEF Admit
<1>2. NewItem(b).ord = egOrd + 1 /\ NewItem(b).at = rpkt.recvAt + Head(acts).delay
      /\ NewItem(b).led = IF ledger = NoLedger THEN NoHandle ELSE StartHandle(ledger)
  BY DEF NewItem
<1>3. Head(acts) \in Action
  BY DEF TypeOK, Admit
<1>4. Head(acts).delay \in Nat /\ rpkt.recvAt \in Nat
  BY <1>3, BoundsAssumption DEF TypeOK, Action
<1>5. NewItem(b).at \in Nat /\ rpkt.recvAt <= NewItem(b).at
  BY <1>2, <1>4
<1>6. UNCHANGED <<hand, sent, epc, enables>>
  BY DEF Admit
<1>7. NewItem(b) \in Items
  <2>1. StartHandle(ledger) \in Handles \/ ledger = NoLedger
    BY StartEntryType DEF TypeOK
  <2> QED
    BY <1>2, <1>4, <1>5, <2>1 DEF NewItem, Items, Handles, NoHandle, TypeOK, Admit
<1> QED
  BY <1>1, <1>2, <1>4, <1>5, <1>6, <1>7

\* Order in the ring is an invariant: start is the only thing that adds an entry,
\* in the critical section that also numbers the forward.
LEMMA RingInductive == Spec => []RingInv
<1> USE DEF readerVars, egressVars, heapVars, bufVars, closeVars, ctlVars
<1>1. Init => RingInv
  <2> SUFFICES ASSUME Init, ledger # NoLedger PROVE RingOK(ledger, egOrd)
    BY DEF RingInv
  <2>1. ledger = NewLedger(LedgerCap) /\ LedgerCap \in Int
    BY BoundsAssumption DEF Init
  <2> QED
    BY <2>1, FreshRing
<1>2. TypeOK /\ TypeOK' /\ RingInv /\ [Next]_vars => RingInv'
  <2> SUFFICES ASSUME TypeOK, TypeOK', RingInv, [Next]_vars, ledger' # NoLedger
               PROVE  RingOK(ledger', egOrd')
    BY DEF RingInv
  <2>1. CASE Admit
    <3>1. PICK it \in Items :
            /\ egOrd' = egOrd + 1
            /\ ledger' = IF ledger = NoLedger THEN NoLedger
                         ELSE StartEntry(ledger, rpkt.seq, rpkt.recvAt, it.at, egOrd + 1)
      BY <2>1, AdmitParts
    <3>2. /\ IsRing(ledger) /\ RingOK(ledger, egOrd) /\ egOrd \in Nat
          /\ ledger' = StartEntry(ledger, rpkt.seq, rpkt.recvAt, it.at, egOrd + 1)
      BY <3>1, LedgerIsRing DEF RingInv, TypeOK
    <3>3. RingOK(ledger', egOrd + 1)
      BY <3>2, StartKeepsOrder
    <3> QED
      BY <3>1, <3>3
  <2>2. CASE SendFinish
    <3>1. egOrd' = egOrd
      BY <2>2 DEF SendFinish, SendFinishExcept, EgressExcept
    <3>2. PICK it \in hand :
            /\ ~FinalizePanics(ledger, it.led)
            /\ ledger' = IF it.led.slot >= 0 /\ ledger # NoLedger
                         THEN FinalizeEntry(ledger, it.led, now) ELSE ledger
      BY <2>2 DEF SendFinish
    <3>3. CASE ledger' = ledger
      BY <3>1, <3>3 DEF RingInv
    <3>4. CASE ledger # NoLedger /\ ledger' = FinalizeEntry(ledger, it.led, now)
      <4>1. IsRing(ledger) /\ RingOK(ledger, egOrd)
        BY <3>4, LedgerIsRing DEF RingInv
      <4>2. it.led \in Handles /\ now \in Nat
        BY DEF TypeOK, Items
      <4>3. /\ ledger'.cap = ledger.cap /\ ledger'.count = ledger.count
            /\ ledger'.next = ledger.next
            /\ \A s \in Slots(ledger) : ledger'.buf[s].own = ledger.buf[s].own
        BY <3>2, <3>4, <4>1, <4>2, FinalizeParts
      <4> QED
        BY <3>1, <4>1, <4>3, Zenon DEF RingOK, Slots
    <3> QED
      BY <3>2, <3>3, <3>4
  <2>3. CASE Enable
    <3>1. egOrd' = egOrd
      BY <2>3 DEF Enable, EnableLedger, ControlExcept
    <3>2. PICK a \in EnableArgs :
            ledger' = NewLedger(IF a <= 0 THEN DefaultLedgerCap ELSE a)
      BY <2>3 DEF Enable, EnableLedger
    <3>3. (IF a <= 0 THEN DefaultLedgerCap ELSE a) \in Int
      BY BoundsAssumption
    <3> QED
      BY <3>2, <3>3, FreshRing
  <2>4. CASE EgressPop \/ SendCheck \/ SendWrite \/ SendPanic
    <3>1. UNCHANGED <<ledger, egOrd>>
      BY <2>4 DEF EgressPop, SendCheck, SendWrite, SendPanic, SendCheckExcept, EgressExcept
    <3> QED
      BY <3>1 DEF RingInv
  <2>5. CASE UNCHANGED <<ledger, egOrd>>
    BY <2>5 DEF RingInv
  <2> QED
    BY <2>1, <2>2, <2>3, <2>4, <2>5, QuietSteps
<1> QED
  BY <1>1, <1>2, TypeCorrect, PTL DEF Spec

\* LedgerSnapshot returns the most recent admissions, oldest first and without a
\* gap, wrapped or not, with whichever capacity and whenever the ring is installed.
THEOREM SnapshotCorrect == Spec => []SnapshotIsRecent
<1>1. TypeOK /\ RingInv => SnapshotIsRecent
  <2> SUFFICES ASSUME TypeOK, RingInv, ledger # NoLedger
               PROVE  LET snap == Snapshot(ledger)
                      IN  /\ Len(snap) = Min2(ledger.count, ledger.cap)
                          /\ \A i \in DOMAIN snap : snap[i].own = egOrd - Len(snap) + i
    BY DEF SnapshotIsRecent
  <2>1. IsRing(ledger) /\ RingOK(ledger, egOrd) /\ egOrd \in Nat
    BY LedgerIsRing DEF RingInv, TypeOK
  <2> DEFINE snap == Snapshot(ledger)
  <2> HIDE DEF snap
  <2>2. /\ Len(snap) = Min2(ledger.count, ledger.cap)
        /\ \A i \in DOMAIN snap : snap[i].own = egOrd - Min2(ledger.count, ledger.cap) + i
    BY <2>1, SnapshotSlots DEF snap
  <2> QED
    BY <2>2, Zenon DEF snap
<1> QED
  BY <1>1, TypeCorrect, RingInductive, PTL
-----------------------------------------------------------------------------
(***************************************************************************)
(* The entries.                                                            *)
(***************************************************************************)
\* The forwards that were written, by their numbers.
SentOrds == {sent[i].ord : i \in DOMAIN sent}

\* A forward that still waits was not written; one egress is stamping was.
SentInv ==
  /\ SentOrds \subseteq 1..egOrd
  /\ \A it \in Waiting : it.ord \notin SentOrds
  /\ epc \in {"final", "panic"} => \A it \in hand : it.ord \in SentOrds

\* A handle is in the ring and not from its future; its slot's generation is the
\* handle's only while the slot holds the forward's entry, and as long as the ring
\* has that entry the handle leads to it.
HandleOK(l, it) ==
  /\ it.led.slot < l.cap
  /\ it.led.slot >= 0 => it.led.gen <= l.gen[it.led.slot]
  /\ it.led.slot >= 0 /\ it.led.gen = l.gen[it.led.slot] =>
       Used(l, it.led.slot) /\ l.buf[it.led.slot].own = it.ord
  /\ \A s \in Slots(l) : Used(l, s) /\ l.buf[s].own = it.ord =>
       it.led.slot = s /\ it.led.gen = l.gen[s] /\ it.at = l.buf[s].deliverAt

EntryOK(e) ==
  /\ e.egressAt # 0 <=> Finalized(e)
  /\ e.recvAt <= e.deliverAt
  /\ e.egressAt # 0 => e.deliverAt <= e.egressAt

\* A ledger came from New or from EnableLedger; while there was one at most, the
\* handles lead where they should and the entries say when their forwards left.
LedgerInv ==
  /\ ledger # NoLedger => enables + (IF LedgerCap > 0 THEN 1 ELSE 0) >= 1
  /\ OneRing =>
       /\ epc # "panic"
       /\ ledger = NoLedger => \A it \in Live : it.led.slot < 0
       /\ ledger # NoLedger =>
            /\ \A it \in Live : HandleOK(ledger, it)
            /\ \A s \in Slots(ledger) : Used(ledger, s) => EntryOK(ledger.buf[s])

\* Forward number k was written and egress is done with it: this is what Finalized
\* says of the forward that started an entry.
Gone(k) == k \in SentOrds /\ ~ \E it \in hand : it.ord = k

\* The socket write adds its forward's number to the written ones.
LEMMA WriteAdds ==
  ASSUME TypeOK, SendWrite
  PROVE  \E it \in hand : SentOrds' = SentOrds \cup {it.ord} /\ hand = {it}
<1>1. PICK it \in hand :
        sent' = Append(sent, [at |-> it.at, ord |-> it.ord, pkt |-> it.pkt,
                              data |-> mem[it.buf]])
  BY DEF SendWrite
<1> DEFINE w == [at |-> it.at, ord |-> it.ord, pkt |-> it.pkt, data |-> mem[it.buf]]
<1>2. w.ord = it.ord
  OBVIOUS
<1>3. w \in [at : Nat, ord : Nat, pkt : Nat, data : Nat]
  BY DEF TypeOK, Items
<1>4. sent' = Append(sent, w)
  BY <1>1
<1> HIDE DEF w
<1>5. /\ Len(sent) \in Nat /\ DOMAIN sent = 1..Len(sent) /\ DOMAIN sent' = 1..(Len(sent) + 1)
      /\ \A i \in 1..Len(sent) : sent'[i] = sent[i]
      /\ sent'[Len(sent) + 1] = w
  BY <1>3, <1>4, AppendProperties DEF TypeOK
<1>6. SentOrds' = SentOrds \cup {it.ord}
  <2>1. \A i \in DOMAIN sent : i \in DOMAIN sent' /\ sent'[i].ord = sent[i].ord
    BY <1>5
  <2>2. Len(sent) + 1 \in DOMAIN sent' /\ sent'[Len(sent) + 1].ord = it.ord
    BY <1>2, <1>5
  <2>3. \A i \in DOMAIN sent' : i \in DOMAIN sent \/ i = Len(sent) + 1
    BY <1>5
  <2>4. SentOrds' \subseteq SentOrds \cup {it.ord}
    BY <2>1, <2>2, <2>3 DEF SentOrds
  <2>5. SentOrds \cup {it.ord} \subseteq SentOrds'
    BY <2>1, <2>2 DEF SentOrds
  <2> QED
    BY <2>4, <2>5
<1>7. hand = {it}
  BY DEF TypeOK, SendWrite
<1> QED
  BY <1>6, <1>7

\* SentInv is an invariant: a number is given once, and written once.
LEMMA SentInductive == Spec => []SentInv
<1> USE DEF readerVars, egressVars, heapVars, bufVars, closeVars, ctlVars
<1>1. Init => SentInv
  BY DEF Init, SentInv, SentOrds, Waiting, InHand
<1>2. TypeOK /\ QueueInv /\ SentInv /\ [Next]_vars => SentInv'
  <2> SUFFICES ASSUME TypeOK, QueueInv, SentInv, [Next]_vars PROVE SentInv'
    OBVIOUS
  <2>0. egOrd \in Nat
    BY DEF TypeOK
  <2>1. CASE Admit
    <3>1. PICK it \in Items :
            /\ it.ord = egOrd + 1 /\ eg' = eg \cup {it} /\ egOrd' = egOrd + 1
            /\ UNCHANGED <<hand, sent, epc>>
      BY <2>1, AdmitParts
    <3>2. SentOrds' = SentOrds /\ InHand' = InHand
      BY <3>1 DEF SentOrds, InHand
    <3>3. Waiting' = Waiting \cup {it}
      BY <3>1, <3>2 DEF Waiting
    <3>4. it.ord \notin SentOrds /\ SentOrds \subseteq 1..egOrd'
      BY <2>0, <3>1 DEF SentInv
    <3> QED
      BY <3>1, <3>2, <3>3, <3>4 DEF SentInv
  <2>2. CASE EgressPop
    <3>1. /\ hand = {} /\ epc' = "send" /\ UNCHANGED <<egOrd, sent>>
          /\ \E it \in eg : eg' = eg \ {it} /\ hand' = {it}
      BY <2>2 DEF EgressPop, EgressExcept, TypeOK
    <3>2. SentOrds' = SentOrds /\ Waiting' \subseteq Waiting
      BY <3>1 DEF SentOrds, Waiting, InHand
    <3> QED
      BY <3>1, <3>2 DEF SentInv
  <2>3. CASE SendCheck
    <3>1. /\ epc = "send" /\ UNCHANGED <<eg, egOrd, sent>>
          /\ \/ epc' = "lock" /\ hand' = {}
             \/ epc' = "write" /\ hand' = hand
      BY <2>3 DEF SendCheck, SendCheckExcept, EgressExcept
    <3>2. SentOrds' = SentOrds /\ Waiting' \subseteq Waiting
      BY <3>1 DEF SentOrds, Waiting, InHand
    <3> QED
      BY <3>1, <3>2 DEF SentInv
  <2>4. CASE SendWrite
    <3>1. PICK it \in hand : SentOrds' = SentOrds \cup {it.ord} /\ hand = {it}
      BY <2>4, WriteAdds
    <3>2. epc = "write" /\ epc' = "final" /\ UNCHANGED <<eg, egOrd, hand>>
      BY <2>4 DEF SendWrite, EgressExcept
    <3>3. Waiting' = eg /\ it.ord \in 1..egOrd
      BY <3>2 DEF Waiting, InHand, QueueInv, OrdersInv, Live
    <3>4. \A x \in eg : x.ord # it.ord /\ x \in Waiting
      BY <3>1 DEF QueueInv, OrdersInv, Live, Waiting
    <3> QED
      BY <3>1, <3>2, <3>3, <3>4 DEF SentInv
  <2>5. CASE SendFinish
    <3>1. epc' = "lock" /\ hand' = {} /\ UNCHANGED <<eg, egOrd, sent>>
      BY <2>5 DEF SendFinish, SendFinishExcept, EgressExcept
    <3>2. SentOrds' = SentOrds /\ Waiting' \subseteq Waiting
      BY <3>1 DEF SentOrds, Waiting, InHand
    <3> QED
      BY <3>1, <3>2 DEF SentInv
  <2>6. CASE SendPanic
    <3>1. epc = "final" /\ epc' = "panic" /\ UNCHANGED <<eg, egOrd, hand, sent>>
      BY <2>6 DEF SendPanic, EgressExcept
    <3>2. SentOrds' = SentOrds /\ Waiting' \subseteq Waiting
      BY <3>1 DEF SentOrds, Waiting, InHand
    <3> QED
      BY <3>1, <3>2 DEF SentInv
  <2>7. CASE UNCHANGED <<egOrd, eg, hand, sent>>
             /\ (epc' \in {"send", "write", "final", "panic"} => epc' = epc)
    <3>1. SentOrds' = SentOrds /\ Waiting' \subseteq Waiting
      BY <2>7 DEF SentOrds, Waiting, InHand
    <3> QED
      BY <2>7, <3>1 DEF SentInv
  <2>8. CASE Enable
    <3>1. UNCHANGED <<egOrd, eg, hand, sent, epc>>
      BY <2>8 DEF Enable, EnableLedger, ControlExcept
    <3>2. SentOrds' = SentOrds /\ Waiting' \subseteq Waiting
      BY <3>1 DEF SentOrds, Waiting, InHand
    <3> QED
      BY <3>1, <3>2 DEF SentInv
  <2> QED
    BY <2>1, <2>2, <2>3, <2>4, <2>5, <2>6, <2>7, <2>8, QuietSteps
<1> QED
  BY <1>1, <1>2, TypeCorrect, QueueInductive, PTL DEF Spec

\* What start does to the handle of an earlier forward: if the slot is the one that
\* is overwritten its generation moves on, so that the handle finds nothing.
LEMMA StartKeepsHandle ==
  ASSUME NEW l, IsRing(l), NEW last \in Nat, RingOK(l, last),
         NEW it \in Items, it.ord <= last, HandleOK(l, it),
         NEW seq, NEW r, NEW d, NEW n, n = StartEntry(l, seq, r, d, last + 1)
  PROVE  HandleOK(n, it)
<1> DEFINE e == [seq |-> seq, recvAt |-> r, deliverAt |-> d, egressAt |-> 0, own |-> last + 1]
           h == it.led
<1>1. /\ n.cap = l.cap /\ n.buf[l.next] = e /\ n.gen[l.next] = l.gen[l.next] + 1
      /\ \A s \in Slots(l) \ {l.next} : n.buf[s] = l.buf[s] /\ n.gen[s] = l.gen[s]
  BY StartParts
<1>2. /\ Used(n, l.next)
      /\ \A s \in Slots(l) \ {l.next} : Used(n, s) <=> Used(l, s)
  BY StartUsed
<1>3. e.own = last + 1
  OBVIOUS
<1>4. /\ l.cap \in Nat /\ l.next \in Slots(l) /\ l.gen \in [Slots(l) -> Nat]
  BY RingParts DEF Slots
<1>5. h.slot \in Int /\ h.gen \in Nat /\ it.ord \in Nat
  BY DEF Items, Handles
<1>6. /\ h.slot < l.cap
      /\ h.slot >= 0 => h.gen <= l.gen[h.slot]
      /\ h.slot >= 0 /\ h.gen = l.gen[h.slot] => Used(l, h.slot) /\ l.buf[h.slot].own = it.ord
      /\ \A s \in Slots(l) : Used(l, s) /\ l.buf[s].own = it.ord =>
           h.slot = s /\ h.gen = l.gen[s] /\ it.at = l.buf[s].deliverAt
  BY DEF HandleOK
<1>7. h.slot >= 0 => h.slot \in Slots(l)
  BY <1>4, <1>5, <1>6 DEF Slots
<1> HIDE DEF e, h
<1>8. h.slot >= 0 => h.gen <= n.gen[h.slot]
  <2> SUFFICES ASSUME h.slot >= 0 PROVE h.gen <= n.gen[h.slot]
    OBVIOUS
  <2>1. CASE h.slot = l.next
    <3>1. l.gen[l.next] \in Nat /\ h.gen <= l.gen[l.next]
      BY <1>4, <1>6, <2>1
    <3> QED
      BY <1>1, <1>5, <2>1, <3>1
  <2>2. CASE h.slot # l.next
    BY <1>1, <1>6, <1>7, <2>2
  <2> QED
    BY <2>1, <2>2
<1>9. h.slot >= 0 /\ h.gen = n.gen[h.slot] => Used(n, h.slot) /\ n.buf[h.slot].own = it.ord
  <2> SUFFICES ASSUME h.slot >= 0, h.gen = n.gen[h.slot]
               PROVE  Used(n, h.slot) /\ n.buf[h.slot].own = it.ord
    OBVIOUS
  <2>1. h.slot # l.next
    <3> SUFFICES ASSUME h.slot = l.next PROVE FALSE
      OBVIOUS
    <3>1. l.gen[l.next] \in Nat /\ h.gen <= l.gen[l.next] /\ h.gen = l.gen[l.next] + 1
      BY <1>1, <1>4, <1>6
    <3> QED
      BY <1>5, <3>1
  <2> QED
    BY <1>1, <1>2, <1>6, <1>7, <2>1
<1>10. ASSUME NEW s \in Slots(l), Used(n, s), n.buf[s].own = it.ord
       PROVE  h.slot = s /\ h.gen = n.gen[s] /\ it.at = n.buf[s].deliverAt
  <2>1. s # l.next
    <3> SUFFICES ASSUME s = l.next PROVE FALSE
      OBVIOUS
    <3>1. it.ord = last + 1
      BY <1>1, <1>3, <1>10
    <3> QED
      BY <1>5, <3>1
  <2> QED
    BY <1>1, <1>2, <1>6, <1>10, <2>1
<1>11. Slots(n) = Slots(l) /\ h.slot < n.cap
  BY <1>1, <1>6 DEF Slots
<1> QED
  BY <1>8, <1>9, <1>10, <1>11, Zenon DEF HandleOK, h

\* The handle that start returns leads to the entry it made.
LEMMA StartGivesHandle ==
  ASSUME NEW l, IsRing(l), NEW last \in Nat, RingOK(l, last),
         NEW it \in Items, it.ord = last + 1, it.led = StartHandle(l),
         NEW seq, NEW r, NEW n, n = StartEntry(l, seq, r, it.at, last + 1)
  PROVE  HandleOK(n, it)
<1> DEFINE e == [seq |-> seq, recvAt |-> r, deliverAt |-> it.at, egressAt |-> 0,
                 own |-> last + 1]
           h == it.led
<1>1. /\ n.cap = l.cap /\ n.buf[l.next] = e /\ n.gen[l.next] = l.gen[l.next] + 1
      /\ \A s \in Slots(l) \ {l.next} : n.buf[s] = l.buf[s] /\ n.gen[s] = l.gen[s]
  BY StartParts
<1>2. /\ Used(n, l.next)
      /\ \A s \in Slots(l) \ {l.next} : Used(n, s) <=> Used(l, s)
  BY StartUsed
<1>3. e.own = last + 1 /\ e.deliverAt = it.at
  OBVIOUS
<1>4. h.slot = l.next /\ h.gen = l.gen[l.next] + 1
  BY DEF StartHandle
<1>5. /\ l.cap \in Nat /\ l.next \in 0..(l.cap - 1) /\ l.next \in Slots(l)
      /\ l.gen[l.next] \in Nat
  BY RingParts DEF Slots
<1> HIDE DEF e, h
<1>6. h.slot < n.cap /\ h.gen <= n.gen[h.slot]
  BY <1>1, <1>4, <1>5
<1>7. Used(n, h.slot) /\ n.buf[h.slot].own = it.ord
  BY <1>1, <1>2, <1>3, <1>4
<1>8. ASSUME NEW s \in Slots(l), Used(n, s), n.buf[s].own = it.ord
      PROVE  h.slot = s /\ h.gen = n.gen[s] /\ it.at = n.buf[s].deliverAt
  <2>1. s = l.next
    <3> SUFFICES ASSUME s # l.next PROVE FALSE
      OBVIOUS
    <3>1. Used(l, s) /\ l.buf[s].own = last + 1
      BY <1>1, <1>2, <1>8
    <3>2. l.buf[s].own <= last
      BY <3>1, OwnersAdmitted
    <3> QED
      BY <3>1, <3>2
  <2> QED
    BY <1>1, <1>3, <1>4, <2>1
<1>9. Slots(n) = Slots(l)
  BY <1>1 DEF Slots
<1> QED
  BY <1>6, <1>7, <1>8, <1>9, Zenon DEF HandleOK, h

\* finalize changes no handle's standing.
LEMMA FinalizeKeepsHandle ==
  ASSUME NEW l, IsRing(l), NEW h \in Handles, ~FinalizePanics(l, h), NEW t \in Nat,
         NEW n, n = FinalizeEntry(l, h, t), NEW it \in Items, HandleOK(l, it)
  PROVE  HandleOK(n, it)
<1>1. /\ n.cap = l.cap /\ n.count = l.count /\ n.next = l.next /\ n.gen = l.gen
      /\ \A s \in Slots(l) : n.buf[s].own = l.buf[s].own
                             /\ n.buf[s].deliverAt = l.buf[s].deliverAt
  BY FinalizeParts
<1>2. Slots(n) = Slots(l) /\ \A s : Used(n, s) <=> Used(l, s)
  BY <1>1 DEF Slots, Used
<1>3. it.led.slot >= 0 => it.led.slot \in Slots(l)
  BY RingParts DEF HandleOK, Items, Handles, Slots
<1> DEFINE g == it.led
<1>4. /\ g.slot < l.cap
      /\ g.slot >= 0 => g.gen <= l.gen[g.slot]
      /\ g.slot >= 0 /\ g.gen = l.gen[g.slot] => Used(l, g.slot) /\ l.buf[g.slot].own = it.ord
      /\ \A s \in Slots(l) : Used(l, s) /\ l.buf[s].own = it.ord =>
           g.slot = s /\ g.gen = l.gen[s] /\ it.at = l.buf[s].deliverAt
  BY DEF HandleOK
<1> HIDE DEF g
<1>5. g.slot < n.cap /\ (g.slot >= 0 => g.gen <= n.gen[g.slot])
  BY <1>1, <1>4
<1>6. g.slot >= 0 /\ g.gen = n.gen[g.slot] => Used(n, g.slot) /\ n.buf[g.slot].own = it.ord
  BY <1>1, <1>2, <1>3, <1>4 DEF g
<1>7. \A s \in Slots(n) : Used(n, s) /\ n.buf[s].own = it.ord =>
        g.slot = s /\ g.gen = n.gen[s] /\ it.at = n.buf[s].deliverAt
  BY <1>1, <1>2, <1>4
<1> QED
  BY <1>5, <1>6, <1>7, Zenon DEF HandleOK, g

\* LedgerInv is an invariant.
LEMMA LedgerInductive == Spec => []LedgerInv
<1> USE DEF readerVars, egressVars, heapVars, bufVars, closeVars, ctlVars
<1>1. Init => LedgerInv
  <2> SUFFICES ASSUME Init PROVE LedgerInv
    OBVIOUS
  <2>1. Live = {} /\ epc # "panic" /\ enables = 0
    BY DEF Init, Live
  <2>2. ledger # NoLedger => LedgerCap > 0 /\ \A s \in Slots(ledger) : ~Used(ledger, s)
    <3> SUFFICES ASSUME ledger # NoLedger
                 PROVE  LedgerCap > 0 /\ \A s \in Slots(ledger) : ~Used(ledger, s)
      OBVIOUS
    <3>1. ledger = NewLedger(LedgerCap) /\ LedgerCap > 0 /\ LedgerCap \in Int
      BY BoundsAssumption DEF Init
    <3> QED
      BY <3>1, FreshRing
  <2> QED
    BY <2>1, <2>2 DEF LedgerInv
<1>2. /\ TypeOK /\ TypeOK' /\ QueueInv /\ DeliveryInv /\ RingInv /\ SentInv /\ LedgerInv
      /\ [Next]_vars
      => LedgerInv'
  <2> SUFFICES ASSUME TypeOK, TypeOK', QueueInv, DeliveryInv, RingInv, SentInv, LedgerInv,
                      [Next]_vars
               PROVE  LedgerInv'
    OBVIOUS
  <2>0. /\ egOrd \in Nat /\ now \in Nat \ {0} /\ enables \in Nat /\ LedgerCap \in Nat
        /\ ledger # NoLedger => IsRing(ledger) /\ RingOK(ledger, egOrd)
        /\ Live \subseteq Items /\ \A it \in Live : it.ord <= egOrd
    <3>1. egOrd \in Nat /\ now \in Nat \ {0} /\ enables \in Nat /\ LedgerCap \in Nat
      BY BoundsAssumption DEF TypeOK
    <3>2. ledger # NoLedger => IsRing(ledger) /\ RingOK(ledger, egOrd)
      BY LedgerIsRing DEF RingInv
    <3>3. Live \subseteq Items
      BY DEF TypeOK, Live
    <3>4. \A it \in Live : it.ord \in 1..egOrd
      BY DEF QueueInv, OrdersInv
    <3>5. \A it \in Live : it.ord <= egOrd
      BY <3>1, <3>4
    <3> QED
      BY <3>1, <3>2, <3>3, <3>5
  <2>1. CASE Admit
    <3>1. PICK it \in Items :
            /\ it.ord = egOrd + 1 /\ rpkt.recvAt \in Nat /\ it.at \in Nat
            /\ rpkt.recvAt <= it.at
            /\ it.led = IF ledger = NoLedger THEN NoHandle ELSE StartHandle(ledger)
            /\ eg' = eg \cup {it} /\ egOrd' = egOrd + 1
            /\ ledger' = IF ledger = NoLedger THEN NoLedger
                         ELSE StartEntry(ledger, rpkt.seq, rpkt.recvAt, it.at, egOrd + 1)
            /\ UNCHANGED <<hand, sent, epc, enables>>
      BY <2>1, AdmitParts
    <3>2. Live' = Live \cup {it} /\ (OneRing' <=> OneRing) /\ SentOrds' = SentOrds
      BY <3>1 DEF Live, OneRing, SentOrds
    <3>3. CASE ledger = NoLedger
      <4>1. it.led.slot < 0 /\ ledger' = NoLedger
        BY <3>1, <3>3 DEF NoHandle
      <4> QED
        BY <3>1, <3>2, <3>3, <4>1 DEF LedgerInv
    <3>4. CASE ledger # NoLedger
      <4>1. /\ IsRing(ledger) /\ RingOK(ledger, egOrd) /\ it.led = StartHandle(ledger)
            /\ ledger' = StartEntry(ledger, rpkt.seq, rpkt.recvAt, it.at, egOrd + 1)
        BY <2>0, <3>1, <3>4
      <4>2. ASSUME OneRing' PROVE \A x \in Live' : HandleOK(ledger', x)
        <5>1. HandleOK(ledger', it)
          BY <2>0, <3>1, <4>1, StartGivesHandle
        <5>2. ASSUME NEW x \in Live PROVE HandleOK(ledger', x)
          <6>1. HandleOK(ledger, x) /\ x \in Items /\ x.ord <= egOrd
            BY <2>0, <3>2, <3>4, <4>2 DEF LedgerInv
          <6> QED
            BY <2>0, <4>1, <6>1, StartKeepsHandle
        <5> QED
          BY <3>2, <5>1, <5>2
      <4>3. ASSUME OneRing', NEW s \in Slots(ledger'), Used(ledger', s)
            PROVE  EntryOK(ledger.buf[s])'
        <5> DEFINE e == [seq |-> rpkt.seq, recvAt |-> rpkt.recvAt, deliverAt |-> it.at,
                         egressAt |-> 0, own |-> egOrd + 1]
                   l == ledger
        <5>1. /\ ledger'.cap = l.cap /\ ledger'.buf[l.next] = e
              /\ \A x \in Slots(l) \ {l.next} : ledger'.buf[x] = l.buf[x]
          BY <4>1, StartParts
        <5>2. s \in Slots(ledger)
          BY <4>3, <5>1 DEF Slots
        <5>3. CASE s = ledger.next
          <6>1. ledger'.buf[s] = e
            BY <5>1, <5>3
          <6>2. e.own = egOrd + 1 /\ e.egressAt = 0 /\ e.recvAt = rpkt.recvAt /\ e.deliverAt = it.at
            OBVIOUS
          <6> HIDE DEF e
          <6>3. e.own \notin SentOrds'
            BY <2>0, <3>2, <6>2 DEF SentInv
          <6>4. ~Finalized(ledger.buf[s])'
            BY <6>1, <6>3 DEF Finalized, SentOrds
          <6> QED
            BY <3>1, <6>1, <6>2, <6>4 DEF EntryOK
        <5>4. CASE s # ledger.next
          <6>1. ledger'.buf[s] = ledger.buf[s]
            BY <5>1, <5>2, <5>4
          <6>2. Used(ledger, s)
            BY <2>0, <4>1, <4>3, <5>2, <5>4, StartUsed
          <6>3. EntryOK(ledger.buf[s])
            BY <3>2, <3>4, <4>3, <5>2, <6>2 DEF LedgerInv
          <6>4. Finalized(ledger.buf[s])' <=> Finalized(ledger.buf[s])
            BY <3>1, <6>1 DEF Finalized
          <6> QED
            BY <6>1, <6>3, <6>4 DEF EntryOK
        <5> QED
          BY <5>3, <5>4
      <4>4. ledger' # NoLedger
        BY <4>1, StartParts DEF IsRing, NoLedger, StartEntry
      <4> QED
        BY <3>1, <3>2, <3>4, <4>2, <4>3, <4>4 DEF LedgerInv
    <3> QED
      BY <3>3, <3>4
  \* The steps that leave the ring, and what its entries say, alone.
  <2>2. ASSUME UNCHANGED <<ledger, enables>>, Live' \subseteq Live,
               epc' = "panic" => ~OneRing \/ epc = "panic",
               \A k : Gone(k)' <=> Gone(k)
        PROVE  LedgerInv'
    <3>1. OneRing' <=> OneRing
      BY <2>2 DEF OneRing
    <3>2. ASSUME OneRing, ledger # NoLedger, NEW s \in Slots(ledger), Used(ledger, s)
          PROVE  EntryOK(ledger.buf[s])'
      <4>1. EntryOK(ledger.buf[s]) /\ ledger'.buf[s] = ledger.buf[s]
        BY <2>2, <3>2 DEF LedgerInv
      <4>2. Finalized(ledger.buf[s]) <=> Gone(ledger.buf[s].own)
        BY DEF Finalized, Gone, SentOrds
      <4>3. Finalized(ledger.buf[s])' <=> Gone(ledger.buf[s].own)'
        BY DEF Finalized, Gone, SentOrds
      <4>4. Gone(ledger.buf[s].own)' <=> Gone(ledger.buf[s].own)
        BY <2>2, <4>1 DEF Gone
      <4> QED
        BY <4>1, <4>2, <4>3, <4>4 DEF EntryOK
    <3>3. \A it \in Live : HandleOK(ledger', it) <=> HandleOK(ledger, it)
      BY <2>2
    <3> QED
      BY <2>2, <3>1, <3>2, <3>3 DEF LedgerInv
  <2>3. CASE EgressPop
    <3>1. PICK it \in eg : eg' = eg \ {it} /\ hand' = {it}
      BY <2>3 DEF EgressPop
    <3>2. hand = {} /\ epc' = "send" /\ UNCHANGED <<ledger, enables, sent>>
      BY <2>3 DEF EgressPop, EgressExcept, TypeOK
    <3>3. SentOrds' = SentOrds /\ Live' \subseteq Live /\ it.ord \notin SentOrds
      BY <3>1, <3>2 DEF SentOrds, Live, SentInv, Waiting
    <3>4. \A k : Gone(k)' <=> Gone(k)
      BY <3>1, <3>2, <3>3 DEF Gone
    <3> QED
      BY <2>2, <3>2, <3>3, <3>4
  <2>4. CASE SendCheck
    <3>1. /\ epc = "send" /\ UNCHANGED <<eg, ledger, enables, sent>>
          /\ \/ epc' = "lock" /\ hand' = {}
             \/ epc' = "write" /\ hand' = hand
      BY <2>4 DEF SendCheck, SendCheckExcept, EgressExcept
    <3>2. /\ SentOrds' = SentOrds /\ Live' \subseteq Live
          /\ \A it \in hand : it.ord \notin SentOrds
      BY <3>1 DEF SentOrds, Live, SentInv, Waiting, InHand
    <3>3. \A k : Gone(k)' <=> Gone(k)
      BY <3>1, <3>2 DEF Gone
    <3> QED
      BY <2>2, <3>1, <3>2, <3>3
  <2>5. CASE SendWrite
    <3>1. PICK it \in hand : SentOrds' = SentOrds \cup {it.ord}
      BY <2>5, WriteAdds
    <3>2. epc' = "final" /\ UNCHANGED <<eg, hand, ledger, enables>>
      BY <2>5 DEF SendWrite, EgressExcept
    <3>3. Live' \subseteq Live
      BY <3>2 DEF Live
    <3>4. \A k : Gone(k)' <=> Gone(k)
      BY <3>1, <3>2 DEF Gone
    <3> QED
      BY <2>2, <3>2, <3>3, <3>4
  <2>6. CASE SendPanic
    <3>1. UNCHANGED <<eg, hand, ledger, enables, sent>>
      BY <2>6 DEF SendPanic, EgressExcept
    <3>2. ~OneRing
      <4> SUFFICES ASSUME OneRing PROVE FALSE
        OBVIOUS
      <4>1. PICK it \in hand : FinalizePanics(ledger, it.led)
        BY <2>6 DEF SendPanic
      <4>2. ledger # NoLedger /\ it \in Live
        BY <2>6 DEF SendPanic, Live
      <4>3. HandleOK(ledger, it) /\ IsRing(ledger) /\ it \in Items
        BY <2>0, <4>2 DEF LedgerInv
      <4>4. it.led.slot \in Int /\ ledger.cap \in Int
        BY <4>3 DEF Items, Handles, IsRing
      <4> QED
        BY <4>1, <4>3, <4>4 DEF HandleOK, FinalizePanics
    <3>3. Live' \subseteq Live /\ \A k : Gone(k)' <=> Gone(k)
      BY <3>1 DEF Live, Gone, SentOrds
    <3> QED
      BY <2>2, <3>1, <3>2, <3>3
  <2>7. CASE Enable
    <3>1. UNCHANGED <<eg, hand, epc>> /\ enables' = enables + 1
      BY <2>7 DEF Enable, EnableLedger, ControlExcept
    <3>2. PICK a \in EnableArgs :
            ledger' = NewLedger(IF a <= 0 THEN DefaultLedgerCap ELSE a)
      BY <2>7 DEF Enable, EnableLedger
    <3>3. (IF a <= 0 THEN DefaultLedgerCap ELSE a) \in Int
      BY BoundsAssumption
    <3>4. /\ IsRing(ledger') /\ ledger' # NoLedger
          /\ \A s \in Slots(ledger') : ~Used(ledger', s)
      BY <3>2, <3>3, FreshRing
    <3>5. ASSUME OneRing' PROVE ledger = NoLedger /\ OneRing
      BY <2>0, <3>1, <3>5 DEF OneRing, LedgerInv
    <3>6. ASSUME OneRing', NEW it \in Live' PROVE HandleOK(ledger', it)
      <4>1. it \in Live /\ it \in Items
        BY <2>0, <3>1, <3>6 DEF Live
      <4>2. it.led.slot < 0 /\ it.led.slot \in Int
        BY <3>5, <3>6, <4>1 DEF LedgerInv, Items, Handles
      <4>3. ledger'.cap \in Nat \ {0}
        BY <3>4 DEF IsRing
      <4>4. it.led.slot < ledger'.cap /\ ~(it.led.slot >= 0)
        BY <4>2, <4>3
      <4> QED
        BY <3>4, <4>4 DEF HandleOK
    <3>7. enables' + (IF LedgerCap > 0 THEN 1 ELSE 0) >= 1
      BY <2>0, <3>1
    <3> QED
      BY <3>1, <3>4, <3>5, <3>6, <3>7 DEF LedgerInv
  <2>8. CASE SendFinish
    <3>1. PICK it \in hand :
            /\ ~FinalizePanics(ledger, it.led)
            /\ ledger' = IF it.led.slot >= 0 /\ ledger # NoLedger
                         THEN FinalizeEntry(ledger, it.led, now) ELSE ledger
      BY <2>8 DEF SendFinish
    <3>2. /\ epc = "final" /\ epc' = "lock" /\ hand = {it} /\ hand' = {}
          /\ UNCHANGED <<eg, sent, enables>>
      BY <2>8 DEF SendFinish, SendFinishExcept, EgressExcept, TypeOK
    <3>3. /\ Live' \subseteq Live /\ (OneRing' <=> OneRing) /\ SentOrds' = SentOrds
          /\ it \in Live /\ it \in Items /\ it.led \in Handles
      BY <3>2 DEF Live, OneRing, SentOrds, TypeOK, Items
    <3>4. CASE ledger = NoLedger
      BY <3>1, <3>2, <3>3, <3>4 DEF LedgerInv
    <3>5. CASE ledger # NoLedger
      <4>1. IsRing(ledger) /\ ledger' = FinalizeEntry(ledger, it.led, now) /\ now \in Nat
        BY <2>0, <3>1, <3>5 DEF FinalizeEntry
      <4>2. /\ ledger'.cap = ledger.cap /\ ledger'.count = ledger.count
            /\ ledger'.next = ledger.next
            /\ \A s \in Slots(ledger) :
                 /\ ledger'.buf[s].recvAt = ledger.buf[s].recvAt
                 /\ ledger'.buf[s].own = ledger.buf[s].own
                 /\ ledger'.buf[s].deliverAt = ledger.buf[s].deliverAt
                 /\ ledger'.buf[s].egressAt =
                      IF s = it.led.slot /\ ledger.gen[s] = it.led.gen THEN now
                      ELSE ledger.buf[s].egressAt
        BY <3>1, <3>3, <4>1, FinalizeParts
      <4>3. ASSUME OneRing', NEW x \in Live' PROVE HandleOK(ledger', x)
        <5>1. HandleOK(ledger, x) /\ x \in Items
          BY <2>0, <3>3, <3>5, <4>3 DEF LedgerInv
        <5> QED
          BY <3>1, <3>3, <4>1, <5>1, FinalizeKeepsHandle
      <4>4. ASSUME OneRing', NEW s \in Slots(ledger'), Used(ledger', s)
            PROVE  EntryOK(ledger.buf[s])'
        <5>1. s \in Slots(ledger) /\ Used(ledger, s)
          BY <4>2, <4>4 DEF Slots, Used
        <5>2. EntryOK(ledger.buf[s]) /\ HandleOK(ledger, it)
          BY <3>3, <3>5, <4>4, <5>1 DEF LedgerInv
        <5>3. Finalized(ledger.buf[s]) <=> Gone(ledger.buf[s].own)
          BY DEF Finalized, Gone, SentOrds
        <5>4. Finalized(ledger.buf[s])' <=> Gone(ledger.buf[s].own)'
          BY DEF Finalized, Gone, SentOrds
        <5>5. CASE ledger.buf[s].own = it.ord
          <6>1. it.led.slot = s /\ it.led.gen = ledger.gen[s] /\ it.at = ledger.buf[s].deliverAt
            BY <5>1, <5>2, <5>5 DEF HandleOK
          <6>2. it.at <= now /\ now # 0
            BY <2>0 DEF DeliveryInv
          <6>3. it.ord \in SentOrds
            BY <3>2 DEF SentInv
          <6>4. Gone(ledger.buf[s].own)'
            BY <3>2, <3>3, <4>2, <5>1, <5>5, <6>3 DEF Gone
          <6> QED
            BY <4>2, <5>1, <5>2, <5>4, <6>1, <6>2, <6>4 DEF EntryOK
        <5>6. CASE ledger.buf[s].own # it.ord
          <6>1. ~(s = it.led.slot /\ ledger.gen[s] = it.led.gen)
            <7>1. s >= 0
              BY <4>1, <5>1 DEF Slots, IsRing
            <7> QED
              BY <5>2, <5>6, <7>1 DEF HandleOK
          <6>2. Gone(ledger.buf[s].own)' <=> Gone(ledger.buf[s].own)
            BY <3>2, <3>3, <4>2, <5>1, <5>6 DEF Gone
          <6>3. ledger'.buf[s].egressAt = ledger.buf[s].egressAt
            BY <4>2, <5>1, <6>1
          <6> QED
            BY <4>2, <5>1, <5>2, <5>3, <5>4, <6>2, <6>3 DEF EntryOK
        <5> QED
          BY <5>5, <5>6
      <4>5. ledger' # NoLedger
        BY <4>1, <4>2 DEF IsRing, NoLedger
      <4> QED
        BY <3>2, <3>3, <3>5, <4>3, <4>4, <4>5 DEF LedgerInv
    <3> QED
      BY <3>4, <3>5
  <2>9. CASE /\ UNCHANGED <<ledger, egOrd, eg, hand, sent, enables>>
             /\ epc' \in {"send", "write", "final", "panic"} => epc' = epc
    <3>1. Live' \subseteq Live /\ \A k : Gone(k)' <=> Gone(k)
      BY <2>9 DEF Live, Gone, SentOrds
    <3> QED
      BY <2>2, <2>9, <3>1
  <2> QED
    BY <2>1, <2>3, <2>4, <2>5, <2>6, <2>7, <2>8, <2>9, QuietSteps
<1> QED
  BY <1>1, <1>2, TypeCorrect, QueueInductive, DeliveryInductive, RingInductive,
     SentInductive, PTL DEF Spec

\* sendItem's finalize never indexes outside the ring, whatever was admitted before
\* and after the ledger was installed, unless a ring is replaced by another one.
THEOREM NoPanicCorrect == Spec => []NoPanic
<1>1. LedgerInv => NoPanic
  BY DEF LedgerInv, NoPanic
<1> QED
  BY <1>1, LedgerInductive, PTL

\* An entry of LedgerSnapshot has an egress time exactly when its own forward went
\* out, never another's, in the order recvAt, deliverAt, egressAt, however often the
\* ring wraps under forwards in flight, unless a ring is replaced by another one.
THEOREM LedgerCorrect == Spec => []LedgerFaithful
<1>1. TypeOK /\ RingInv /\ LedgerInv => LedgerFaithful
  <2> SUFFICES ASSUME TypeOK, RingInv, LedgerInv, OneRing, ledger # NoLedger
               PROVE  LET snap == Snapshot(ledger)
                      IN  \A i \in DOMAIN snap : EntryOK(snap[i])
    BY DEF LedgerFaithful, EntriesFaithful, EntryOK
  <2> DEFINE snap == Snapshot(ledger)
  <2> SUFFICES ASSUME NEW i \in DOMAIN snap PROVE EntryOK(snap[i])
    OBVIOUS
  <2>1. IsRing(ledger) /\ RingOK(ledger, egOrd) /\ egOrd \in Nat
    BY LedgerIsRing DEF RingInv, TypeOK
  <2>2. PICK s \in Slots(ledger) : Used(ledger, s) /\ snap[i] = ledger.buf[s]
    BY <2>1, SnapshotSlots
  <2>3. EntryOK(ledger.buf[s])
    BY <2>2 DEF LedgerInv
  <2> HIDE DEF snap
  <2> QED
    BY <2>2, <2>3
<1> QED
  BY <1>1, TypeCorrect, RingInductive, LedgerInductive, PTL
-----------------------------------------------------------------------------
\* A set of numbers that is not empty has a least one.
LEMMA LeastNat ==
  ASSUME NEW T, T \subseteq Nat, T # {}
  PROVE  \E x \in T : \A y \in T : x <= y
<1> DEFINE R == OpToRel(<, Nat)
<1>1. IsWellFoundedOn(R, Nat)
  BY NatLessThanWellFounded
<1>2. \E x \in T : \A y \in T : ~ (<<y, x>> \in R)
  <2> HIDE DEF R
  <2> QED
    BY <1>1, WFMin
<1>3. \A x, y \in Nat : <<y, x>> \in R <=> y < x
  BY DEF OpToRel
<1> HIDE DEF R
<1>4. PICK x \in T : \A y \in T : ~ (<<y, x>> \in R)
  BY <1>2
<1>5. ASSUME NEW y \in T PROVE x <= y
  <2>1. x \in Nat /\ y \in Nat
    OBVIOUS
  <2>2. ~ (y < x)
    BY <2>1, <1>3, <1>4
  <2> QED
    BY <2>1, <2>2
<1> QED
  BY <1>5

\* A sample: some numbers.
Sample(xs) ==
  /\ IsFiniteSet(DOMAIN xs) /\ DOMAIN xs # {}
  /\ xs = [i \in DOMAIN xs |-> xs[i]] /\ \A i \in DOMAIN xs : xs[i] \in Int

\* How many values lie below a number and how many up to it are numbers, and grow.
LEMMA SampleCounts ==
  ASSUME NEW xs, Sample(xs), NEW x \in Int
  PROVE  /\ IsFiniteSet({i \in DOMAIN xs : xs[i] < x})
         /\ IsFiniteSet({i \in DOMAIN xs : xs[i] <= x})
         /\ Below(xs, x) \in Nat /\ UpTo(xs, x) \in Nat
         /\ Cardinality(DOMAIN xs) \in Nat /\ UpTo(xs, x) <= Cardinality(DOMAIN xs)
<1>1. {i \in DOMAIN xs : xs[i] < x} \subseteq DOMAIN xs
  OBVIOUS
<1>2. {i \in DOMAIN xs : xs[i] <= x} \subseteq DOMAIN xs
  OBVIOUS
<1>3. IsFiniteSet({i \in DOMAIN xs : xs[i] < x})
  BY <1>1, FS_Subset DEF Sample
<1>4. /\ IsFiniteSet({i \in DOMAIN xs : xs[i] <= x})
      /\ Cardinality({i \in DOMAIN xs : xs[i] <= x}) <= Cardinality(DOMAIN xs)
  BY <1>2, FS_Subset DEF Sample
<1>5. Cardinality(DOMAIN xs) \in Nat
  BY FS_CardinalityType DEF Sample
<1>6. Below(xs, x) \in Nat
  BY <1>3, FS_CardinalityType DEF Below
<1>7. UpTo(xs, x) \in Nat
  BY <1>4, FS_CardinalityType DEF UpTo
<1> QED
  BY <1>3, <1>4, <1>5, <1>6, <1>7 DEF UpTo

\* A larger value of the sample has more values up to it.
LEMMA UpToGrows ==
  ASSUME NEW xs, Sample(xs), NEW i \in DOMAIN xs, NEW j \in DOMAIN xs, xs[i] < xs[j]
  PROVE  UpTo(xs, xs[i]) < UpTo(xs, xs[j])
<1> DEFINE S == {n \in DOMAIN xs : xs[n] <= xs[i]}
           T == {n \in DOMAIN xs : xs[n] <= xs[j]}
<1>1. xs[i] \in Int /\ xs[j] \in Int /\ \A n \in DOMAIN xs : xs[n] \in Int
  BY DEF Sample
<1>2. S \subseteq T /\ j \in T /\ j \notin S
  BY <1>1
<1>3. /\ IsFiniteSet(T) /\ Cardinality(S) = UpTo(xs, xs[i]) /\ Cardinality(T) = UpTo(xs, xs[j])
      /\ UpTo(xs, xs[i]) \in Nat /\ UpTo(xs, xs[j]) \in Nat
  BY <1>1, SampleCounts DEF UpTo
<1> HIDE DEF S, T
<1>4. Cardinality(S) <= Cardinality(T) /\ (Cardinality(S) = Cardinality(T) => S = T)
  BY <1>2, <1>3, FS_Subset
<1> QED
  BY <1>2, <1>3, <1>4

\* Any part of a sample that is not empty has a greatest value.
LEMMA GreatestAt ==
  ASSUME NEW xs, Sample(xs), NEW E, E \subseteq DOMAIN xs, E # {}
  PROVE  \E m \in E : \A i \in E : xs[i] <= xs[m]
<1> DEFINE above(i) == Cardinality(DOMAIN xs) - UpTo(xs, xs[i])
           T == {above(i) : i \in E}
<1>1. \A i \in DOMAIN xs :
        /\ xs[i] \in Int /\ UpTo(xs, xs[i]) \in Nat
        /\ Cardinality(DOMAIN xs) \in Nat /\ UpTo(xs, xs[i]) <= Cardinality(DOMAIN xs)
  <2> TAKE i \in DOMAIN xs
  <2>1. xs[i] \in Int
    BY DEF Sample
  <2> QED
    BY <2>1, SampleCounts
<1>2. T \subseteq Nat /\ T # {}
  <2>1. \A i \in E : above(i) \in Nat
    BY <1>1
  <2> QED
    BY <2>1
<1>3. PICK t \in T : \A u \in T : t <= u
  BY <1>2, LeastNat
<1>4. PICK m \in E : t = above(m)
  BY <1>3
<1>5. ASSUME NEW i \in E PROVE xs[i] <= xs[m]
  <2>1. above(m) <= above(i)
    BY <1>3, <1>4
  <2>2. i \in DOMAIN xs /\ m \in DOMAIN xs /\ xs[i] \in Int /\ xs[m] \in Int
    BY <1>1
  <2>3. xs[m] < xs[i] => UpTo(xs, xs[m]) < UpTo(xs, xs[i])
    BY <2>2, UpToGrows
  <2>4. UpTo(xs, xs[i]) <= UpTo(xs, xs[m])
    BY <2>1, <2>2, <1>1
  <2> QED
    BY <1>1, <2>2, <2>3, <2>4
<1> QED
  BY <1>5

\* Every rank has its value: sorting loses none.
LEMMA RankedExists ==
  ASSUME NEW xs, Sample(xs), NEW k \in 0..(Cardinality(DOMAIN xs) - 1)
  PROVE  \E x \in {xs[i] : i \in DOMAIN xs} : Below(xs, x) <= k /\ k < UpTo(xs, x)
<1> DEFINE n == Cardinality(DOMAIN xs)
           E == {i \in DOMAIN xs : k < UpTo(xs, xs[i])}
           T == {UpTo(xs, xs[i]) : i \in E}
<1>1. /\ \A i \in DOMAIN xs :
           xs[i] \in Int /\ UpTo(xs, xs[i]) \in Nat /\ Below(xs, xs[i]) \in Nat
      /\ n \in Nat
  <2>1. n \in Nat
    BY FS_CardinalityType DEF Sample
  <2>2. ASSUME NEW i \in DOMAIN xs
        PROVE  xs[i] \in Int /\ UpTo(xs, xs[i]) \in Nat /\ Below(xs, xs[i]) \in Nat
    <3>1. xs[i] \in Int
      BY DEF Sample
    <3> QED
      BY <3>1, SampleCounts
  <2> QED
    BY <2>1, <2>2
<1>2. PICK top \in DOMAIN xs : \A i \in DOMAIN xs : xs[i] <= xs[top]
  BY GreatestAt DEF Sample
<1>3. {i \in DOMAIN xs : xs[i] <= xs[top]} = DOMAIN xs
  BY <1>2
<1>4. UpTo(xs, xs[top]) = n
  BY <1>3 DEF UpTo
<1>5. top \in E
  BY <1>1, <1>4
<1>6. T \subseteq Nat /\ T # {}
  BY <1>1, <1>5
<1>7. PICK t \in T : \A u \in T : t <= u
  BY <1>6, LeastNat
<1>8. PICK m \in E : t = UpTo(xs, xs[m])
  BY <1>7
<1>9. Below(xs, xs[m]) <= k
  <2> SUFFICES ASSUME ~ (Below(xs, xs[m]) <= k) PROVE FALSE
    OBVIOUS
  <2> DEFINE B == {i \in DOMAIN xs : xs[i] < xs[m]}
  <2>1. m \in DOMAIN xs /\ xs[m] \in Int
    BY <1>1
  <2>2. k < Cardinality(B)
    BY <1>1, <2>1 DEF Below
  <2>3. B # {} /\ B \subseteq DOMAIN xs /\ IsFiniteSet(B)
    <3>1. B = {} => Cardinality(B) = 0
      BY FS_EmptySet
    <3>2. IsFiniteSet(B)
      BY <2>1, SampleCounts
    <3> HIDE DEF B
    <3>3. B # {}
      BY <2>2, <3>1
    <3>4. B \subseteq DOMAIN xs
      BY DEF B
    <3> QED
      BY <3>2, <3>3, <3>4
  <2>4. PICK b \in B : \A i \in B : xs[i] <= xs[b]
    BY <2>3, GreatestAt
  <2>5. b \in DOMAIN xs /\ xs[b] < xs[m] /\ xs[b] \in Int
    BY <1>1, <2>4
  <2>6. UpTo(xs, xs[b]) < UpTo(xs, xs[m])
    BY <2>1, <2>5, UpToGrows
  <2>7. Cardinality(B) <= UpTo(xs, xs[b])
    <3> DEFINE U == {i \in DOMAIN xs : xs[i] <= xs[b]}
    <3>1. B \subseteq U
      BY <2>4
    <3>2. IsFiniteSet(U) /\ UpTo(xs, xs[b]) = Cardinality(U)
      BY <2>5, SampleCounts DEF UpTo
    <3> HIDE DEF B, U
    <3> QED
      BY <3>1, <3>2, FS_Subset
  <2>8. k < UpTo(xs, xs[b])
    <3>1. Cardinality(B) \in Nat
      BY <2>3, FS_CardinalityType
    <3> HIDE DEF B
    <3> QED
      BY <1>1, <2>2, <2>5, <2>7, <3>1
  <2>9. UpTo(xs, xs[b]) \in T
    BY <2>5, <2>8
  <2>10. UpTo(xs, xs[m]) <= UpTo(xs, xs[b])
    BY <1>7, <1>8, <2>9
  <2> QED
    BY <1>1, <2>1, <2>5, <2>6, <2>10
<1> QED
  BY <1>8, <1>9

\* The value of a rank is one of the sample's, and lies where the rank says.
LEMMA RankedParts ==
  ASSUME NEW xs, Sample(xs), NEW k \in 0..(Cardinality(DOMAIN xs) - 1)
  PROVE  /\ \E i \in DOMAIN xs : Ranked(xs, k) = xs[i]
         /\ Ranked(xs, k) \in Int
         /\ Below(xs, Ranked(xs, k)) <= k /\ k < UpTo(xs, Ranked(xs, k))
<1>1. /\ Ranked(xs, k) \in {xs[i] : i \in DOMAIN xs}
      /\ Below(xs, Ranked(xs, k)) <= k /\ k < UpTo(xs, Ranked(xs, k))
  BY RankedExists DEF Ranked
<1> QED
  BY <1>1 DEF Sample

\* A higher rank of a sample that is nowhere smaller has no smaller value.
LEMMA RankedGrows ==
  ASSUME NEW xs, Sample(xs), NEW ys, Sample(ys), DOMAIN ys = DOMAIN xs,
         \A i \in DOMAIN xs : xs[i] <= ys[i],
         NEW k \in 0..(Cardinality(DOMAIN xs) - 1), NEW l \in 0..(Cardinality(DOMAIN xs) - 1),
         k <= l
  PROVE  Ranked(xs, k) <= Ranked(ys, l)
<1>1. PICK r \in Int : r = Ranked(xs, k) /\ Below(xs, r) <= k
  BY RankedParts
<1>2. PICK s \in Int : s = Ranked(ys, l) /\ l < UpTo(ys, s)
  BY RankedParts
<1> SUFFICES ASSUME s < r PROVE FALSE
  BY <1>1, <1>2
<1> DEFINE U == {i \in DOMAIN ys : ys[i] <= s}
           B == {i \in DOMAIN xs : xs[i] < r}
<1>3. U \subseteq B
  BY DEF Sample
<1>4. IsFiniteSet(B) /\ Below(xs, r) = Cardinality(B) /\ Below(xs, r) \in Nat
  BY SampleCounts DEF Below
<1>5. UpTo(ys, s) = Cardinality(U) /\ UpTo(ys, s) \in Nat
  BY SampleCounts DEF UpTo
<1> HIDE DEF U, B
<1>6. Cardinality(U) <= Cardinality(B)
  BY <1>3, <1>4, FS_Subset
<1>7. k \in Int /\ l \in Int
  BY FS_CardinalityType DEF Sample
<1> QED
  BY <1>1, <1>2, <1>4, <1>5, <1>6, <1>7

\* The indices nearestRank takes for 50 and for 99 percent are within the sample: the
\* clamps behind them never bite.
LEMMA RankBounds ==
  ASSUME NEW n \in Nat \ {0}
  PROVE  /\ RankIndex(n, 50) \in 0..(n - 1) /\ RankIndex(n, 99) \in 0..(n - 1)
         /\ RankIndex(n, 50) <= RankIndex(n, 99)
BY DEF RankIndex

\* The quantiles of samples, and of one that is nowhere smaller.
LEMMA QuantilesGrow ==
  ASSUME NEW P, IsFiniteSet(P), NEW xs \in [P -> Int], NEW ys \in [P -> Int],
         \A i \in P : 0 <= xs[i] /\ xs[i] <= ys[i]
  PROVE  /\ 0 <= QuantileOf(xs).p50 /\ QuantileOf(xs).p50 <= QuantileOf(xs).p99
         /\ QuantileOf(xs).p50 <= QuantileOf(ys).p50
         /\ QuantileOf(xs).p99 <= QuantileOf(ys).p99
<1>1. DOMAIN xs = P /\ DOMAIN ys = P
  OBVIOUS
<1>2. CASE P = {}
  BY <1>1, <1>2 DEF QuantileOf
<1>3. CASE P # {}
  <2>1. Sample(xs) /\ Sample(ys)
    BY <1>1, <1>3 DEF Sample
  <2>2. PICK n \in Nat \ {0} : n = Cardinality(P)
    BY <1>3, FS_CardinalityType, FS_EmptySet
  <2>3. /\ QuantileOf(xs).p50 = Ranked(xs, RankIndex(n, 50))
        /\ QuantileOf(xs).p99 = Ranked(xs, RankIndex(n, 99))
        /\ QuantileOf(ys).p50 = Ranked(ys, RankIndex(n, 50))
        /\ QuantileOf(ys).p99 = Ranked(ys, RankIndex(n, 99))
    BY <1>1, <1>3, <2>2 DEF QuantileOf, NearestRank
  <2>4. PICK k \in 0..(n - 1), l \in 0..(n - 1) :
          k = RankIndex(n, 50) /\ l = RankIndex(n, 99) /\ k <= l
    BY <2>2, RankBounds
  <2>5. \A i \in P : xs[i] <= xs[i]
    OBVIOUS
  <2>6. Ranked(xs, k) <= Ranked(xs, l)
    BY <1>1, <2>1, <2>2, <2>4, <2>5, RankedGrows
  <2>7. Ranked(xs, k) <= Ranked(ys, k)
    BY <1>1, <2>1, <2>2, <2>4, RankedGrows
  <2>8. Ranked(xs, l) <= Ranked(ys, l)
    BY <1>1, <2>1, <2>2, <2>4, RankedGrows
  <2>9. \E i \in P : Ranked(xs, k) = xs[i]
    BY <1>1, <2>1, <2>2, RankedParts
  <2> QED
    BY <2>3, <2>4, <2>6, <2>7, <2>8, <2>9
<1> QED
  BY <1>2, <1>3

\* The delays of entries that are as they should be: each component is a delay, and
\* staying in the relay takes as long as both of the others.
LEMMA PartsOrdered ==
  ASSUME NEW snap, NEW P, IsFiniteSet(P), NEW owd, owd = DecomposedOver(snap, P),
         \A i \in P : /\ snap[i] \in Entries /\ snap[i].recvAt <= snap[i].deliverAt
                      /\ snap[i].deliverAt <= snap[i].egressAt
  PROVE  \A part \in {owd.queue, owd.overhead} :
           /\ 0 <= part.p50 /\ part.p50 <= part.p99
           /\ part.p50 <= owd.residence.p50 /\ part.p99 <= owd.residence.p99
<1> DEFINE queue == [i \in P |-> snap[i].deliverAt - snap[i].recvAt]
           overhead == [i \in P |-> snap[i].egressAt - snap[i].deliverAt]
           residence == [i \in P |-> snap[i].egressAt - snap[i].recvAt]
<1>1. \A i \in P : snap[i].recvAt \in Nat /\ snap[i].deliverAt \in Nat /\ snap[i].egressAt \in Nat
  BY DEF Entries
<1>2. /\ queue \in [P -> Int] /\ overhead \in [P -> Int] /\ residence \in [P -> Int]
      /\ \A i \in P : /\ 0 <= queue[i] /\ queue[i] <= residence[i]
                      /\ 0 <= overhead[i] /\ overhead[i] <= residence[i]
  BY <1>1
<1>3. /\ owd.queue = QuantileOf(queue) /\ owd.overhead = QuantileOf(overhead)
      /\ owd.residence = QuantileOf(residence)
  BY DEF DecomposedOver
<1> HIDE DEF queue, overhead, residence
<1>4. /\ 0 <= owd.queue.p50 /\ owd.queue.p50 <= owd.queue.p99
      /\ owd.queue.p50 <= owd.residence.p50 /\ owd.queue.p99 <= owd.residence.p99
  BY <1>2, <1>3, QuantilesGrow
<1>5. /\ 0 <= owd.overhead.p50 /\ owd.overhead.p50 <= owd.overhead.p99
      /\ owd.overhead.p50 <= owd.residence.p50 /\ owd.overhead.p99 <= owd.residence.p99
  BY <1>2, <1>3, QuantilesGrow
<1> QED
  BY <1>4, <1>5

\* For every capacity and number of datagrams: the decomposition covers the recent
\* forwards that went out and no other, its components are delays, and at each
\* quantile residence is no less than either of its parts (DecomposedOWD).
THEOREM OwdProved == Spec => []OwdAttributed
<1>1. TypeOK /\ RingInv /\ LedgerInv => OwdAttributed
  <2> SUFFICES ASSUME TypeOK, RingInv, LedgerInv, OneRing, ledger # NoLedger,
                      NEW snap, snap = Snapshot(ledger), NEW owd, owd = DecomposedOWD(snap)
               PROVE  /\ owd.n = Cardinality({i \in DOMAIN snap : Finalized(snap[i])})
                      /\ \A part \in {owd.queue, owd.overhead} :
                           /\ 0 <= part.p50 /\ part.p50 <= part.p99
                           /\ part.p50 <= owd.residence.p50
                           /\ part.p99 <= owd.residence.p99
    BY DEF OwdAttributed
  <2> DEFINE P == {i \in DOMAIN snap : snap[i].egressAt # 0}
  <2>1. IsRing(ledger) /\ RingOK(ledger, egOrd) /\ egOrd \in Nat
    BY LedgerIsRing DEF RingInv, TypeOK
  <2>2. /\ DOMAIN snap = 1..Min2(ledger.count, ledger.cap)
        /\ \A i \in DOMAIN snap :
             \E s \in Slots(ledger) : Used(ledger, s) /\ snap[i] = ledger.buf[s]
    BY <2>1, SnapshotSlots
  <2>3. \A s \in Slots(ledger) : ledger.buf[s] \in Entries
    BY <2>1, RingParts DEF Slots
  <2>4. \A i \in DOMAIN snap : snap[i] \in Entries /\ EntryOK(snap[i])
    <3> TAKE i \in DOMAIN snap
    <3>1. PICK s \in Slots(ledger) : Used(ledger, s) /\ snap[i] = ledger.buf[s]
      BY <2>2
    <3>2. EntryOK(ledger.buf[s])
      BY <3>1 DEF LedgerInv
    <3> QED
      BY <2>3, <3>1, <3>2
  <2>5. IsFiniteSet(P)
    <3>1. Min2(ledger.count, ledger.cap) \in Nat
      BY <2>1, RingParts DEF Min2
    <3>2. IsFiniteSet(DOMAIN snap)
      BY <2>2, <3>1, FS_Interval
    <3>3. P \subseteq DOMAIN snap
      OBVIOUS
    <3> HIDE DEF P
    <3> QED
      BY <3>2, <3>3, FS_Subset
  <2>6. owd = DecomposedOver(snap, P)
    BY DEF DecomposedOWD
  <2>7. \A i \in P : /\ snap[i] \in Entries /\ snap[i].recvAt <= snap[i].deliverAt
                     /\ snap[i].deliverAt <= snap[i].egressAt
    BY <2>4 DEF EntryOK
  <2>8. P = {i \in DOMAIN snap : Finalized(snap[i])}
    BY <2>4 DEF EntryOK
  <2> HIDE DEF P
  <2>9. owd.n = Cardinality(P)
    BY <2>6 DEF DecomposedOver
  <2> QED
    BY <2>5, <2>6, <2>7, <2>8, <2>9, PartsOrdered
<1> QED
  BY <1>1, TypeCorrect, RingInductive, LedgerInductive, PTL
=============================================================================
