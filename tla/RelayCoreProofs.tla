-------------------------- MODULE RelayCoreProofs --------------------------
(***************************************************************************)
(* Theorems about RelayCore, for every value of its constants: types,      *)
(* wake-ups, closing and buffers; the conservation of forwards; and that   *)
(* it implements the delay line.                                           *)
(***************************************************************************)
EXTENDS RelayCore, FiniteSetTheorems, FunctionTheorems, SequenceTheorems, TLAPS

\* What a ledger pointer may be: nil, or a ring of some positive capacity.
LedgerType(l) == l = NoLedger \/ (l.cap \in Nat \ {0} /\ l \in Ledgers(l.cap))

\* newLedger makes a ring.
LEMMA NewLedgerType ==
  ASSUME NEW c \in Int
  PROVE  /\ NewLedger(c) \in Ledgers(NewLedger(c).cap)
         /\ NewLedger(c).cap \in Nat \ {0}
<1> DEFINE cap == IF c < 1 THEN 1 ELSE c
<1>1. cap \in Nat \ {0} /\ 0 \in 0..(cap - 1)
  OBVIOUS
<1>2. NewLedger(c).cap = cap
  BY DEF NewLedger
<1>3. ZeroEntry \in Entries
  BY DEF ZeroEntry, Entries
<1> QED
  BY <1>1, <1>2, <1>3 DEF NewLedger, Ledgers

\* start keeps a ring a ring of the same capacity, and returns a handle.
LEMMA StartEntryType ==
  ASSUME NEW l, l.cap \in Nat \ {0}, l \in Ledgers(l.cap),
         NEW s \in Nat, NEW r \in Nat, NEW d \in Nat, NEW o \in Nat
  PROVE  /\ StartEntry(l, s, r, d, o) \in Ledgers(l.cap)
         /\ StartEntry(l, s, r, d, o).cap = l.cap
         /\ StartHandle(l) \in Handles
<1> DEFINE cap == l.cap
           next == l.next
<1>1. /\ cap \in Nat \ {0} /\ next \in 0..(cap - 1) /\ l.count \in Nat
      /\ l.buf \in [0..(cap - 1) -> Entries] /\ l.gen \in [0..(cap - 1) -> Nat]
  BY DEF Ledgers
<1>3. (next + 1) % cap \in 0..(cap - 1)
  <2> HIDE DEF cap, next
  <2> QED BY <1>1
<1>4. /\ [l.gen EXCEPT ![next] = @ + 1] \in [0..(cap - 1) -> Nat]
      /\ l.gen[next] + 1 \in Nat /\ next \in Int
  <2> HIDE DEF cap, next
  <2> QED BY <1>1
<1>2. [seq |-> s, recvAt |-> r, deliverAt |-> d, egressAt |-> 0, own |-> o] \in Entries
  BY DEF Entries
<1>5. [l.buf EXCEPT ![next] = [seq |-> s, recvAt |-> r, deliverAt |-> d,
                               egressAt |-> 0, own |-> o]]
        \in [0..(cap - 1) -> Entries]
  <2> HIDE DEF cap, next
  <2> QED BY <1>1, <1>2
<1>6. StartEntry(l, s, r, d, o) \in Ledgers(cap)
  <2> DEFINE g == [l.gen EXCEPT ![next] = @ + 1]
             b == [l.buf EXCEPT ![next] = [seq |-> s, recvAt |-> r, deliverAt |-> d,
                                           egressAt |-> 0, own |-> o]]
             n == (next + 1) % cap
             k == l.count + 1
  <2>1. StartEntry(l, s, r, d, o) =
          [cap |-> cap, gen |-> g, buf |-> b, next |-> n, count |-> k]
    BY DEF StartEntry
  <2>2. k \in Nat
    BY <1>1
  <2>3. cap \in Nat \ {0} /\ g \in [0..(cap - 1) -> Nat]
        /\ b \in [0..(cap - 1) -> Entries] /\ n \in 0..(cap - 1)
    BY <1>1, <1>3, <1>4, <1>5
  <2> HIDE DEF cap, next, g, b, n, k
  <2> QED BY <2>1, <2>2, <2>3 DEF Ledgers
<1>7. StartHandle(l) \in Handles
  BY <1>4 DEF StartHandle, Handles
<1> QED
  BY <1>6, <1>7 DEF StartEntry

\* finalize keeps a ring a ring of the same capacity.
LEMMA FinalizeEntryType ==
  ASSUME NEW l, l.cap \in Nat \ {0}, l \in Ledgers(l.cap),
         NEW h \in Handles, ~FinalizePanics(l, h), NEW t \in Nat
  PROVE  /\ FinalizeEntry(l, h, t) \in Ledgers(l.cap)
         /\ FinalizeEntry(l, h, t).cap = l.cap
<1>1. CASE h.slot >= 0 /\ l.gen[h.slot] = h.gen
  <2>1. h.slot \in 0..(l.cap - 1)
    BY <1>1 DEF FinalizePanics, Handles
  <2>2. [l.buf[h.slot] EXCEPT !.egressAt = t] \in Entries
    BY <2>1 DEF Ledgers, Entries
  <2> QED
    BY <1>1, <2>1, <2>2 DEF FinalizeEntry, Ledgers
<1>2. CASE ~(h.slot >= 0 /\ l.gen[h.slot] = h.gen)
  BY <1>2 DEF FinalizeEntry
<1> QED
  BY <1>1, <1>2

\* Every reachable state is well typed: in particular egress holds a forward, and
\* enqueue a buffer, exactly at the steps whose code has one in a local variable,
\* and the ledger pointer is nil or a ring whose cursor is inside it.
THEOREM TypeCorrect == Spec => []TypeOK
<1> USE BoundsAssumption, EnginesAssumption DEF
      readerVars, egressVars, heapVars, bufVars, closeVars, ctlVars
<1>1. Init => TypeOK
  <2> SUFFICES ASSUME Init PROVE TypeOK
    OBVIOUS
  <2>1. LedgerType(ledger)
    BY NewLedgerType DEF Init, LedgerType
  <2>2. cpc \in [Closers -> CloserPCs] /\ engSeq \in [Engines -> Nat]
        /\ mem \in [Buffers -> Nat]
    BY DEF Init, CloserPCs
  <2>3. /\ rpkt \in [id : Nat, seq : Nat, recvAt : Nat]
        /\ acts \in Seq(Action)
        /\ sent \in Seq([at : Nat, ord : Nat, pkt : Nat, data : Nat])
    BY DEF Init, NoPacket
  <2>4. wake \in BOOLEAN /\ closed \in BOOLEAN /\ sockOpen \in BOOLEAN
    BY Zenon DEF Init
  <2>5. /\ IF rpc = "admit" THEN acts # << >> /\ \E b \in Buffers : rbuf = {b}
                            ELSE rbuf = {}
        /\ hand \subseteq Items
        /\ IF epc \in {"send", "write", "final", "panic"}
           THEN \E it \in hand : hand = {it} ELSE hand = {}
    BY DEF Init
  <2>6. /\ now \in Nat \ {0} /\ eng \in Engines /\ eg \subseteq Items /\ egOrd \in Nat
        /\ pool \subseteq Buffers /\ fwd \in Nat /\ drop \in Nat /\ tailDrop \in Nat
        /\ deadline \in {"none", "future", "past"} /\ rpc \in ReaderPCs
        /\ epc \in EgressPCs /\ timer \in Nat /\ enables \in Nat /\ swaps \in Nat
        /\ read \in Nat /\ emitted \in Nat /\ discarded \in Nat /\ target \in Nat
    BY DEF Init, ReaderPCs, EgressPCs
  <2> QED
    BY <2>1, <2>2, <2>3, <2>4, <2>5, <2>6, Zenon DEF TypeOK, LedgerType
<1>2. TypeOK /\ [Next]_vars => TypeOK'
  <2> SUFFICES ASSUME TypeOK, [Next]_vars
               PROVE  TypeOK'
    OBVIOUS
  <2>1. CASE ReadCheck
    BY <2>1 DEF ReadCheck, TypeOK, ReaderPCs, EgressPCs, ReaderExcept
  <2>2. CASE ReadArm
    BY <2>2 DEF ReadArm, TypeOK, ReaderPCs, EgressPCs, ReaderExcept
  <2>3. CASE ReadDatagram
    BY <2>3 DEF ReadDatagram, TypeOK, ReaderPCs, EgressPCs, ReaderExcept
  <2>4. CASE ReadTimeout
    BY <2>4 DEF ReadTimeout, TypeOK, ReaderPCs, EgressPCs, ReaderExcept
  <2>5. CASE ReadError
    BY <2>5 DEF ReadError, TypeOK, ReaderPCs, EgressPCs, ReaderExcept
  <2>6. CASE Handle
    <3>1. PICK plan \in Plans[eng] : acts' = plan /\ emitted' = emitted + Len(plan)
      BY <2>6 DEF Handle
    <3>2. acts' \in Seq(Action) /\ emitted' \in Nat
      BY <3>1 DEF TypeOK
    <3>3. engSeq' \in [Engines -> Nat] /\ rpkt' \in [id : Nat, seq : Nat, recvAt : Nat]
      <4>1. eng \in Engines /\ engSeq \in [Engines -> Nat]
            /\ rpkt \in [id : Nat, seq : Nat, recvAt : Nat]
        BY DEF TypeOK
      <4>2. engSeq[eng] + 1 \in Nat
        BY <4>1
      <4>3. engSeq' = [engSeq EXCEPT ![eng] = engSeq[eng] + 1]
            /\ rpkt' = [rpkt EXCEPT !.seq = engSeq[eng] + 1]
        BY <2>6 DEF Handle
      <4> QED
        BY <4>1, <4>2, <4>3
    <3>4. /\ rpc = "handle" /\ rpc' = "process"
          /\ UNCHANGED <<now, wake, ledger, fwd, drop, tailDrop, heapVars, bufVars,
                         egressVars, closeVars, ctlVars, deadline, rbuf, read>>
      BY <2>6 DEF Handle
    <3> QED
      BY <3>2, <3>3, <3>4 DEF TypeOK, ReaderPCs
  <2>7. CASE ProcessDrop
    BY <2>7 DEF ProcessDrop, TypeOK, ReaderPCs, EgressPCs
  <2>8. CASE ProcessDone
    BY <2>8 DEF ProcessDone, TypeOK, ReaderPCs, EgressPCs, ReaderExcept, NoPacket
  <2>9. CASE GetBuf
    BY <2>9 DEF GetBuf, TypeOK, ReaderPCs, EgressPCs
  <2>10. CASE Admit
    <3>1. PICK b \in rbuf :
            /\ eg' = eg \cup {NewItem(b)}
            /\ egOrd' = egOrd + 1
            /\ ledger' = IF ledger = NoLedger THEN NoLedger
                         ELSE StartEntry(ledger, rpkt.seq, rpkt.recvAt,
                                         NewItem(b).at, NewItem(b).ord)
            /\ rpc' \in {"wake", "process"}
      BY <2>10 DEF Admit
    <3>2. rpkt.recvAt + Head(acts).delay \in Nat
      <4>1. acts \in Seq(Action) /\ acts # << >> /\ rpkt.recvAt \in Nat
        BY <2>10 DEF Admit, TypeOK
      <4>2. Head(acts) \in Action
        BY <4>1
      <4>3. Head(acts).delay \in 0..MaxDelay
        BY <4>2 DEF Action
      <4> QED
        BY <4>1, <4>3
    <3>3. /\ LedgerType(ledger)
          /\ ledger # NoLedger => StartHandle(ledger) \in Handles
      <4>1. LedgerType(ledger)
        BY DEF TypeOK, LedgerType
      <4>2. ASSUME ledger # NoLedger PROVE StartHandle(ledger) \in Handles
        <5>1. ledger.cap \in Nat \ {0} /\ ledger \in Ledgers(ledger.cap)
          BY <4>1, <4>2 DEF LedgerType
        <5> QED
          BY <5>1, StartEntryType
      <4> QED
        BY <4>1, <4>2
    <3>4. NewItem(b) \in Items
      BY <3>1, <3>2, <3>3, <2>10 DEF NewItem, Items, Handles, NoHandle, TypeOK, Admit
    <3>5. LedgerType(ledger')
      <4>1. /\ rpkt.seq \in Nat /\ rpkt.recvAt \in Nat
            /\ NewItem(b).at \in Nat /\ NewItem(b).ord \in Nat
        BY <3>4 DEF TypeOK, Items
      <4>2. CASE ledger = NoLedger
        BY <3>1, <4>2 DEF LedgerType
      <4>3. CASE ledger # NoLedger
        <5>1. ledger.cap \in Nat \ {0} /\ ledger \in Ledgers(ledger.cap)
          BY <3>3, <4>3 DEF LedgerType
        <5> QED
          <6> DEFINE at == NewItem(b).at
                     ord == NewItem(b).ord
                     ring == StartEntry(ledger, rpkt.seq, rpkt.recvAt, at, ord)
          <6>1. ledger' = ring
            BY <3>1, <4>3
          <6>2. at \in Nat /\ ord \in Nat /\ rpkt.seq \in Nat /\ rpkt.recvAt \in Nat
            BY <4>1
          <6>3. ring.cap = ledger.cap
            BY DEF StartEntry
          <6> HIDE DEF at, ord
          <6>4. ring \in Ledgers(ledger.cap)
            BY <6>2, <5>1, StartEntryType
          <6> HIDE DEF ring
          <6> QED
            BY <6>1, <6>3, <6>4, <5>1 DEF LedgerType
      <4> QED
        BY <4>2, <4>3
    <3> QED
      BY <2>10, <3>1, <3>4, <3>5 DEF Admit, TypeOK, LedgerType, ReaderPCs
  <2>11. CASE TailDrop
    BY <2>11 DEF TailDrop, TypeOK, ReaderPCs, EgressPCs, TailDropExcept
  <2>12. CASE SendWake
    BY <2>12 DEF SendWake, TypeOK, ReaderPCs, EgressPCs, SendWakeExcept
  <2>13. CASE EgressPop
    BY <2>13 DEF EgressPop, TypeOK, ReaderPCs, EgressPCs, EgressExcept
  <2>14. CASE EgressPark
    <3>1. timer' \in Nat /\ target' \in Nat
      <4>1. CASE timer' = Hour /\ target' = 0
        BY <4>1
      <4>2. CASE \E it \in eg : timer' = Min2(it.at - now, Hour) /\ target' = it.ord
        <5>1. PICK it \in eg : timer' = Min2(it.at - now, Hour) /\ target' = it.ord
          BY <4>2
        <5>2. it.at > now /\ it.at \in Nat /\ it.ord \in Nat /\ now \in Nat
          BY <2>14 DEF EgressPark, TypeOK, Items
        <5> QED
          BY <5>1, <5>2 DEF Min2
      <4> QED
        BY <2>14, <4>1, <4>2 DEF EgressPark
    <3> QED
      BY <2>14, <3>1 DEF EgressPark, EgressExcept, TypeOK, EgressPCs
  <2>15. CASE EgressArm
    BY <2>15 DEF EgressArm, TypeOK, ReaderPCs, EgressPCs, EgressExcept
  <2>16. CASE EgressWoken
    BY <2>16 DEF EgressWoken, TypeOK, ReaderPCs, EgressPCs, EgressExcept
  <2>17. CASE EgressTimer
    BY <2>17 DEF EgressTimer, TypeOK, ReaderPCs, EgressPCs, EgressExcept
  <2>18. CASE EgressExit
    BY <2>18 DEF EgressExit, TypeOK, ReaderPCs, EgressPCs, EgressExcept
  <2>19. CASE SendCheck
    <3>1. {it.buf : it \in hand} \subseteq Buffers
      <4>1. \A it \in hand : it.buf \in Buffers
        BY DEF TypeOK, Items
      <4> QED
        BY <4>1
    <3>2. CASE closed
      <4>1. /\ epc' = "lock" /\ hand' = {} /\ discarded' = discarded + 1
            /\ pool' = pool \cup {it.buf : it \in hand}
            /\ UNCHANGED SendCheckExcept
        BY <2>19, <3>2 DEF SendCheck
      <4>2. pool' \subseteq Buffers /\ discarded' \in Nat
        BY <3>1, <4>1 DEF TypeOK
      <4> QED
        BY <4>1, <4>2 DEF SendCheckExcept, EgressExcept, TypeOK, EgressPCs
    <3>3. CASE ~closed
      <4>1. /\ epc = "send" /\ epc' = "write"
            /\ UNCHANGED <<SendCheckExcept, hand, discarded, pool>>
        BY <2>19, <3>3 DEF SendCheck
      <4> QED
        BY <4>1 DEF SendCheckExcept, EgressExcept, TypeOK, EgressPCs
    <3> QED
      BY <3>2, <3>3
  <2>20. CASE SendWrite
    <3>1. PICK it \in hand :
            sent' = Append(sent, [at |-> it.at, ord |-> it.ord, pkt |-> it.pkt,
                                  data |-> mem[it.buf]])
      BY <2>20 DEF SendWrite
    <3>2. [at |-> it.at, ord |-> it.ord, pkt |-> it.pkt, data |-> mem[it.buf]]
            \in [at : Nat, ord : Nat, pkt : Nat, data : Nat]
      BY DEF TypeOK, Items
    <3>3. sent' \in Seq([at : Nat, ord : Nat, pkt : Nat, data : Nat])
      BY <3>1, <3>2 DEF TypeOK
    <3> QED
      BY <2>20, <3>3 DEF SendWrite, EgressExcept, TypeOK, EgressPCs
  <2>21. CASE SendFinish
    <3>1. PICK it \in hand :
            /\ ~FinalizePanics(ledger, it.led)
            /\ ledger' = IF it.led.slot >= 0 /\ ledger # NoLedger
                         THEN FinalizeEntry(ledger, it.led, now) ELSE ledger
            /\ pool' = pool \cup {it.buf}
      BY <2>21 DEF SendFinish
    <3>2. it.led \in Handles /\ it.buf \in Buffers /\ now \in Nat /\ LedgerType(ledger)
      BY DEF TypeOK, Items, LedgerType
    <3>3. LedgerType(ledger')
      BY <3>1, <3>2, FinalizeEntryType DEF LedgerType
    <3> QED
      BY <2>21, <3>1, <3>2, <3>3
      DEF SendFinish, SendFinishExcept, EgressExcept, TypeOK, EgressPCs, LedgerType
  <2>22. CASE SendPanic
    BY <2>22 DEF SendPanic, TypeOK, ReaderPCs, EgressPCs, EgressExcept
  <2>23. CASE Tick
    BY <2>23 DEF Tick, TypeOK, Min2
  <2>24. ASSUME NEW e \in Engines, SetEngine(e) PROVE TypeOK'
    BY <2>24 DEF SetEngine, ControlExcept, TypeOK
  <2>25. ASSUME NEW a \in EnableArgs, EnableLedger(a) PROVE TypeOK'
    <3>1. LedgerType(ledger')
      BY <2>25, NewLedgerType DEF EnableLedger, LedgerType
    <3> QED
      BY <2>25, <3>1 DEF EnableLedger, ControlExcept, TypeOK, LedgerType
  <2>26. ASSUME NEW c \in Closers, Closer(c) PROVE TypeOK'
    <3>1. cpc' \in [Closers -> CloserPCs]
      BY <2>26 DEF Closer, CloseFirst, CloseWake, CloseSocks, CloseAgain,
                   CloseReturn, TypeOK, CloserPCs
    <3> QED
      BY <2>26, <3>1 DEF Closer, CloseFirst, CloseWake, CloseSocks, CloseAgain,
                         CloseReturn, ControlExcept, TypeOK
  <2>27. CASE UNCHANGED vars
    BY <2>27 DEF vars, TypeOK
  <2> QED
    BY <2>1, <2>2, <2>3, <2>4, <2>5, <2>6, <2>7, <2>8, <2>9, <2>10, <2>11, <2>12,
       <2>13, <2>14, <2>15, <2>16, <2>17, <2>18, <2>19, <2>20, <2>21, <2>22, <2>23,
       <2>24, <2>25, <2>26, <2>27
    DEF Next, Reader, Egress, Control, Stopped
<1> QED
  BY <1>1, <1>2, PTL DEF Spec


\* The core never loses a wake-up: NoLostWakeup is inductive once the types are
\* known.  Only Admit adds a head, and it then owes a token; only EgressPark goes
\* to sleep, and it sleeps for the head.
THEOREM WakeupSafe == Spec => []NoLostWakeup
<1> USE DEF readerVars, egressVars, heapVars, bufVars, closeVars, ctlVars
<1>1. Init => NoLostWakeup
  BY DEF Init, NoLostWakeup
<1>2. TypeOK /\ NoLostWakeup /\ [Next]_vars => NoLostWakeup'
  <2> SUFFICES ASSUME TypeOK, NoLostWakeup, [Next]_vars
               PROVE  NoLostWakeup'
    OBVIOUS
  <2>1. CASE Admit
    <3>1. PICK b \in rbuf :
            /\ eg' = eg \cup {NewItem(b)}
            /\ rpc' = IF IsHead(NewItem(b), eg \cup {NewItem(b)}) THEN "wake" ELSE "process"
      BY <2>1 DEF Admit
    <3>2. UNCHANGED <<epc, wake, target>> /\ rpc = "admit"
      BY <2>1 DEF Admit
    <3>3. CASE IsHead(NewItem(b), eg \cup {NewItem(b)})
      BY <3>1, <3>3 DEF NoLostWakeup
    <3>4. CASE ~IsHead(NewItem(b), eg \cup {NewItem(b)})
      <4>1. ASSUME NEW it \in eg', IsHead(it, eg')
            PROVE  it \in eg /\ IsHead(it, eg)
        BY <3>1, <3>4, <4>1 DEF IsHead
      <4> QED
        BY <3>2, <4>1 DEF NoLostWakeup
    <3> QED
      BY <3>3, <3>4
  <2>2. CASE EgressPark
    <3>1. /\ eg' = eg
          /\ eg = {} \/ \E it \in eg : IsHead(it, eg) /\ target' = it.ord
      BY <2>2 DEF EgressPark, EgressExcept
    <3>2. ASSUME NEW a \in eg, NEW b \in eg, IsHead(a, eg), IsHead(b, eg)
          PROVE  a = b
      <4>1. /\ a.at \in Nat /\ a.ord \in Nat /\ b.at \in Nat /\ b.ord \in Nat
        BY DEF TypeOK, Items
      <4>2. ASSUME a # b PROVE Less(a, b) /\ Less(b, a)
        BY <3>2, <4>2 DEF IsHead
      <4> QED
        BY <4>1, <4>2 DEF Less
    <3> QED
      BY <3>1, <3>2 DEF NoLostWakeup
  <2>3. CASE SendWake
    BY <2>3 DEF SendWake, NoLostWakeup
  <2>4. CASE ReadCheck \/ ReadArm \/ ReadDatagram \/ ReadTimeout \/ ReadError
             \/ Handle \/ ProcessDrop \/ ProcessDone \/ GetBuf \/ TailDrop
    BY <2>4 DEF ReadCheck, ReadArm, ReadDatagram, ReadTimeout, ReadError, Handle,
                ProcessDrop, ProcessDone, GetBuf, TailDrop, TailDropExcept,
                ReaderExcept, NoLostWakeup
  <2>5. CASE EgressPop \/ EgressWoken \/ EgressTimer \/ EgressExit \/ SendCheck
             \/ SendWrite \/ SendFinish \/ SendPanic
    BY <2>5 DEF EgressPop, EgressWoken, EgressTimer, EgressExit, SendCheck,
                SendWrite, SendFinish, SendPanic, NoLostWakeup
  <2>6. CASE EgressArm \/ Tick
    BY <2>6 DEF EgressArm, EgressExcept, Tick, NoLostWakeup
  <2>7. CASE Control \/ \E c \in Closers : Closer(c)
    BY <2>7 DEF Control, SetEngine, EnableLedger, Closer, CloseFirst, CloseWake,
                CloseSocks, CloseAgain, CloseReturn, ControlExcept, NoLostWakeup
  <2>8. CASE UNCHANGED vars
    BY <2>8 DEF vars, NoLostWakeup
  <2> QED
    BY <2>1, <2>2, <2>3, <2>4, <2>5, <2>6, <2>7, <2>8
    DEF Next, Reader, Egress, Stopped
<1> QED
  BY <1>1, <1>2, TypeCorrect, PTL DEF Spec

\* Close keeps its promise to every caller: QuietAfterClose is inductive, since
\* a goroutine that is gone takes no step and only CloseSocks closes the socket.
THEOREM CloseSafe == Spec => []QuietAfterClose
<1> USE DEF readerVars, egressVars, heapVars, bufVars, closeVars, ctlVars
<1>1. Init => QuietAfterClose
  BY DEF Init, QuietAfterClose
<1>2. TypeOK /\ QuietAfterClose /\ [Next]_vars => QuietAfterClose'
  <2> SUFFICES ASSUME TypeOK, QuietAfterClose, [Next]_vars
               PROVE  QuietAfterClose'
    OBVIOUS
  <2>1. CASE Reader
    <3>1. rpc # "done" /\ UNCHANGED <<closed, sockOpen, cpc>>
      BY <2>1 DEF Reader, ReadCheck, ReadArm, ReadDatagram, ReadTimeout, ReadError,
                  Handle, ProcessDrop, ProcessDone, GetBuf, Admit, TailDrop, SendWake,
                  TailDropExcept, SendWakeExcept, ReaderExcept
    <3> QED
      BY <3>1 DEF QuietAfterClose
  <2>2. CASE Egress
    <3>1. epc # "done" /\ UNCHANGED <<closed, sockOpen, cpc>>
      BY <2>2 DEF Egress, EgressPop, EgressPark, EgressArm, EgressWoken, EgressTimer,
                  EgressExit, SendCheck, SendWrite, SendFinish, SendPanic,
                  SendCheckExcept, SendFinishExcept, EgressExcept
    <3> QED
      BY <3>1 DEF QuietAfterClose
  <2>3. CASE Control \/ Tick
    BY <2>3 DEF Control, SetEngine, EnableLedger, Tick, ControlExcept, QuietAfterClose
  <2>4. ASSUME NEW c \in Closers, CloseSocks(c) PROVE QuietAfterClose'
    BY <2>4 DEF CloseSocks, ControlExcept, TypeOK, QuietAfterClose
  <2>5. ASSUME NEW c \in Closers,
               CloseFirst(c) \/ CloseWake(c) \/ CloseAgain(c) \/ CloseReturn(c)
        PROVE  QuietAfterClose'
    <3>1. UNCHANGED <<sockOpen, rpc, epc, hand, rbuf>>
      BY <2>5 DEF CloseFirst, CloseWake, CloseAgain, CloseReturn, ControlExcept
    <3>2. ASSUME NEW d \in Closers, cpc'[d] = "done"
          PROVE  cpc[d] = "done" \/ ~sockOpen
      BY <2>5, <3>2 DEF CloseFirst, CloseWake, CloseAgain, CloseReturn, TypeOK
    <3> QED
      BY <3>1, <3>2 DEF QuietAfterClose
  <2>6. CASE UNCHANGED vars
    BY <2>6 DEF vars, QuietAfterClose
  <2> QED
    BY <2>1, <2>2, <2>3, <2>4, <2>5, <2>6 DEF Next, Closer, Stopped
<1> QED
  BY <1>1, <1>2, TypeCorrect, PTL DEF Spec

\* BuffersOwned, made inductive: a popped forward is not in the heap, and the
\* buffer enqueue has taken already holds the datagram being processed.
BuffersInv ==
  /\ BuffersOwned
  /\ eg \cap hand = {}
  /\ rpc = "admit" => \A b \in rbuf : mem[b] = rpkt.id

\* BuffersInv is an invariant: one step per action that moves a buffer.
LEMMA BuffersInductive == Spec => []BuffersInv
<1> USE DEF readerVars, egressVars, heapVars, bufVars, closeVars, ctlVars
<1>1. Init => BuffersInv
  BY DEF Init, BuffersInv, BuffersOwned
<1>2. TypeOK /\ BuffersInv /\ [Next]_vars => BuffersInv'
  <2> SUFFICES ASSUME TypeOK, BuffersInv, [Next]_vars
               PROVE  BuffersInv'
    OBVIOUS
  <2>1. CASE GetBuf
    <3>1. PICK b \in pool : /\ rbuf' = {b} /\ pool' = pool \ {b}
                            /\ mem' = [mem EXCEPT ![b] = rpkt.id]
      BY <2>1 DEF GetBuf
    <3>2. UNCHANGED <<eg, hand, sent, rpkt>> /\ b \in Buffers
      BY <2>1, <3>1 DEF GetBuf, TypeOK
    <3> QED
      BY <3>1, <3>2 DEF BuffersInv, BuffersOwned, TypeOK, Items
  <2>2. CASE Admit
    <3>1. PICK b \in rbuf : eg' = eg \cup {NewItem(b)}
      BY <2>2 DEF Admit
    <3>2. /\ UNCHANGED <<hand, sent, rpkt, pool, mem>> /\ rbuf' = {}
          /\ rpc = "admit" /\ rpc' # "admit"
      BY <2>2 DEF Admit
    <3>3. NewItem(b).buf = b /\ NewItem(b).pkt = rpkt.id
      BY DEF NewItem
    <3>4. b \notin pool /\ mem[b] = rpkt.id /\ \A it \in eg \cup hand : it.buf # b
      BY <3>1, <3>2 DEF BuffersInv, BuffersOwned
    <3> QED
      BY <3>1, <3>2, <3>3, <3>4 DEF BuffersInv, BuffersOwned
  <2>3. CASE TailDrop
    BY <2>3 DEF TailDrop, TailDropExcept, BuffersInv, BuffersOwned
  <2>4. CASE EgressPop
    <3>1. PICK it \in eg : eg' = eg \ {it} /\ hand' = {it}
      BY <2>4 DEF EgressPop
    <3>2. UNCHANGED <<pool, mem, rbuf, rpc, rpkt, sent>> /\ hand = {}
      BY <2>4 DEF EgressPop, EgressExcept, TypeOK
    <3> QED
      BY <3>1, <3>2 DEF BuffersInv, BuffersOwned
  <2>5. CASE SendCheck
    <3>1. UNCHANGED <<eg, mem, rbuf, rpc, rpkt, sent>>
      BY <2>5 DEF SendCheck, SendCheckExcept, EgressExcept
    <3>2. CASE UNCHANGED <<hand, pool>>
      BY <3>1, <3>2 DEF BuffersInv, BuffersOwned
    <3>3. CASE hand' = {} /\ pool' = pool \cup {it.buf : it \in hand}
      BY <3>1, <3>3 DEF BuffersInv, BuffersOwned
    <3> QED
      BY <2>5, <3>2, <3>3 DEF SendCheck
  <2>6. CASE SendWrite
    <3>1. PICK it \in hand :
            sent' = Append(sent, [at |-> it.at, ord |-> it.ord, pkt |-> it.pkt,
                                  data |-> mem[it.buf]])
      BY <2>6 DEF SendWrite
    <3>2. UNCHANGED <<eg, hand, pool, mem, rbuf, rpc, rpkt>>
      BY <2>6 DEF SendWrite, EgressExcept
    <3>3. mem[it.buf] = it.pkt
      BY DEF BuffersInv, BuffersOwned
    <3>4. \A i \in DOMAIN sent' : sent'[i].data = sent'[i].pkt
      <4>1. sent \in Seq([at : Nat, ord : Nat, pkt : Nat, data : Nat])
            /\ \A i \in DOMAIN sent : sent[i].data = sent[i].pkt
        BY DEF BuffersInv, BuffersOwned, TypeOK
      <4> DEFINE w == [at |-> it.at, ord |-> it.ord, pkt |-> it.pkt, data |-> mem[it.buf]]
      <4>2. w \in [at : Nat, ord : Nat, pkt : Nat, data : Nat] /\ w.data = w.pkt
        BY <3>3 DEF TypeOK, Items
      <4>3. sent' = Append(sent, w)
        BY <3>1
      <4> HIDE DEF w
      <4> QED
        BY <4>1, <4>2, <4>3
    <3> QED
      BY <3>2, <3>4 DEF BuffersInv, BuffersOwned
  <2>7. CASE SendFinish
    <3>1. PICK it \in hand : pool' = pool \cup {it.buf}
      BY <2>7 DEF SendFinish
    <3>2. UNCHANGED <<eg, mem, rbuf, rpc, rpkt, sent>> /\ hand' = {}
      BY <2>7 DEF SendFinish, SendFinishExcept, EgressExcept
    <3> QED
      BY <3>1, <3>2 DEF BuffersInv, BuffersOwned
  <2>8. CASE ReadCheck \/ ReadArm \/ ReadDatagram \/ ReadTimeout \/ ReadError
             \/ Handle \/ ProcessDrop \/ ProcessDone \/ SendWake
    <3>1. UNCHANGED <<eg, hand, pool, mem, rbuf, sent>> /\ rpc' # "admit"
      BY <2>8 DEF ReadCheck, ReadArm, ReadDatagram, ReadTimeout, ReadError, Handle,
                  ProcessDrop, ProcessDone, SendWake, SendWakeExcept, ReaderExcept
    <3> QED
      BY <3>1 DEF BuffersInv, BuffersOwned
  <2>9. CASE EgressPark \/ EgressArm \/ EgressWoken \/ EgressTimer \/ EgressExit
             \/ SendPanic \/ Tick
    <3>1. UNCHANGED <<eg, hand, pool, mem, rbuf, rpc, rpkt, sent>>
      BY <2>9 DEF EgressPark, EgressArm, EgressWoken, EgressTimer, EgressExit,
                  SendPanic, EgressExcept, Tick
    <3> QED
      BY <3>1 DEF BuffersInv, BuffersOwned
  <2>10. CASE Control \/ \E c \in Closers : Closer(c)
    <3>1. UNCHANGED <<eg, hand, pool, mem, rbuf, rpc, rpkt, sent>>
      BY <2>10 DEF Control, SetEngine, EnableLedger, Closer, CloseFirst, CloseWake,
                   CloseSocks, CloseAgain, CloseReturn, ControlExcept
    <3> QED
      BY <3>1 DEF BuffersInv, BuffersOwned
  <2>11. CASE UNCHANGED vars
    BY <2>11 DEF vars, BuffersInv, BuffersOwned
  <2> QED
    BY <2>1, <2>2, <2>3, <2>4, <2>5, <2>6, <2>7, <2>8, <2>9, <2>10, <2>11
    DEF Next, Reader, Egress, Stopped
<1> QED
  BY <1>1, <1>2, TypeCorrect, PTL DEF Spec

\* No buffer is ever shared or released early, and every write carries the
\* datagram its forward was made from.
THEOREM BuffersSafe == Spec => []BuffersOwned
<1>1. BuffersInv => BuffersOwned
  BY DEF BuffersInv
<1> QED
  BY <1>1, BuffersInductive, PTL
-----------------------------------------------------------------------------
(***************************************************************************)
(* The egress queue: nothing is lost or counted twice, and the datapath    *)
(* implements the delay line (module DelayLine).                           *)
(***************************************************************************)
Live == eg \cup hand

\* The reader has actions to carry out only while it processes a datagram.
ActsInv == rpc \notin {"process", "admit", "wake"} => acts = << >>

\* The forwards in the heap and in egress's hand are finitely many and different,
\* and numbered by their admission.
OrdersInv ==
  /\ IsFiniteSet(eg)
  /\ eg \cap hand = {}
  /\ \A it \in Live : it.ord \in 1..egOrd
  /\ \A a, b \in Live : a.ord = b.ord => a = b

QueueInv == ActsInv /\ OrdersInv /\ Conservation

\* The reader's steps other than Admit leave the queue as it is.
LEMMA ReaderSteps ==
  ASSUME TypeOK, Reader, ~Admit
  PROVE  UNCHANGED <<eg, egOrd, hand, epc, sent, discarded, closed, fwd, now, ledger>>
<1> USE DEF readerVars, egressVars, heapVars, bufVars, closeVars, ctlVars
<1> QED
  BY DEF Reader, ReadCheck, ReadArm, ReadDatagram, ReadTimeout, ReadError, Handle,
         ProcessDrop, ProcessDone, GetBuf, TailDrop, SendWake, TailDropExcept,
         SendWakeExcept, ReaderExcept

\* The steps of egress that handle no forward.
EgressIdle == EgressPark \/ EgressArm \/ EgressWoken \/ EgressTimer \/ EgressExit

\* They, and control calls and time, leave the queue and the reader as they are.
LEMMA IdleSteps ==
  ASSUME TypeOK, EgressIdle \/ Control \/ Tick \/ (\E c \in Closers : Closer(c)) \/ UNCHANGED vars
  PROVE  /\ UNCHANGED <<eg, egOrd, hand, sent, discarded, fwd, rpc, acts, drop, tailDrop,
                        emitted, mem>>
         /\ epc \notin {"send", "write", "final", "panic"} \/ epc' = epc
         /\ epc' \notin {"send", "write", "final", "panic"} \/ epc' = epc
         /\ closed => closed'
<1> USE DEF readerVars, egressVars, heapVars, bufVars, closeVars, ctlVars
<1>1. CASE EgressIdle
  BY <1>1 DEF EgressIdle, EgressPark, EgressArm, EgressWoken, EgressTimer, EgressExit,
              EgressExcept
<1>2. CASE Control \/ Tick
  BY <1>2 DEF Control, SetEngine, EnableLedger, Tick, ControlExcept
<1>3. ASSUME NEW c \in Closers, Closer(c)
      PROVE  UNCHANGED <<eg, egOrd, hand, sent, discarded, fwd, rpc, acts, drop, tailDrop,
                         emitted, mem, epc>>
             /\ (closed => closed')
  BY <1>3 DEF Closer, CloseFirst, CloseWake, CloseSocks, CloseAgain, CloseReturn, ControlExcept
<1>4. CASE UNCHANGED vars
  BY <1>4 DEF vars
<1> QED
  BY <1>1, <1>2, <1>3, <1>4

\* QueueInv is an invariant: one step per action that touches a counter.
THEOREM QueueInductive == Spec => []QueueInv
<1> USE DEF readerVars, egressVars, heapVars, bufVars, closeVars, ctlVars
<1>1. Init => QueueInv
  <2> SUFFICES ASSUME Init PROVE QueueInv
    OBVIOUS
  <2>1. eg = {} /\ hand = {} /\ acts = << >> /\ sent = << >> /\ InHand = {}
    BY DEF Init, InHand
  <2>2. IsFiniteSet({}) /\ Cardinality({}) = 0
    BY FS_EmptySet
  <2> QED
    BY <2>1, <2>2 DEF Init, QueueInv, ActsInv, OrdersInv, Live, Conservation
<1>2. TypeOK /\ QueueInv /\ [Next]_vars => QueueInv'
  <2> SUFFICES ASSUME TypeOK, QueueInv, [Next]_vars PROVE QueueInv'
    OBVIOUS
  <2>0. /\ emitted \in Nat /\ drop \in Nat /\ tailDrop \in Nat /\ egOrd \in Nat /\ fwd \in Nat
        /\ discarded \in Nat /\ acts \in Seq(Action) /\ Len(acts) \in Nat
        /\ sent \in Seq([at : Nat, ord : Nat, pkt : Nat, data : Nat]) /\ Len(sent) \in Nat
        /\ IsFiniteSet(eg) /\ Cardinality(eg) \in Nat
    BY FS_CardinalityType DEF TypeOK, QueueInv, OrdersInv
  <2>a. /\ emitted \in Nat /\ drop \in Nat /\ tailDrop \in Nat /\ egOrd \in Nat /\ fwd \in Nat
        /\ discarded \in Nat /\ Len(acts) \in Nat /\ Len(sent) \in Nat
        /\ Cardinality(eg) \in Nat
    BY <2>0
  <2>b. emitted = Len(acts) + drop + tailDrop + egOrd
    BY DEF QueueInv, Conservation
  <2>c. egOrd = Len(sent) + Cardinality(eg) + Cardinality(InHand) + discarded
    BY DEF QueueInv, Conservation
  <2>d. Len(sent) = fwd + (IF epc \in {"final", "panic"} THEN 1 ELSE 0)
    BY DEF QueueInv, Conservation
  <2>e. Cardinality(InHand) \in Nat
    <3>1. InHand = {} \/ \E x : InHand = {x}
      BY DEF InHand, TypeOK
    <3>2. CASE InHand = {}
      BY <3>2, FS_EmptySet
    <3>3. CASE \E x : InHand = {x}
      BY <3>3, FS_Singleton
    <3> QED
      BY <3>1, <3>2, <3>3
  <2>1. CASE Handle
    <3>1. PICK plan \in Plans[eng] : acts' = plan /\ emitted' = emitted + Len(plan)
      BY <2>1 DEF Handle
    <3>2. Len(plan) \in Nat
      BY <3>1, EnginesAssumption DEF TypeOK
    <3>3. /\ Len(acts) = 0 /\ rpc' = "process"
          /\ UNCHANGED <<drop, tailDrop, eg, egOrd, hand, epc, sent, discarded, closed, fwd>>
      BY <2>1 DEF Handle, QueueInv, ActsInv
    <3>4. emitted' = Len(acts') + drop' + tailDrop' + egOrd'
      BY <2>a, <2>b, <3>1, <3>2, <3>3
    <3> QED
      BY <3>3, <3>4 DEF QueueInv, ActsInv, OrdersInv, Live, Conservation, InHand
  <2>2. CASE ProcessDrop \/ TailDrop
    <3>1. /\ acts # << >> /\ acts' = Tail(acts) /\ rpc' = "process"
          /\ UNCHANGED <<emitted, eg, egOrd, hand, epc, sent, discarded, closed, fwd>>
          /\ \/ drop' = drop + 1 /\ tailDrop' = tailDrop
             \/ drop' = drop /\ tailDrop' = tailDrop + 1
      BY <2>2 DEF ProcessDrop, TailDrop, TailDropExcept, TypeOK
    <3>2. Len(acts') = Len(acts) - 1
      BY <2>0, <3>1
    <3>3. emitted' = Len(acts') + drop' + tailDrop' + egOrd'
      BY <2>a, <2>b, <3>1, <3>2
    <3> QED
      BY <3>1, <3>3 DEF QueueInv, ActsInv, OrdersInv, Live, Conservation, InHand
  <2>3. CASE ReadCheck \/ ReadArm \/ ReadDatagram \/ ReadTimeout \/ ReadError
             \/ ProcessDone \/ GetBuf \/ SendWake
    <3>1. /\ UNCHANGED <<acts, drop, tailDrop, emitted, eg, egOrd, hand, epc, sent,
                         discarded, closed, fwd>>
          /\ ActsInv'
      BY <2>3 DEF ReadCheck, ReadArm, ReadDatagram, ReadTimeout, ReadError, ProcessDone,
                  GetBuf, SendWake, SendWakeExcept, ReaderExcept, QueueInv, ActsInv
    <3> QED
      BY <3>1 DEF QueueInv, OrdersInv, Live, Conservation, InHand
  <2>4. CASE Admit
    <3>1. PICK b \in rbuf : eg' = eg \cup {NewItem(b)}
      BY <2>4 DEF Admit
    <3>2. /\ egOrd' = egOrd + 1 /\ acts # << >> /\ acts' = Tail(acts)
          /\ rpc' \in {"wake", "process"}
          /\ UNCHANGED <<drop, tailDrop, emitted, hand, epc, sent, discarded, closed, fwd>>
      BY <2>4 DEF Admit, TypeOK
    <3>3. NewItem(b).ord = egOrd + 1
      BY DEF NewItem
    <3>4. NewItem(b) \notin Live
      BY <2>0, <3>3 DEF QueueInv, OrdersInv
    <3> DEFINE it == NewItem(b)
    <3> HIDE DEF it
    <3>5. OrdersInv'
      <4>1. IsFiniteSet(eg')
        BY <2>0, <3>1, FS_AddElement
      <4>2. Live' = Live \cup {it}
        BY <3>1, <3>2 DEF Live, it
      <4>3. \A x \in Live : x.ord \in 1..egOrd /\ x.ord # egOrd + 1
        BY <2>0 DEF QueueInv, OrdersInv
      <4>4. it.ord = egOrd + 1 /\ it \notin Live
        BY <3>3, <3>4 DEF it
      <4>5. \A x \in Live' : x.ord \in 1..egOrd'
        BY <2>0, <3>2, <4>2, <4>3, <4>4
      <4>6. \A x, y \in Live' : x.ord = y.ord => x = y
        BY <4>2, <4>3, <4>4 DEF QueueInv, OrdersInv
      <4>7. eg' \cap hand' = {}
        BY <3>1, <3>2, <4>4 DEF QueueInv, OrdersInv, Live, it
      <4> QED
        BY <4>1, <4>5, <4>6, <4>7 DEF OrdersInv
    <3>6. Cardinality(eg') = Cardinality(eg) + 1
      <4>1. NewItem(b) \notin eg
        BY <3>4 DEF Live
      <4> QED
        BY <2>0, <3>1, <4>1, FS_AddElement
    <3>7. Len(acts') = Len(acts) - 1
      BY <2>0, <3>2
    <3>8. InHand' = InHand
      BY <3>2 DEF InHand
    <3>9. Conservation'
      <4>1. emitted' = Len(acts') + drop' + tailDrop' + egOrd'
        BY <2>a, <2>b, <3>2, <3>7
      <4>2. egOrd' = Len(sent') + Cardinality(eg') + Cardinality(InHand') + discarded'
        BY <2>a, <2>c, <2>e, <3>2, <3>6, <3>8
      <4> QED
        BY <3>2, <4>1, <4>2 DEF QueueInv, Conservation
    <3> QED
      BY <3>2, <3>5, <3>9 DEF QueueInv, ActsInv
  <2>5. CASE EgressPop
    <3>1. PICK it \in eg : eg' = eg \ {it} /\ hand' = {it}
      BY <2>5 DEF EgressPop
    <3>2. /\ hand = {} /\ epc = "lock" /\ epc' = "send"
          /\ UNCHANGED <<rpc, acts, drop, tailDrop, emitted, egOrd, sent, discarded, closed, fwd>>
      BY <2>5 DEF EgressPop, EgressExcept, TypeOK
    <3>3. IsFiniteSet(eg') /\ Cardinality(eg') = Cardinality(eg) - 1
      BY <2>0, <3>1, FS_RemoveElement
    <3>4. Cardinality(InHand) = 0 /\ Cardinality(InHand') = 1
      BY <3>1, <3>2, FS_EmptySet, FS_Singleton DEF InHand
    <3>5. Live' = Live
      BY <3>1, <3>2 DEF Live
    <3>6. OrdersInv'
      BY <3>1, <3>2, <3>3, <3>5 DEF QueueInv, OrdersInv
    <3>7. egOrd' = Len(sent') + Cardinality(eg') + Cardinality(InHand') + discarded'
      BY <2>a, <2>c, <3>2, <3>3, <3>4
    <3> QED
      BY <3>2, <3>6, <3>7 DEF QueueInv, ActsInv, Conservation
  <2>6. CASE SendCheck
    <3>1. /\ epc = "send"
          /\ UNCHANGED <<rpc, acts, drop, tailDrop, emitted, eg, egOrd, sent, closed, fwd>>
      BY <2>6 DEF SendCheck, SendCheckExcept, EgressExcept
    <3>2. Cardinality(InHand) = 1
      <4>1. \E it : InHand = {it}
        BY <3>1 DEF InHand, TypeOK
      <4> QED
        BY <4>1, FS_Singleton
    <3>3. CASE closed
      <4>1. epc' = "lock" /\ hand' = {} /\ discarded' = discarded + 1
        BY <2>6, <3>3 DEF SendCheck
      <4>2. Cardinality(InHand') = 0
        BY <4>1, FS_EmptySet DEF InHand
      <4>3. egOrd' = Len(sent') + Cardinality(eg') + Cardinality(InHand') + discarded'
        BY <2>a, <2>c, <3>1, <3>2, <4>1, <4>2
      <4> QED
        BY <3>1, <3>3, <4>1, <4>3 DEF QueueInv, ActsInv, OrdersInv, Live, Conservation
    <3>4. CASE ~closed
      <4>1. epc' = "write" /\ UNCHANGED <<hand, discarded>>
        BY <2>6, <3>4 DEF SendCheck
      <4> QED
        BY <3>1, <4>1 DEF QueueInv, ActsInv, OrdersInv, Live, Conservation, InHand
    <3> QED
      BY <3>3, <3>4
  <2>7. CASE SendWrite
    <3>1. PICK w \in [at : Nat, ord : Nat, pkt : Nat, data : Nat] : sent' = Append(sent, w)
      <4>1. PICK it \in hand :
              sent' = Append(sent, [at |-> it.at, ord |-> it.ord, pkt |-> it.pkt,
                                    data |-> mem[it.buf]])
        BY <2>7 DEF SendWrite
      <4>2. [at |-> it.at, ord |-> it.ord, pkt |-> it.pkt, data |-> mem[it.buf]]
              \in [at : Nat, ord : Nat, pkt : Nat, data : Nat]
        BY DEF TypeOK, Items
      <4> QED
        BY <4>1, <4>2
    <3>2. /\ epc = "write" /\ epc' = "final"
          /\ UNCHANGED <<rpc, acts, drop, tailDrop, emitted, eg, egOrd, hand, discarded,
                         closed, fwd>>
      BY <2>7 DEF SendWrite, EgressExcept
    <3>3. Len(sent') = Len(sent) + 1
      BY <2>0, <3>1
    <3>4. Cardinality(InHand) = 1 /\ Cardinality(InHand') = 0
      <4>1. (\E it : InHand = {it}) /\ InHand' = {}
        BY <3>2 DEF InHand, TypeOK
      <4> QED
        BY <4>1, FS_Singleton, FS_EmptySet
    <3>5. /\ egOrd' = Len(sent') + Cardinality(eg') + Cardinality(InHand') + discarded'
          /\ Len(sent') = fwd' + 1
      BY <2>a, <2>c, <2>d, <3>2, <3>3, <3>4
    <3> QED
      BY <3>2, <3>5 DEF QueueInv, ActsInv, OrdersInv, Live, Conservation
  <2>8. CASE SendFinish
    <3>1. /\ epc = "final" /\ epc' = "lock" /\ hand' = {} /\ fwd' = fwd + 1
          /\ UNCHANGED <<rpc, acts, drop, tailDrop, emitted, eg, egOrd, sent, discarded, closed>>
      BY <2>8 DEF SendFinish, SendFinishExcept, EgressExcept
    <3>2. InHand = {} /\ InHand' = {}
      BY <3>1 DEF InHand
    <3>3. Len(sent') = fwd'
      BY <2>a, <2>d, <3>1
    <3>4. egOrd' = Len(sent') + Cardinality(eg') + Cardinality(InHand') + discarded'
      BY <2>c, <3>1, <3>2
    <3>5. Len(sent') = fwd' + (IF epc' \in {"final", "panic"} THEN 1 ELSE 0)
      BY <2>a, <3>1, <3>3
    <3> QED
      BY <3>1, <3>4, <3>5 DEF QueueInv, ActsInv, OrdersInv, Live, Conservation
  <2>9. CASE SendPanic
    <3>1. /\ epc = "final" /\ epc' = "panic"
          /\ UNCHANGED <<rpc, acts, drop, tailDrop, emitted, eg, egOrd, hand, sent,
                         discarded, closed, fwd>>
      BY <2>9 DEF SendPanic, EgressExcept
    <3> QED
      BY <3>1 DEF QueueInv, ActsInv, OrdersInv, Live, Conservation, InHand
  <2>10. CASE EgressIdle \/ Control \/ Tick \/ (\E c \in Closers : Closer(c)) \/ UNCHANGED vars
    <3>1. /\ UNCHANGED <<eg, egOrd, hand, sent, discarded, fwd, rpc, acts, drop, tailDrop,
                         emitted>>
          /\ epc \notin {"send", "write", "final", "panic"} \/ epc' = epc
          /\ epc' \notin {"send", "write", "final", "panic"} \/ epc' = epc
          /\ closed => closed'
      BY <2>10, IdleSteps
    <3>2. InHand' = InHand
      BY <3>1 DEF InHand
    <3> QED
      BY <3>1, <3>2 DEF QueueInv, ActsInv, OrdersInv, Live, Conservation
  <2> QED
    BY <2>1, <2>2, <2>3, <2>4, <2>5, <2>6, <2>7, <2>8, <2>9, <2>10
    DEF Next, Reader, Egress, EgressIdle, Stopped
<1> QED
  BY <1>1, <1>2, TypeCorrect, PTL DEF Spec

\* Stats adds up whenever it is read: every engine action and every admitted
\* forward is accounted for once (Process, enqueue, sendItem).
THEOREM ConservationCorrect == Spec => []Conservation
<1>1. QueueInv => Conservation
  BY DEF QueueInv
<1> QED
  BY <1>1, QueueInductive, PTL
-----------------------------------------------------------------------------
(***************************************************************************)
(* The datapath implements the delay line.                                 *)
(***************************************************************************)
\* A forward in egress's hand is due, and no forward that was admitted before it
\* with a time that is no later is still in the heap.
DeliveryInv ==
  /\ now <= Horizon
  /\ \A it \in hand : it.at <= now
  /\ epc \in {"send", "write"} =>
       \A it \in hand : \A g \in eg : ~(g.ord < it.ord /\ g.at <= it.at)

\* DeliveryInv is an invariant: EgressPop takes the head, and whatever is admitted
\* after that has a higher number.
LEMMA DeliveryInductive == Spec => []DeliveryInv
<1> USE BoundsAssumption DEF readerVars, egressVars, heapVars, bufVars, closeVars, ctlVars
<1>1. Init => DeliveryInv
  BY DEF Init, DeliveryInv
<1>2. TypeOK /\ QueueInv /\ DeliveryInv /\ [Next]_vars => DeliveryInv'
  <2> SUFFICES ASSUME TypeOK, QueueInv, DeliveryInv, [Next]_vars PROVE DeliveryInv'
    OBVIOUS
  <2>1. CASE Admit
    <3>1. PICK b \in rbuf : eg' = eg \cup {NewItem(b)}
      BY <2>1 DEF Admit
    <3>2. UNCHANGED <<now, hand, epc>>
      BY <2>1 DEF Admit
    <3>3. \A it \in hand : ~(NewItem(b).ord < it.ord)
      <4>1. NewItem(b).ord = egOrd + 1 /\ egOrd \in Nat
        BY DEF NewItem, TypeOK
      <4>2. \A it \in hand : it.ord \in 1..egOrd
        BY DEF QueueInv, OrdersInv, Live
      <4> QED
        BY <4>1, <4>2
    <3> QED
      BY <3>1, <3>2, <3>3 DEF DeliveryInv
  <2>2. CASE Reader /\ ~Admit
    <3>1. UNCHANGED <<now, hand, epc, eg>>
      BY <2>2, ReaderSteps
    <3> QED
      BY <3>1 DEF DeliveryInv
  <2>3. CASE EgressPop
    <3>1. PICK it \in eg : IsHead(it, eg) /\ it.at <= now /\ eg' = eg \ {it} /\ hand' = {it}
      BY <2>3 DEF EgressPop
    <3>2. now' = now
      BY <2>3 DEF EgressPop, EgressExcept
    <3>3. ASSUME NEW g \in eg' PROVE ~(g.ord < it.ord /\ g.at <= it.at)
      <4>1. Less(it, g)
        BY <3>1, <3>3 DEF IsHead
      <4>2. g.at \in Nat /\ g.ord \in Nat /\ it.at \in Nat /\ it.ord \in Nat
        BY <3>1 DEF TypeOK, Items
      <4> QED
        BY <4>1, <4>2 DEF Less
    <3> QED
      BY <3>1, <3>2, <3>3 DEF DeliveryInv
  <2>4. CASE SendCheck
    <3>1. /\ UNCHANGED <<now, eg>> /\ epc = "send"
          /\ hand' = {} \/ hand' = hand
      BY <2>4 DEF SendCheck, SendCheckExcept, EgressExcept
    <3> QED
      BY <3>1 DEF DeliveryInv
  <2>5. CASE SendWrite \/ SendPanic
    <3>1. UNCHANGED <<now, hand>> /\ epc' \notin {"send", "write"}
      BY <2>5 DEF SendWrite, SendPanic, EgressExcept
    <3> QED
      BY <3>1 DEF DeliveryInv
  <2>6. CASE SendFinish
    <3>1. now' = now /\ hand' = {}
      BY <2>6 DEF SendFinish, SendFinishExcept, EgressExcept
    <3> QED
      BY <3>1 DEF DeliveryInv
  <2>7. CASE Tick
    <3>1. now' \in Nat /\ now <= now' /\ now' <= Horizon /\ UNCHANGED <<hand, epc, eg>>
      BY <2>7 DEF Tick, Min2, TypeOK, DeliveryInv
    <3>2. \A it \in hand : it.at \in Nat /\ it.at <= now
      BY DEF TypeOK, Items, DeliveryInv
    <3>3. \A it \in hand : it.at <= now'
      BY <3>1, <3>2 DEF TypeOK
    <3> QED
      BY <3>1, <3>3 DEF DeliveryInv
  <2>8. CASE EgressIdle \/ Control \/ (\E c \in Closers : Closer(c)) \/ UNCHANGED vars
    <3>1. UNCHANGED <<eg, hand>> /\ (epc' \notin {"send", "write"} \/ epc' = epc)
      BY <2>8, IdleSteps
    <3>2. now' = now
      BY <2>8 DEF EgressIdle, EgressPark, EgressArm, EgressWoken, EgressTimer, EgressExit,
                  EgressExcept, Control, SetEngine, EnableLedger, Closer, CloseFirst,
                  CloseWake, CloseSocks, CloseAgain, CloseReturn, ControlExcept, vars
    <3> QED
      BY <3>1, <3>2 DEF DeliveryInv
  <2> QED
    BY <2>1, <2>2, <2>3, <2>4, <2>5, <2>6, <2>7, <2>8 DEF Next, Egress, EgressIdle, Stopped
<1> QED
  BY <1>1, <1>2, TypeCorrect, QueueInductive, PTL DEF Spec

\* What the datapath shows of its state to the delay line.
Waiting   == eg \cup InHand
Pending   == {Public(it) : it \in Waiting}
Committed == IF closed /\ epc = "write" THEN {Public(it) : it \in hand} ELSE {}
Shown(w)  == [at |-> w.at, ord |-> w.ord, pkt |-> w.data]
Delivered == [i \in DOMAIN sent |-> Shown(sent[i])]

\* A forward and its public part determine each other: the orders differ.
LEMMA PublicInjective ==
  ASSUME QueueInv, NEW a \in Live, NEW b \in Live, Public(a) = Public(b)
  PROVE  a = b
<1>1. Public(a).ord = a.ord /\ Public(b).ord = b.ord
  BY DEF Public
<1> QED
  BY <1>1 DEF QueueInv, OrdersInv

\* The delay line has as many forwards waiting as the heap and the hand hold.
LEMMA PendingCount ==
  ASSUME TypeOK, QueueInv
  PROVE  /\ Cardinality(Pending) = Cardinality(eg) + Cardinality(InHand)
         /\ Cardinality(eg) \in Nat /\ Cardinality(InHand) \in {0, 1}
<1>1. IsFiniteSet(eg) /\ Cardinality(eg) \in Nat
  BY FS_CardinalityType DEF QueueInv, OrdersInv
<1>2. IsFiniteSet(InHand) /\ Cardinality(InHand) \in {0, 1}
  <2>1. CASE InHand = {}
    BY <2>1, FS_EmptySet
  <2>2. CASE \E x : InHand = {x}
    BY <2>2, FS_Singleton
  <2> QED
    BY <2>1, <2>2 DEF InHand, TypeOK
<1>3. eg \cap InHand = {} /\ Waiting \subseteq Live
  BY DEF QueueInv, OrdersInv, InHand, Waiting, Live
<1>4. IsFiniteSet(Waiting) /\ Cardinality(Waiting) = Cardinality(eg) + Cardinality(InHand)
  <2>1. Cardinality(eg \cap InHand) = 0
    BY <1>3, FS_EmptySet
  <2> QED
    BY <1>1, <1>2, <2>1, FS_Union DEF Waiting
<1>5. Cardinality(Pending) = Cardinality(Waiting)
  <2> DEFINE f == [it \in Waiting |-> Public(it)]
  <2>1. f \in [Waiting -> Pending]
    BY DEF Pending
  <2>2. \A a, b \in Waiting : f[a] = f[b] => a = b
    BY <1>3, PublicInjective
  <2>3. \A t \in Pending : \E s \in Waiting : f[s] = t
    BY DEF Pending
  <2> HIDE DEF f
  <2>4. f \in Bijection(Waiting, Pending)
    BY <2>1, <2>2, <2>3, Fun_IsBij
  <2>5. ExistsBijection(Waiting, Pending)
    BY <2>4, Fun_ExistsBij
  <2> QED
    BY <1>4, <2>5, FS_Bijection
<1> QED
  BY <1>1, <1>2, <1>4, <1>5

\* The delay line counts as the datapath does.
LEMMA SameCount == \A S : Line!Cardinality(S) = Cardinality(S)
  BY DEF Line!Cardinality, Cardinality

\* Steps that the delay line does not see.
LEMMA Unseen ==
  ASSUME UNCHANGED <<now, closed, sent, egOrd, tailDrop>>,
         Waiting' = Waiting, Committed' = Committed
  PROVE  UNCHANGED Line!dvars
<1>1. Pending' = Pending
  BY DEF Pending, Public
<1>2. Delivered' = Delivered
  BY DEF Delivered, Shown
<1> QED
  BY <1>1, <1>2 DEF Line!dvars, Pending, Committed, Delivered, Shown, Waiting

\* Every step of the datapath is a step of the delay line or unseen by it: one
\* step per action that the delay line sees.
LEMMA StepSimulation ==
  ASSUME TypeOK, BuffersInv, QueueInv, DeliveryInv, [Next]_vars
  PROVE  [Line!Next]_(Line!dvars)
<1> USE DEF readerVars, egressVars, heapVars, bufVars, closeVars, ctlVars
<1>1. CASE Admit
  <2>1. PICK b \in rbuf : eg' = eg \cup {NewItem(b)}
    BY <1>1 DEF Admit
  <2>2. /\ Cardinality(eg) < MaxQueued /\ egOrd' = egOrd + 1
        /\ UNCHANGED <<now, closed, hand, epc, sent, tailDrop>>
    BY <1>1 DEF Admit
  <2> DEFINE f == Public(NewItem(b))
  <2>3. f.ord = egOrd'
    BY <2>2 DEF Public, NewItem
  <2>4. Pending' = Pending \cup {f}
    BY <2>1, <2>2 DEF Pending, Waiting, InHand, Public
  <2>5. Cardinality(Pending) <= MaxQueued
    BY <2>2, PendingCount, BoundsAssumption
  <2>6. Committed' = Committed /\ Delivered' = Delivered
    BY <2>2 DEF Committed, Delivered, Shown, Public
  <2> HIDE DEF f
  <2>7. f \in Pending'
    BY <2>4
  <2>8. Line!Accept
    BY <2>2, <2>3, <2>4, <2>5, <2>6, <2>7, SameCount
    DEF Line!Accept, Pending, Committed, Delivered, Shown, Waiting
  <2> QED
    BY <2>8 DEF Line!Next
<1>2. CASE TailDrop
  <2>1. /\ Cardinality(eg) >= MaxQueued /\ tailDrop' = tailDrop + 1
        /\ UNCHANGED <<now, closed, eg, egOrd, hand, epc, sent>>
    BY <1>2 DEF TailDrop, TailDropExcept
  <2>2. Cardinality(Pending) >= MaxQueued
    BY <2>1, PendingCount, BoundsAssumption
  <2>3. Pending' = Pending /\ Committed' = Committed /\ Delivered' = Delivered
    BY <2>1 DEF Pending, Waiting, InHand, Committed, Delivered, Shown, Public
  <2>4. Line!Refuse
    BY <2>1, <2>2, <2>3, SameCount DEF Line!Refuse, Pending, Committed, Delivered, Shown, Waiting
  <2> QED
    BY <2>4 DEF Line!Next
<1>3. CASE Reader /\ ~Admit /\ ~TailDrop
  <2>1. UNCHANGED <<eg, egOrd, hand, epc, sent, closed, now>>
    BY <1>3, ReaderSteps
  <2>2. tailDrop' = tailDrop
    BY <1>3 DEF Reader, ReadCheck, ReadArm, ReadDatagram, ReadTimeout, ReadError, Handle,
                ProcessDrop, ProcessDone, GetBuf, SendWake, SendWakeExcept, ReaderExcept
  <2>3. Waiting' = Waiting /\ Committed' = Committed
    BY <2>1 DEF Waiting, InHand, Committed, Public
  <2> QED
    BY <2>1, <2>2, <2>3, Unseen
<1>4. CASE EgressPop
  <2>1. PICK it \in eg : eg' = eg \ {it} /\ hand' = {it}
    BY <1>4 DEF EgressPop
  <2>2. /\ epc = "lock" /\ epc' = "send" /\ hand = {}
        /\ UNCHANGED <<now, closed, egOrd, sent, tailDrop>>
    BY <1>4 DEF EgressPop, EgressExcept, TypeOK
  <2>3. Waiting' = Waiting /\ Committed' = Committed
    BY <2>1, <2>2 DEF Waiting, InHand, Committed
  <2> QED
    BY <2>2, <2>3, Unseen
<1>5. CASE SendCheck
  <2>1. epc = "send" /\ UNCHANGED <<now, closed, eg, egOrd, sent, tailDrop>>
    BY <1>5 DEF SendCheck, SendCheckExcept, EgressExcept
  <2>2. CASE ~closed
    <3>1. epc' = "write" /\ hand' = hand
      BY <1>5, <2>2 DEF SendCheck
    <3>2. Waiting' = Waiting /\ Committed' = Committed
      BY <2>1, <2>2, <3>1 DEF Waiting, InHand, Committed
    <3> QED
      BY <2>1, <3>2, Unseen
  <2>3. CASE closed
    <3>1. epc' = "lock" /\ hand' = {}
      BY <1>5, <2>3 DEF SendCheck
    <3>2. PICK it \in hand : hand = {it}
      BY <2>1 DEF TypeOK
    <3> DEFINE f == Public(it)
    <3>3. f \in Pending /\ Committed = {} /\ Committed' = {}
      BY <2>1, <3>1, <3>2 DEF Pending, Waiting, InHand, Committed
    <3>4. Pending' = Pending \ {f}
      <4>1. Waiting = eg \cup {it} /\ Waiting' = eg /\ it \notin eg
        BY <2>1, <3>1, <3>2 DEF Waiting, InHand, QueueInv, OrdersInv
      <4>2. \A g \in eg : Public(g) # f
        BY <3>2, <4>1, PublicInjective DEF Live
      <4>3. Pending' = {Public(g) : g \in eg} /\ Pending = {Public(g) : g \in eg \cup {it}}
        BY <4>1 DEF Pending, Public
      <4> QED
        BY <4>2, <4>3
    <3>5. Delivered' = Delivered
      BY <2>1 DEF Delivered, Shown
    <3> HIDE DEF f
    <3>6. Line!Lose(f)
      BY <2>1, <2>3, <3>3, <3>4, <3>5
      DEF Line!Lose, Pending, Committed, Delivered, Shown, Waiting
    <3> QED
      BY <3>3, <3>6 DEF Line!Next, Pending, Waiting
  <2> QED
    BY <2>2, <2>3
<1>6. CASE SendWrite
  <2>1. PICK it \in hand :
          sent' = Append(sent, [at |-> it.at, ord |-> it.ord, pkt |-> it.pkt,
                                data |-> mem[it.buf]])
    BY <1>6 DEF SendWrite
  <2>2. /\ epc = "write" /\ epc' = "final" /\ hand = {it}
        /\ UNCHANGED <<now, closed, eg, egOrd, hand, tailDrop>>
    BY <1>6, <2>1 DEF SendWrite, EgressExcept, TypeOK
  <2> DEFINE f == Public(it)
  <2>3. /\ f \in Pending /\ Committed = (IF closed THEN {f} ELSE {})
        /\ Committed' = {}
    BY <2>1, <2>2 DEF Pending, Waiting, InHand, Committed
  <2>4. Pending' = Pending \ {f}
    <3>1. Waiting = eg \cup {it} /\ Waiting' = eg /\ it \notin eg
      BY <2>1, <2>2 DEF Waiting, InHand, QueueInv, OrdersInv
    <3>2. \A g \in eg : Public(g) # f
      BY <2>1, <3>1, PublicInjective DEF Live
    <3>3. Pending' = {Public(g) : g \in eg} /\ Pending = {Public(g) : g \in eg \cup {it}}
      BY <3>1 DEF Pending, Public
    <3> QED
      BY <3>2, <3>3
  <2>5. f.at <= now /\ f.at = it.at /\ f.ord = it.ord
    BY <2>1 DEF DeliveryInv, Public
  <2>6. ~ \E g \in Pending : g.ord < f.ord /\ g.at <= f.at
    <3>1. ASSUME NEW x \in Waiting PROVE ~(x.ord < it.ord /\ x.at <= it.at)
      <4>1. CASE x \in eg
        BY <2>1, <2>2, <4>1 DEF DeliveryInv
      <4>2. CASE x = it
        <5>1. it.ord \in Nat
          BY <2>1 DEF TypeOK, Items
        <5> QED
          BY <4>2, <5>1
      <4> QED
        BY <2>2, <4>1, <4>2 DEF Waiting, InHand
    <3>2. \A x \in Waiting : Public(x).ord = x.ord /\ Public(x).at = x.at
      BY DEF Public
    <3> QED
      BY <2>5, <3>1, <3>2 DEF Pending
  <2>7. Delivered' = Append(Delivered, f)
    <3> DEFINE Written == [at : Nat, ord : Nat, pkt : Nat, data : Nat]
               w == [at |-> it.at, ord |-> it.ord, pkt |-> it.pkt, data |-> mem[it.buf]]
    <3>1. sent \in Seq(Written) /\ w \in Written /\ sent' = Append(sent, w)
      BY <2>1 DEF TypeOK, Items
    <3>2. mem[it.buf] = it.pkt
      BY <2>1 DEF BuffersInv, BuffersOwned
    <3>3. Shown(w) = f
      BY <3>2 DEF Shown, Public
    <3> HIDE DEF Written, w, f
    <3>4. /\ DOMAIN sent = 1..Len(sent) /\ DOMAIN sent' = 1..(Len(sent) + 1) /\ Len(sent) \in Nat
          /\ sent'[Len(sent) + 1] = w /\ \A i \in 1..Len(sent) : sent'[i] = sent[i]
      BY <3>1
    <3>5. Delivered' = [i \in 1..(Len(sent) + 1) |-> Shown(sent'[i])]
      BY <3>4 DEF Delivered, Shown
    <3>6. Delivered = [i \in 1..Len(sent) |-> Shown(sent[i])]
      BY <3>4 DEF Delivered
    <3> DEFINE Parts == [at : Nat, ord : Nat, pkt : Nat]
    <3>7. f \in Parts /\ \A i \in 1..Len(sent) : Shown(sent[i]) \in Parts
      <4>1. \A i \in 1..Len(sent) : sent[i] \in Written
        BY <3>1, ElementOfSeq
      <4>2. \A x \in Written : Shown(x) \in Parts
        BY DEF Written, Shown
      <4> QED
        BY <3>1, <3>3, <4>1, <4>2
    <3> HIDE DEF Parts
    <3>8. Delivered \in Seq(Parts) /\ Len(Delivered) = Len(sent)
      BY <3>4, <3>6, <3>7
    <3>9. /\ Append(Delivered, f) \in Seq(Parts)
          /\ Len(Append(Delivered, f)) = Len(sent) + 1
          /\ \A i \in 1..Len(sent) : Append(Delivered, f)[i] = Delivered[i]
          /\ Append(Delivered, f)[Len(sent) + 1] = f
      BY <3>7, <3>8, AppendProperties
    <3>10. \A i \in 1..(Len(sent) + 1) : Shown(sent'[i]) = Append(Delivered, f)[i]
      BY <3>3, <3>4, <3>6, <3>9
    <3>11. \A i \in 1..(Len(sent) + 1) : Shown(sent'[i]) \in Parts
      BY <3>3, <3>4, <3>7
    <3>12. Delivered' \in Seq(Parts) /\ Len(Delivered') = Len(sent) + 1
      BY <3>4, <3>5, <3>11
    <3> QED
      BY <3>5, <3>9, <3>10, <3>12, SeqEqual
  <2> HIDE DEF f
  <2>8. Line!Deliver(f)
    <3>1. ~closed \/ f \in Committed
      BY <2>3
    <3>2. Committed' = Committed \ {f}
      BY <2>3
    <3> QED
      BY <2>2, <2>4, <2>5, <2>6, <2>7, <3>1, <3>2
      DEF Line!Deliver, Line!FirstInLine, Pending, Committed, Delivered, Shown, Waiting
  <2> QED
    BY <2>3, <2>8 DEF Line!Next, Pending, Waiting
<1>7. CASE SendFinish
  <2>1. /\ epc = "final" /\ epc' = "lock"
        /\ UNCHANGED <<now, closed, eg, egOrd, sent, tailDrop>>
    BY <1>7 DEF SendFinish, SendFinishExcept, EgressExcept
  <2>2. Waiting' = Waiting /\ Committed' = Committed
    BY <2>1 DEF Waiting, InHand, Committed
  <2> QED
    BY <2>1, <2>2, Unseen
<1>8. CASE SendPanic
  <2>1. /\ epc = "final" /\ epc' = "panic"
        /\ UNCHANGED <<now, closed, eg, egOrd, sent, tailDrop>>
    BY <1>8 DEF SendPanic, EgressExcept
  <2>2. Waiting' = Waiting /\ Committed' = Committed
    BY <2>1 DEF Waiting, InHand, Committed
  <2> QED
    BY <2>1, <2>2, Unseen
<1>9. CASE EgressIdle \/ Control \/ UNCHANGED vars
  <2>1. UNCHANGED <<eg, egOrd, hand, sent, tailDrop>>
        /\ (epc \notin {"send", "write"} \/ epc' = epc)
        /\ (epc' \notin {"send", "write"} \/ epc' = epc)
    BY <1>9, IdleSteps
  <2>2. now' = now /\ closed' = closed
    BY <1>9 DEF EgressIdle, EgressPark, EgressArm, EgressWoken, EgressTimer, EgressExit,
                EgressExcept, Control, SetEngine, EnableLedger, ControlExcept, vars
  <2>3. Waiting' = Waiting /\ Committed' = Committed
    BY <2>1, <2>2 DEF Waiting, InHand, Committed, Public
  <2> QED
    BY <2>1, <2>2, <2>3, Unseen
<1>10. ASSUME NEW c \in Closers, CloseFirst(c) PROVE [Line!Next]_(Line!dvars)
  <2>1. /\ ~closed /\ closed' /\ UNCHANGED <<now, eg, egOrd, hand, epc, sent, tailDrop>>
    BY <1>10 DEF CloseFirst, ControlExcept
  <2>2. Pending' = Pending /\ Delivered' = Delivered
    BY <2>1 DEF Pending, Waiting, InHand, Delivered, Shown, Public
  <2>3. Committed' = {} \/ \E f \in Pending : Committed' = {f}
    <3>1. CASE epc # "write"
      BY <2>1, <3>1 DEF Committed
    <3>2. CASE epc = "write"
      <4>1. PICK it \in hand : hand = {it}
        BY <3>2 DEF TypeOK
      <4>2. Committed' = {Public(it)}
        BY <2>1, <3>2, <4>1 DEF Committed, Public
      <4>3. Public(it) \in Pending
        BY <3>2, <4>1 DEF Pending, Waiting, InHand
      <4> QED
        BY <4>2, <4>3
    <3> QED
      BY <3>1, <3>2
  <2>4. Line!Close
    BY <2>1, <2>2, <2>3 DEF Line!Close, Pending, Committed, Delivered, Shown, Waiting
  <2> QED
    BY <2>4 DEF Line!Next
<1>11. ASSUME NEW c \in Closers,
              CloseWake(c) \/ CloseSocks(c) \/ CloseAgain(c) \/ CloseReturn(c)
       PROVE  [Line!Next]_(Line!dvars)
  <2>1. UNCHANGED <<now, closed, eg, egOrd, hand, epc, sent, tailDrop>>
    BY <1>11 DEF CloseWake, CloseSocks, CloseAgain, CloseReturn, ControlExcept
  <2>2. Waiting' = Waiting /\ Committed' = Committed
    BY <2>1 DEF Waiting, InHand, Committed, Public
  <2> QED
    BY <2>1, <2>2, Unseen
<1>12. CASE Tick
  <2>1. /\ UNCHANGED <<closed, eg, egOrd, hand, epc, sent, tailDrop>>
        /\ now' = now \/ now' > now
    BY <1>12, BoundsAssumption DEF Tick, Min2, TypeOK, DeliveryInv
  <2>2. Waiting' = Waiting /\ Committed' = Committed
    BY <2>1 DEF Waiting, InHand, Committed, Public
  <2>3. CASE now' = now
    BY <2>1, <2>2, <2>3, Unseen
  <2>4. CASE now' > now
    <3>1. Pending' = Pending /\ Delivered' = Delivered
      BY <2>1, <2>2 DEF Pending, Public, Delivered, Shown
    <3>2. Line!Advance
      BY <2>1, <2>2, <2>4, <3>1
      DEF Line!Advance, Pending, Committed, Delivered, Shown, Waiting
    <3> QED
      BY <3>2 DEF Line!Next
  <2> QED
    BY <2>1, <2>3, <2>4
<1> QED
  BY <1>1, <1>2, <1>3, <1>4, <1>5, <1>6, <1>7, <1>8, <1>9, <1>10, <1>11, <1>12
  DEF Next, Egress, EgressIdle, Closer, Stopped

\* Through heap, timer, wake channel, pool and goroutines, the datapath is a bounded
\* delay line: forwards come out once, on time and in order, are refused only when
\* the queue is full, and none is lost before Close.
THEOREM DelayLineImplemented == Spec => ImplementsDelayLine
<1>1. Init => Line!Init
  <2> SUFFICES ASSUME Init PROVE Line!Init
    OBVIOUS
  <2>1. Pending = {} /\ Committed = {}
    BY DEF Init, Pending, Waiting, InHand, Committed
  <2>2. Delivered = << >>
    BY DEF Init, Delivered
  <2> QED
    BY <2>1, <2>2 DEF Init, Line!Init, Pending, Committed, Delivered, Shown, Waiting
<1>2. TypeOK /\ BuffersInv /\ QueueInv /\ DeliveryInv /\ [Next]_vars
        => [Line!Next]_(Line!dvars)
  BY StepSimulation
<1> QED
  BY <1>1, <1>2, TypeCorrect, BuffersInductive, QueueInductive, DeliveryInductive, PTL
  DEF Spec, ImplementsDelayLine, Line!Spec
=============================================================================
