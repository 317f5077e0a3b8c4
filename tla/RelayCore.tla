----------------------------- MODULE RelayCore -----------------------------
(***************************************************************************)
(* The relay datapath of relaycore/relaycore.go, driven by one transport   *)
(* read loop (relay/relay.go loop; ristrelay's mediaLoop has the same      *)
(* shape), with the steps that other goroutines can observe:               *)
(*                                                                         *)
(*   reader   the read loop: closed check, read deadline, read, then       *)
(*            Process: engine, and per action a drop count or an enqueue;  *)
(*   egress   the one goroutine that pops due forwards and writes them;    *)
(*   control  SetEngine, EnableLedger and Close, called at any time, Close *)
(*            by several callers;                                          *)
(*   clock    monotonic time since base, advancing independently.          *)
(*                                                                         *)
(* The engine is abstracted to the set of action lists it may return for a *)
(* datagram (module Engine models where they come from).  The egress heap  *)
(* is a set with its minimum; the one-slot wake channel is a Boolean; the  *)
(* timer counts down while egress is parked.  The pool hands out buffers   *)
(* and the memory behind them, so a buffer released too early would show.  *)
(***************************************************************************)
EXTENDS Ledger, FiniteSets

CONSTANTS
  MaxQueued,        \* bound on the egress heap
  Hour,             \* longest sleep of the egress timer
  Engines,          \* engines that SetEngine may install
  FirstEngine,      \* the engine New is given
  Plans,            \* Plans[e]: the action lists engine e may return
  LedgerCap,        \* ledger capacity given to New (0: off)
  DefaultLedgerCap, \* capacity EnableLedger uses for an argument <= 0
  EnableArgs,       \* arguments EnableLedger may be called with
  Buffers,          \* forward buffers
  Closers,          \* callers of Close
  MaxDelay,         \* bound: longest delay an engine schedules
  Horizon,          \* bound: the clock stops here
  MaxPackets,       \* bound: datagrams read
  MaxEnables,       \* bound: calls of EnableLedger
  MaxSwaps          \* bound: calls of SetEngine

\* What the engine tells the driver to do: drop, or forward after a delay.
Action == [kind : {"drop", "forward"}, delay : 0..MaxDelay]

ASSUME BoundsAssumption ==
  /\ MaxQueued \in Nat \ {0}
  /\ Hour \in Nat \ {0}
  /\ LedgerCap \in Nat
  /\ DefaultLedgerCap \in Nat \ {0}
  /\ EnableArgs \subseteq Int
  /\ MaxDelay \in Nat
  /\ Horizon \in Nat \ {0}
  /\ MaxPackets \in Nat
  /\ MaxEnables \in Nat
  /\ MaxSwaps \in Nat

ASSUME EnginesAssumption ==
  /\ FirstEngine \in Engines
  /\ Plans \in [Engines -> SUBSET Seq(Action)]

VARIABLES
  now,        \* ns since base
  eng,        \* the engine pointer
  engSeq,     \* each engine's ingress counter
  eg,         \* the egress heap: scheduled forwards
  egOrd,      \* admission counter, the heap's tie-breaker
  wake,       \* the buffered(1) wake channel holds a token
  ledger,     \* the ledger pointer (its ring, or NoLedger)
  pool,       \* buffers nobody references
  mem,        \* the datagram each buffer holds
  fwd, drop, tailDrop,  \* the Stats counters
  closed,     \* the done channel is closed
  sockOpen,   \* the transport's socket
  deadline,   \* the socket's read deadline: none, future or past
  rpc,        \* reader: where it is
  rpkt,       \* reader: the datagram in its read buffer
  acts,       \* reader: engine actions still to carry out
  rbuf,       \* reader: the buffer enqueue has taken, or {}
  epc,        \* egress: where it is
  hand,       \* egress: the forward it has popped, or {}
  timer,      \* egress: ticks left of the wait it computed
  cpc,        \* each closer: where it is
  enables, swaps,       \* calls made so far, for the bounds
  read,       \* history: datagrams read
  emitted,    \* history: actions returned by engines
  sent,       \* history: forwards written to the socket, in order
  discarded,  \* history: forwards popped after close and not written
  target      \* history: order of the forward egress sleeps for (0: none)

readerVars == <<rpc, rpkt, acts, rbuf, read, emitted>>
egressVars == <<epc, hand, timer, target, sent, discarded>>
heapVars   == <<eg, egOrd>>
bufVars    == <<pool, mem>>
closeVars  == <<closed, sockOpen, cpc>>
ctlVars    == <<eng, enables, swaps>>
vars == <<now, engSeq, wake, ledger, fwd, drop, tailDrop, deadline,
          readerVars, egressVars, heapVars, bufVars, closeVars, ctlVars>>
-----------------------------------------------------------------------------
\* Mutant: among forwards due at the same time the latest comes first.
LessLifo(a, b) == a.at < b.at \/ (a.at = b.at /\ a.ord > b.ord)

\* egHeap.Less: delivery time, then admission order.
Less(a, b) == a.at < b.at \/ (a.at = b.at /\ a.ord < b.ord)

\* The heap's root.
IsHead(it, h) == it \in h /\ \A other \in h \ {it} : Less(it, other)

Min2(a, b) == IF a < b THEN a ELSE b

NoPacket == [id |-> 0, seq |-> 0, recvAt |-> 0]

Init ==
  /\ now = 1
  /\ eng = FirstEngine
  /\ engSeq = [e \in Engines |-> 0]
  /\ eg = {} /\ egOrd = 0
  /\ wake = FALSE
  /\ ledger = IF LedgerCap > 0 THEN NewLedger(LedgerCap) ELSE NoLedger
  /\ pool = Buffers
  /\ mem = [b \in Buffers |-> 0]
  /\ fwd = 0 /\ drop = 0 /\ tailDrop = 0
  /\ closed = FALSE /\ sockOpen = TRUE
  /\ deadline = "none"
  /\ rpc = "check" /\ rpkt = NoPacket /\ acts = << >> /\ rbuf = {}
  /\ epc = "lock" /\ hand = {} /\ timer = 0
  /\ cpc = [c \in Closers |-> "idle"]
  /\ enables = 0 /\ swaps = 0
  /\ read = 0 /\ emitted = 0 /\ sent = << >> /\ discarded = 0 /\ target = 0
-----------------------------------------------------------------------------
(***************************************************************************)
(* The reader.                                                             *)
(***************************************************************************)
ReaderExcept == <<now, engSeq, wake, ledger, fwd, drop, tailDrop, heapVars,
                  bufVars, egressVars, closeVars, ctlVars>>

\* Top of the loop: leave if the core is closed.
ReadCheck ==
  /\ rpc = "check"
  /\ rpc' = IF closed THEN "done" ELSE "arm"
  /\ UNCHANGED <<ReaderExcept, deadline, rpkt, acts, rbuf, read, emitted>>

\* SetReadDeadline(now + 200ms).  It overwrites a deadline Close set meanwhile.
ReadArm ==
  /\ rpc = "arm"
  /\ deadline' = "future"
  /\ rpc' = "read"
  /\ UNCHANGED <<ReaderExcept, rpkt, acts, rbuf, read, emitted>>

\* A datagram arrives before the deadline; recvAt is stamped.  The clock bound
\* leaves room for every delivery time the engine may schedule.
ReadDatagram ==
  /\ rpc = "read"
  /\ deadline = "future"
  /\ now + MaxDelay <= Horizon
  /\ read < MaxPackets
  /\ read' = read + 1
  /\ rpkt' = [id |-> read + 1, seq |-> 0, recvAt |-> now]
  /\ rpc' = "handle"
  /\ UNCHANGED <<ReaderExcept, deadline, acts, rbuf, emitted>>

\* Mutant: after a timeout the loop reads again without the closed check.
ReadTimeoutUnchecked ==
  /\ rpc = "read"
  /\ rpc' = "arm"
  /\ UNCHANGED <<ReaderExcept, deadline, rpkt, acts, rbuf, read, emitted>>

\* The deadline passes: the loop starts over.
ReadTimeout ==
  /\ rpc = "read"
  /\ rpc' = "check"
  /\ UNCHANGED <<ReaderExcept, deadline, rpkt, acts, rbuf, read, emitted>>

\* Any other read error ends the loop, with the core still running.
ReadError ==
  /\ rpc = "read"
  /\ rpc' = "done"
  /\ UNCHANGED <<ReaderExcept, deadline, rpkt, acts, rbuf, read, emitted>>

\* Process: the current engine numbers the datagram and returns its actions.
Handle ==
  /\ rpc = "handle"
  /\ \E plan \in Plans[eng] :
       /\ acts' = plan
       /\ emitted' = emitted + Len(plan)
  /\ engSeq' = [engSeq EXCEPT ![eng] = @ + 1]
  /\ rpkt' = [rpkt EXCEPT !.seq = engSeq[eng] + 1]
  /\ rpc' = "process"
  /\ UNCHANGED <<now, wake, ledger, fwd, drop, tailDrop, heapVars, bufVars,
                 egressVars, closeVars, ctlVars, deadline, rbuf, read>>

ProcessDrop ==
  /\ rpc = "process" /\ acts # << >>
  /\ Head(acts).kind = "drop"
  /\ drop' = drop + 1
  /\ acts' = Tail(acts)
  /\ UNCHANGED <<now, engSeq, wake, ledger, fwd, tailDrop, heapVars, bufVars,
                 egressVars, closeVars, ctlVars, deadline, rpc, rpkt, rbuf,
                 read, emitted>>

ProcessDone ==
  /\ rpc = "process" /\ acts = << >>
  /\ rpc' = "check"
  /\ rpkt' = NoPacket
  /\ UNCHANGED <<ReaderExcept, deadline, acts, rbuf, read, emitted>>

\* enqueue, first half: take a buffer and copy the datagram into it.  Which
\* free buffer the pool returns (or a fresh one) makes no difference.
GetBuf ==
  /\ rpc = "process" /\ acts # << >>
  /\ Head(acts).kind = "forward"
  /\ pool # {}
  /\ LET b == CHOOSE b \in pool : TRUE
     IN  /\ rbuf' = {b}
         /\ pool' = pool \ {b}
         /\ mem' = [mem EXCEPT ![b] = rpkt.id]
  /\ rpc' = "admit"
  /\ UNCHANGED <<now, engSeq, wake, ledger, fwd, drop, tailDrop, heapVars,
                 egressVars, closeVars, ctlVars, deadline, rpkt, acts, read,
                 emitted>>

\* The forward enqueue builds from the action it carries out.
NewItem(b) ==
  [at  |-> rpkt.recvAt + Head(acts).delay,
   ord |-> egOrd + 1,
   buf |-> b,
   pkt |-> rpkt.id,   \* not in the code: the datagram the forward stands for
   led |-> IF ledger = NoLedger THEN NoHandle ELSE StartHandle(ledger)]

\* enqueue, the critical section: admit, record in the ledger, and find out
\* whether the forward became the head.
Admit ==
  /\ rpc = "admit"
  /\ Cardinality(eg) < MaxQueued
  /\ \E b \in rbuf :
       LET it == NewItem(b)
       IN  /\ eg' = eg \cup {it}
           /\ egOrd' = egOrd + 1
           /\ ledger' = IF ledger = NoLedger THEN NoLedger
                        ELSE StartEntry(ledger, rpkt.seq, rpkt.recvAt, it.at, it.ord)
           /\ rpc' = IF IsHead(it, eg \cup {it}) THEN "wake" ELSE "process"
  /\ rbuf' = {}
  /\ acts' = Tail(acts)
  /\ UNCHANGED <<now, engSeq, wake, fwd, drop, tailDrop, bufVars, egressVars,
                 closeVars, ctlVars, deadline, rpkt, read, emitted>>

TailDropExcept == <<now, engSeq, wake, ledger, fwd, drop, heapVars, mem,
                    egressVars, closeVars, ctlVars, deadline, rpkt, read, emitted>>

\* Mutant: the early return forgets the counter.
TailDropUncounted ==
  /\ rpc = "admit"
  /\ Cardinality(eg) >= MaxQueued
  /\ pool' = pool \cup rbuf
  /\ rbuf' = {} /\ acts' = Tail(acts) /\ rpc' = "process"
  /\ UNCHANGED <<TailDropExcept, tailDrop>>

\* Mutant: the early return keeps hold of the buffer it took.
TailDropKeepsBuffer ==
  /\ rpc = "admit"
  /\ Cardinality(eg) >= MaxQueued
  /\ tailDrop' = tailDrop + 1
  /\ acts' = Tail(acts) /\ rpc' = "process"
  /\ UNCHANGED <<TailDropExcept, pool, rbuf>>

\* enqueue on a full heap: release the buffer and count a tail drop.
TailDrop ==
  /\ rpc = "admit"
  /\ Cardinality(eg) >= MaxQueued
  /\ pool' = pool \cup rbuf
  /\ tailDrop' = tailDrop + 1
  /\ rbuf' = {}
  /\ acts' = Tail(acts)
  /\ rpc' = "process"
  /\ UNCHANGED TailDropExcept

SendWakeExcept == <<now, engSeq, ledger, fwd, drop, tailDrop, heapVars, bufVars,
                    egressVars, closeVars, ctlVars, deadline, rpkt, acts, rbuf,
                    read, emitted>>

\* Mutant: an unbuffered channel passes a token only to a waiting receiver.
SendWakeUnbuffered ==
  /\ rpc = "wake"
  /\ wake' = (wake \/ epc = "select")
  /\ rpc' = "process"
  /\ UNCHANGED SendWakeExcept

\* After the unlock: the non-blocking send on the wake channel.
SendWake ==
  /\ rpc = "wake"
  /\ wake' = TRUE
  /\ rpc' = "process"
  /\ UNCHANGED SendWakeExcept

Reader ==
  \/ ReadCheck \/ ReadArm \/ ReadDatagram \/ ReadTimeout \/ ReadError
  \/ Handle \/ ProcessDrop \/ ProcessDone
  \/ GetBuf \/ Admit \/ TailDrop \/ SendWake
-----------------------------------------------------------------------------
(***************************************************************************)
(* The egress goroutine.                                                   *)
(***************************************************************************)
EgressExcept == <<now, engSeq, drop, tailDrop, deadline, readerVars, egOrd,
                  mem, closeVars, ctlVars>>

\* Under egMu: the head is due and is popped.
EgressPop ==
  /\ epc = "lock"
  /\ \E it \in eg :
       /\ IsHead(it, eg)
       /\ it.at <= now
       /\ eg' = eg \ {it}
       /\ hand' = {it}
  /\ epc' = "send"
  /\ UNCHANGED <<EgressExcept, wake, ledger, fwd, pool, timer, target, sent,
                 discarded>>

\* Under egMu: nothing is due; compute how long to sleep.
EgressPark ==
  /\ epc = "lock"
  /\ \A it \in eg : it.at > now
  /\ \/ /\ eg = {}
        /\ timer' = Hour /\ target' = 0
     \/ \E it \in eg : /\ IsHead(it, eg)
                       /\ timer' = Min2(it.at - now, Hour)
                       /\ target' = it.ord
  /\ epc' = "arm"
  /\ UNCHANGED <<EgressExcept, eg, wake, ledger, fwd, pool, hand, sent, discarded>>

\* After the unlock: stop, drain and reset the timer.
EgressArm ==
  /\ epc = "arm"
  /\ epc' = "select"
  /\ UNCHANGED <<EgressExcept, eg, wake, ledger, fwd, pool, hand, timer,
                 target, sent, discarded>>

\* The three ways out of the select.
EgressWoken ==
  /\ epc = "select" /\ wake
  /\ wake' = FALSE
  /\ epc' = "lock" /\ timer' = 0 /\ target' = 0
  /\ UNCHANGED <<EgressExcept, eg, ledger, fwd, pool, hand, sent, discarded>>

\* Mutant: when the timer fires, egress selects again without looking at the heap.
EgressTimerIgnored ==
  /\ epc = "select" /\ timer = 0
  /\ timer' = Hour
  /\ UNCHANGED <<EgressExcept, epc, eg, wake, ledger, fwd, pool, hand, target,
                 sent, discarded>>

EgressTimer ==
  /\ epc = "select" /\ timer = 0
  /\ epc' = "lock" /\ target' = 0
  /\ UNCHANGED <<EgressExcept, eg, wake, ledger, fwd, pool, hand, timer, sent,
                 discarded>>

EgressExit ==
  /\ epc = "select" /\ closed
  /\ epc' = "done" /\ timer' = 0 /\ target' = 0
  /\ UNCHANGED <<EgressExcept, eg, wake, ledger, fwd, pool, hand, sent, discarded>>

SendCheckExcept == <<EgressExcept, eg, wake, ledger, fwd, timer, target, sent>>

\* Mutant: sendItem does not look at the done channel.
SendUnchecked ==
  /\ epc = "send"
  /\ epc' = "write"
  /\ UNCHANGED <<SendCheckExcept, hand, discarded, pool>>

\* Mutant: the buffer goes back to the pool before the write.
SendCheckEarlyPut ==
  /\ epc = "send"
  /\ IF closed
     THEN epc' = "lock" /\ hand' = {} /\ discarded' = discarded + 1
     ELSE epc' = "write" /\ UNCHANGED <<hand, discarded>>
  /\ pool' = pool \cup {it.buf : it \in hand}
  /\ UNCHANGED SendCheckExcept

\* sendItem: after close the forward is dropped, uncounted, and its buffer is
\* left to the garbage collector (nobody references it any more).
SendCheck ==
  /\ epc = "send"
  /\ IF closed
     THEN /\ epc' = "lock" /\ hand' = {} /\ discarded' = discarded + 1
          /\ pool' = pool \cup {it.buf : it \in hand}
     ELSE /\ epc' = "write" /\ UNCHANGED <<hand, discarded, pool>>
  /\ UNCHANGED SendCheckExcept

\* The socket write.
SendWrite ==
  /\ epc = "write"
  /\ \E it \in hand :
       sent' = Append(sent, [at |-> it.at, ord |-> it.ord, pkt |-> it.pkt,
                             data |-> mem[it.buf]])
  /\ epc' = "final"
  /\ UNCHANGED <<EgressExcept, eg, wake, ledger, fwd, pool, hand, timer,
                 target, discarded>>

SendFinishExcept == <<EgressExcept, eg, wake, timer, target, sent, discarded>>

\* The rest of sendItem: stamp the ledger entry, count, release the buffer.
SendFinish ==
  /\ epc = "final"
  /\ \E it \in hand :
       /\ ~FinalizePanics(ledger, it.led)
       /\ ledger' = IF it.led.slot >= 0 /\ ledger # NoLedger
                    THEN FinalizeEntry(ledger, it.led, now) ELSE ledger
       /\ pool' = pool \cup {it.buf}
  /\ fwd' = fwd + 1
  /\ hand' = {}
  /\ epc' = "lock"
  /\ UNCHANGED SendFinishExcept

\* finalize indexes the ring with a slot it does not have: the process dies.
SendPanic ==
  /\ epc = "final"
  /\ ledger # NoLedger
  /\ \E it \in hand : FinalizePanics(ledger, it.led)
  /\ epc' = "panic"
  /\ UNCHANGED <<EgressExcept, eg, wake, ledger, fwd, pool, hand, timer,
                 target, sent, discarded>>

Egress ==
  \/ EgressPop \/ EgressPark \/ EgressArm
  \/ EgressWoken \/ EgressTimer \/ EgressExit
  \/ SendCheck \/ SendWrite \/ SendFinish \/ SendPanic
-----------------------------------------------------------------------------
(***************************************************************************)
(* Control calls, and time.                                                *)
(***************************************************************************)
ControlExcept == <<now, engSeq, wake, fwd, drop, tailDrop, readerVars,
                   egressVars, heapVars, bufVars>>

SetEngine(e) ==
  /\ swaps < MaxSwaps
  /\ swaps' = swaps + 1
  /\ eng' = e
  /\ UNCHANGED <<ControlExcept, ledger, deadline, closeVars, enables>>

EnableLedger(capacity) ==
  /\ enables < MaxEnables
  /\ enables' = enables + 1
  /\ ledger' = NewLedger(IF capacity <= 0 THEN DefaultLedgerCap ELSE capacity)
  /\ UNCHANGED <<ControlExcept, deadline, closeVars, eng, swaps>>

\* Close.  sync.Once lets the first caller in and blocks the others until it
\* is through.  The first caller closes the done channel ...
CloseFirst(c) ==
  /\ cpc[c] = "idle" /\ ~closed
  /\ closed' = TRUE
  /\ cpc' = [cpc EXCEPT ![c] = "wake"]
  /\ UNCHANGED <<ControlExcept, ledger, deadline, ctlVars, sockOpen>>

\* ... unblocks the read loop by moving its read deadline to now ...
CloseWake(c) ==
  /\ cpc[c] = "wake"
  /\ deadline' = "past"
  /\ cpc' = [cpc EXCEPT ![c] = "wait"]
  /\ UNCHANGED <<ControlExcept, ledger, ctlVars, closed, sockOpen>>

\* ... waits for the core's goroutines, and closes the socket.
CloseSocks(c) ==
  /\ cpc[c] = "wait"
  /\ rpc = "done" /\ epc = "done"
  /\ sockOpen' = FALSE
  /\ cpc' = [cpc EXCEPT ![c] = "done"]
  /\ UNCHANGED <<ControlExcept, ledger, deadline, ctlVars, closed>>

\* Mutant: a flag instead of sync.Once: a second Close returns at once.
CloseAgainAtOnce(c) ==
  /\ cpc[c] = "idle" /\ closed
  /\ cpc' = [cpc EXCEPT ![c] = "done"]
  /\ UNCHANGED <<ControlExcept, ledger, deadline, ctlVars, closed, sockOpen>>

CloseAgain(c) ==
  /\ cpc[c] = "idle" /\ closed
  /\ cpc' = [cpc EXCEPT ![c] = IF sockOpen THEN "blocked" ELSE "done"]
  /\ UNCHANGED <<ControlExcept, ledger, deadline, ctlVars, closed, sockOpen>>

CloseReturn(c) ==
  /\ cpc[c] = "blocked" /\ ~sockOpen
  /\ cpc' = [cpc EXCEPT ![c] = "done"]
  /\ UNCHANGED <<ControlExcept, ledger, deadline, ctlVars, closed, sockOpen>>

Closer(c) ==
  \/ CloseFirst(c) \/ CloseWake(c) \/ CloseSocks(c)
  \/ CloseAgain(c) \/ CloseReturn(c)

Control ==
  \/ \E e \in Engines : SetEngine(e)
  \/ \E a \in EnableArgs : EnableLedger(a)

\* Time passes.  The armed timer runs on when the clock has reached its bound.
Tick ==
  /\ now < Horizon \/ (epc = "select" /\ timer > 0)
  /\ now' = Min2(now + 1, Horizon)
  /\ timer' = IF epc = "select" /\ timer > 0 THEN timer - 1 ELSE timer
  /\ UNCHANGED <<engSeq, wake, ledger, fwd, drop, tailDrop, deadline, readerVars,
                 heapVars, bufVars, closeVars, ctlVars, epc, hand, target, sent,
                 discarded>>

\* Every Close has returned (or the process died): nothing moves any more.
Stopped ==
  /\ epc = "panic" \/ (Closers # {} /\ \A c \in Closers : cpc[c] = "done")
  /\ UNCHANGED vars

Next ==
  \/ /\ epc # "panic"
     /\ Reader \/ Egress \/ Control \/ Tick \/ \E c \in Closers : Closer(c)
  \/ Stopped

Spec == Init /\ [][Next]_vars

(***************************************************************************)
(* Fairness.  The Go scheduler runs every runnable goroutine and time      *)
(* passes; a read blocks for 200 ms at most, so the reader always gets on. *)
(* A select picks uniformly among its ready cases, so egress, coming back  *)
(* to it with the done channel closed, takes that case in the end: strong  *)
(* fairness.  Nobody has to call Close; a Close that was called goes on.   *)
(***************************************************************************)
Fairness ==
  /\ WF_vars(Reader)
  /\ WF_vars(Egress)
  /\ SF_vars(EgressExit)
  /\ WF_vars(Tick)
  /\ \A c \in Closers :
       WF_vars(CloseWake(c) \/ CloseSocks(c) \/ CloseReturn(c))

FairSpec == Spec /\ Fairness
-----------------------------------------------------------------------------
(***************************************************************************)
(* Properties.                                                             *)
(***************************************************************************)
Handles == [slot : Int, gen : Nat]

Items == [at : Nat, ord : Nat, buf : Buffers, pkt : Nat, led : Handles]

Entries == [seq : Nat, recvAt : Nat, deliverAt : Nat, egressAt : Nat, own : Nat]

Ledgers(cap) ==
  [cap : {cap}, next : 0..(cap - 1), count : Nat,
   buf : [0..(cap - 1) -> Entries], gen : [0..(cap - 1) -> Nat]]

ReaderPCs == {"check", "arm", "read", "handle", "process", "admit", "wake", "done"}

EgressPCs == {"lock", "arm", "select", "send", "write", "final", "done", "panic"}

CloserPCs == {"idle", "wake", "wait", "blocked", "done"}

\* Every variable has its type; in particular a forward in flight through the
\* reader or egress exists exactly where the code has one in a local variable.
TypeOK ==
  /\ now \in Nat \ {0}
  /\ eng \in Engines
  /\ engSeq \in [Engines -> Nat]
  /\ eg \subseteq Items /\ egOrd \in Nat
  /\ wake \in BOOLEAN
  /\ ledger = NoLedger \/ (ledger.cap \in Nat \ {0} /\ ledger \in Ledgers(ledger.cap))
  /\ pool \subseteq Buffers
  /\ mem \in [Buffers -> Nat]
  /\ fwd \in Nat /\ drop \in Nat /\ tailDrop \in Nat
  /\ closed \in BOOLEAN /\ sockOpen \in BOOLEAN
  /\ deadline \in {"none", "future", "past"}
  /\ rpc \in ReaderPCs
  /\ rpkt \in [id : Nat, seq : Nat, recvAt : Nat]
  /\ acts \in Seq(Action)
  /\ IF rpc = "admit"
     THEN acts # << >> /\ \E b \in Buffers : rbuf = {b}
     ELSE rbuf = {}
  /\ epc \in EgressPCs
  /\ hand \subseteq Items
  /\ IF epc \in {"send", "write", "final", "panic"}
     THEN \E it \in hand : hand = {it}
     ELSE hand = {}
  /\ timer \in Nat
  /\ cpc \in [Closers -> CloserPCs]
  /\ enables \in Nat /\ swaps \in Nat
  /\ read \in Nat /\ emitted \in Nat /\ discarded \in Nat /\ target \in Nat
  /\ sent \in Seq([at : Nat, ord : Nat, pkt : Nat, data : Nat])

\* No lost wake-up.  When egress is about to sleep or sleeps (its wait computed
\* under the lock, the timer reset and the select entered after it), either its
\* timer was computed for the forward that is the head now, or a wake token is
\* in the channel, or the reader that made a new head is about to send one.
\* enqueue signals after its unlock and egress sleeps after its own, so this
\* rests on the channel being buffered and on isHead being read under the lock.
NoLostWakeup ==
  epc \in {"arm", "select"} /\ ~wake /\ rpc # "wake" =>
    \A it \in eg : IsHead(it, eg) => target = it.ord

\* Forwards that egress has popped but not yet written.
InHand == IF epc \in {"send", "write"} THEN hand ELSE {}

\* Nothing is lost and nothing is counted twice.  Every action an engine
\* returned is a drop, a tail drop, an admission, or still to be carried out;
\* every admission was written, is queued, is in egress's hand, or was given up
\* after Close; and Stats' Forwarded counts the writes, at most one late.
Conservation ==
  /\ emitted = Len(acts) + drop + tailDrop + egOrd
  /\ egOrd = Len(sent) + Cardinality(eg) + Cardinality(InHand) + discarded
  /\ Len(sent) = fwd + (IF epc \in {"final", "panic"} THEN 1 ELSE 0)
  /\ discarded > 0 => closed

\* A buffer has one owner: the pool, the reader between getBuf and the push, or
\* one forward.  What a forward will write is the datagram it was made from,
\* whatever the reader has read into its own buffer since.
BuffersOwned ==
  LET live == eg \cup hand
  IN  /\ \A it \in live : it.buf \notin pool \cup rbuf /\ mem[it.buf] = it.pkt
      /\ \A a, b \in live : a.buf = b.buf => a = b
      /\ rbuf \cap pool = {}
      /\ \A i \in DOMAIN sent : sent[i].data = sent[i].pkt

\* Whether the forward that started a ledger entry has been finalized.
Finalized(e) ==
  /\ \E i \in DOMAIN sent : sent[i].ord = e.own
  /\ ~ \E it \in hand : it.ord = e.own

\* An entry of a snapshot has an egress time exactly when its own forward went
\* out, and then recvAt <= deliverAt <= egressAt: the comment on ledgerHandle,
\* which says that the generation check keeps a late handle from corrupting an
\* unrelated entry.
EntriesFaithful ==
  ledger # NoLedger =>
    LET snap == Snapshot(ledger)
    IN  \A i \in DOMAIN snap :
          /\ snap[i].egressAt # 0 <=> Finalized(snap[i])
          /\ snap[i].recvAt <= snap[i].deliverAt
          /\ snap[i].egressAt # 0 => snap[i].deliverAt <= snap[i].egressAt

\* No ledger was replaced by another one.
OneRing == enables + (IF LedgerCap > 0 THEN 1 ELSE 0) <= 1

\* As long as EnableLedger has replaced no ledger, none misattributes a time, also
\* when the ring wraps while forwards are in flight or is installed under them.
LedgerFaithful == OneRing => EntriesFaithful

\* A snapshot is the most recent admissions, oldest first and without gaps,
\* wrapped or not, whatever was tail-dropped in between.
SnapshotIsRecent ==
  ledger # NoLedger =>
    LET snap == Snapshot(ledger)
    IN  /\ Len(snap) = Min2(ledger.count, ledger.cap)
        /\ \A i \in DOMAIN snap : snap[i].own = egOrd - Len(snap) + i

\* The delay decomposition is one of sent packets, read at any time: it covers the
\* recent forwards that went out and no other, no component is negative, and at
\* each quantile a packet stays in the relay at least as long as it is queued and
\* as long as egress is late (DecomposedOWD).
OwdAttributed ==
  OneRing /\ ledger # NoLedger =>
    LET snap == Snapshot(ledger)
        owd  == DecomposedOWD(snap)
    IN  /\ owd.n = Cardinality({i \in DOMAIN snap : Finalized(snap[i])})
        /\ \A part \in {owd.queue, owd.overhead} :
             /\ 0 <= part.p50 /\ part.p50 <= part.p99
             /\ part.p50 <= owd.residence.p50 /\ part.p99 <= owd.residence.p99

\* When any call of Close has returned, the first or a later one, both
\* goroutines are gone and the socket is closed; and the socket is never
\* closed under a goroutine that may still use it.
QuietAfterClose ==
  (~sockOpen \/ \E c \in Closers : cpc[c] = "done") =>
    ~sockOpen /\ rpc = "done" /\ epc = "done" /\ hand = {} /\ rbuf = {}

\* finalize indexes inside the ring, if no ring was replaced: a forward admitted
\* before the ledger was there holds no handle.
NoPanic == OneRing => epc # "panic"

\* A forward that was admitted leaves: it is written, unless the core is closed
\* first.  No new arrival is needed to get it going, whatever the order in which
\* enqueue, the timer and the wake channel interleave, and with a delay beyond
\* the longest sleep of the timer.
EveryForwardLeaves ==
  \A k \in 1..(2 * MaxPackets) :
    (\E it \in eg : it.ord = k) ~>
      (closed \/ \E i \in DOMAIN sent : sent[i].ord = k)

\* Every Close returns: no goroutine that Close waits for is waiting for ever,
\* even if the reader overwrites the read deadline Close has just set.
CloseCompletes ==
  \A c \in Closers : cpc[c] # "idle" ~> cpc[c] = "done"
-----------------------------------------------------------------------------
(***************************************************************************)
(* The datapath implements the delay line.                                 *)
(***************************************************************************)
Public(it) == [at |-> it.at, ord |-> it.ord, pkt |-> it.pkt]

Line == INSTANCE DelayLine WITH
  Capacity   <- MaxQueued,
  clock      <- now,
  open       <- ~closed,
  committed  <- IF closed /\ epc = "write" THEN {Public(it) : it \in hand} ELSE {},
  pending    <- {Public(it) : it \in eg \cup InHand},
  delivered  <- [i \in DOMAIN sent |->
                  [at |-> sent[i].at, ord |-> sent[i].ord, pkt |-> sent[i].data]],
  admissions <- egOrd,
  refused    <- tailDrop

\* Seen from outside, through heap, timer, channel, pool and goroutines, the
\* core is a bounded delay line: see DelayLine for what that promises.
ImplementsDelayLine == Line!Spec
=============================================================================
