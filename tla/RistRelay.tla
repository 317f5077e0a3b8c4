----------------------------- MODULE RistRelay -----------------------------
(***************************************************************************)
(* The dual-port RIST relay (ristrelay/ristrelay.go): an even media port   *)
(* and the next odd RTCP port, one read loop each, sharing a tap that is   *)
(* not safe for concurrent use, the core, and one Close.  Media goes       *)
(* through the core (RelayCore, abstracted to a set of forwards delivered  *)
(* in any order, dropped or duplicated); RTCP is written straight back.    *)
(*                                                                         *)
(* The tap is an observer that counts what it is shown: it reads the       *)
(* counter and writes it back, in two steps.                               *)
(***************************************************************************)
EXTENDS Integers, Sequences, FiniteSets

CONSTANTS
  Senders,   \* source addresses other than the receiver's two
  Ports,     \* ephemeral ports the system may hand out, if nobody holds them
  MaxTries,  \* attempts of bindEvenPair
  MaxReads   \* bound: datagrams read on both ports

Loops == {"rtp", "rtcp"}

\* The receiver's address on each port: recvRTP, and recvRTCP one port up.
Receiver == [rtp |-> "recvRTP", rtcp |-> "recvRTCP"]

Addrs == Senders \cup {Receiver[l] : l \in Loops}

\* No sender learned yet (the nil pointer).
NoAddr == "nil"

ASSUME RistAssumption ==
  /\ Senders \cap {NoAddr, "recvRTP", "recvRTCP"} = {}
  /\ Ports \subseteq Nat
  /\ MaxTries \in Nat /\ MaxReads \in Nat

VARIABLES
  phase,    \* New: listen, bound (the first socket of an attempt), running or failed
  tries,    \* attempts to bind that failed
  conn,     \* port of the first socket of the last attempt
  socks,    \* ports of the sockets that are open
  hasTap,   \* the tap is not nil
  pc,       \* where each loop is
  from,     \* each loop: source of the datagram in its buffer
  dst,      \* each loop: where it goes
  sender,   \* senderRTP and senderRTCP, under mu
  tapMu,    \* the loop that holds tapMu, or "free"
  count,    \* the observer's counter
  seen,     \* each loop, in the tap: the counter as it was read
  core,     \* media forwards the core holds
  egress,   \* the core's egress goroutine: run or done
  closed,   \* the core's done channel is closed
  reads,    \* history: sources of the datagrams read, per port
  media,    \* history: media forwards written
  rtcp      \* history: RTCP datagrams written, in order

newVars  == <<phase, tries, conn, socks, hasTap>>
tapVars  == <<tapMu, count, seen>>
coreVars == <<core, egress, closed, media>>
vars == <<newVars, pc, from, dst, sender, tapVars, coreVars, reads, rtcp>>

Init ==
  /\ phase = "listen" /\ tries = 0 /\ conn = 0 /\ socks = {}
  /\ hasTap \in BOOLEAN
  /\ pc = [l \in Loops |-> "check"]
  /\ from = [l \in Loops |-> NoAddr] /\ dst = from /\ sender = from
  /\ tapMu = "free" /\ count = 0 /\ seen = [l \in Loops |-> 0]
  /\ core = {} /\ egress = "run" /\ closed = FALSE
  /\ reads = [l \in Loops |-> << >>] /\ media = {} /\ rtcp = << >>
-----------------------------------------------------------------------------
(***************************************************************************)
(* New: bindEvenPair.  An attempt binds any free port and then, if that is *)
(* even, the next one; other processes bind and close ports meanwhile, so  *)
(* either may fail.                                                        *)
(***************************************************************************)
BindExcept == <<hasTap, pc, from, dst, sender, tapVars, coreVars, reads, rtcp>>

\* The attempt is over, and the next one follows.
NextTry == tries' = tries + 1 /\ phase' = "listen" /\ UNCHANGED <<BindExcept, conn>>

ListenFails ==
  /\ phase = "listen" /\ tries < MaxTries
  /\ NextTry
  /\ UNCHANGED socks

Listen(p) ==
  /\ phase = "listen" /\ tries < MaxTries
  /\ p \notin socks
  /\ conn' = p
  /\ socks' = socks \cup {p}
  /\ phase' = "bound"
  /\ UNCHANGED <<BindExcept, tries>>

\* The port is odd: its socket is closed again.
OddPort ==
  /\ phase = "bound" /\ conn % 2 # 0
  /\ socks' = socks \ {conn}
  /\ NextTry

\* Mutant: the socket of the even port stays open.
NextTakenLeaks ==
  /\ phase = "bound" /\ conn % 2 = 0
  /\ NextTry
  /\ UNCHANGED socks

\* The port is even and its successor is taken: its socket is closed again.
NextTaken ==
  /\ phase = "bound" /\ conn % 2 = 0
  /\ socks' = socks \ {conn}
  /\ NextTry

\* The pair is bound and the loops start.
BindPair ==
  /\ phase = "bound" /\ conn % 2 = 0 /\ conn + 1 \notin socks
  /\ socks' = socks \cup {conn + 1}
  /\ tries' = 0
  /\ phase' = "running"
  /\ UNCHANGED <<BindExcept, conn>>

BindFails ==
  /\ phase = "listen" /\ tries = MaxTries
  /\ phase' = "failed"
  /\ UNCHANGED <<BindExcept, tries, conn, socks>>
-----------------------------------------------------------------------------
(***************************************************************************)
(* The two loops.  The read deadline is at most 200 ms away, so a read can *)
(* always time out (RelayCore has the deadline itself).                    *)
(***************************************************************************)
At(l, where) == phase = "running" /\ pc[l] = where

Goto(l, where) == pc' = [pc EXCEPT ![l] = where]

Check(l) ==
  /\ At(l, "check")
  /\ Goto(l, IF closed THEN "done" ELSE "read")
  /\ UNCHANGED <<newVars, from, dst, sender, tapVars, coreVars, reads, rtcp>>

Datagram(l, src) ==
  /\ At(l, "read")
  /\ Len(reads["rtp"]) + Len(reads["rtcp"]) < MaxReads
  /\ reads' = [reads EXCEPT ![l] = Append(@, src)]
  /\ from' = [from EXCEPT ![l] = src]
  /\ Goto(l, IF hasTap THEN "observe" ELSE "route")
  /\ UNCHANGED <<newVars, dst, sender, tapVars, coreVars, rtcp>>

ReadTimeout(l) ==
  /\ At(l, "read")
  /\ Goto(l, "check")
  /\ UNCHANGED <<newVars, from, dst, sender, tapVars, coreVars, reads, rtcp>>

ReadError(l) ==
  /\ At(l, "read")
  /\ Goto(l, "done")
  /\ UNCHANGED <<newVars, from, dst, sender, tapVars, coreVars, reads, rtcp>>

ObserveExcept == <<newVars, from, dst, sender, coreVars, reads, rtcp>>

\* Mutant: the loops call the tap without the mutex.
ObserveUnlocked(l) ==
  /\ At(l, "observe")
  /\ seen' = [seen EXCEPT ![l] = count]
  /\ Goto(l, "tap")
  /\ UNCHANGED <<ObserveExcept, tapMu, count>>

\* observe: take tapMu and call the tap, which reads its counter ...
Observe(l) ==
  /\ At(l, "observe")
  /\ tapMu = "free"
  /\ tapMu' = l
  /\ seen' = [seen EXCEPT ![l] = count]
  /\ Goto(l, "tap")
  /\ UNCHANGED <<ObserveExcept, count>>

\* Mutant: the mutex is not released.
ObservedNoUnlock(l) ==
  /\ At(l, "tap")
  /\ count' = seen[l] + 1
  /\ Goto(l, "route")
  /\ UNCHANGED <<ObserveExcept, seen, tapMu>>

\* ... and writes it back; the mutex is released.
Observed(l) ==
  /\ At(l, "tap")
  /\ count' = seen[l] + 1
  /\ tapMu' = "free"
  /\ Goto(l, "route")
  /\ UNCHANGED <<ObserveExcept, seen>>

RouteExcept == <<newVars, from, tapVars, coreVars, reads, rtcp>>

\* From the receiver, before a sender was learned on this port: dropped.
RouteTooEarly(l) ==
  /\ At(l, "route")
  /\ from[l] = Receiver[l] /\ sender[l] = NoAddr
  /\ Goto(l, "check")
  /\ UNCHANGED <<RouteExcept, dst, sender>>

\* From the receiver: to the sender learned on this port.
RouteToSender(l) ==
  /\ At(l, "route")
  /\ from[l] = Receiver[l] /\ sender[l] # NoAddr
  /\ dst' = [dst EXCEPT ![l] = sender[l]]
  /\ Goto(l, "send")
  /\ UNCHANGED <<RouteExcept, sender>>

\* Mutant: media teaches the RTCP address too, as if it were one socket.
RouteLearnsBoth(l) ==
  /\ At(l, "route")
  /\ from[l] # Receiver[l]
  /\ sender' = [k \in Loops |-> IF sender[k] = NoAddr THEN from[l] ELSE sender[k]]
  /\ dst' = [dst EXCEPT ![l] = Receiver[l]]
  /\ Goto(l, "send")
  /\ UNCHANGED RouteExcept

\* From anyone else: to the receiver; the first one teaches this port's sender.
RouteToReceiver(l) ==
  /\ At(l, "route")
  /\ from[l] # Receiver[l]
  /\ sender' = [sender EXCEPT ![l] = IF @ = NoAddr THEN from[l] ELSE @]
  /\ dst' = [dst EXCEPT ![l] = Receiver[l]]
  /\ Goto(l, "send")
  /\ UNCHANGED RouteExcept

\* mediaLoop: Process; the engine keeps the datagram, in one copy or two, or not.
ProcessMedia ==
  /\ At("rtp", "send")
  /\ \E copies \in 0..2 :
       core' = core \cup {[num |-> Len(reads["rtp"]), copy |-> k, to |-> dst["rtp"]] :
                            k \in 1..copies}
  /\ Goto("rtp", "check")
  /\ UNCHANGED <<newVars, from, dst, sender, tapVars, egress, closed, media, reads, rtcp>>

\* rtcpLoop: the datagram is written as it came.
WriteRtcp ==
  /\ At("rtcp", "send")
  /\ rtcp' = Append(rtcp, [num |-> Len(reads["rtcp"]), to |-> dst["rtcp"]])
  /\ Goto("rtcp", "check")
  /\ UNCHANGED <<newVars, from, dst, sender, tapVars, coreVars, reads>>

Loop(l) ==
  \/ Check(l) \/ \E src \in Addrs : Datagram(l, src)
  \/ ReadTimeout(l) \/ ReadError(l)
  \/ Observe(l) \/ Observed(l)
  \/ RouteTooEarly(l) \/ RouteToSender(l) \/ RouteToReceiver(l)
  \/ (l = "rtp" /\ ProcessMedia) \/ (l = "rtcp" /\ WriteRtcp)
-----------------------------------------------------------------------------
(***************************************************************************)
(* The core's egress, and Close.                                           *)
(***************************************************************************)
CoreExcept == <<phase, tries, conn, hasTap, pc, from, dst, sender, tapVars, reads, rtcp>>

Deliver(f) ==
  /\ f \in core /\ egress = "run"
  /\ core' = core \ {f}
  /\ media' = media \cup {f}
  /\ UNCHANGED <<CoreExcept, socks, egress, closed>>

\* The queue is full, or the core is closed.
GiveUp(f) ==
  /\ f \in core /\ egress = "run"
  /\ core' = core \ {f}
  /\ UNCHANGED <<CoreExcept, socks, egress, closed, media>>

EgressExit ==
  /\ closed /\ egress = "run"
  /\ egress' = "done"
  /\ UNCHANGED <<CoreExcept, socks, core, closed, media>>

Close ==
  /\ phase = "running" /\ ~closed
  /\ closed' = TRUE
  /\ UNCHANGED <<CoreExcept, socks, core, egress, media>>

\* Mutant: rtcpLoop is started with a bare go statement, so nobody waits for it.
CloseSocksEarly ==
  /\ closed /\ conn \in socks
  /\ pc["rtp"] = "done" /\ egress = "done"
  /\ socks' = socks \ {conn, conn + 1}
  /\ UNCHANGED <<CoreExcept, coreVars>>

\* wg.Wait returns and both sockets are closed.
CloseSocks ==
  /\ closed /\ conn \in socks
  /\ \A l \in Loops : pc[l] = "done"
  /\ egress = "done"
  /\ socks' = socks \ {conn, conn + 1}
  /\ UNCHANGED <<CoreExcept, coreVars>>

Stopped == (phase = "failed" \/ (closed /\ conn \notin socks)) /\ UNCHANGED vars

Next ==
  \/ \E p \in Ports : Listen(p)
  \/ ListenFails \/ OddPort \/ NextTaken \/ BindPair \/ BindFails
  \/ \E l \in Loops : Loop(l)
  \/ \E f \in core : Deliver(f) \/ GiveUp(f)
  \/ EgressExit \/ Close \/ CloseSocks \/ Stopped

Spec == Init /\ [][Next]_vars

(***************************************************************************)
(* The scheduler runs every goroutine that can run; sync.Mutex hands the   *)
(* lock to a waiter that starves, so a loop that keeps asking for tapMu    *)
(* gets it: strong fairness.                                               *)
(***************************************************************************)
FairSpec ==
  /\ Spec
  /\ \A l \in Loops : SF_vars(Loop(l))
  /\ WF_vars(EgressExit) /\ WF_vars(CloseSocks)
-----------------------------------------------------------------------------
\* The n-th datagram of a port, and who spoke first on it before then.
SaysFirst(l, n, who) ==
  \E m \in 1..(n - 1) :
    /\ reads[l][m] = who /\ who # Receiver[l]
    /\ \A k \in 1..(m - 1) : reads[l][k] = Receiver[l]

Peer(l, n, to) ==
  IF reads[l][n] = Receiver[l] THEN SaysFirst(l, n, to) ELSE to = Receiver[l]

\* Datagrams of a port whose handling is over.
Through(l) ==
  1..(Len(reads[l]) - (IF pc[l] \in {"observe", "tap", "route", "send"} THEN 1 ELSE 0))

\* The return path of the retransmission requests is clean and separate: every
\* RTCP datagram goes out, in order, once and to the peer on the RTCP port,
\* whatever the media port is doing; only the receiver's reports from before
\* the sender first spoke RTCP (its own port, not one taken from media) are not.
\* Media goes to the peer on the media port, and nothing is reflected.
PortsSeparate ==
  /\ \A f \in core \cup media : Peer("rtp", f.num, f.to)
  /\ \A i \in DOMAIN rtcp : Peer("rtcp", rtcp[i].num, rtcp[i].to)
  /\ \A i, j \in DOMAIN rtcp : i < j => rtcp[i].num < rtcp[j].num
  /\ {rtcp[i].num : i \in DOMAIN rtcp} =
       {n \in Through("rtcp") : \E to \in Addrs : Peer("rtcp", n, to)}

\* The observer misses nothing: it has counted every datagram of both ports that
\* is past the tap, also when both loops have one at the same time.
ObservedAll ==
  hasTap /\ (\A l \in Loops : pc[l] # "tap") =>
    count = Len(reads["rtp"]) + Len(reads["rtcp"]) -
              Cardinality({l \in Loops : pc[l] = "observe"})

\* No socket leaks: an attempt to bind gives back what it bound before the next one
\* starts and before New fails, whichever of its steps failed, and a relay that runs
\* holds an even port and the next one and nothing else, until both loops and the
\* egress are gone (bindEvenPair, Close).
PairHeld ==
  /\ phase \in {"listen", "failed"} => socks = {}
  /\ phase = "bound" => socks = {conn}
  /\ phase = "running" =>
       \/ conn % 2 = 0 /\ socks = {conn, conn + 1}
       \/ /\ socks = {} /\ closed /\ egress = "done"
          /\ \A l \in Loops : pc[l] = "done"

\* Close gets both loops and the egress to stop, and closes all sockets.
CloseCompletes == closed ~> socks = {}
=============================================================================
