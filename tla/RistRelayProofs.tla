-------------------------- MODULE RistRelayProofs --------------------------
(***************************************************************************)
(* Proofs about the dual-port RIST relay (module RistRelay), for any set   *)
(* of senders and ports and any number of datagrams: the pair of ports is  *)
(* held, the shared tap counts everything, and the two ports stay apart.   *)
(***************************************************************************)
EXTENDS RistRelay, FiniteSetTheorems, SequenceTheorems, TLAPS

LoopPCs == {"check", "read", "observe", "tap", "route", "send", "done"}

\* A loop with a datagram in its buffer; with one whose destination is not decided.
Busy     == {"observe", "tap", "route", "send"}
Unrouted == {"observe", "tap", "route"}

\* The types of the state the two read loops work on.
TypeInv ==
  /\ hasTap \in BOOLEAN
  /\ pc \in [Loops -> LoopPCs]
  /\ from \in [Loops -> Addrs \cup {NoAddr}]
  /\ dst \in [Loops -> Addrs \cup {NoAddr}]
  /\ sender \in [Loops -> Addrs \cup {NoAddr}]
  /\ \A l \in Loops : pc[l] = "send" => dst[l] \in Addrs
  /\ tapMu \in Loops \cup {"free"}
  /\ count \in Nat
  /\ seen \in [Loops -> Nat]
  /\ reads \in [Loops -> Seq(Addrs)]
  /\ rtcp \in Seq([num : Nat, to : Addrs])

\* A step of Next is a binding step, a step of one loop, or one of the core or of
\* Close, which leave the loops alone.
LEMMA StepKinds ==
  ASSUME [Next]_vars
  PROVE  \/ UNCHANGED <<hasTap, pc, from, dst, sender, tapMu, count, seen, reads, rtcp>>
         \/ \E l \in Loops : Loop(l)
<1> USE DEF newVars, tapVars, coreVars
<1>1. ASSUME NEW p \in Ports, Listen(p)
      PROVE  UNCHANGED <<hasTap, pc, from, dst, sender, tapMu, count, seen, reads, rtcp>>
  BY <1>1 DEF Listen, BindExcept
<1>2. ASSUME ListenFails \/ OddPort \/ NextTaken \/ BindPair \/ BindFails
      PROVE  UNCHANGED <<hasTap, pc, from, dst, sender, tapMu, count, seen, reads, rtcp>>
  BY <1>2 DEF ListenFails, OddPort, NextTaken, NextTry, BindPair, BindFails, BindExcept
<1>3. ASSUME NEW f \in core, Deliver(f) \/ GiveUp(f)
      PROVE  UNCHANGED <<hasTap, pc, from, dst, sender, tapMu, count, seen, reads, rtcp>>
  BY <1>3 DEF Deliver, GiveUp, CoreExcept
<1>4. ASSUME EgressExit \/ Close \/ CloseSocks
      PROVE  UNCHANGED <<hasTap, pc, from, dst, sender, tapMu, count, seen, reads, rtcp>>
  BY <1>4 DEF EgressExit, Close, CloseSocks, CoreExcept
<1>5. ASSUME Stopped \/ UNCHANGED vars
      PROVE  UNCHANGED <<hasTap, pc, from, dst, sender, tapMu, count, seen, reads, rtcp>>
  BY <1>5 DEF Stopped, vars
<1> QED
  BY <1>1, <1>2, <1>3, <1>4, <1>5 DEF Next

\* Every reachable state is well typed.
THEOREM TypeCorrect == Spec => []TypeInv
<1> USE DEF newVars, tapVars, coreVars
<1>1. Init => TypeInv
  BY RistAssumption DEF Init, TypeInv, LoopPCs
<1>2. TypeInv /\ [Next]_vars => TypeInv'
  <2> SUFFICES ASSUME TypeInv, [Next]_vars PROVE TypeInv'
    OBVIOUS
  <2>1. CASE UNCHANGED <<hasTap, pc, from, dst, sender, tapMu, count, seen, reads, rtcp>>
    BY <2>1 DEF TypeInv
  <2>2. ASSUME NEW l \in Loops, Loop(l) PROVE TypeInv'
    <3>0. \A k \in Loops : Receiver[k] \in Addrs
      BY DEF Addrs
    <3>1. CASE Check(l) \/ ReadTimeout(l) \/ ReadError(l)
      BY <3>1 DEF Check, ReadTimeout, ReadError, Goto, TypeInv, LoopPCs
    <3>2. ASSUME NEW src \in Addrs, Datagram(l, src) PROVE TypeInv'
      <4>1. reads' \in [Loops -> Seq(Addrs)] /\ from' \in [Loops -> Addrs \cup {NoAddr}]
            /\ pc' \in [Loops -> LoopPCs]
            /\ \A k \in Loops : pc'[k] = "send" => pc[k] = "send"
        BY <3>2 DEF Datagram, Goto, TypeInv, LoopPCs
      <4> QED
        BY <3>2, <4>1 DEF Datagram, TypeInv
    <3>3. CASE Observe(l) \/ Observed(l)
      <4>1. /\ pc' = [pc EXCEPT ![l] = "tap"] \/ pc' = [pc EXCEPT ![l] = "route"]
            /\ tapMu' = l \/ tapMu' = "free"
            /\ count' = count \/ count' = seen[l] + 1
            /\ seen' = seen \/ seen' = [seen EXCEPT ![l] = count]
            /\ UNCHANGED <<hasTap, from, dst, sender, reads, rtcp>>
        BY <3>3 DEF Observe, Observed, ObserveExcept, Goto
      <4>2. pc' \in [Loops -> LoopPCs]
            /\ \A k \in Loops : pc'[k] = "send" => pc[k] = "send"
        BY <4>1 DEF TypeInv, LoopPCs
      <4>3. count' \in Nat /\ seen' \in [Loops -> Nat]
        <5>1. count \in Nat /\ seen \in [Loops -> Nat] /\ seen[l] \in Nat
          BY DEF TypeInv
        <5>2. count' \in Nat
          BY <4>1, <5>1
        <5>3. seen' \in [Loops -> Nat]
          BY <4>1, <5>1
        <5> QED
          BY <5>2, <5>3
      <4> QED
        BY <4>1, <4>2, <4>3 DEF TypeInv
    <3>4. CASE RouteTooEarly(l) \/ RouteToSender(l) \/ RouteToReceiver(l)
      <4>1. /\ dst' \in [Loops -> Addrs \cup {NoAddr}]
            /\ sender' \in [Loops -> Addrs \cup {NoAddr}]
            /\ pc' \in [Loops -> LoopPCs]
            /\ \A k \in Loops : pc'[k] = "send" => dst'[k] \in Addrs
        BY <3>0, <3>4 DEF RouteTooEarly, RouteToSender, RouteToReceiver, RouteExcept,
                          Goto, TypeInv, LoopPCs
      <4> QED
        BY <3>4, <4>1 DEF RouteTooEarly, RouteToSender, RouteToReceiver, RouteExcept, TypeInv
    <3>5. CASE l = "rtp" /\ ProcessMedia
      BY <3>5 DEF ProcessMedia, Goto, TypeInv, LoopPCs
    <3>6. CASE l = "rtcp" /\ WriteRtcp
      <4>1. /\ rtcp' = Append(rtcp, [num |-> Len(reads["rtcp"]), to |-> dst["rtcp"]])
            /\ pc' = [pc EXCEPT !["rtcp"] = "check"] /\ pc["rtcp"] = "send"
            /\ UNCHANGED <<hasTap, from, dst, sender, tapMu, count, seen, reads>>
        BY <3>6 DEF WriteRtcp, Goto, At
      <4>2. [num |-> Len(reads["rtcp"]), to |-> dst["rtcp"]] \in [num : Nat, to : Addrs]
        BY <4>1 DEF TypeInv, Loops
      <4>3. rtcp' \in Seq([num : Nat, to : Addrs])
        BY <4>1, <4>2 DEF TypeInv
      <4> QED
        BY <4>1, <4>3 DEF TypeInv, LoopPCs, Loops
    <3> QED
      BY <2>2, <3>1, <3>2, <3>3, <3>4, <3>5, <3>6 DEF Loop
  <2> QED
    BY <2>1, <2>2, StepKinds
<1> QED
  BY <1>1, <1>2, PTL DEF Spec

\* Only a relay that New has returned is closed.
PairInv == PairHeld /\ (closed => phase = "running")

\* No socket leaks (bindEvenPair, Close): every failing step of an attempt closes what
\* the attempt opened, and Close closes the pair when both loops and the egress are gone.
\* A loop that is done and an egress that is done take no step.
THEOREM PairCorrect == Spec => []PairHeld
<1> USE DEF newVars, tapVars, coreVars
<1>1. Init => PairInv
  BY DEF Init, PairInv, PairHeld
<1>2. PairInv /\ [Next]_vars => PairInv'
  <2> SUFFICES ASSUME PairInv, [Next]_vars PROVE PairInv'
    OBVIOUS
  <2>1. ASSUME NEW p \in Ports, Listen(p) PROVE PairInv'
    <3>1. /\ phase = "listen" /\ phase' = "bound" /\ conn' = p /\ socks' = socks \cup {p}
          /\ closed' = closed
      BY <2>1 DEF Listen, BindExcept
    <3> QED
      BY <3>1 DEF PairInv, PairHeld
  <2>2. CASE ListenFails \/ BindFails
    <3>1. phase = "listen" /\ phase' \in {"listen", "failed"} /\ UNCHANGED <<socks, closed>>
      BY <2>2 DEF ListenFails, NextTry, BindFails, BindExcept
    <3> QED
      BY <3>1 DEF PairInv, PairHeld
  <2>3. CASE OddPort \/ NextTaken
    <3>1. phase = "bound" /\ phase' = "listen" /\ socks' = socks \ {conn} /\ closed' = closed
      BY <2>3 DEF OddPort, NextTaken, NextTry, BindExcept
    <3> QED
      BY <3>1 DEF PairInv, PairHeld
  <2>4. CASE BindPair
    <3>1. /\ phase = "bound" /\ phase' = "running" /\ conn % 2 = 0 /\ conn' = conn
          /\ socks' = socks \cup {conn + 1}
      BY <2>4 DEF BindPair, BindExcept
    <3>2. socks' = {conn, conn + 1}
      BY <3>1 DEF PairInv, PairHeld
    <3> QED
      BY <3>1, <3>2 DEF PairInv, PairHeld
  <2>5. ASSUME NEW l \in Loops, Loop(l) PROVE PairInv'
    <3>1. phase = "running" /\ pc[l] # "done" /\ UNCHANGED <<phase, conn, socks>>
      BY <2>5 DEF Loop, Check, Datagram, ReadTimeout, ReadError, Observe, Observed,
                  RouteTooEarly, RouteToSender, RouteToReceiver, ProcessMedia,
                  WriteRtcp, At, ObserveExcept, RouteExcept
    <3> QED
      BY <3>1 DEF PairInv, PairHeld
  <2>6. CASE EgressExit \/ Close \/ \E f \in core : Deliver(f) \/ GiveUp(f)
    <3>1. /\ UNCHANGED <<phase, conn, socks, pc>> /\ ~(closed /\ egress = "done")
          /\ closed' => closed \/ phase = "running"
      BY <2>6 DEF EgressExit, Close, Deliver, GiveUp, CoreExcept
    <3> QED
      BY <3>1 DEF PairInv, PairHeld
  <2>7. CASE CloseSocks
    <3>1. /\ closed /\ closed' /\ egress' = "done" /\ conn \in socks
          /\ socks' = socks \ {conn, conn + 1} /\ UNCHANGED <<phase, conn>>
          /\ \A l \in Loops : pc'[l] = "done"
      BY <2>7 DEF CloseSocks, CoreExcept
    <3>2. phase = "running" /\ socks' = {}
      BY <3>1 DEF PairInv, PairHeld
    <3> QED
      BY <3>1, <3>2 DEF PairInv, PairHeld
  <2>8. CASE Stopped \/ UNCHANGED vars
    BY <2>8 DEF Stopped, vars, PairInv, PairHeld
  <2> QED
    BY <2>1, <2>2, <2>3, <2>4, <2>5, <2>6, <2>7, <2>8 DEF Next
<1>3. PairInv => PairHeld
  BY DEF PairInv
<1> QED
  BY <1>1, <1>2, <1>3, PTL DEF Spec
-----------------------------------------------------------------------------
\* A datagram of a loop that was read and that the observer has not counted.
Uncounted(l) == IF pc[l] \in {"observe", "tap"} THEN 1 ELSE 0

\* tapMu makes the two halves of the tap one: its holder is the loop inside, which
\* has read the counter as it still is; and the counter is exact.
TapInv ==
  /\ \A l \in Loops : pc[l] = "tap" <=> tapMu = l
  /\ \A l \in Loops : pc[l] = "tap" => seen[l] = count
  /\ \A l \in Loops : pc[l] \in {"observe", "tap"} => hasTap
  /\ hasTap => count = Len(reads["rtp"]) - Uncounted("rtp")
                         + Len(reads["rtcp"]) - Uncounted("rtcp")

\* TapInv is an invariant: one step per action of a loop.
LEMMA TapInductive == Spec => []TapInv
<1> USE DEF newVars, tapVars, coreVars
<1>1. Init => TapInv
  BY DEF Init, TapInv, Uncounted, Loops
<1>2. TypeInv /\ TapInv /\ [Next]_vars => TapInv'
  <2> SUFFICES ASSUME TypeInv, TapInv, [Next]_vars PROVE TapInv'
    OBVIOUS
  <2>0. /\ pc \in [Loops -> LoopPCs] /\ seen \in [Loops -> Nat] /\ count \in Nat
        /\ reads \in [Loops -> Seq(Addrs)]
        /\ Len(reads["rtp"]) \in Nat /\ Len(reads["rtcp"]) \in Nat
    BY DEF TypeInv, Loops
  <2>1. CASE UNCHANGED <<hasTap, pc, from, dst, sender, tapMu, count, seen, reads, rtcp>>
    BY <2>1 DEF TapInv, Uncounted
  <2>2. ASSUME NEW l \in Loops, Loop(l) PROVE TapInv'
    <3>1. ASSUME NEW there \in {"check", "read", "send", "done"},
                 pc' = [pc EXCEPT ![l] = there], pc[l] \notin {"observe", "tap"},
                 UNCHANGED <<hasTap, tapMu, count, seen, reads>>
          PROVE  TapInv'
      BY <2>0, <3>1 DEF TapInv, Uncounted, Loops
    <3>2. CASE Check(l) \/ ReadTimeout(l) \/ ReadError(l)
      BY <3>1, <3>2 DEF Check, ReadTimeout, ReadError, Goto, At
    <3>3. CASE RouteTooEarly(l) \/ RouteToSender(l) \/ RouteToReceiver(l)
      BY <3>1, <3>3 DEF RouteTooEarly, RouteToSender, RouteToReceiver, RouteExcept, Goto, At
    <3>4. CASE l = "rtp" /\ ProcessMedia
      <4>1. /\ pc[l] = "send" /\ pc' = [pc EXCEPT ![l] = "check"]
            /\ UNCHANGED <<hasTap, tapMu, count, seen, reads>>
        BY <3>4 DEF ProcessMedia, Goto, At
      <4> QED
        BY <3>1, <4>1
    <3>5. CASE l = "rtcp" /\ WriteRtcp
      <4>1. /\ pc[l] = "send" /\ pc' = [pc EXCEPT ![l] = "check"]
            /\ UNCHANGED <<hasTap, tapMu, count, seen, reads>>
        BY <3>5 DEF WriteRtcp, Goto, At
      <4> QED
        BY <3>1, <4>1
    <3>6. ASSUME NEW src \in Addrs, Datagram(l, src) PROVE TapInv'
      <4>1. /\ pc[l] = "read" /\ reads' = [reads EXCEPT ![l] = Append(reads[l], src)]
            /\ pc' = [pc EXCEPT ![l] = IF hasTap THEN "observe" ELSE "route"]
            /\ UNCHANGED <<hasTap, tapMu, count, seen>>
        BY <3>6 DEF Datagram, Goto, At
      <4>2. /\ Len(reads'[l]) = Len(reads[l]) + 1
            /\ \A k \in Loops \ {l} : reads'[k] = reads[k] /\ pc'[k] = pc[k]
            /\ pc'[l] = IF hasTap THEN "observe" ELSE "route"
        BY <2>0, <4>1
      <4>3. /\ \A k \in Loops : pc'[k] = "tap" <=> tapMu' = k
            /\ \A k \in Loops : pc'[k] = "tap" => seen'[k] = count'
            /\ \A k \in Loops : pc'[k] \in {"observe", "tap"} => hasTap'
        BY <4>1, <4>2 DEF TapInv
      <4>4. ASSUME hasTap
            PROVE  count' = Len(reads'["rtp"]) - Uncounted("rtp")'
                              + Len(reads'["rtcp"]) - Uncounted("rtcp")'
        <5>1. count = Len(reads["rtp"]) - Uncounted("rtp")
                        + Len(reads["rtcp"]) - Uncounted("rtcp")
          BY <4>4 DEF TapInv
        <5>2. /\ Uncounted(l) = 0 /\ Uncounted(l)' = 1
              /\ \A k \in Loops \ {l} : Uncounted(k)' = Uncounted(k) /\ Uncounted(k) \in Nat
          BY <4>1, <4>2, <4>4 DEF Uncounted
        <5>3. CASE l = "rtp"
          BY <2>0, <4>1, <4>2, <5>1, <5>2, <5>3 DEF Loops
        <5>4. CASE l = "rtcp"
          BY <2>0, <4>1, <4>2, <5>1, <5>2, <5>4 DEF Loops
        <5> QED
          BY <5>3, <5>4 DEF Loops
      <4> QED
        BY <4>1, <4>3, <4>4 DEF TapInv
    <3>7. CASE Observe(l)
      <4>1. /\ pc[l] = "observe" /\ tapMu = "free" /\ tapMu' = l
            /\ seen' = [seen EXCEPT ![l] = count] /\ pc' = [pc EXCEPT ![l] = "tap"]
            /\ UNCHANGED <<hasTap, count, reads>>
        BY <3>7 DEF Observe, ObserveExcept, Goto, At
      <4> QED
        BY <2>0, <4>1 DEF TapInv, Uncounted, Loops
    <3>8. CASE Observed(l)
      <4>1. /\ pc[l] = "tap" /\ tapMu' = "free" /\ count' = seen[l] + 1
            /\ pc' = [pc EXCEPT ![l] = "route"]
            /\ UNCHANGED <<hasTap, seen, reads>>
        BY <3>8 DEF Observed, ObserveExcept, Goto, At
      <4>2. tapMu = l /\ seen[l] = count /\ \A k \in Loops \ {l} : pc[k] # "tap"
        BY <4>1 DEF TapInv
      <4> QED
        BY <2>0, <4>1, <4>2 DEF TapInv, Uncounted, Loops
    <3> QED
      BY <2>2, <3>2, <3>3, <3>4, <3>5, <3>6, <3>7, <3>8 DEF Loop
  <2> QED
    BY <2>1, <2>2, StepKinds
<1> QED
  BY <1>1, <1>2, TypeCorrect, PTL DEF Spec

\* The observer that both loops share misses no datagram (observe and tapMu).
THEOREM TapCorrect == Spec => []ObservedAll
<1>1. TypeInv /\ TapInv => ObservedAll
  <2> SUFFICES ASSUME TypeInv, TapInv, hasTap, \A l \in Loops : pc[l] # "tap"
               PROVE  count = Len(reads["rtp"]) + Len(reads["rtcp"])
                                - Cardinality({l \in Loops : pc[l] = "observe"})
    BY DEF ObservedAll
  <2> DEFINE waiting == {l \in Loops : pc[l] = "observe"}
  <2>1. Len(reads["rtp"]) \in Nat /\ Len(reads["rtcp"]) \in Nat
    BY DEF TypeInv, Loops
  <2>2. Cardinality(waiting) = Uncounted("rtp") + Uncounted("rtcp")
    <3>1. CASE pc["rtp"] = "observe" /\ pc["rtcp"] = "observe"
      <4>1. waiting = {"rtp", "rtcp"}
        BY <3>1 DEF Loops
      <4>2. Cardinality({"rtp"}) = 1 /\ IsFiniteSet({"rtp"})
        BY FS_Singleton
      <4>3. Cardinality({"rtp"} \cup {"rtcp"}) = 2
        BY <4>2, FS_AddElement
      <4> QED
        BY <3>1, <4>1, <4>3 DEF Uncounted
    <3>2. CASE pc["rtp"] = "observe" /\ pc["rtcp"] # "observe"
      <4>1. waiting = {"rtp"}
        BY <3>2 DEF Loops
      <4> QED
        BY <3>2, <4>1, FS_Singleton DEF Uncounted, Loops
    <3>3. CASE pc["rtp"] # "observe" /\ pc["rtcp"] = "observe"
      <4>1. waiting = {"rtcp"}
        BY <3>3 DEF Loops
      <4> QED
        BY <3>3, <4>1, FS_Singleton DEF Uncounted, Loops
    <3>4. CASE pc["rtp"] # "observe" /\ pc["rtcp"] # "observe"
      <4>1. waiting = {}
        BY <3>4 DEF Loops
      <4> QED
        BY <3>4, <4>1, FS_EmptySet DEF Uncounted, Loops
    <3> QED
      BY <3>1, <3>2, <3>3, <3>4
  <2>3. count = Len(reads["rtp"]) - Uncounted("rtp") + Len(reads["rtcp"]) - Uncounted("rtcp")
    BY DEF TapInv
  <2>4. Uncounted("rtp") \in Nat /\ Uncounted("rtcp") \in Nat
    BY DEF Uncounted
  <2> QED
    BY <2>1, <2>2, <2>3, <2>4
<1> QED
  BY <1>1, TypeCorrect, TapInductive, PTL
-----------------------------------------------------------------------------
\* The datagrams of a port whose destination is decided.
RoutedTo(l) == Len(reads[l]) - (IF pc[l] \in Unrouted THEN 1 ELSE 0)

\* What a loop knows: its buffer holds the last datagram read, its port's sender is
\* the first to have spoken there among the decided ones, and a datagram about to
\* be sent has its destination.
LoopInv(l) ==
  /\ pc[l] \in Busy => Len(reads[l]) > 0 /\ from[l] = reads[l][Len(reads[l])]
  /\ sender[l] = NoAddr => \A m \in 1..RoutedTo(l) : reads[l][m] = Receiver[l]
  /\ sender[l] # NoAddr => SaysFirst(l, RoutedTo(l) + 1, sender[l])
  /\ pc[l] = "send" => Peer(l, Len(reads[l]), dst[l])

MediaInv ==
  \A f \in core \cup media : f.num \in 1..Len(reads["rtp"]) /\ Peer("rtp", f.num, f.to)

\* The RTCP datagrams written are, in order, those with a peer among the handled.
RtcpInv ==
  /\ \A i \in 1..Len(rtcp) :
       rtcp[i].num \in Through("rtcp") /\ Peer("rtcp", rtcp[i].num, rtcp[i].to)
  /\ \A i, j \in 1..Len(rtcp) : i < j => rtcp[i].num < rtcp[j].num
  /\ \A n \in Through("rtcp") :
       (\E to \in Addrs : Peer("rtcp", n, to)) => \E i \in 1..Len(rtcp) : rtcp[i].num = n

PortsInv == (\A l \in Loops : LoopInv(l)) /\ MediaInv /\ RtcpInv

\* Who a datagram's peer is depends on the datagrams up to it only.
LEMMA PeerStable ==
  ASSUME TypeInv, NEW l \in Loops, NEW src \in Addrs,
         reads' = [reads EXCEPT ![l] = Append(reads[l], src)],
         NEW k \in Loops, NEW n \in 1..Len(reads[k]), NEW to
  PROVE  Peer(k, n, to)' <=> Peer(k, n, to)
<1>1. reads[k] \in Seq(Addrs) /\ Len(reads[k]) \in Nat
  BY DEF TypeInv
<1>2. \A m \in 1..Len(reads[k]) : reads'[k][m] = reads[k][m]
  <2>1. CASE k = l
    <3>1. reads'[k] = Append(reads[k], src)
      BY <2>1 DEF TypeInv
    <3> QED
      BY <1>1, <3>1
  <2>2. CASE k # l
    BY <2>2 DEF TypeInv
  <2> QED
    BY <2>1, <2>2
<1>3. \A m \in 1..n : m \in 1..Len(reads[k])
  BY <1>1
<1>4. \A m \in 1..n : reads'[k][m] = reads[k][m]
  BY <1>2, <1>3
<1>5. SaysFirst(k, n, to)' <=> SaysFirst(k, n, to)
  BY <1>4 DEF SaysFirst
<1> QED
  BY <1>4, <1>5 DEF Peer

\* Who spoke first stays first as more datagrams are read ...
LEMMA FirstStays ==
  ASSUME NEW l, NEW n \in Nat, NEW who, SaysFirst(l, n, who)
  PROVE  SaysFirst(l, n + 1, who)
  BY DEF SaysFirst

\* ... and is the n-th, when everything before came from the receiver.
LEMMA FirstNow ==
  ASSUME NEW l, NEW n \in Nat, n > 0, NEW who, reads[l][n] = who, who # Receiver[l],
         \A m \in 1..(n - 1) : reads[l][m] = Receiver[l]
  PROVE  SaysFirst(l, n + 1, who)
<1>1. n \in 1..((n + 1) - 1)
  OBVIOUS
<1> QED
  BY <1>1 DEF SaysFirst

\* A step that moves loop l without reading, and decides nothing, keeps what both
\* loops know.
LEMMA LoopKept ==
  ASSUME TypeInv, NEW l \in Loops, NEW there, LoopInv(l),
         pc' = [pc EXCEPT ![l] = there],
         there \in Busy => pc[l] \in Busy,
         there \in Unrouted <=> pc[l] \in Unrouted,
         there # "send",
         UNCHANGED <<from, sender, reads>>
  PROVE  LoopInv(l)'
<1>1. pc'[l] = there
  BY DEF TypeInv
<1>2. RoutedTo(l)' = RoutedTo(l)
  BY <1>1 DEF RoutedTo
<1> QED
  BY <1>1, <1>2 DEF LoopInv, SaysFirst

\* A loop whose own state does not change still knows what it knew.
LEMMA LoopUntouched ==
  ASSUME NEW k \in Loops, LoopInv(k),
         pc'[k] = pc[k], from'[k] = from[k], sender'[k] = sender[k],
         dst'[k] = dst[k], reads'[k] = reads[k]
  PROVE  LoopInv(k)'
<1>1. RoutedTo(k)' = RoutedTo(k)
  BY DEF RoutedTo
<1> QED
  BY <1>1 DEF LoopInv, SaysFirst, Peer

\* PortsInv is an invariant: one step per action of a loop.
LEMMA PortsInductive == Spec => []PortsInv
<1> USE DEF newVars, tapVars, coreVars
<1>1. Init => PortsInv
  <2> SUFFICES ASSUME Init PROVE PortsInv
    OBVIOUS
  <2>1. \A l \in Loops : reads[l] = << >> /\ pc[l] = "check" /\ sender[l] = NoAddr
    BY DEF Init
  <2>2. \A l \in Loops : Len(reads[l]) = 0
    BY <2>1
  <2>3. \A l \in Loops : LoopInv(l)
    <3> TAKE l \in Loops
    <3>1. RoutedTo(l) = 0 /\ pc[l] \notin Busy /\ pc[l] # "send" /\ sender[l] = NoAddr
      BY <2>1, <2>2 DEF RoutedTo, Busy, Unrouted
    <3> QED
      BY <3>1 DEF LoopInv
  <2>4. MediaInv
    BY DEF Init, MediaInv
  <2>5. RtcpInv
    <3>1. rtcp = << >> /\ Len(rtcp) = 0 /\ Through("rtcp") = 1..0
      BY <2>1, <2>2 DEF Init, Through, Loops
    <3> QED
      BY <3>1 DEF RtcpInv
  <2> QED
    BY <2>3, <2>4, <2>5 DEF PortsInv
<1>2. TypeInv /\ PortsInv /\ [Next]_vars => PortsInv'
  <2> SUFFICES ASSUME TypeInv, PortsInv, [Next]_vars PROVE PortsInv'
    OBVIOUS
  <2>0. /\ pc \in [Loops -> LoopPCs] /\ from \in [Loops -> Addrs \cup {NoAddr}]
        /\ dst \in [Loops -> Addrs \cup {NoAddr}]
        /\ sender \in [Loops -> Addrs \cup {NoAddr}]
        /\ reads \in [Loops -> Seq(Addrs)]
        /\ \A k \in Loops : Len(reads[k]) \in Nat
        /\ rtcp \in Seq([num : Nat, to : Addrs]) /\ Len(rtcp) \in Nat
    BY DEF TypeInv
  <2>a. ASSUME reads' = reads
        PROVE  \A k \in Loops : \A n, to : Peer(k, n, to)' <=> Peer(k, n, to)
    BY <2>a DEF Peer, SaysFirst
  <2>b. ASSUME reads' = reads, core' \cup media' \subseteq core \cup media
        PROVE  MediaInv'
    BY <2>a, <2>b DEF PortsInv, MediaInv, Loops
  <2>c. ASSUME UNCHANGED <<rtcp, reads>>, Through("rtcp")' = Through("rtcp")
        PROVE  RtcpInv'
    BY <2>a, <2>c DEF PortsInv, RtcpInv, Loops
  <2>1. ASSUME UNCHANGED <<hasTap, pc, from, dst, sender, tapMu, count, seen, reads, rtcp>>,
               core' \cup media' \subseteq core \cup media
        PROVE  PortsInv'
    <3>1. \A k \in Loops : LoopInv(k)'
      BY <2>1, LoopUntouched DEF PortsInv
    <3>2. Through("rtcp")' = Through("rtcp")
      BY <2>1 DEF Through
    <3> QED
      BY <2>1, <2>b, <2>c, <3>1, <3>2 DEF PortsInv
  <2>2. ASSUME NEW l \in Loops, Loop(l) PROVE PortsInv'
    <3>3. ASSUME NEW there, pc' = [pc EXCEPT ![l] = there],
                 there \in Busy <=> pc[l] \in Busy, UNCHANGED reads
          PROVE  Through("rtcp")' = Through("rtcp")
      BY <2>0, <3>3 DEF Through, Busy, Loops
    <3>4. ASSUME NEW there, pc' = [pc EXCEPT ![l] = there],
                 there \in Busy <=> pc[l] \in Busy,
                 there \in Unrouted <=> pc[l] \in Unrouted, there # "send",
                 UNCHANGED <<from, dst, sender, reads, core, media, rtcp>>
          PROVE  PortsInv'
      <4>1. LoopInv(l)'
        BY <3>4, LoopKept DEF PortsInv
      <4>2. ASSUME NEW k \in Loops, k # l PROVE LoopInv(k)'
        BY <2>0, <3>4, <4>2, LoopUntouched DEF PortsInv
      <4> QED
        BY <2>b, <2>c, <3>3, <3>4, <4>1, <4>2 DEF PortsInv
    <3>5. CASE Check(l) \/ ReadTimeout(l) \/ ReadError(l)
      <4>1. PICK there \in {"check", "read", "done"} : pc' = [pc EXCEPT ![l] = there]
        BY <3>5 DEF Check, ReadTimeout, ReadError, Goto
      <4>2. /\ pc[l] \in {"check", "read"}
            /\ UNCHANGED <<from, dst, sender, reads, core, media, rtcp>>
        BY <3>5 DEF Check, ReadTimeout, ReadError, At
      <4>3. /\ there \in Busy <=> pc[l] \in Busy
            /\ there \in Unrouted <=> pc[l] \in Unrouted
            /\ there # "send"
        BY <4>1, <4>2 DEF Busy, Unrouted
      <4> QED
        BY <3>4, <4>1, <4>2, <4>3
    <3>6. CASE Observe(l) \/ Observed(l)
      <4>1. PICK there \in {"tap", "route"} : pc' = [pc EXCEPT ![l] = there]
        BY <3>6 DEF Observe, Observed, Goto
      <4>2. /\ pc[l] \in {"observe", "tap"}
            /\ UNCHANGED <<from, dst, sender, reads, core, media, rtcp>>
        BY <3>6 DEF Observe, Observed, ObserveExcept, At
      <4>3. /\ there \in Busy <=> pc[l] \in Busy
            /\ there \in Unrouted <=> pc[l] \in Unrouted
            /\ there # "send"
        BY <4>1, <4>2 DEF Busy, Unrouted
      <4> QED
        BY <3>4, <4>1, <4>2, <4>3
    <3>7. ASSUME NEW src \in Addrs, Datagram(l, src) PROVE PortsInv'
      <4>1. /\ pc[l] = "read" /\ reads' = [reads EXCEPT ![l] = Append(reads[l], src)]
            /\ from' = [from EXCEPT ![l] = src]
            /\ UNCHANGED <<dst, sender, core, media, rtcp>>
        BY <3>7 DEF Datagram, At
      <4>2. PICK there \in {"observe", "route"} : pc' = [pc EXCEPT ![l] = there]
        BY <3>7 DEF Datagram, Goto
      <4>3. /\ pc'[l] \in {"observe", "route"} /\ from'[l] = src
            /\ reads'[l] = Append(reads[l], src)
            /\ \A k \in Loops \ {l} : pc'[k] = pc[k] /\ from'[k] = from[k]
                                      /\ reads'[k] = reads[k]
        BY <2>0, <4>1, <4>2
      <4>4. /\ Len(reads'[l]) = Len(reads[l]) + 1 /\ reads'[l][Len(reads'[l])] = src
            /\ \A m \in 1..Len(reads[l]) : reads'[l][m] = reads[l][m]
        BY <2>0, <4>3
      <4>5. RoutedTo(l) = Len(reads[l]) /\ RoutedTo(l)' = Len(reads[l])
        BY <2>0, <4>1, <4>3, <4>4 DEF RoutedTo, Unrouted
      <4>6. LoopInv(l)'
        <5>1. pc'[l] # "send" /\ Len(reads'[l]) > 0
          BY <2>0, <4>3, <4>4
        <5>2. ASSUME sender[l] = NoAddr
              PROVE  \A m \in 1..Len(reads[l]) : reads'[l][m] = Receiver[l]
          BY <4>4, <4>5, <5>2 DEF PortsInv, LoopInv
        <5>3. ASSUME sender[l] # NoAddr
              PROVE  \E m \in 1..Len(reads[l]) :
                       /\ reads'[l][m] = sender[l] /\ sender[l] # Receiver[l]
                       /\ \A k \in 1..(m - 1) : reads'[l][k] = Receiver[l]
          <6>1. SaysFirst(l, Len(reads[l]) + 1, sender[l])
            BY <4>5, <5>3 DEF PortsInv, LoopInv
          <6>2. PICK m \in 1..Len(reads[l]) :
                  /\ reads[l][m] = sender[l] /\ sender[l] # Receiver[l]
                  /\ \A k \in 1..(m - 1) : reads[l][k] = Receiver[l]
            BY <2>0, <6>1 DEF SaysFirst
          <6>3. \A k \in 1..m : k \in 1..Len(reads[l])
            BY <2>0, <6>2
          <6>4. \A k \in 1..(m - 1) : k \in 1..m
            BY <6>2
          <6>5. m \in 1..m
            BY <6>2
          <6> QED
            BY <4>4, <6>2, <6>3, <6>4, <6>5
        <5>4. sender'[l] # NoAddr => SaysFirst(l, RoutedTo(l) + 1, sender[l])'
          <6>1. (RoutedTo(l)' + 1) - 1 = Len(reads[l])
            BY <2>0, <4>5
          <6> QED
            BY <4>1, <5>3, <6>1 DEF SaysFirst
        <5> QED
          BY <4>1, <4>3, <4>4, <4>5, <5>1, <5>2, <5>4 DEF LoopInv
      <4>7. ASSUME NEW k \in Loops, k # l PROVE LoopInv(k)'
        BY <2>0, <4>1, <4>3, <4>7, LoopUntouched DEF PortsInv
      <4>8. MediaInv'
        <5>1. \A f \in core \cup media :
                f.num \in 1..Len(reads["rtp"]) /\ Peer("rtp", f.num, f.to)
          BY DEF PortsInv, MediaInv
        <5>2. 1..Len(reads["rtp"]) \subseteq 1..Len(reads'["rtp"])
          BY <2>0, <4>3, <4>4 DEF Loops
        <5>3. "rtp" \in Loops
          BY DEF Loops
        <5>4. \A f \in core \cup media : Peer("rtp", f.num, f.to)'
          BY <4>1, <5>1, <5>3, PeerStable
        <5> QED
          BY <4>1, <5>1, <5>2, <5>4 DEF MediaInv
      <4>9. RtcpInv'
        <5>0. "rtcp" \in Loops
          BY DEF Loops
        <5>1. Through("rtcp")' = Through("rtcp")
          <6>1. CASE l = "rtcp"
            BY <2>0, <4>1, <4>3, <4>4, <6>1 DEF Through
          <6>2. CASE l # "rtcp"
            BY <4>3, <5>0, <6>2 DEF Through
          <6> QED
            BY <6>1, <6>2
        <5>2. Through("rtcp") \subseteq 1..Len(reads["rtcp"])
          BY <2>0, <5>0 DEF Through
        <5>3. \A n \in Through("rtcp") : \A to : Peer("rtcp", n, to)' <=> Peer("rtcp", n, to)
          BY <4>1, <5>0, <5>2, PeerStable
        <5> QED
          BY <4>1, <5>1, <5>3 DEF PortsInv, RtcpInv
      <4> QED
        BY <4>6, <4>7, <4>8, <4>9 DEF PortsInv
    <3>8. CASE RouteTooEarly(l)
      <4>1. /\ pc[l] = "route" /\ from[l] = Receiver[l] /\ sender[l] = NoAddr
            /\ pc' = [pc EXCEPT ![l] = "check"]
            /\ UNCHANGED <<from, dst, sender, reads, core, media, rtcp>>
        BY <3>8 DEF RouteTooEarly, RouteExcept, Goto, At
      <4>2. pc'[l] = "check" /\ \A k \in Loops \ {l} : pc'[k] = pc[k]
        BY <2>0, <4>1
      <4>3. /\ Len(reads[l]) > 0 /\ reads[l][Len(reads[l])] = Receiver[l]
            /\ \A m \in 1..(Len(reads[l]) - 1) : reads[l][m] = Receiver[l]
        BY <4>1 DEF PortsInv, LoopInv, RoutedTo, Busy, Unrouted
      <4>4. \A m \in 1..Len(reads[l]) : reads[l][m] = Receiver[l]
        <5> DEFINE n == Len(reads[l])
        <5>1. n \in Nat
          BY <2>0
        <5> HIDE DEF n
        <5>2. \A m \in 1..n : m = n \/ m \in 1..(n - 1)
          BY <5>1
        <5> QED
          BY <4>3, <5>2 DEF n
      <4>5. LoopInv(l)'
        <5>1. RoutedTo(l)' = Len(reads[l])
          BY <2>0, <4>1, <4>2 DEF RoutedTo, Unrouted
        <5> QED
          BY <4>1, <4>2, <4>4, <5>1 DEF LoopInv, Busy
      <4>6. ASSUME NEW k \in Loops, k # l PROVE LoopInv(k)'
        BY <4>1, <4>2, <4>6, LoopUntouched DEF PortsInv
      <4>7. RtcpInv'
        <5>1. CASE l = "rtp"
          <6>1. Through("rtcp")' = Through("rtcp")
            BY <4>1, <4>2, <5>1 DEF Through, Loops
          <6> QED
            BY <2>c, <4>1, <6>1
        <5>2. CASE l = "rtcp"
          <6> DEFINE last == Len(reads["rtcp"])
          <6>1. /\ Through("rtcp") = 1..(last - 1) /\ Through("rtcp")' = 1..last
                /\ last \in Nat \ {0}
            BY <2>0, <4>1, <4>2, <4>3, <5>2 DEF Through
          <6>2. \A to : ~Peer("rtcp", last, to)
            BY <4>3, <5>2 DEF Peer, SaysFirst
          <6>3. \A n, to : Peer("rtcp", n, to)' <=> Peer("rtcp", n, to)
            BY <2>a, <4>1 DEF Loops
          <6>4. /\ \A i \in 1..Len(rtcp) :
                     rtcp[i].num \in 1..(last - 1) /\ Peer("rtcp", rtcp[i].num, rtcp[i].to)
                /\ \A i, j \in 1..Len(rtcp) : i < j => rtcp[i].num < rtcp[j].num
                /\ \A n \in 1..(last - 1) :
                     (\E to \in Addrs : Peer("rtcp", n, to))
                       => \E i \in 1..Len(rtcp) : rtcp[i].num = n
            BY <6>1 DEF PortsInv, RtcpInv
          <6> HIDE DEF last
          <6>5. 1..last = (1..(last - 1)) \cup {last}
            BY <6>1
          <6> QED
            BY <4>1, <6>1, <6>2, <6>3, <6>4, <6>5 DEF RtcpInv
        <5> QED
          BY <5>1, <5>2 DEF Loops
      <4> QED
        BY <2>b, <4>1, <4>5, <4>6, <4>7 DEF PortsInv
    <3>9. ASSUME NEW to \in Addrs, pc[l] = "route", pc' = [pc EXCEPT ![l] = "send"],
                 dst' = [dst EXCEPT ![l] = to], Peer(l, Len(reads[l]), to),
                 sender' = [sender EXCEPT ![l] = sender'[l]],
                 sender'[l] # NoAddr, SaysFirst(l, Len(reads[l]) + 1, sender'[l]),
                 UNCHANGED <<from, reads, core, media, rtcp>>
          PROVE  PortsInv'
      <4>1. /\ pc'[l] = "send" /\ dst'[l] = to
            /\ \A k \in Loops \ {l} : pc'[k] = pc[k] /\ dst'[k] = dst[k]
                                      /\ sender'[k] = sender[k]
        BY <2>0, <3>9
      <4>2. RoutedTo(l)' = Len(reads[l])
        BY <2>0, <3>9, <4>1 DEF RoutedTo, Unrouted
      <4>3. Peer(l, Len(reads[l]), dst[l])'
        BY <3>9, <4>1 DEF Peer, SaysFirst
      <4>4. SaysFirst(l, RoutedTo(l) + 1, sender[l])'
        BY <3>9, <4>2 DEF SaysFirst
      <4>5. Len(reads[l]) > 0 /\ from[l] = reads[l][Len(reads[l])]
        BY <3>9 DEF PortsInv, LoopInv, Busy
      <4>6. LoopInv(l)'
        BY <3>9, <4>3, <4>4, <4>5 DEF LoopInv
      <4>7. ASSUME NEW k \in Loops, k # l PROVE LoopInv(k)'
        BY <3>9, <4>1, <4>7, LoopUntouched DEF PortsInv
      <4>8. "send" \in Busy /\ pc[l] \in Busy
        BY <3>9 DEF Busy
      <4>9. Through("rtcp")' = Through("rtcp")
        BY <3>3, <3>9, <4>8
      <4> QED
        BY <2>b, <2>c, <3>9, <4>6, <4>7, <4>9 DEF PortsInv
    <3>10. CASE RouteToSender(l)
      <4>1. /\ pc[l] = "route" /\ from[l] = Receiver[l] /\ sender[l] # NoAddr
            /\ dst' = [dst EXCEPT ![l] = sender[l]] /\ pc' = [pc EXCEPT ![l] = "send"]
            /\ UNCHANGED <<from, sender, reads, core, media, rtcp>>
        BY <3>10 DEF RouteToSender, RouteExcept, Goto, At
      <4>2. sender[l] \in Addrs /\ sender' = [sender EXCEPT ![l] = sender'[l]]
        BY <2>0, <4>1
      <4>3. /\ Len(reads[l]) > 0 /\ reads[l][Len(reads[l])] = Receiver[l]
            /\ SaysFirst(l, (Len(reads[l]) - 1) + 1, sender[l])
        BY <4>1 DEF PortsInv, LoopInv, RoutedTo, Busy, Unrouted
      <4>4. SaysFirst(l, Len(reads[l]), sender[l])
        BY <2>0, <4>3
      <4>5. Peer(l, Len(reads[l]), sender[l])
        BY <4>3, <4>4 DEF Peer
      <4>6. SaysFirst(l, Len(reads[l]) + 1, sender[l])
        BY <2>0, <4>4, FirstStays
      <4> QED
        BY <3>9, <4>1, <4>2, <4>5, <4>6
    <3>11. CASE RouteToReceiver(l)
      <4>1. /\ pc[l] = "route" /\ from[l] # Receiver[l]
            /\ sender' = [sender EXCEPT ![l] = IF sender[l] = NoAddr THEN from[l]
                                                                    ELSE sender[l]]
            /\ dst' = [dst EXCEPT ![l] = Receiver[l]] /\ pc' = [pc EXCEPT ![l] = "send"]
            /\ UNCHANGED <<from, reads, core, media, rtcp>>
        BY <3>11 DEF RouteToReceiver, RouteExcept, Goto, At
      <4>2. /\ Receiver[l] \in Addrs
            /\ sender'[l] = (IF sender[l] = NoAddr THEN from[l] ELSE sender[l])
            /\ sender' = [sender EXCEPT ![l] = sender'[l]]
        BY <2>0, <4>1 DEF Addrs
      <4>3. Len(reads[l]) > 0 /\ from[l] = reads[l][Len(reads[l])]
        BY <4>1 DEF PortsInv, LoopInv, Busy
      <4>4. from[l] \in Addrs /\ from[l] # NoAddr
        <5>1. from[l] \in Addrs
          BY <2>0, <4>3
        <5>2. NoAddr \notin Addrs
          BY RistAssumption DEF Addrs, NoAddr, Receiver, Loops
        <5> QED
          BY <5>1, <5>2
      <4>5. Peer(l, Len(reads[l]), Receiver[l])
        BY <4>1, <4>3 DEF Peer
      <4>6. sender'[l] # NoAddr /\ SaysFirst(l, Len(reads[l]) + 1, sender'[l])
        <5>1. CASE sender[l] = NoAddr
          <6>1. \A m \in 1..(Len(reads[l]) - 1) : reads[l][m] = Receiver[l]
            BY <4>1, <5>1 DEF PortsInv, LoopInv, RoutedTo, Unrouted
          <6> QED
            BY <2>0, <4>1, <4>2, <4>3, <4>4, <5>1, <6>1, FirstNow
        <5>2. CASE sender[l] # NoAddr
          <6>1. SaysFirst(l, (Len(reads[l]) - 1) + 1, sender[l])
            BY <4>1, <5>2 DEF PortsInv, LoopInv, RoutedTo, Unrouted
          <6> QED
            BY <2>0, <4>2, <5>2, <6>1 DEF SaysFirst
        <5> QED
          BY <5>1, <5>2
      <4> QED
        BY <3>9, <4>1, <4>2, <4>5, <4>6
    <3>12. CASE l = "rtp" /\ ProcessMedia
      <4> DEFINE last == Len(reads["rtp"])
      <4>1. /\ pc["rtp"] = "send" /\ pc' = [pc EXCEPT !["rtp"] = "check"]
            /\ UNCHANGED <<from, dst, sender, media, reads, rtcp>>
        BY <3>12 DEF ProcessMedia, Goto, At
      <4>2. pc'["rtp"] = "check" /\ pc'["rtcp"] = pc["rtcp"]
        BY <2>0, <4>1 DEF Loops
      <4>3. \A f \in core' : f \in core \/ (f.num = last /\ f.to = dst["rtp"])
        BY <3>12 DEF ProcessMedia
      <4>4. last > 0 /\ Peer("rtp", last, dst["rtp"])
        BY <4>1 DEF PortsInv, LoopInv, Busy, Loops
      <4>5. MediaInv'
        <5>1. last \in 1..last
          BY <2>0, <4>4 DEF Loops
        <5>2. \A n, to : Peer("rtp", n, to)' <=> Peer("rtp", n, to)
          BY <2>a, <4>1 DEF Loops
        <5> QED
          BY <4>1, <4>3, <4>4, <5>1, <5>2 DEF PortsInv, MediaInv
      <4>6. LoopInv("rtp")'
        <5>1. RoutedTo("rtp")' = RoutedTo("rtp")
          BY <4>1, <4>2 DEF RoutedTo, Unrouted
        <5> QED
          BY <4>1, <4>2, <5>1 DEF PortsInv, LoopInv, SaysFirst, Busy, Loops
      <4>7. LoopInv("rtcp")'
        BY <4>1, <4>2, LoopUntouched DEF PortsInv, Loops
      <4>8. Through("rtcp")' = Through("rtcp")
        BY <4>1, <4>2 DEF Through
      <4> QED
        BY <2>c, <4>1, <4>5, <4>6, <4>7, <4>8 DEF PortsInv, Loops
    <3>13. CASE l = "rtcp" /\ WriteRtcp
      <4> DEFINE last == Len(reads["rtcp"])
                 w == [num |-> last, to |-> dst["rtcp"]]
      <4>1. /\ pc["rtcp"] = "send" /\ pc' = [pc EXCEPT !["rtcp"] = "check"]
            /\ rtcp' = Append(rtcp, w)
            /\ UNCHANGED <<from, dst, sender, core, media, reads>>
        BY <3>13 DEF WriteRtcp, Goto, At
      <4>2. pc'["rtcp"] = "check" /\ pc'["rtp"] = pc["rtp"]
        BY <2>0, <4>1 DEF Loops
      <4>3. last \in Nat \ {0} /\ Peer("rtcp", last, dst["rtcp"]) /\ dst["rtcp"] \in Addrs
        BY <2>0, <4>1 DEF PortsInv, LoopInv, Busy, Loops, TypeInv
      <4>4. LoopInv("rtcp")'
        <5>1. RoutedTo("rtcp")' = RoutedTo("rtcp")
          BY <4>1, <4>2 DEF RoutedTo, Unrouted
        <5> QED
          BY <4>1, <4>2, <5>1 DEF PortsInv, LoopInv, SaysFirst, Busy, Loops
      <4>5. LoopInv("rtp")'
        BY <4>1, <4>2, LoopUntouched DEF PortsInv, Loops
      <4>6. Through("rtcp") = 1..(last - 1) /\ Through("rtcp")' = 1..last
        <5>1. Through("rtcp") = 1..(last - 1)
          BY <4>1 DEF Through
        <5>2. Through("rtcp")' = 1..(last - 0)
          BY <4>1, <4>2 DEF Through
        <5> QED
          BY <4>3, <5>1, <5>2
      <4>7. \A n, to : Peer("rtcp", n, to)' <=> Peer("rtcp", n, to)
        BY <2>a, <4>1 DEF Loops
      <4>8. /\ \A i \in 1..Len(rtcp) :
                 rtcp[i].num \in 1..(last - 1) /\ Peer("rtcp", rtcp[i].num, rtcp[i].to)
            /\ \A i, j \in 1..Len(rtcp) : i < j => rtcp[i].num < rtcp[j].num
            /\ \A n \in 1..(last - 1) :
                 (\E to \in Addrs : Peer("rtcp", n, to))
                   => \E i \in 1..Len(rtcp) : rtcp[i].num = n
        BY <4>6 DEF PortsInv, RtcpInv
      <4>9. w \in [num : Nat, to : Addrs] /\ w.num = last /\ w.to = dst["rtcp"]
        BY <4>3
      <4> HIDE DEF w, last
      <4>10. /\ Len(rtcp') = Len(rtcp) + 1 /\ rtcp'[Len(rtcp) + 1] = w
             /\ \A i \in 1..Len(rtcp) : rtcp'[i] = rtcp[i]
        BY <2>0, <4>1, <4>9
      <4>11. /\ 1..last = (1..(last - 1)) \cup {last}
             /\ 1..Len(rtcp') = (1..Len(rtcp)) \cup {Len(rtcp) + 1}
        BY <2>0, <4>3, <4>10
      <4>12. \A i \in 1..Len(rtcp') :
               rtcp'[i].num \in 1..last /\ Peer("rtcp", rtcp'[i].num, rtcp'[i].to)
        BY <4>3, <4>8, <4>9, <4>10, <4>11
      <4>13. \A i, j \in 1..Len(rtcp') : i < j => rtcp'[i].num < rtcp'[j].num
        <5> SUFFICES ASSUME NEW i \in 1..Len(rtcp'), NEW j \in 1..Len(rtcp'), i < j
                     PROVE  rtcp'[i].num < rtcp'[j].num
          OBVIOUS
        <5>1. i \in 1..Len(rtcp)
          BY <2>0, <4>10
        <5>2. CASE j \in 1..Len(rtcp)
          BY <4>8, <4>10, <5>1, <5>2
        <5>3. CASE j = Len(rtcp) + 1
          <6>1. rtcp'[i].num \in 1..(last - 1) /\ rtcp'[j].num = last
            BY <4>8, <4>9, <4>10, <5>1, <5>3
          <6> QED
            BY <4>3, <6>1
        <5> QED
          BY <4>11, <5>2, <5>3
      <4>14. \A n \in 1..last :
               (\E to \in Addrs : Peer("rtcp", n, to))
                 => \E i \in 1..Len(rtcp') : rtcp'[i].num = n
        BY <4>8, <4>9, <4>10, <4>11
      <4>15. RtcpInv'
        BY <4>6, <4>7, <4>12, <4>13, <4>14 DEF RtcpInv, last
      <4> QED
        BY <2>b, <4>1, <4>4, <4>5, <4>15 DEF PortsInv, Loops
    <3> QED
      BY <2>2, <3>5, <3>6, <3>7, <3>8, <3>10, <3>11, <3>12, <3>13 DEF Loop
  <2>3. ASSUME NEW p \in Ports, Listen(p) PROVE PortsInv'
    BY <2>1, <2>3 DEF Listen, BindExcept
  <2>4. CASE ListenFails \/ OddPort \/ NextTaken \/ BindPair \/ BindFails
    BY <2>1, <2>4 DEF ListenFails, OddPort, NextTaken, NextTry, BindPair, BindFails, BindExcept
  <2>5. ASSUME NEW f \in core, Deliver(f) \/ GiveUp(f) PROVE PortsInv'
    BY <2>1, <2>5 DEF Deliver, GiveUp, CoreExcept
  <2>6. CASE EgressExit \/ Close \/ CloseSocks
    BY <2>1, <2>6 DEF EgressExit, Close, CloseSocks, CoreExcept
  <2>7. CASE Stopped \/ UNCHANGED vars
    BY <2>1, <2>7 DEF Stopped, vars
  <2> QED
    BY <2>2, <2>3, <2>4, <2>5, <2>6, <2>7 DEF Next
<1> QED
  BY <1>1, <1>2, TypeCorrect, PTL DEF Spec

\* The return path is clean and separate (mediaLoop, rtcpLoop): RTCP goes out in
\* order, once, completely and to the RTCP peer, media to the media peer only.
THEOREM PortsCorrect == Spec => []PortsSeparate
<1>1. TypeInv /\ PortsInv => PortsSeparate
  <2> SUFFICES ASSUME TypeInv, PortsInv PROVE PortsSeparate
    OBVIOUS
  <2>0. rtcp \in Seq([num : Nat, to : Addrs])
    BY DEF TypeInv
  <2>1. DOMAIN rtcp = 1..Len(rtcp) /\ \A i \in 1..Len(rtcp) : rtcp[i].to \in Addrs
    <3>1. \A i \in 1..Len(rtcp) : rtcp[i] \in [num : Nat, to : Addrs]
      BY <2>0, ElementOfSeq
    <3>2. \A r \in [num : Nat, to : Addrs] : r.to \in Addrs
      OBVIOUS
    <3>3. DOMAIN rtcp = 1..Len(rtcp)
      BY <2>0
    <3> QED
      BY <3>1, <3>2, <3>3
  <2>2. {rtcp[i].num : i \in DOMAIN rtcp} =
          {n \in Through("rtcp") : \E to \in Addrs : Peer("rtcp", n, to)}
    BY <2>1 DEF PortsInv, RtcpInv
  <2> QED
    BY <2>1, <2>2 DEF PortsInv, MediaInv, RtcpInv, PortsSeparate
<1> QED
  BY <1>1, TypeCorrect, PortsInductive, PTL
=============================================================================
