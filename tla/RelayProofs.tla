---------------------------- MODULE RelayProofs ----------------------------
(***************************************************************************)
(* Proofs about the single-socket relay (module Relay): for any number of  *)
(* clients and datagrams, forwards follow their role and the tap sees      *)
(* exactly what it should.  The argument is about the learned sender: it   *)
(* is the client that spoke first, and nobody speaks before it but the     *)
(* upstream.                                                               *)
(***************************************************************************)
EXTENDS Relay, TLAPS

\* Who the sender is: nobody while only the upstream has spoken, and from then
\* on the first client, for good.
SenderIsFirst ==
  /\ upstream = [host |-> UpstreamHost, form |-> "v4"]
  /\ reads \in Seq(Hosts)
  /\ sender = NoAddr => \A m \in 1..Len(reads) : reads[m] \notin Clients
  /\ sender # NoAddr =>
       \E n \in 1..Len(reads) :
         /\ reads[n] \in Clients /\ sender.host = reads[n]
         /\ \A m \in 1..(n - 1) : reads[m] \notin Clients

\* A forward carries the number of a datagram that was read.
NumbersRead == \A f \in core \cup wire : f.num \in 1..Len(reads)

RoutingInv == SenderIsFirst /\ NumbersRead /\ RoutedByRole /\ TapExact

\* Normalising an address keeps the host and forgets the form, so two addresses
\* are the same to the relay exactly when their hosts are.
LEMMA NormAddr ==
  ASSUME NEW a \in Addrs
  PROVE  /\ normAddr(a) = [host |-> a.host, form |-> "v4"]
         /\ normAddr(a) = [host |-> UpstreamHost, form |-> "v4"] <=> a.host = UpstreamHost
         /\ normAddr(a) # NoAddr
         /\ normAddr(a).host = a.host
         /\ a.host \in Hosts
<1>1. a.host \in Hosts /\ a = [host |-> a.host, form |-> a.form]
  BY DEF Addrs
<1>2. normAddr(a) = [host |-> a.host, form |-> "v4"]
  BY DEF Addrs, normAddr
<1>3. a.host # "none"
  BY <1>1, HostsAssumption
<1> QED
  BY <1>1, <1>2, <1>3 DEF NoAddr

\* What one more datagram changes: its number is new, the earlier ones stay.
LEMMA ReadStep ==
  ASSUME reads \in Seq(Hosts), NEW h \in Hosts, reads' = Append(reads, h)
  PROVE  /\ reads' \in Seq(Hosts)
         /\ Len(reads') = Len(reads) + 1 /\ Len(reads) \in Nat
         /\ reads'[Len(reads) + 1] = h
         /\ \A n \in 1..Len(reads) : reads'[n] = reads[n]
         /\ DOMAIN reads = 1..Len(reads) /\ DOMAIN reads' = 1..(Len(reads) + 1)
  OBVIOUS

\* The forwards Process adds are all made from the datagram it was given.
LEMMA ProcessAdds ==
  ASSUME NEW n, NEW host, NEW dst, Process(n, host, dst), NEW f \in core'
  PROVE  f \in core \/ (f.num = n /\ f.from = host /\ f.to = dst)
  BY DEF Process

\* One more datagram, whatever is done with it, leaves the forwards of the earlier
\* ones where they belong.
LEMMA OldForwards ==
  ASSUME RoutingInv, NEW h \in Hosts, reads' = Append(reads, h), upstream' = upstream,
         NEW f \in core \cup wire
  PROVE  /\ f.num \in 1..Len(reads')
         /\ IF f.from = UpstreamHost
            THEN \E n \in 1..(f.num - 1) :
                   /\ reads'[n] \in Clients /\ f.to.host = reads'[n]
                   /\ \A m \in 1..(n - 1) : reads'[m] \notin Clients
            ELSE f.to = upstream'
<1>1. reads \in Seq(Hosts) /\ f.num \in 1..Len(reads)
  BY DEF RoutingInv, SenderIsFirst, NumbersRead
<1>2. /\ Len(reads') = Len(reads) + 1 /\ Len(reads) \in Nat
      /\ \A n \in 1..Len(reads) : reads'[n] = reads[n]
  BY <1>1, ReadStep
<1>3. CASE f.from = UpstreamHost
  <2>1. PICK n \in 1..(f.num - 1) :
               /\ reads[n] \in Clients /\ f.to.host = reads[n]
               /\ \A m \in 1..(n - 1) : reads[m] \notin Clients
    BY <1>3 DEF RoutingInv, RoutedByRole
  <2>2. \A m \in 1..n : m \in 1..Len(reads) /\ reads'[m] = reads[m]
    BY <1>1, <1>2, <2>1
  <2> QED
    BY <1>1, <1>2, <1>3, <2>1, <2>2
<1>4. CASE f.from # UpstreamHost
  BY <1>1, <1>2, <1>4 DEF RoutingInv, RoutedByRole
<1> QED
  BY <1>3, <1>4

\* RoutingInv is an invariant: one step per action.
THEOREM RoutingInductive == Spec => []RoutingInv
<1>1. Init => RoutingInv
  <2> SUFFICES ASSUME Init PROVE RoutingInv
    OBVIOUS
  <2>1. upstream = [host |-> UpstreamHost, form |-> "v4"]
    BY NormAddr DEF Init, Addrs, Hosts
  <2>2. reads = << >> /\ Len(reads) = 0 /\ DOMAIN reads = {} /\ tapped = {}
        /\ core \cup wire = {} /\ sender = NoAddr
    BY DEF Init
  <2> QED
    BY <2>1, <2>2 DEF RoutingInv, SenderIsFirst, NumbersRead, RoutedByRole, TapExact
<1>2. RoutingInv /\ [Next]_vars => RoutingInv'
  <2> SUFFICES ASSUME RoutingInv, [Next]_vars PROVE RoutingInv'
    OBVIOUS
  <2>0. /\ reads \in Seq(Hosts) /\ upstream = [host |-> UpstreamHost, form |-> "v4"]
        /\ tapped = {n \in 1..Len(reads) : \E m \in 1..n : reads[m] \in Clients}
    BY DEF RoutingInv, SenderIsFirst, TapExact
  <2>1. ASSUME NEW a \in Addrs, ReplyTooEarly(a) PROVE RoutingInv'
    <3>1. /\ a.host = UpstreamHost /\ a.host \in Hosts /\ a.host \notin Clients
          /\ reads' = Append(reads, a.host)
          /\ UNCHANGED <<upstream, sender, core, tapped, wire>> /\ sender = NoAddr
      BY <2>0, <2>1, NormAddr, HostsAssumption DEF ReplyTooEarly, Read
    <3>2. /\ reads' \in Seq(Hosts) /\ Len(reads') = Len(reads) + 1 /\ Len(reads) \in Nat
          /\ reads'[Len(reads) + 1] = a.host
          /\ \A n \in 1..Len(reads) : reads'[n] = reads[n]
          /\ DOMAIN reads' = 1..(Len(reads) + 1)
      BY <2>0, <3>1, ReadStep
    <3>3. \A m \in 1..Len(reads') : reads'[m] \notin Clients
      BY <3>1, <3>2 DEF RoutingInv, SenderIsFirst
    <3>4. SenderIsFirst'
      BY <2>0, <3>1, <3>2, <3>3 DEF SenderIsFirst
    <3>5. NumbersRead' /\ RoutedByRole'
      BY <3>1, OldForwards DEF NumbersRead, RoutedByRole
    <3>6. TapExact'
      <4>1. tapped = {}
        BY <2>0, <3>1 DEF RoutingInv, SenderIsFirst
      <4>2. \A f \in core \cup wire : f.num \in tapped
        BY DEF RoutingInv, TapExact
      <4> QED
        BY <3>1, <3>2, <3>3, <4>1, <4>2 DEF TapExact
    <3> QED
      BY <3>4, <3>5, <3>6 DEF RoutingInv
  <2>2. ASSUME NEW a \in Addrs, Reply(a) PROVE RoutingInv'
    <3>1. /\ a.host = UpstreamHost /\ a.host \in Hosts /\ a.host \notin Clients
          /\ reads' = Append(reads, a.host)
          /\ UNCHANGED <<upstream, sender, wire>> /\ sender # NoAddr
          /\ tapped' = tapped \cup {Len(reads')}
          /\ Process(Len(reads'), UpstreamHost, sender)
      BY <2>0, <2>2, NormAddr, HostsAssumption DEF Reply, Read
    <3>2. /\ reads' \in Seq(Hosts) /\ Len(reads') = Len(reads) + 1 /\ Len(reads) \in Nat
          /\ reads'[Len(reads) + 1] = a.host
          /\ \A n \in 1..Len(reads) : reads'[n] = reads[n]
          /\ DOMAIN reads' = 1..(Len(reads) + 1)
      BY <2>0, <3>1, ReadStep
    <3>3. PICK first \in 1..Len(reads) :
            /\ reads[first] \in Clients /\ sender.host = reads[first]
            /\ \A m \in 1..(first - 1) : reads[m] \notin Clients
      BY <3>1 DEF RoutingInv, SenderIsFirst
    <3>4. /\ first \in 1..(Len(reads') - 1)
          /\ reads'[first] \in Clients /\ sender.host = reads'[first]
          /\ \A m \in 1..(first - 1) : reads'[m] \notin Clients
      BY <3>2, <3>3
    <3>5. SenderIsFirst'
      BY <2>0, <3>1, <3>2, <3>4 DEF SenderIsFirst
    <3>6. ASSUME NEW f \in core' \cup wire'
          PROVE  f \in core \cup wire
                 \/ (f.num = Len(reads') /\ f.from = UpstreamHost /\ f.to = sender)
      BY <3>1, <3>6, ProcessAdds
    <3>7. NumbersRead' /\ RoutedByRole'
      <4>1. Len(reads') \in 1..Len(reads') /\ upstream' = upstream /\ a.host \in Hosts
        BY <3>1, <3>2
      <4> SUFFICES ASSUME NEW f \in core' \cup wire'
                   PROVE  /\ f.num \in 1..Len(reads')
                          /\ IF f.from = UpstreamHost
                             THEN \E n \in 1..(f.num - 1) :
                                    /\ reads'[n] \in Clients /\ f.to.host = reads'[n]
                                    /\ \A m \in 1..(n - 1) : reads'[m] \notin Clients
                             ELSE f.to = upstream'
        BY DEF NumbersRead, RoutedByRole
      <4>2. CASE f \in core \cup wire
        BY <3>1, <4>1, <4>2, OldForwards
      <4>3. CASE f.num = Len(reads') /\ f.from = UpstreamHost /\ f.to = sender
        BY <3>4, <4>1, <4>3
      <4> QED
        BY <3>6, <4>2, <4>3
    <3>8. TapExact'
      <4>1. \A f \in core' \cup wire' : f.num \in tapped'
        BY <3>1, <3>6 DEF RoutingInv, TapExact
      <4>2. tapped' = {n \in 1..Len(reads') : \E m \in 1..n : reads'[m] \in Clients}
        <5>1. \E m \in 1..Len(reads') : reads'[m] \in Clients
          BY <3>2, <3>4
        <5>2. \A n \in 1..Len(reads) : (\E m \in 1..n : reads'[m] \in Clients)
                                        <=> (\E m \in 1..n : reads[m] \in Clients)
          BY <3>2
        <5>3. ASSUME NEW n \in 1..Len(reads')
              PROVE  n \in tapped' <=> \E m \in 1..n : reads'[m] \in Clients
          <6>1. CASE n = Len(reads')
            BY <3>1, <5>1, <6>1
          <6>2. CASE n \in 1..Len(reads)
            <7>1. n # Len(reads')
              BY <3>2, <6>2
            <7> QED
              BY <2>0, <3>1, <5>2, <6>2, <7>1
          <6> QED
            BY <3>2, <6>1, <6>2
        <5>4. tapped' \subseteq 1..Len(reads')
          BY <2>0, <3>1, <3>2
        <5> QED
          BY <5>3, <5>4
      <4> QED
        BY <3>2, <4>1, <4>2 DEF TapExact
    <3> QED
      BY <3>5, <3>7, <3>8 DEF RoutingInv
  <2>3. ASSUME NEW a \in Addrs, Request(a) PROVE RoutingInv'
    <3>1. /\ a.host # UpstreamHost /\ a.host \in Hosts /\ a.host \in Clients
          /\ reads' = Append(reads, a.host)
          /\ UNCHANGED <<upstream, wire>>
          /\ sender' = IF sender = NoAddr THEN normAddr(a) ELSE sender
          /\ tapped' = tapped \cup {Len(reads')}
          /\ Process(Len(reads'), a.host, upstream)
      BY <2>0, <2>3, NormAddr DEF Request, Read, Hosts
    <3>2. /\ reads' \in Seq(Hosts) /\ Len(reads') = Len(reads) + 1 /\ Len(reads) \in Nat
          /\ reads'[Len(reads) + 1] = a.host
          /\ \A n \in 1..Len(reads) : reads'[n] = reads[n]
          /\ DOMAIN reads' = 1..(Len(reads) + 1)
      BY <2>0, <3>1, ReadStep
    <3>3. SenderIsFirst'
      <4>1. CASE sender = NoAddr
        <5>1. sender' # NoAddr /\ sender'.host = a.host
          BY <3>1, <4>1, NormAddr
        <5>2. \A m \in 1..Len(reads) : reads'[m] \notin Clients
          BY <3>2, <4>1 DEF RoutingInv, SenderIsFirst
        <5> QED
          BY <2>0, <3>1, <3>2, <5>1, <5>2 DEF SenderIsFirst
      <4>2. CASE sender # NoAddr
        <5>1. PICK first \in 1..Len(reads) :
                /\ reads[first] \in Clients /\ sender.host = reads[first]
                /\ \A m \in 1..(first - 1) : reads[m] \notin Clients
          BY <4>2 DEF RoutingInv, SenderIsFirst
        <5>2. /\ first \in 1..Len(reads')
              /\ reads'[first] \in Clients /\ sender.host = reads'[first]
              /\ \A m \in 1..(first - 1) : reads'[m] \notin Clients
          BY <3>2, <5>1
        <5> QED
          BY <2>0, <3>1, <3>2, <4>2, <5>2 DEF SenderIsFirst
      <4> QED
        BY <4>1, <4>2
    <3>4. ASSUME NEW f \in core' \cup wire'
          PROVE  f \in core \cup wire
                 \/ (f.num = Len(reads') /\ f.from = a.host /\ f.to = upstream)
      BY <3>1, <3>4, ProcessAdds
    <3>5. NumbersRead' /\ RoutedByRole'
      BY <3>1, <3>2, <3>4, OldForwards DEF NumbersRead, RoutedByRole
    <3>6. TapExact'
      <4>1. \A f \in core' \cup wire' : f.num \in tapped'
        BY <3>1, <3>4 DEF RoutingInv, TapExact
      <4>2. tapped' = {n \in 1..Len(reads') : \E m \in 1..n : reads'[m] \in Clients}
        <5>1. \E m \in 1..Len(reads') : reads'[m] \in Clients
          BY <3>1, <3>2
        <5>2. \A n \in 1..Len(reads) : (\E m \in 1..n : reads'[m] \in Clients)
                                        <=> (\E m \in 1..n : reads[m] \in Clients)
          BY <3>2
        <5>3. ASSUME NEW n \in 1..Len(reads')
              PROVE  n \in tapped' <=> \E m \in 1..n : reads'[m] \in Clients
          <6>1. CASE n = Len(reads')
            BY <3>1, <5>1, <6>1
          <6>2. CASE n \in 1..Len(reads)
            <7>1. n # Len(reads')
              BY <3>2, <6>2
            <7> QED
              BY <2>0, <3>1, <5>2, <6>2, <7>1
          <6> QED
            BY <3>2, <6>1, <6>2
        <5>4. tapped' \subseteq 1..Len(reads')
          BY <2>0, <3>1, <3>2
        <5> QED
          BY <5>3, <5>4
      <4> QED
        BY <3>2, <4>1, <4>2 DEF TapExact
    <3> QED
      BY <3>3, <3>5, <3>6 DEF RoutingInv
  <2>4. ASSUME NEW f \in core, Deliver(f) \/ GiveUp(f) PROVE RoutingInv'
    <3>1. /\ UNCHANGED <<upstream, sender, reads, tapped>>
          /\ core' \cup wire' \subseteq core \cup wire
      BY <2>4 DEF Deliver, GiveUp
    <3> QED
      BY <3>1 DEF RoutingInv, SenderIsFirst, NumbersRead, RoutedByRole, TapExact
  <2>5. CASE Close \/ UNCHANGED vars
    <3>1. UNCHANGED <<upstream, sender, core, reads, tapped, wire>>
      BY <2>5 DEF Close, vars
    <3> QED
      BY <3>1 DEF RoutingInv, SenderIsFirst, NumbersRead, RoutedByRole, TapExact
  <2> QED
    BY <2>1, <2>2, <2>3, <2>4, <2>5 DEF Next
<1> QED
  BY <1>1, <1>2, PTL DEF Spec

\* Relay.loop routes by role: replies go to the client that spoke first, whoever
\* spoke since and in whatever form the socket reports it, the rest upstream.
THEOREM RoutingCorrect == Spec => []RoutedByRole
<1>1. RoutingInv => RoutedByRole
  BY DEF RoutingInv
<1> QED
  BY <1>1, RoutingInductive, PTL

\* Relay.loop taps before it forwards, and leaves out only what the upstream sent
\* before the first client spoke.
THEOREM TapCorrect == Spec => []TapExact
<1>1. RoutingInv => TapExact
  BY DEF RoutingInv
<1> QED
  BY <1>1, RoutingInductive, PTL
=============================================================================
