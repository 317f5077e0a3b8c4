------------------------------- MODULE Relay -------------------------------
(***************************************************************************)
(* The single-socket relay (relay/relay.go): who is talking, where replies *)
(* go, and what the tap sees.  One goroutine reads, so a datagram is       *)
(* classified, tapped and handed to the core in one step; the core         *)
(* (RelayCore) is abstracted to a set of forwards that it delivers in any  *)
(* order, drops or duplicates, concurrently with the reads.                *)
(*                                                                         *)
(* An address is a host and the form in which the socket reports it: IPv4, *)
(* or IPv4 mapped into IPv6.                                               *)
(***************************************************************************)
EXTENDS Integers, Sequences, FiniteSets

CONSTANTS
  Clients,       \* hosts other than the upstream
  UpstreamHost,  \* the configured upstream
  MaxReads       \* bound on the datagrams read

Hosts == Clients \cup {UpstreamHost}
Forms == {"v4", "mapped"}
Addrs == [host : Hosts, form : Forms]

\* No sender learned yet (the nil pointer).
NoAddr == [host |-> "none", form |-> "v4"]

ASSUME HostsAssumption == UpstreamHost \notin Clients /\ "none" \notin Hosts

VARIABLES
  upstream,  \* the upstream address, as resolved and normalised by NewOn
  sender,    \* the learned sender address
  core,      \* forwards the core has accepted and not delivered
  closed,    \* the core is closed
  reads,     \* history: datagrams read, as <<host>> in order
  tapped,    \* history: numbers of the datagrams the tap was given
  wire       \* history: the forwards written to the socket

vars == <<upstream, sender, core, closed, reads, tapped, wire>>

\* Mutant: addresses are compared as the socket reports them.
RawAddr(a) == a

normAddr(a) == [a EXCEPT !.form = "v4"]

Init ==
  /\ \E f \in Forms : upstream = normAddr([host |-> UpstreamHost, form |-> f])
  /\ sender = NoAddr
  /\ core = {} /\ closed = FALSE
  /\ reads = << >> /\ tapped = {} /\ wire = {}

\* Process: the engine keeps the datagram (in one or two copies) or drops it.
Process(n, host, dst) ==
  \E copies \in 0..2 :
    core' = core \cup {[num |-> n, copy |-> k, from |-> host, to |-> dst] : k \in 1..copies}

Read(a) ==
  /\ ~closed
  /\ Len(reads) < MaxReads
  /\ reads' = Append(reads, a.host)
  /\ UNCHANGED <<upstream, closed, wire>>

\* A datagram from the upstream before any sender is known: ignored, untapped.
ReplyTooEarly(a) ==
  /\ Read(a)
  /\ normAddr(a) = upstream
  /\ sender = NoAddr
  /\ UNCHANGED <<sender, core, tapped>>

\* A datagram from the upstream: to the learned sender.
Reply(a) ==
  /\ Read(a)
  /\ normAddr(a) = upstream
  /\ sender # NoAddr
  /\ tapped' = tapped \cup {Len(reads')}
  /\ Process(Len(reads'), a.host, sender)
  /\ UNCHANGED sender

\* Mutant: the datagram that teaches the sender is not shown to the tap.
RequestUntapped(a) ==
  /\ Read(a)
  /\ normAddr(a) # upstream
  /\ sender' = IF sender = NoAddr THEN normAddr(a) ELSE sender
  /\ tapped' = IF sender = NoAddr THEN tapped ELSE tapped \cup {Len(reads')}
  /\ Process(Len(reads'), a.host, upstream)

\* Any other datagram: to the upstream; the first one teaches the sender.
Request(a) ==
  /\ Read(a)
  /\ normAddr(a) # upstream
  /\ sender' = IF sender = NoAddr THEN normAddr(a) ELSE sender
  /\ tapped' = tapped \cup {Len(reads')}
  /\ Process(Len(reads'), a.host, upstream)

\* The core writes a forward, or gives it up (full queue, or closed).
Deliver(f) ==
  /\ f \in core
  /\ core' = core \ {f}
  /\ wire' = wire \cup {f}
  /\ UNCHANGED <<upstream, sender, closed, reads, tapped>>

GiveUp(f) ==
  /\ f \in core
  /\ core' = core \ {f}
  /\ UNCHANGED <<upstream, sender, closed, reads, tapped, wire>>

Close ==
  /\ closed' = TRUE
  /\ UNCHANGED <<upstream, sender, core, reads, tapped, wire>>

Next ==
  \/ \E a \in Addrs : ReplyTooEarly(a) \/ Reply(a) \/ Request(a)
  \/ \E f \in core : Deliver(f) \/ GiveUp(f)
  \/ Close

Spec == Init /\ [][Next]_vars
-----------------------------------------------------------------------------
\* Forwards go where their direction says, whatever form the socket gave the
\* addresses and whoever spoke since: the upstream's to the client that spoke
\* first, everyone else's to the upstream.  In particular nothing is ever reflected to where it came from.
RoutedByRole ==
  \A f \in core \cup wire :
    IF f.from = UpstreamHost
    THEN \E n \in 1..(f.num - 1) :
           /\ reads[n] \in Clients /\ f.to.host = reads[n]
           /\ \A m \in 1..(n - 1) : reads[m] \notin Clients
    ELSE f.to = upstream

\* The tap sees every datagram that can reach the wire, before it does.  It sees
\* every other one too, dropped by the engine or not, with one exception: what the
\* upstream sends before the first client has spoken (Relay.loop).
TapExact ==
  /\ \A f \in core \cup wire : f.num \in tapped
  /\ tapped = {n \in DOMAIN reads : \E m \in 1..n : reads[m] \in Clients}
=============================================================================
