------------------------------ MODULE Session ------------------------------
(***************************************************************************)
(* One graded run: a sender and a receiver of the implementation under     *)
(* test (not in the repository) talk SRT or RIST through a relay whose tap *)
(* feeds the observer; at any time the run may end and be graded.          *)
(*                                                                         *)
(* The path from the sender to the relay may lose and reorder datagrams.   *)
(* The relay shows a datagram to the observer before it drops, corrupts or *)
(* forwards it.  The receiver's feedback passes the relay in order, as it  *)
(* does on the clean RTCP port and on a loopback path.                     *)
(*                                                                         *)
(* The sender's packets are numbered 0, 1, ... here; on the wire packet n  *)
(* carries (isn + n) modulo Space.                                         *)
(***************************************************************************)
EXTENDS Oracle, Sequences, FiniteSetsExt

CONSTANTS
  Protos,      \* the protocols to run: srt, rist
  ISNs,        \* initial sequence numbers
  MaxSend,     \* bound: packets sent
  MaxRetrans,  \* bound: retransmissions
  MaxFeedback  \* bound: ACKs or reports, and requests, each

ASSUME SessionAssumption ==
  /\ Protos \subseteq {"srt", "rist"}
  /\ ISNs \subseteq 0..(Space - 1)
  /\ MaxSend \in Nat /\ MaxRetrans \in Nat /\ MaxFeedback \in Nat

VARIABLES
  proto,     \* the protocol of this run
  loss,      \* LossInjected: the relay's scenario drops packets
  opaque,    \* a black-box implementation: delivery is not measured
  sut,       \* the implementation: arq, mute (no recovery) or regress (bad ACKs)
  isn,       \* initial sequence number
  up,        \* the connection is established
  next,      \* packets sent so far
  path,      \* datagrams between sender and relay: <<packet, retransmission>>
  rx,        \* packets the receiver has
  asked,     \* packets the receiver has requested
  resent,    \* retransmissions sent
  corrupt,   \* packets delivered corrupted
  dropped,   \* RelayDropped
  feedback,  \* ACKs or reports sent
  obs,       \* the observer at the tap
  tapped,    \* history: packets shown to the observer, in order
  acked      \* history: packets acknowledged by the receiver's ACKs, in order

config == <<proto, loss, opaque, sut, isn>>
vars == <<config, up, next, path, rx, asked, resent, corrupt, dropped, feedback,
          obs, tapped, acked>>

Seqno(n) == (isn + n) % Space

Observed(d, p) ==
  IF proto = "srt" THEN SrtObserve(obs, d, p) ELSE RistObserve(obs, p)

Init ==
  /\ proto \in Protos /\ loss \in BOOLEAN /\ opaque \in BOOLEAN
  /\ sut \in (IF proto = "srt" THEN {"arq", "mute", "regress"} ELSE {"arq", "mute"})
  /\ isn \in ISNs
  /\ up = FALSE /\ next = 0 /\ path = {} /\ rx = {} /\ asked = {}
  /\ resent = 0 /\ corrupt = 0 /\ dropped = 0 /\ feedback = 0
  /\ obs = IF proto = "srt" THEN NewSrtObserver ELSE NewRistObserver
  /\ tapped = << >> /\ acked = << >>
-----------------------------------------------------------------------------
\* SRT shakes hands through the relay; RIST just starts.
Connect ==
  /\ ~up /\ up' = TRUE
  /\ obs' = IF proto = "srt" THEN SrtObserve(obs, "c2s", [kind |-> "handshake"]) ELSE obs
  /\ UNCHANGED <<config, next, path, rx, asked, resent, corrupt, dropped, feedback,
                 tapped, acked>>

Send ==
  /\ up /\ next < MaxSend
  /\ next' = next + 1
  /\ path' = path \cup {<<next, FALSE>>}
  /\ UNCHANGED <<config, up, rx, asked, resent, corrupt, dropped, feedback, obs,
                 tapped, acked>>

LostOnPath(p) ==
  /\ p \in path
  /\ path' = path \ {p}
  /\ UNCHANGED <<config, up, next, rx, asked, resent, corrupt, dropped, feedback,
                 obs, tapped, acked>>

\* A datagram reaches the relay: the tap, then the engine's verdict.
Relayed(p, fate) ==
  /\ p \in path
  /\ fate # "forward" => loss
  /\ fate = "corrupt" => corrupt = 0
  /\ path' = path \ {p}
  /\ obs' = Observed("c2s", [kind |-> "data", seq |-> Seqno(p[1]), retrans |-> p[2]])
  /\ tapped' = Append(tapped, p[1])
  /\ rx' = IF fate = "drop" THEN rx ELSE rx \cup {p[1]}
  /\ dropped' = dropped + (IF fate = "drop" THEN 1 ELSE 0)
  /\ corrupt' = corrupt + (IF fate = "corrupt" THEN 1 ELSE 0)
  /\ UNCHANGED <<config, up, next, asked, resent, feedback, acked>>

\* Packets the receiver knows it misses.
Missing == {n \in 0..(next - 1) : n \notin rx /\ \E m \in rx : n < m}

\* They as inclusive ranges, and as one NACK entry.
Ranges == {<<Seqno(r[1]), Seqno(r[2])>> : r \in
             {r \in Missing \X Missing :
                /\ r[1] <= r[2] /\ r[1]..r[2] \subseteq Missing
                /\ r[1] - 1 \notin Missing /\ r[2] + 1 \notin Missing}}
Entry == <<Seqno(Min(Missing)), {n - Min(Missing) - 1 : n \in Missing \ {Min(Missing)}}>>

\* The receiver requests what it misses.
Ask ==
  /\ sut # "mute" /\ Missing # {} /\ obs.cnt.reqs < MaxFeedback
  /\ asked' = asked \cup Missing
  /\ obs' = Observed("s2c", IF proto = "srt" THEN [kind |-> "nak", ranges |-> Ranges]
                            ELSE [kind |-> "nack", entries |-> {Entry}])
  /\ UNCHANGED <<config, up, next, path, rx, resent, corrupt, dropped, feedback,
                 tapped, acked>>

Resend(n) ==
  /\ n \in asked /\ resent < MaxRetrans
  /\ <<n, TRUE>> \notin path
  /\ path' = path \cup {<<n, TRUE>>}
  /\ resent' = resent + 1
  /\ UNCHANGED <<config, up, next, rx, asked, corrupt, dropped, feedback, obs,
                 tapped, acked>>

\* The first packet the receiver does not have.
AckPoint == Min({n \in 0..next : n \notin rx})

\* SRT: the receiver acknowledges, a faulty one below what it could.
Ack(n) ==
  /\ proto = "srt" /\ up /\ feedback < MaxFeedback
  /\ n = AckPoint \/ (sut = "regress" /\ n < AckPoint)
  /\ feedback' = feedback + 1
  /\ acked' = Append(acked, n)
  /\ obs' = SrtObserve(obs, "s2c", [kind |-> "ack", seq |-> Seqno(n)])
  /\ UNCHANGED <<config, up, next, path, rx, asked, resent, corrupt, dropped, tapped>>

\* The other direction carries no data; its ACKs stay at its own first number.
IdleAck ==
  /\ proto = "srt" /\ up /\ feedback < MaxFeedback
  /\ feedback' = feedback + 1
  /\ obs' = SrtObserve(obs, "c2s", [kind |-> "ack", seq |-> 0])
  /\ UNCHANGED <<config, up, next, path, rx, asked, resent, corrupt, dropped, tapped,
                 acked>>

\* RIST: a sender or receiver report.
Report ==
  /\ proto = "rist" /\ up /\ feedback < 1
  /\ feedback' = feedback + 1
  /\ obs' = RistObserve(obs, [kind |-> "report"])
  /\ UNCHANGED <<config, up, next, path, rx, asked, resent, corrupt, dropped, tapped,
                 acked>>

Next ==
  \/ Connect \/ Send \/ Ask \/ IdleAck \/ Report
  \/ \E p \in path :
       LostOnPath(p) \/ \E fate \in {"forward", "drop", "corrupt"} : Relayed(p, fate)
  \/ \E n \in asked : Resend(n)
  \/ \E n \in 0..next : Ack(n)

Spec == Init /\ [][Next]_vars
-----------------------------------------------------------------------------
(***************************************************************************)
(* Grading: what the runner hands to the oracle if the run ends here.      *)
(***************************************************************************)
Accounting ==
  [loss |-> loss, opaque |-> opaque, sent |-> next, dropped |-> dropped,
   delivered |-> IF opaque THEN 0 ELSE Cardinality(rx),
   corrupt |-> IF opaque THEN 0 ELSE corrupt]

Checks == IF proto = "srt" THEN SrtEvaluate(Accounting, obs)
          ELSE RistEvaluate(Accounting, obs)

ArqCheck == IF proto = "srt" THEN Checks.arqEngagedUnderLoss
            ELSE Checks.retransmitUnderLoss
-----------------------------------------------------------------------------
(***************************************************************************)
(* Properties.                                                             *)
(***************************************************************************)
\* No sequence number has been used for two packets.
NoReuse == next <= Space

\* The wire numbers of this run have not gone through the end of the space.
NoWrap == isn + next < Space

Distinct == {tapped[i] : i \in DOMAIN tapped}

\* Packets between the first and the highest one shown that were never shown,
\* and the ones that were, for the first time, after a higher one.
NeverShown == {n \in tapped[1]..Max(Distinct) : n \notin Distinct}
ShownLate ==
  {n \in Distinct : n > tapped[1] /\
     \E i \in DOMAIN tapped : tapped[i] > n /\ \A j \in 1..i : tapped[j] # n}

\* RIST's counts are right through a wrap and with reordering (recordSeq): the
\* gaps are the packets that were skipped when a higher one came, those that never
\* came and those that came late; a packet shown again is a retransmission, and
\* no other.
SequenceAccounted ==
  proto = "rist" /\ NoReuse /\ tapped # << >> =>
    /\ obs.gaps = Cardinality(NeverShown) + Cardinality(ShownLate)
    /\ obs.cnt.retrans = Len(tapped) - Cardinality(Distinct)

\* A retransmission that the observer reports is one: "a second sighting of a
\* sequence number is the wire signature of a retransmit" (Observer.seen), for
\* streams of any length.
RetransmissionsReal == obs.cnt.retrans > 0 => resent > 0

\* The requested numbers are those of the packets that the receiver requested,
\* ranges and bit masks expanded, in RIST through a wrap too.
RequestsExact ==
  proto = "rist" \/ NoWrap => obs.cnt.reqSeqs = {Seqno(n) : n \in asked}

\* ack-monotonic fails exactly if the receiver took an ACK back: whatever ACKs
\* the other direction carries in between, and however long ago that was.
AckVerdictExact ==
  proto = "srt" /\ NoWrap =>
    (obs.monotonic <=> \A i, j \in DOMAIN acked : i < j => acked[i] <= acked[j])

\* An implementation without recovery is never credited with it, until its sequence
\* numbers are used again.  The path duplicates nothing in front of the tap; the RIST
\* observer would take a duplicate for a retransmission (recordSeq).
MuteNotCredited ==
  NoReuse /\ sut = "mute" /\ loss /\ dropped > 0 => ArqCheck # "pass"

\* A run in which all was sent, delivered and recovered as it should be has no
\* failed check, whatever the relay did to it and in whatever order.
HonestNotFailed ==
  (proto = "rist" \/ NoWrap) /\ sut = "arq" /\ up /\ next > 0 /\ corrupt = 0 /\ Cardinality(rx) = next =>
    Rollup(Checks) \in {"pass", "warn"}

=============================================================================
