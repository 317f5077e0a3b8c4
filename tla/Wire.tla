-------------------------------- MODULE Wire --------------------------------
(***************************************************************************)
(* The passive observers at the relay's tap: SRT (wire/), RIST (ristwire/) *)
(* and the counters they share (wireobs/), as operators that fold one      *)
(* decoded packet into an observation.  Of a packet, the fields are kept   *)
(* that an observer looks at; a loss report is kept as the list entries    *)
(* that decoding expands.  Sequence numbers are modulo Space: 2^31 in SRT, *)
(* 2^16 in RTP.                                                            *)
(***************************************************************************)
EXTENDS Integers, FiniteSets

CONSTANT Space   \* size of the sequence number space

ASSUME SpaceAssumption == Space \in Nat \ {0} /\ Space % 2 = 0

Dirs == {"c2s", "s2c"}

(***************************************************************************)
(* wireobs.Counters.                                                       *)
(***************************************************************************)
NewCounters == [data |-> 0, control |-> 0, reqs |-> 0, retrans |-> 0,
                reqSeqs |-> {}, retransSeqs |-> {}]

Data(c)    == [c EXCEPT !.data = @ + 1]
Control(c) == [c EXCEPT !.control = @ + 1]

Request(c, seqs) == [c EXCEPT !.reqs = @ + 1, !.reqSeqs = @ \cup seqs]

Retransmit(c, seq) == [c EXCEPT !.retrans = @ + 1, !.retransSeqs = @ \cup {seq}]
-----------------------------------------------------------------------------
(***************************************************************************)
(* SRT.  A loss report is a set of inclusive ranges <<first, last>>.       *)
(***************************************************************************)
NewSrtObserver ==
  [cnt |-> NewCounters, handshakes |-> 0, acks |-> 0, maxAck |-> 0,
   monotonic |-> TRUE, ackSeen |-> [d \in Dirs |-> FALSE],
   lastAck |-> [d \in Dirs |-> 0]]

\* Mutant: a range goes up to, but not including, its end.
decodeNakShort(ranges) ==
  UNION {IF r[2] <= r[1] THEN {r[1]} ELSE r[1]..(r[2] - 1) : r \in ranges}

\* A range whose end is below its start is taken for its start alone.
decodeNak(ranges) ==
  UNION {IF r[2] < r[1] THEN {r[1]} ELSE r[1]..r[2] : r \in ranges}

\* Mutant: only the first ACK of a direction is remembered.
recordAckFirst(o, d, seq) ==
  [o EXCEPT !.monotonic = @ /\ ~(o.ackSeen[d] /\ seq < o.lastAck[d]),
            !.maxAck = IF seq > @ THEN seq ELSE @,
            !.lastAck[d] = IF o.ackSeen[d] THEN @ ELSE seq,
            !.ackSeen[d] = TRUE]

\* Mutant: the ACKs of both directions in one stream.
recordAckPooled(o, d, seq) ==
  [o EXCEPT !.monotonic = @ /\ \A e \in Dirs : ~(o.ackSeen[e] /\ seq < o.lastAck[e]),
            !.maxAck = IF seq > @ THEN seq ELSE @,
            !.lastAck = [e \in Dirs |-> seq],
            !.ackSeen = [e \in Dirs |-> TRUE]]

\* Backward movement is looked for in each direction by itself.
recordAck(o, d, seq) ==
  [o EXCEPT !.monotonic = @ /\ ~(o.ackSeen[d] /\ seq < o.lastAck[d]),
            !.maxAck = IF seq > @ THEN seq ELSE @,
            !.lastAck[d] = seq,
            !.ackSeen[d] = TRUE]

\* Keep-alives, shutdowns and ACKACKs only move counters that no check reads.
SrtObserve(o, d, p) ==
  CASE p.kind = "data" ->
         LET c == Data(o.cnt)
         IN  [o EXCEPT !.cnt = IF p.retrans THEN Retransmit(c, p.seq) ELSE c]
    [] p.kind = "handshake" ->
         [o EXCEPT !.cnt = Control(@), !.handshakes = @ + 1]
    [] p.kind = "ack" ->
         recordAck([o EXCEPT !.cnt = Control(@), !.acks = @ + 1], d, p.seq)
    [] p.kind = "nak" ->
         [o EXCEPT !.cnt = Request(Control(@), decodeNak(p.ranges))]
-----------------------------------------------------------------------------
(***************************************************************************)
(* RIST.  A generic NACK is a set of entries <<pid, blp>>, blp being the   *)
(* set of bits that are one.                                               *)
(***************************************************************************)
NewRistObserver ==
  [cnt |-> NewCounters, seen |-> {}, seqSeen |-> FALSE, maxSeq |-> 0, gaps |-> 0]

parseGenericNACK(entries) ==
  UNION {{e[1]} \cup {(e[1] + i + 1) % Space : i \in e[2]} : e \in entries}

\* Mutant: the forward distance is not taken modulo the space.
recordSeqPlain(o, seq) ==
  LET delta == seq - o.maxSeq
  IN  IF seq \in o.seen THEN [o EXCEPT !.cnt = Retransmit(@, seq)]
      ELSE IF ~o.seqSeen
           THEN [o EXCEPT !.seen = @ \cup {seq}, !.seqSeen = TRUE, !.maxSeq = seq]
      ELSE IF delta > 0 /\ delta <= Space \div 2
           THEN [o EXCEPT !.seen = @ \cup {seq}, !.gaps = @ + delta - 1, !.maxSeq = seq]
      ELSE [o EXCEPT !.seen = @ \cup {seq}]

\* A number seen before is a retransmission.  A new one opens gaps if it is
\* ahead, by up to half the space, of the highest so far.
recordSeq(o, seq) ==
  LET delta == (seq - o.maxSeq) % Space
  IN  IF seq \in o.seen THEN [o EXCEPT !.cnt = Retransmit(@, seq)]
      ELSE IF ~o.seqSeen
           THEN [o EXCEPT !.seen = @ \cup {seq}, !.seqSeen = TRUE, !.maxSeq = seq]
      ELSE IF delta # 0 /\ delta <= Space \div 2
           THEN [o EXCEPT !.seen = @ \cup {seq}, !.gaps = @ + delta - 1, !.maxSeq = seq]
      ELSE [o EXCEPT !.seen = @ \cup {seq}]

\* Any RTCP packet but a NACK is a report here; the counts of sender and receiver
\* reports and the set of SSRCs are left out, no check reads them.
RistObserve(o, p) ==
  CASE p.kind = "data"   -> recordSeq([o EXCEPT !.cnt = Data(@)], p.seq)
    [] p.kind = "report" -> [o EXCEPT !.cnt = Control(@)]
    [] p.kind = "nack"   ->
         [o EXCEPT !.cnt = Request(Control(@), parseGenericNACK(p.entries))]
=============================================================================
