------------------------------- MODULE Oracle -------------------------------
(***************************************************************************)
(* The oracles that grade a run from its accounting and the observation:   *)
(* the shared graders (grade/), the SRT roster (oracle/), the RIST roster  *)
(* (ristoracle/) and the rollup of a run's checks (result/).  A check is   *)
(* its verdict; the accounting is a record with the fields loss, sent,     *)
(* delivered, corrupt, dropped and opaque.                                 *)
(***************************************************************************)
EXTENDS Wire

Verdicts == <<"pass", "warn", "fail", "unsupported", "error">>

Severity(v) == CHOOSE i \in DOMAIN Verdicts : Verdicts[i] = v

\* The worst of a run's checks.
Rollup(checks) ==
  CHOOSE v \in {checks[n] : n \in DOMAIN checks} :
    \A n \in DOMAIN checks : Severity(checks[n]) <= Severity(v)

PassIf(cond, otherwise) == IF cond THEN "pass" ELSE otherwise
-----------------------------------------------------------------------------
DeliveryIntegrity(in) == PassIf(in.opaque \/ in.corrupt = 0, "fail")

DeliveryComplete(in) ==
  PassIf(in.opaque \/ in.loss \/ in.delivered >= in.sent, "fail")

Presence(observed, attempted) ==
  PassIf(observed > 0, IF attempted THEN "fail" ELSE "error")

Feedback(observed) == PassIf(observed > 0, "warn")
-----------------------------------------------------------------------------
\* arq-engaged-under-loss: a NAK and a retransmission.
arqEngagedUnderLoss(in, c) ==
  LET arq  == c.reqs > 0 /\ c.retrans > 0
      idle == c.reqs = 0 /\ c.retrans = 0
  IN  CASE ~in.loss     -> "pass"
        [] in.loss /\ in.opaque -> PassIf(arq \/ in.dropped = 0, "warn")
        [] in.loss /\ ~in.opaque ->
             IF in.sent = 0 \/ (arq /\ in.delivered > 0) THEN "pass"
             ELSE IF idle /\ in.delivered < in.sent \div 2 THEN "fail" ELSE "warn"

\* Mutant: a run that delivered something is not looked at any further.
retransmitIfNothing(in, c) ==
  PassIf(~in.loss \/ c.retrans > 0 \/ in.delivered > 0, "fail")

\* retransmit-under-loss: retransmissions alone.
retransmitUnderLoss(in, c) ==
  IF ~in.loss \/ c.retrans > 0 \/ in.dropped = 0 THEN "pass"
  ELSE IF ~in.opaque /\ in.delivered < in.sent \div 2 THEN "fail" ELSE "warn"

SrtEvaluate(in, o) ==
  [handshakeCompleted  |-> Presence(o.handshakes, in.sent > 0 \/ in.opaque),
   deliveryIntegrity   |-> DeliveryIntegrity(in),
   deliveryComplete    |-> DeliveryComplete(in),
   arqEngagedUnderLoss |-> arqEngagedUnderLoss(in, o.cnt),
   ackMonotonic        |-> PassIf(o.monotonic, "fail"),
   ackActivity         |-> Feedback(o.acks)]

RistEvaluate(in, o) ==
  [rtpFlow             |-> Presence(o.cnt.data, in.sent > 0 \/ in.opaque),
   deliveryIntegrity   |-> DeliveryIntegrity(in),
   deliveryComplete    |-> DeliveryComplete(in),
   retransmitUnderLoss |-> retransmitUnderLoss(in, o.cnt),
   rtcpActivity        |-> Feedback(o.cnt.control)]
=============================================================================
