------------------------------- MODULE Engine -------------------------------
(***************************************************************************)
(* The impairment engine (engine/engine.go): one ordered pipeline of cells *)
(* per direction and one ingress counter for both.  Handle runs on one     *)
(* goroutine; it is unfolded here into one step per cell invocation, so    *)
(* that the order in which cells see packets, and what happens to a packet *)
(* that was duplicated upstream, is explicit.                              *)
(***************************************************************************)
EXTENDS Cells

CONSTANT
  Workloads   \* what to drive: the two pipelines of an engine (pipes), the datagram
              \* lengths, and bounds on the ingress clock and the packets (time, packets)

Dirs == {"c2s", "s2c"}

ASSUME WorkloadsAssumption ==
  \A w \in Workloads :
    /\ w.pipes \in [Dirs -> Seq(Cell)]
    /\ w.lengths \subseteq Nat /\ w.time \in Nat /\ w.packets \in Nat

VARIABLES
  load,       \* the workload
  now,        \* the driver's clock: recvAt of the next datagram
  pipelines,  \* direction -> sequence of cells
  seq,        \* the ingress counter
  stage,      \* 0: idle, otherwise the cell of the pipeline being applied
  dir,        \* direction of the packet being handled
  cur, next,  \* packets at this stage, and the ones for the next stage
  actions,    \* actions of this Handle so far (drops)
  heap,       \* payload slices of this Handle
  copies,     \* history: packets made by duplication
  out         \* history: all actions returned

vars == <<load, now, pipelines, seq, stage, dir, cur, next, actions, heap, copies, out>>

Pipe == pipelines[dir]
MaxTime == load.time
MaxPackets == load.packets
Lengths == load.lengths

Init ==
  /\ now = 1
  /\ load \in Workloads
  /\ pipelines = load.pipes
  /\ seq = 0 /\ stage = 0 /\ dir = "c2s"
  /\ cur = << >> /\ next = << >> /\ actions = << >> /\ heap = << >>
  /\ copies = 0 /\ out = << >>

\* Time passes between datagrams.
Advance ==
  /\ stage = 0 /\ now < MaxTime
  /\ now' = now + 1
  /\ UNCHANGED <<load, pipelines, seq, stage, dir, cur, next, actions, heap, copies, out>>

\* Handle, entry: number the packet; it is due now and holds the caller's slice.
Ingress(d, len) ==
  /\ stage = 0 /\ seq < MaxPackets
  /\ seq' = seq + 1
  /\ dir' = d
  /\ stage' = 1
  /\ heap' = <<0>>
  /\ cur' = <<[seq |-> seq + 1, dir |-> d, data |-> 1, len |-> len,
               recvAt |-> now, deliverAt |-> now]>>
  /\ UNCHANGED <<load, now, pipelines, next, actions, copies, out>>

DropAction(f, c) ==
  [kind |-> "drop", seq |-> f.seq, dir |-> f.dir, reason |-> c.kind]

ForwardAction(f) ==
  [kind |-> "forward", seq |-> f.seq, dir |-> f.dir, len |-> f.len,
   recvAt |-> f.recvAt, deliverAt |-> f.deliverAt, flips |-> heap[f.data]]

\* Mutant: only the last packet of a stage reaches the next one.
CellStepOverwrites ==
  /\ stage \in DOMAIN Pipe /\ cur # << >>
  /\ \E r \in Process(Pipe[stage], Head(cur), heap) :
       /\ pipelines' = [pipelines EXCEPT ![dir][stage] = r.cell]
       /\ heap' = r.heap
       /\ IF r.outs = << >>
          THEN /\ actions' = Append(actions, DropAction(Head(cur), Pipe[stage]))
               /\ UNCHANGED <<next, copies>>
          ELSE /\ next' = r.outs
               /\ copies' = copies + Len(r.outs) - 1
               /\ UNCHANGED actions
  /\ cur' = Tail(cur)
  /\ UNCHANGED <<load, now, seq, stage, dir, out>>

\* One invocation of a cell: a drop is recorded, or the outputs go on.
CellStep ==
  /\ stage \in DOMAIN Pipe /\ cur # << >>
  /\ \E r \in Process(Pipe[stage], Head(cur), heap) :
       /\ pipelines' = [pipelines EXCEPT ![dir][stage] = r.cell]
       /\ heap' = r.heap
       /\ IF r.outs = << >>
          THEN /\ actions' = Append(actions, DropAction(Head(cur), Pipe[stage]))
               /\ UNCHANGED <<next, copies>>
          ELSE /\ next' = next \o r.outs
               /\ copies' = copies + Len(r.outs) - 1
               /\ UNCHANGED actions
  /\ cur' = Tail(cur)
  /\ UNCHANGED <<load, now, seq, stage, dir, out>>

\* The stage is through: its outputs are the next stage's inputs.
NextStage ==
  /\ stage \in DOMAIN Pipe /\ cur = << >>
  /\ stage' = stage + 1
  /\ cur' = next /\ next' = << >>
  /\ UNCHANGED <<load, now, pipelines, seq, dir, actions, heap, copies, out>>

\* Handle, exit: the drops, then the survivors as forwards.
Return ==
  /\ stage = Len(Pipe) + 1
  /\ out' = out \o actions \o [i \in DOMAIN cur |-> ForwardAction(cur[i])]
  /\ stage' = 0
  /\ cur' = << >> /\ actions' = << >> /\ heap' = << >>
  /\ UNCHANGED <<load, now, pipelines, seq, dir, next, copies>>

Next ==
  \/ Advance
  \/ \E d \in Dirs, len \in Lengths : Ingress(d, len)
  \/ CellStep
  \/ NextStage
  \/ Return
  \/ stage = 0 /\ UNCHANGED vars    \* the driver may send no more

Spec == Init /\ [][Next]_vars
-----------------------------------------------------------------------------
Forwards == {i \in DOMAIN out : out[i].kind = "forward"}
Drops    == {i \in DOMAIN out : out[i].kind = "drop"}

\* Every packet that enters, and every copy made of one, ends in exactly one
\* action; none is lost between stages and none is returned twice.
PacketsConserved ==
  Len(out) + Len(actions) + Len(cur) + Len(next) = seq + copies

\* The least delay of a packet after a cell, if it had at least delay d before it:
\* every timing cell starts from the time at which the packet reached it.
LeastAfter(d, c) ==
  CASE c.kind = "delay"   -> MaxOf(d + c.base + c.lo, 0)
    [] c.kind = "reorder" -> IF c.pct = "zero" /\ c.corr = "zero" THEN d + c.gap ELSE d
    [] OTHER              -> d

\* The least delay after each number of cells, from none at the ingress.
LeastDelays(cells) ==
  LET d[n \in Nat] == IF n = 0 THEN 0 ELSE LeastAfter(d[n - 1], cells[n])
  IN  d

LeastDelay(cells) == LeastDelays(cells)[Len(cells)]

\* Stages compose: a forward carries at least the delay that all the stages of
\* its pipeline impose, so no stage discards what the stages before it added
\* (the time-base convention of engine.go).  That least delay is never negative:
\* no packet is due before it was received.
UpstreamDelayKept ==
  \A i \in Forwards :
    out[i].deliverAt >= out[i].recvAt + LeastDelay(pipelines[out[i].dir])

\* Payload slices are never written to after they were made: a corrupted packet
\* leaves its duplicates, and the caller's read buffer, as they were.
SlicesImmutable ==
  [][stage # 0 /\ stage' # 0 => \A i \in DOMAIN heap : heap'[i] = heap[i]]_vars

\* The cell that ends a pipeline, if it has one of the kind.
EndsWith(d, kind) ==
  LET p == pipelines[d] IN p # << >> /\ p[Len(p)].kind = kind

\* Forwards leave a limiter in the order they reached it, each at least its own
\* transmission time after the one before.
RateRespected ==
  \A i, j \in Forwards :
    /\ i < j
    /\ out[i].dir = out[j].dir /\ EndsWith(out[i].dir, "ratelimit")
    => LET c == pipelines[out[i].dir][Len(pipelines[out[i].dir])]
       IN  c.rate > 0 => out[j].deliverAt >= out[i].deliverAt + Serialize(c, out[j])

\* A bounded queue: wherever a limiter stands, a packet that it sends on waited, from
\* the time at which the stages before it deliver the packet, at most for the queue
\* (and one unit of rounding) and its own transmission, also if it reached the limiter
\* with an earlier time than the packet before.
QueueBounded ==
  \A k \in (Len(next) + 1)..Len(next') :
    LET c == Pipe[stage]
    IN  c.kind = "ratelimit" /\ c.rate > 0 /\ c.queue > 0 =>
          (next'[k].deliverAt - Head(cur).deliverAt - Serialize(c, next'[k])) * c.rate
            < (c.queue + 1) * NsPerSec

\* A rate limiter is a FIFO link of the configured rate with a queue of the
\* configured size, however late or reordered the packets reach it (ratelimit).
RateLinkKept == []RateRespected /\ [][QueueBounded]_vars

\* A Gilbert-Elliott cell with R left at its default leaves the bad state after
\* one packet: with a lossless good state no two packets in a row are lost.
OnePacketBursts ==
  \A i, j \in Drops :
    /\ out[i].dir = out[j].dir /\ i < j
    /\ out[i].reason = "loss.ge" /\ out[j].reason = "loss.ge"
    /\ \E n \in DOMAIN pipelines[out[i].dir] :
         LET c == pipelines[out[i].dir][n]
         IN  c.kind = "loss.ge" /\ c.r = "one" /\ c.h = "one"
    => \E k \in Forwards : i < k /\ k < j /\ out[k].dir = out[i].dir

\* With packets of at most one MTU, no more packets are delivered at an
\* opportunity's time than there are opportunities up to then.
TraceCapacity ==
  \A i \in Forwards :
    LET d == out[i].dir
        t == out[i].deliverAt
        c == pipelines[d][1]
    IN  Len(pipelines[d]) = 1 /\ c.kind = "deliverytrace" =>
          Cardinality({j \in Forwards : out[j].dir = d /\ out[j].deliverAt <= t})
            <= Cardinality({n \in 0..(MaxPackets + t * Len(c.sched)) :
                   OppExists(c, n) /\ c.base + OppTimeMs(c, n) * NsPerMs <= t})

\* firstOppAtOrAfter against its reference, over the first MaxTime milliseconds.
\* It never returns an opportunity before the arrival, and the ones at or after
\* the arrival that it skips are all at the very millisecond of the arrival.
FirstOppSound ==
  \A d \in Dirs : \A n \in DOMAIN pipelines[d] :
    LET c == pipelines[d][n]
    IN  c.kind = "deliverytrace" =>
          \A ms \in 0..MaxTime :
            LET got == FirstOppAtOrAfter(c, ms)
                ref == EarliestOpp(c, ms)
            IN  /\ got = -1 <=> ref = -1
                /\ got # -1 => /\ OppTimeMs(c, got) >= ms
                               /\ \A i \in ref..(got - 1) : OppTimeMs(c, i) = ms

\* A delivery trace is kept: it grants each opportunity once, and none before the
\* packet is there, through the cycles of a looping schedule (droplist).
TraceKept == TraceCapacity /\ FirstOppSound
=============================================================================
