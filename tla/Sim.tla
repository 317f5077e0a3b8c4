--------------------------------- MODULE Sim ---------------------------------
(***************************************************************************)
(* Scenarios put to work: engines are built from scenarios, profiles and   *)
(* traces, and the same packets are driven through each of them, by the    *)
(* simulator (internal/sim) one engine after the other, by bond.RunLinks   *)
(* packet by packet.  What the engines did is recorded, compared with a    *)
(* golden file, summed up and merged (modules Pattern and Bond).           *)
(*                                                                         *)
(* Here the engines may handle their packets in any order among each       *)
(* other, and while further ones are built: what an engine does must not   *)
(* depend on that.  One Handle is one step; module Engine takes it apart.  *)
(*                                                                         *)
(* What a substream decides is unknown, but fixed.  The first decision     *)
(* that a cell asks of a position of a substream is chosen among those the *)
(* cell can come to (module Cells), and written down; a cell that asks the *)
(* same question of the same position gets the same answer.                *)
(***************************************************************************)
EXTENDS Scenario, Pattern, Bond

CONSTANT
  Jobs   \* what to run: the engines to build (builds) and the packets to drive (trace)

Dirs == {"c2s", "s2c"}
FromScenario(b) == b.via \in {"build", "link"}

\* Jobs hold slices of builds, stages and packets; a stage sets fields that the file
\* format has, and a packet has one of the two directions.
Impairments == {"loss", "ge", "delay", "reorder", "corrupt", "ratelimit", "droplist", "blackhole"}
Slice(s) == s \in Seq(Range(s))

ASSUME JobsAssumption ==
  \A j \in Jobs :
    /\ Slice(j.trace) /\ \A n \in DOMAIN j.trace : j.trace[n].dir \in Dirs
    /\ Slice(j.builds)
    /\ \A b \in Range(j.builds) :
         /\ b.via \in {"build", "link", "trace", "import", "manifest"}
         /\ b.via = "link" => b.link \in Int
         /\ FromScenario(b) =>
              \A field \in {"pipeline", "c2s", "s2c"} :
                Slice(b.s[field]) /\ \A st \in Range(b.s[field]) : DOMAIN st \subseteq Impairments

VARIABLES
  job,     \* the job
  eng,     \* the engines built so far, in order
  err,     \* why a build was refused, or none
  fixed    \* the decisions of the substreams that are known: question -> result

vars == <<job, eng, err, fixed>>

Init ==
  /\ job \in Jobs
  /\ eng = << >> /\ err = "none" /\ fixed = << >>
-----------------------------------------------------------------------------
(***************************************************************************)
(* Building.  Next to the scenarios there are the engines that pace one    *)
(* direction by a delivery trace, given as a configuration, imported from  *)
(* the file that Emit makes of it, or from a file that a manifest pins.    *)
(***************************************************************************)
\* TraceProfile.Cell.
TraceCell(cfg) ==
  Wired(DeliveryTrace(cfg.sched, cfg.mtu, cfg.maxBacklog, cfg.loop),
        Sub(0, <<"deliverytrace", "name">>))

TracePipes(cfg) == [err |-> "none", pipes |-> [c2s |-> <<TraceCell(cfg)>>, s2c |-> << >>]]

\* ImportMahimahi: a trace that parses must also be cited.
ImportMahimahi(text, cited) ==
  LET cfg == ParseTrace(text)
  IN  IF cfg.err THEN Refused("bad trace")
      ELSE IF ~cited THEN Refused("no provenance") ELSE TracePipes(cfg)

\* hashFile: a digest stands for the text, no two texts have the same one.
hashFile(text) == [sha256 |-> text]

\* Manifest.TraceProfile: the file of an entry is imported if it has the digest
\* that the manifest pins.  The file does not change meanwhile; a file that is
\* missing is << >>.
ManifestTrace(man, name, file) ==
  IF name \notin DOMAIN man THEN Refused("unknown trace")
  ELSE IF file = << >> THEN Refused("no file")
  ELSE IF hashFile(file) # man[name].digest THEN Refused("sha256 mismatch")
  ELSE ImportMahimahi(file, man[name].cited)

Built(b) ==
  CASE b.via = "build"  -> Build(b.s)
    [] b.via = "link"   -> BuildLink(b.s, b.link)
    [] b.via = "trace"  -> TracePipes(b.cfg)
    [] b.via = "import" -> ImportMahimahi(SerializeTrace(b.cfg), TRUE)
    [] b.via = "manifest" -> ManifestTrace(b.man, b.name, b.file)

\* engine.New: nothing handled yet; acts is the history of its actions.
NewEngine(pipes) == [pipes |-> pipes, seq |-> 0, acts |-> << >>]

MoreToBuild == err = "none" /\ Len(eng) < Len(job.builds)

BuildEngine ==
  /\ MoreToBuild
  /\ LET r == Built(job.builds[Len(eng) + 1])
     IN  /\ r.err = "none"
         /\ eng' = Append(eng, NewEngine(r.pipes))
  /\ UNCHANGED <<job, err, fixed>>

\* The caller gets an error and builds no further.
BuildFails ==
  /\ MoreToBuild
  /\ err' = Built(job.builds[Len(eng) + 1]).err
  /\ err' # "none"
  /\ UNCHANGED <<job, eng, fixed>>
-----------------------------------------------------------------------------
(***************************************************************************)
(* Driving.                                                                *)
(***************************************************************************)
\* Mutant: cells draw from a generator that all of them share.
DecisionsShared(known, q) == Process(q.cell, q.packet, q.heap)

\* The results that the substream of question q may give.
Decisions(known, q) ==
  IF q \in DOMAIN known THEN {known[q]} ELSE Process(q.cell, q.packet, q.heap)

\* The decision is written down.
Noted(known, q, r) == [p \in DOMAIN known \cup {q} |-> IF p = q THEN r ELSE known[p]]

\* Cell i of a pipeline is given packet f.  The substream decides if the cell can
\* come to more than one result.
Invoke(h, i, f) ==
  LET c == h.cells[i]
      q == [stream |-> c.stream, used |-> c.used, cell |-> c.cell, packet |-> f, heap |-> h.heap]
      open == \E r, s \in Process(c.cell, f, h.heap) : r # s
  IN  {[cells |-> [h.cells EXCEPT ![i] =
                     [cell |-> r.cell, stream |-> c.stream, used |-> c.used + 1]],
        known |-> IF open THEN Noted(h.known, q, r) ELSE h.known,
        heap  |-> r.heap,
        next  |-> h.next \o r.outs,
        acts  |-> IF r.outs # << >> THEN h.acts
                  ELSE Append(h.acts, [kind |-> "drop", seq |-> f.seq, dir |-> f.dir,
                                       recvAt |-> f.recvAt, reason |-> c.cell.kind])] :
         r \in Decisions(h.known, q)}

\* A stage: cell i is given the packets of the stage before, in order.  Served[k] is
\* what there may be after k of them.
Served(h, i) ==
  LET s[k \in Nat] == IF k = 0 THEN {[h EXCEPT !.next = << >>]}
                      ELSE UNION {Invoke(g, i, h.next[k]) : g \in s[k - 1]}
  IN  s

Stage(h, i) == Served(h, i)[Len(h.next)]

\* A pipeline: what there may be after its first i stages.
Passed(h) ==
  LET s[i \in Nat] == IF i = 0 THEN {h} ELSE UNION {Stage(g, i) : g \in s[i - 1]}
  IN  s

Forward(f) == [kind |-> "forward", seq |-> f.seq, dir |-> f.dir, len |-> f.len,
               recvAt |-> f.recvAt, deliverAt |-> f.deliverAt]

\* Engine.Handle: number the packet, run it through its pipeline, return drops
\* and then survivors.
Handle(e, ev, known) ==
  LET f == [seq |-> e.seq + 1, dir |-> ev.dir, data |-> 1, len |-> ev.len,
            recvAt |-> ev.at, deliverAt |-> ev.at]
      start == [cells |-> e.pipes[ev.dir], known |-> known, heap |-> <<0>>,
                next |-> <<f>>, acts |-> << >>]
  IN  {[eng |-> [pipes |-> [e.pipes EXCEPT ![ev.dir] = h.cells], seq |-> e.seq + 1,
                 acts |-> e.acts \o h.acts \o [k \in DOMAIN h.next |-> Forward(h.next[k])]],
        known |-> h.known] : h \in Passed(start)[Len(e.pipes[ev.dir])]}

\* The next packet of the trace for engine e (RunActions and RunLinks).
Drive(e) ==
  /\ eng[e].seq < Len(job.trace)
  /\ \E r \in Handle(eng[e], job.trace[eng[e].seq + 1], fixed) :
       /\ eng' = [eng EXCEPT ![e] = r.eng]
       /\ fixed' = r.known
  /\ UNCHANGED <<job, err>>

Done == ~MoreToBuild /\ \A e \in DOMAIN eng : eng[e].seq = Len(job.trace)

Next ==
  \/ BuildEngine \/ BuildFails
  \/ \E e \in DOMAIN eng : Drive(e)
  \/ Done /\ UNCHANGED vars

Spec == Init /\ [][Next]_vars
-----------------------------------------------------------------------------
(***************************************************************************)
(* Reporting.                                                              *)
(***************************************************************************)
\* The packets that RunActions is given in tests, and those of RunLinks.
SyntheticTrace(n, interval) ==
  [i \in 1..n |-> [at |-> (i - 1) * interval, len |-> 1316,
                   dir |-> IF i % 4 = 0 THEN "s2c" ELSE "c2s"]]

LinkTrace(n, interval) == [i \in 1..n |-> [at |-> (i - 1) * interval, len |-> 2, dir |-> "c2s"]]

SeedOf(b) == IF b.via \in {"build", "link"} THEN b.s.seed ELSE 0

Records(e) == [i \in DOMAIN eng[e].acts |-> Add(eng[e].acts[i].recvAt, eng[e].acts[i])]
Artifact(e) == Render(SeedOf(job.builds[e]), Records(e))

NoStats == [forwarded |-> 0, dropped |-> 0, reordered |-> 0,
            last |-> [d \in Dirs |-> -1]]

\* Mutant: the last delivery is not kept by direction.
CountPooled(s, a) ==
  IF a.kind = "drop" THEN [s EXCEPT !.dropped = @ + 1]
  ELSE [s EXCEPT !.forwarded = @ + 1,
                 !.reordered = IF a.deliverAt < s.last[a.dir] THEN @ + 1 ELSE @,
                 !.last = [d \in Dirs |-> a.deliverAt]]

\* RunStats' callback: a forward that is due before the one before it.
Count(s, a) ==
  IF a.kind = "drop" THEN [s EXCEPT !.dropped = @ + 1]
  ELSE [s EXCEPT !.forwarded = @ + 1,
                 !.reordered = IF a.deliverAt < s.last[a.dir] THEN @ + 1 ELSE @,
                 !.last[a.dir] = a.deliverAt]

StatsOf(acts) ==
  LET s[n \in Nat] == IF n = 0 THEN NoStats ELSE Count(s[n - 1], acts[n])
  IN  s[Len(acts)]

RunStats(e) == StatsOf(eng[e].acts)

\* The ingress numbers of the actions of a kind.
SeqsOf(acts, kind) == {acts[i].seq : i \in {i \in DOMAIN acts : acts[i].kind = kind}}

\* RunLinks: the ingress numbers a link dropped.
LinkLedger(e) == SeqsOf(eng[e].acts, "drop")
-----------------------------------------------------------------------------
(***************************************************************************)
(* Properties.                                                             *)
(***************************************************************************)
\* Two scenarios that name the same substreams: the same seed and link.
SameStreams(a, b) ==
  /\ FromScenario(a) /\ FromScenario(b)
  /\ a.via = b.via /\ a.s.seed = b.s.seed /\ (a.via = "link" => a.link = b.link)

\* Two builds of the same thing.
SameBuild(a, b) ==
  \/ /\ SameStreams(a, b)
     /\ \A d \in Dirs : StagesOf(a.s, d) = StagesOf(b.s, d)
  \/ ~FromScenario(a) /\ ~FromScenario(b) /\ a.cfg = b.cfg

\* Runs reproduce: two engines that were built alike, and have handled the same
\* packets, have recorded the same pattern, whatever other engines drew in the
\* meantime and whenever they were built.  This holds for the links of a bond, for
\* a scenario written as one pipeline or as two, marked as encrypted or not, and
\* for a trace that went through its file, a damaged one of a manifest included
\* (rng.Root.Sub, scenario.build, Manifest.TraceProfile).
ReplayExact ==
  \A e, g \in DOMAIN eng :
    SameBuild(job.builds[e], job.builds[g]) /\ eng[e].seq = eng[g].seq =>
      Compare(Artifact(e), Artifact(g)) = 0 /\ RunStats(e) = RunStats(g)

\* The actions on packet n that are of some kinds, in order.
Selected(acts, n, kinds) ==
  LET s[k \in Nat] == IF k = 0 THEN << >>
                      ELSE IF acts[k].seq = n /\ acts[k].kind \in kinds
                      THEN Append(s[k - 1], acts[k]) ELSE s[k - 1]
  IN  s[Len(acts)]

\* What engine e did with packet n, and the drops among it.
ActionsOn(e, n) == Selected(eng[e].acts, n, {"drop", "forward"})
DropsOn(e, n) == Selected(eng[e].acts, n, {"drop"})

\* Stages that are appended perturb nothing: a packet that the shorter pipeline
\* drops is dropped by the longer one at the same stage, and a direction whose
\* stages are the same does the same, whatever was changed in the other one.
\* (Stages that are inserted shift the names of those behind them.)
AppendedStagesLocal ==
  \A e, g \in DOMAIN eng : \A n \in 1..Len(job.trace) :
    LET a == job.builds[e]
        b == job.builds[g]
        d == job.trace[n].dir
    IN  /\ SameStreams(a, b)
        /\ n <= eng[e].seq /\ n <= eng[g].seq
        /\ IsPrefix(StagesOf(a.s, d), StagesOf(b.s, d))
        => /\ IsPrefix(DropsOn(e, n), DropsOn(g, n))
           /\ StagesOf(a.s, d) = StagesOf(b.s, d) => ActionsOn(e, n) = ActionsOn(g, n)

\* No random decision is made twice: two cells that have drawn from the same
\* substream are the same stage of two engines built for the same link.  So the
\* links of a bond, the directions of an engine and the stages of a pipeline fail
\* independently of each other.
StreamsPrivate ==
  \A e, g \in DOMAIN eng : \A d, c \in Dirs :
    \A i \in DOMAIN eng[e].pipes[d], j \in DOMAIN eng[g].pipes[c] :
      LET x == eng[e].pipes[d][i]
          y == eng[g].pipes[c][j]
      IN  /\ FromScenario(job.builds[e]) /\ FromScenario(job.builds[g])
          /\ x.used > 0 /\ y.used > 0 /\ x.stream = y.stream
          => SameStreams(job.builds[e], job.builds[g]) /\ d = c /\ i = j

\* A line that lost its end: it may still be readable, with other values.
Cut(line) ==
  {Bad, Empty} \cup
  (IF line.tag = "header" THEN {[line EXCEPT !.seed = @ \div 10]}
   ELSE IF line.tag # "record" THEN {}
   ELSE IF line.rec.disp = "drop" THEN {[line EXCEPT !.rec.reason = ""]}
   ELSE {[line EXCEPT !.rec.off = @ \div 10]})

\* A golden file that was cut off, lost or repeats a line, or got an empty line.
Damaged(text) ==
  UNION {{SubSeq(text, 1, k)} \cup {Append(SubSeq(text, 1, k - 1), l) : l \in Cut(text[k])}
         \cup {RemoveAt(text, k), InsertAt(text, k, Empty), InsertAt(text, k, text[k])} :
           k \in 1..Len(text)}

\* The golden comparison can be relied on: a recorded pattern reads back as it was
\* recorded; two patterns compare equal only if seed and records are; and a damaged
\* golden file that still compares equal to the pattern also reads back as it
\* (Parse and Compare of internal/pattern).
GoldenExact ==
  \A e \in {e \in DOMAIN eng : eng[e].seq = Len(job.trace)} :
    LET text == Artifact(e)
        read == Parse(text)
    IN  /\ read = [err |-> 0, version |-> Version, seed |-> SeedOf(job.builds[e]),
                   records |-> Records(e)]
        /\ \A old \in Damaged(text) \cup {Artifact(g) : g \in DOMAIN eng} :
             Compare(old, text) = 0 => Parse(old) = read

\* Forwards that are due before one that was returned earlier.
Overtaking(e) ==
  LET acts == eng[e].acts
      fwds(d) == {i \in DOMAIN acts : acts[i].kind = "forward" /\ acts[i].dir = d}
  IN  UNION {{i \in fwds(d) : \E j \in fwds(d) : j < i /\ acts[j].deliverAt > acts[i].deliverAt} :
               d \in Dirs}

\* The statistics of a run: every action is counted, and there is reordering to
\* report exactly if some forward overtakes another one of its direction.  A
\* forward is compared with the one just before it, so of several that overtake
\* the same one not all are counted (RunStats).
StatsExact ==
  \A e \in DOMAIN eng :
    LET s == RunStats(e)
    IN  /\ s.forwarded + s.dropped = Len(eng[e].acts)
        /\ s.dropped = 0 <=> LinkLedger(e) = {}
        /\ s.reordered = 0 <=> Overtaking(e) = {}
        /\ s.reordered <= Cardinality(Overtaking(e))
-----------------------------------------------------------------------------
(***************************************************************************)
(* Bonding: a run of links that all have handled all packets.              *)
(***************************************************************************)
Bonded ==
  /\ Done /\ err = "none"
  /\ \A e \in DOMAIN eng : job.builds[e].via = "link"
  /\ \A n \in DOMAIN job.trace : job.trace[n].dir = "c2s"

Total == Len(job.trace)
Ledgers == [e \in DOMAIN eng |-> LinkLedger(e)]
Arrived(e) == SeqsOf(eng[e].acts, "forward")
Survivors == UNION {Arrived(e) : e \in DOMAIN eng}
Lost == UNION {LinkLedger(e) : e \in DOMAIN eng}

\* No packet was both dropped and forwarded on one link: of a duplicated packet
\* either both copies were lost or none.
Unmixed == \A e \in DOMAIN eng : LinkLedger(e) \cap Arrived(e) = {}

\* The merge is right: the gaps are the packets that survived on no link, and a
\* packet is masked if a link lost it and another one carried it.  A duplicated
\* packet of which one copy was lost counts as dropped on its link; with such
\* packets the gaps are too many and never too few (Merge, RunLinks).
MergeSound ==
  Bonded /\ eng # << >> =>
    LET m == Merge(Ledgers, Total)
    IN  /\ (1..Total) \ Survivors \subseteq m.gaps
        /\ Unmixed => /\ m.gaps = (1..Total) \ Survivors
                      /\ m.masked = Cardinality(Survivors \cap Lost)

\* Packets that some link carried, and of which each link lost a copy.  The ledgers
\* do not tell them from packets that all links lost.
CarriedAsGap == {n \in Survivors : \A e \in DOMAIN eng : n \in LinkLedger(e)}

\* What the oracle can tell.  If the gaps are known, it fails a receiver exactly if
\* more of the packets that arrived are missing from its output than there are
\* packets that the merge took for gaps though they were carried: a shortfall up to
\* that number is masked, a larger one never, on clean links neither.  If the gaps
\* are not known, it warns about any shortfall and fails none.  A receiver that
\* delivers nothing, and no other one, has no flow (Evaluate).
ReceiverGraded ==
  Bonded /\ Len(eng) > 1 =>
    LET gaps == Cardinality(Merge(Ledgers, Total).gaps)
        drops == Cardinality(UNION {{e} \X LinkLedger(e) : e \in DOMAIN eng})
    IN  \A delivered \in SUBSET Survivors, exact \in BOOLEAN :
          LET in == Input(Len(eng), Total, Cardinality(delivered),
                          IF exact THEN gaps ELSE -1, drops)
          IN  /\ seamlessCoverage(in) = "fail" <=>
                   /\ exact
                   /\ Cardinality(Survivors \ delivered) > Cardinality(CarriedAsGap)
              /\ seamlessCoverage(in) = "warn" <=> ~exact /\ delivered # 1..Total
              /\ bondedFlow(in) = "fail" <=> delivered = {} /\ Total > 0
=============================================================================
