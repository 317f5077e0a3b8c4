------------------------------ MODULE Scenario ------------------------------
(***************************************************************************)
(* From a declarative scenario to an engine's pipelines                    *)
(* (scenario/scenario.go), and the random substreams that its cells get    *)
(* (internal/rng).                                                         *)
(*                                                                         *)
(* A stage is a function from the impairments that are set in it to their  *)
(* parameters, in the units of the file format: milliseconds and megabits. *)
(* A substream is what identifies it: the seed and the name under which    *)
(* the root derived it.  The hash of the name is taken to be free of       *)
(* collisions.  A cell is put into its pipeline together with its          *)
(* substream and with the number of times it has been invoked.             *)
(***************************************************************************)
EXTENDS Cells

CONSTANT BitsPerMbit   \* bits in a megabit (scaled down from 10^6)

ASSUME MbitAssumption == BitsPerMbit \in Nat \ {0}

\* Root.Sub: the same source for the same seed and name, whenever it is called.
Sub(seed, name) == [seed |-> seed, name |-> name]

\* The prefix of a single link's names (-1), and of a bonded link's (its number).
NoPrefix == -1

msToNs(ms) == ms * NsPerMs
MbpsToBps(mbps) == (mbps * BitsPerMbit) \div 8

\* The range of the rounded jitter of a distribution (module Cells).
JitterRange(p) ==
  LET jitter == msToNs(p.jitterMs)
      sigma  == msToNs(p.sigmaMs)
  IN  CASE p.dist = "uniform" -> <<-jitter, jitter>>
        [] p.dist = "normal"  -> <<-4 * sigma, 4 * sigma>>
        [] p.dist = "pareto"  -> <<0, 50 * sigma>>
        [] OTHER              -> <<0, 0>>

Distributions == {"", "none", "uniform", "normal", "pareto"}

\* The cell for an impairment that is set.  R and H of a ge stage that are left
\* at zero take their defaults in the cell.
NewCell(kind, p) ==
  CASE kind = "loss"      -> Bernoulli(p.p)
    [] kind = "ge"        -> GilbertElliott(p.p, p.r, p.h, FALSE, p.k)
    [] kind = "delay"     -> Delay(msToNs(p.baseMs), JitterRange(p)[1], JitterRange(p)[2])
    [] kind = "reorder"   -> Reorder(p.pct, msToNs(p.gapMs), p.corr, p.dup)
    [] kind = "corrupt"   -> Corrupt(p.pct)
    [] kind = "ratelimit" -> RateLimit(MbpsToBps(p.rateMbps), p.queueBytes)
    [] kind = "droplist"  -> DropList(p.seqs)
    [] kind = "blackhole" -> Blackhole(msToNs(p.startMs), msToNs(p.endMs))

\* What buildCell refuses.  A distribution that is not known is noticed before the
\* impairments that are set have been counted.
StageError(st) ==
  IF "delay" \in DOMAIN st /\ st["delay"].dist \notin Distributions
  THEN "unknown distribution"
  ELSE IF DOMAIN st = {} THEN "empty stage"
  ELSE IF Cardinality(DOMAIN st) > 1 THEN "over-specified stage"
  ELSE "none"

Wired(cell, stream) == [cell |-> cell, stream |-> stream, used |-> 0]

buildCell(seed, prefix, dir, idx, st) ==
  LET kind == CHOOSE k \in DOMAIN st : TRUE
  IN  Wired(NewCell(kind, st[kind]), Sub(seed, <<prefix, kind, dir, idx>>))

\* Mutant: stages are numbered from the end of the pipeline.
buildPipelineFromEnd(seed, prefix, dir, stages) ==
  [i \in DOMAIN stages |-> buildCell(seed, prefix, dir, Len(stages) - i, stages[i])]

buildPipeline(seed, prefix, dir, stages) ==
  [i \in DOMAIN stages |-> buildCell(seed, prefix, dir, i - 1, stages[i])]

PipelineError(stages) ==
  LET bad == {i \in DOMAIN stages : StageError(stages[i]) # "none"}
  IN  IF bad = {} THEN "none"
      ELSE StageError(stages[CHOOSE i \in bad : \A j \in bad : i <= j])

\* No cell of this repository looks into payloads.
RequiresCleartext(cell) == FALSE

guardEncrypted(cells) == \A i \in DOMAIN cells : ~RequiresCleartext(cells[i].cell)

\* The stages of a direction: Pipeline serves both.
StagesOf(s, dir) == IF s.pipeline # << >> THEN s.pipeline ELSE s[dir]

Refused(err) == [err |-> err, pipes |-> [c2s |-> << >>, s2c |-> << >>]]

build(s, prefix) ==
  LET pipe(dir) == buildPipeline(s.seed, prefix, dir, StagesOf(s, dir))
      fault(dir) == PipelineError(StagesOf(s, dir))
      clear(dir) == guardEncrypted(pipe(dir))
  IN  IF s.pipeline # << >> /\ (s.c2s # << >> \/ s.s2c # << >>) THEN Refused("both")
      ELSE IF fault("c2s") # "none" THEN Refused(fault("c2s"))
      ELSE IF fault("s2c") # "none" THEN Refused(fault("s2c"))
      ELSE IF s.encrypted /\ ~(clear("c2s") /\ clear("s2c")) THEN Refused("requires cleartext")
      ELSE [err |-> "none", pipes |-> [c2s |-> pipe("c2s"), s2c |-> pipe("s2c")]]

Build(s) == build(s, NoPrefix)

\* Mutant: the links of a bond are built like the engine of a single link.
BuildLinkUnprefixed(s, link) ==
  IF link < 0 THEN Refused("negative link") ELSE build(s, NoPrefix)

BuildLink(s, link) ==
  IF link < 0 THEN Refused("negative link") ELSE build(s, link)
-----------------------------------------------------------------------------
(***************************************************************************)
(* Profiles (internal/profile): a graded description of a path, compiled   *)
(* to a scenario.  A percentage is zero, some, most (so much loss that the *)
(* Gilbert-Elliott chain cannot reach it) or all.                          *)
(***************************************************************************)
Fraction(pct) == CASE pct = "zero" -> "zero" [] pct = "all" -> "one" [] OTHER -> "some"

\* P = L * R / (1 - L), which is 1 or more if L is most or all of the packets.
geParams(lossPct, r) ==
  IF lossPct = "zero" THEN [p |-> "zero", r |-> r]
  ELSE [p |-> IF lossPct = "some" THEN "some" ELSE "one",
        r |-> IF r = "zero" THEN "some" ELSE r]

LossStage(p) ==
  IF p.lossModel = "ge"
  THEN LET ge == geParams(p.lossPct, p.burstR)
       IN  "ge" :> [p |-> ge.p, r |-> ge.r, h |-> "zero", k |-> "zero"]
  ELSE "loss" :> [p |-> Fraction(p.lossPct)]

ReorderStage(p) ==
  "reorder" :> [pct |-> Fraction(p.reorderPct), gapMs |-> p.reorderGapMs,
                corr |-> "zero", dup |-> "zero"]

\* A normal delay takes sigma, any other one the jitter, if there is any.
DelayStage(p) ==
  "delay" :> [baseMs |-> p.baseDelayMs,
              sigmaMs |-> IF p.delayDist = "normal" THEN p.sigmaMs ELSE 0,
              jitterMs |-> IF p.delayDist = "normal" THEN 0 ELSE MaxOf(p.jitterMs, 0),
              dist |-> IF p.delayDist = "normal" THEN "normal"
                       ELSE IF p.jitterMs > 0 THEN "uniform" ELSE ""]

\* Loss, reorder, delay; only the delay is always there.
Compile(p, seed) ==
  [seed |-> seed, encrypted |-> FALSE, c2s |-> << >>, s2c |-> << >>,
   pipeline |-> (IF p.lossPct # "zero" THEN <<LossStage(p)>> ELSE << >>)
                \o (IF p.reorderPct # "zero" THEN <<ReorderStage(p)>> ELSE << >>)
                \o <<DelayStage(p)>>]
=============================================================================
