-------------------------------- MODULE MCSim --------------------------------
(***************************************************************************)
(* Instances of Sim for TLC.                                               *)
(***************************************************************************)
EXTENDS Sim

Loss      == "loss" :> [p |-> "some"]
Burst     == "ge" :> [p |-> "some", r |-> "some", h |-> "zero", k |-> "zero"]
Twice     == "reorder" :> [pct |-> "some", gapMs |-> 0, corr |-> "zero", dup |-> "some"]
Jump      == "reorder" :> [pct |-> "some", gapMs |-> 6, corr |-> "some", dup |-> "zero"]
Late(ms)  == "delay" :> [baseMs |-> ms, jitterMs |-> 0, sigmaMs |-> 0, dist |-> ""]
Jitter    == "delay" :> [baseMs |-> 6, jitterMs |-> 1, sigmaMs |-> 0, dist |-> "uniform"]
Flip      == "corrupt" :> [pct |-> "some"]
Narrow    == "ratelimit" :> [rateMbps |-> 1, queueBytes |-> 2]
Second    == "droplist" :> [seqs |-> {2}]
Outage    == "blackhole" :> [startMs |-> 1, endMs |-> 2]
Odd       == "delay" :> [baseMs |-> 1, jitterMs |-> 1, sigmaMs |-> 0, dist |-> "gauss"]
NoStage   == << >>

Both(stages) == [seed |-> 11, encrypted |-> FALSE, pipeline |-> stages, c2s |-> << >>, s2c |-> << >>]
Each(c2s, s2c) == [seed |-> 11, encrypted |-> FALSE, pipeline |-> << >>, c2s |-> c2s, s2c |-> s2c]
Opaque(s) == [s EXCEPT !.encrypted = TRUE]
Reseeded(s) == [s EXCEPT !.seed = 12]

ViaBuild(s)      == [via |-> "build", s |-> s]
ViaLink(s, link) == [via |-> "link", s |-> s, link |-> link]
ViaTrace(cfg)    == [via |-> "trace", cfg |-> cfg]
ViaImport(cfg)   == [via |-> "import", cfg |-> cfg]
ViaManifest(cfg, name, file, cited) ==
  [via |-> "manifest", cfg |-> cfg, name |-> name, file |-> file,
   man |-> "trace" :> [digest |-> hashFile(SerializeTrace(cfg)), cited |-> cited]]

Job(builds, trace) == [builds |-> builds, trace |-> trace]
Bond2(s, n) == Job(<<ViaLink(s, 0), ViaLink(s, 1)>>, LinkTrace(n, 1))

\* Bonds: of lossy and of bursty links, one of them run again; of links that
\* duplicate before they lose; of different links; and with too few links or packets.
Bonds ==
  {Job(<<ViaLink(Both(<<Loss>>), 0), ViaLink(Both(<<Loss>>), 1), ViaLink(Both(<<Loss>>), 0)>>,
       LinkTrace(3, 1)),
   Job([l \in 1..3 |-> ViaLink(Both(<<Loss>>), l - 1)], LinkTrace(3, 1)),
   Bond2(Both(<<Burst>>), 3), Bond2(Both(<<Twice, Loss>>), 2), Bond2(Both(<<Late(1)>>), 3),
   Job(<<ViaLink(Both(<<Outage>>), 0), ViaLink(Both(<<Loss>>), 1), ViaLink(Both(<<Second>>), 2)>>,
       LinkTrace(4, 1)),
   Job(<< >>, LinkTrace(2, 1)), Job(<<ViaLink(Both(<<Loss>>), 0)>>, LinkTrace(3, 1)),
   Bond2(Both(<<Loss>>), 0)}

\* A scenario and an edited one: rewritten, with another seed, with stages appended
\* in both directions, with one direction changed, and with a stage inserted.
Edits ==
  {Job(<<ViaBuild(Both(<<Loss>>)), ViaBuild(s)>>, SyntheticTrace(4, 3)) :
     s \in {Opaque(Each(<<Loss>>, <<Loss>>)), Reseeded(Both(<<Loss>>)),
            Both(<<Loss, Late(6), Second>>), Each(<<Loss>>, <<Flip>>),
            Both(<<Second, Loss>>)}}
  \cup {Job(<<ViaBuild(Both(<<Jump>>)), ViaBuild(Both(<<Jump, Loss>>))>>, SyntheticTrace(4, 3)),
        Job(<<ViaBuild(Both(<<Twice>>)), ViaBuild(Both(<<Twice, Loss>>))>>, SyntheticTrace(2, 3)),
        Job(<<ViaBuild(Both(<<Loss>>)), ViaLink(Both(<<Loss>>), 0)>>, SyntheticTrace(4, 1)),
        Job(<<ViaBuild(Both(<<Loss>>)), ViaLink(Both(<<Loss>>), 0), ViaBuild(Both(<<Loss>>))>>,
            SyntheticTrace(3, 1)),
        Job(<<ViaBuild(Both(<<Jitter>>)), ViaBuild(Both(<<Jitter, Narrow>>))>>,
            SyntheticTrace(3, 1))}

\* Profiles of every kind of loss and delay.
Path(model, loss, reorder, dist) ==
  [lossModel |-> model, lossPct |-> loss, burstR |-> "zero", reorderPct |-> reorder,
   reorderGapMs |-> 6, baseDelayMs |-> 1, jitterMs |-> 1, sigmaMs |-> 0, delayDist |-> dist]

Profiles ==
  {Job(<<ViaBuild(Compile(p, 11)), ViaBuild(Compile(p, 11))>>, SyntheticTrace(2, 3)) :
     p \in {Path("bernoulli", "zero", "zero", ""), Path("bernoulli", "all", "zero", "normal"),
            Path("ge", "some", "some", "normal"), Path("ge", "most", "zero", ""),
            Path("", "some", "all", "")}}

\* Delivery traces, given, imported, and of a manifest whose file may be damaged.
Sched(sched, mtu, maxBacklog, loop) ==
  [sched |-> sched, mtu |-> mtu, maxBacklog |-> maxBacklog, loop |-> loop]

Pinned == Sched(<<0, 1, 3>>, 2, 0, FALSE)
PinnedFile == SerializeTrace(Pinned)

Traces ==
  {Job(<<ViaTrace(Pinned), m>>, LinkTrace(4, 1)) :
     m \in {ViaManifest(Pinned, "trace", file, TRUE) :
              file \in {PinnedFile, << >>} \cup Damaged(PinnedFile)}
           \cup {ViaManifest(Pinned, "other", PinnedFile, TRUE),
                 ViaManifest(Pinned, "trace", PinnedFile, FALSE)}}
  \cup {Job(<<ViaTrace(cfg), ViaImport(cfg)>>, LinkTrace(4, 1)) :
     cfg \in {Sched(<<2, 0, 1, 1>>, 2, 3, FALSE), Sched(<<1, 2>>, 1, 0, TRUE),
              Sched(<<0, 3>>, 0, 0, FALSE), Sched(<< >>, 2, 0, TRUE), Sched(<<-1, 2>>, 2, 0, FALSE)}}

\* What cannot be built.
Refusals ==
  {Job(<<ViaBuild(Both(<<Loss>>)), b>>, SyntheticTrace(2, 1)) :
     b \in {ViaBuild(Both(<<Loss, NoStage>>)), ViaBuild(Each(<< >>, <<Loss @@ Odd>>)),
            ViaBuild([Both(<<Loss>>) EXCEPT !.s2c = <<Loss>>]),
            ViaBuild(Both(<<Loss @@ Flip>>)), ViaLink(Both(<<Loss>>), -1)}}

MCJobs == Bonds \cup Edits \cup Profiles \cup Traces \cup Refusals
==============================================================================
