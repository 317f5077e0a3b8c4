# A verification development for impair

impair is a network impairment harness for SRT and RIST: a UDP relay sits between
a sender and a receiver, runs every datagram through a pipeline of *cells* (loss,
delay, reorder, corruption, rate limit, ...), and passive observers and oracles
grade how the implementation under test coped. This directory holds TLA+ models
of it, the TLC runs that check them, and theorems that TLAPS proves. Every model
is a translation of the Go code under `src/`; `PROJECT.json` maps each definition
to the lines it stands for.

## 1. The system

| component | state | operations | talks to |
|---|---|---|---|
| datapath `relaycore/relaycore.go` | egress heap with its mutex, wake channel (one slot), timer, buffer pool, counters, engine and ledger pointers, closed flag | `Process`, `enqueue`, `egress`, `sendItem`, `SetEngine`, `EnableLedger`, `Stats`, `Close` | called by a transport's read loop, writes to the wire through a callback |
| OWD ledger `relaycore/ledger.go` | ring of entries, a generation per slot, next, count | `start`, `finalize`, `snapshot`, `DecomposedOWD` | started by the reader, finalized by egress |
| engine `engine/engine.go` | one cell pipeline a direction, one ingress counter | `Handle` | called by the datapath, by the simulator and by bonding |
| cells `internal/cells/*`, `internal/droplist` | chain state, previous decision, queue horizon, next opportunity | constructor, `Process` | called by the engine, stage by stage |
| SRT relay `relay/relay.go` | socket, learned sender, tap | `loop`, `Close` | owns a datapath |
| RIST relay `ristrelay/ristrelay.go` | even/odd port pair, media and RTCP peers, tap mutex | `bindEvenPair`, `mediaLoop`, `rtcpLoop`, `observe`, `Close` | owns a datapath for media; RTCP passes untouched |
| SRT observer `wire/`, RIST observer `ristwire/`, counters `wireobs/` | counters, sets of sequence numbers, last ACK per direction, highest RTP number | `Observe` | called by the relays' taps |
| oracles `oracle/`, `ristoracle/`, shared graders `grade/`, rollup `result/` | none | `Evaluate`, `Verdict` | read the observation and the run's accounting |
| FEC model and oracle `fec/fec.go` | none between calls | `Recover`, `Evaluate` | given a droplist and a receiver's report |
| bonding model and oracle `bond/bond.go` | per-link drop ledgers | `RunLinks`, `Merge`, `Evaluate` | drives one engine a link |
| scenarios `scenario/scenario.go` | none; the engines they build own the cells | `Build`, `BuildLink` | name the substreams, make engines |
| random substreams `internal/rng` | the state of each generator | `Sub`, `Uint64` | one a cell |
| profiles `internal/profile` | tables, trace files, a manifest with digests | `Compile`, `ImportMahimahi`, `Emit`, `Manifest.TraceProfile` | make scenarios and trace cells |
| simulator `internal/sim`, pattern files `internal/pattern` | recorded actions, golden files | `RunActions`, `RunStats`, `Add`, `Parse`, `Compare` | drive an engine, record what it did |
| QUIC detection, statistics, reports, `impair-profiles` | none | classify, render | see section 6 |

### Where it is hard

*Concurrency.* A datapath has a reader goroutine and an egress goroutine that
share a heap, a channel with one slot, a timer and a pool; `SetEngine`,
`EnableLedger` and `Close` come from anywhere, `Close` more than once. The RIST
relay has two readers that share a tap and the learned peers. Which wake-ups,
which buffer reuse and which closing order can go wrong depends on interleavings
that a test meets by luck.

*Stale references.* A ledger handle outlives its slot, and with `EnableLedger`
its ring; payload slices are shared between duplicates and the read buffer; the
set of sequence numbers seen outlives a turn of the 16-bit space.

*Boundaries.* The full heap, a ring at its capacity, a queue limited in bytes, a
timer with a longest sleep, looping traces at multiples of their period, wrapping
sequence numbers.

*Composition.* A cell that computes time from the ingress instead of from the
stage before, or that shares a slice, is only wrong behind another cell.

*Reproduction.* The harness promises that a run can be repeated and that its
golden files tell whether anything changed. That rests on how substreams are named
(kind, direction, index, link), on cells that share nothing, and on text formats
that lose nothing; it fails in the run next door, long after the mistake.

*Judgement.* An oracle that credits recovery that did not take place, or fails an
honest implementation because of the order in which things arrived, is wrong
without any component having failed.

`PROJECT.json` lists these hazards one by one, each at the line where it bites,
with the properties that would show it going wrong.

## 2. Modules

| module | models | composed of |
|---|---|---|
| `Ledger` | the ring and the delay decomposition, as operators | |
| `RelayCore` | datapath, the transport's read loop, control calls, clock | `Ledger`, instantiates `DelayLine` |
| `DelayLine` | abstract specification of a datapath: a bounded delay line | |
| `RelayCoreProofs` | theorems about `RelayCore`: types, wake-ups, closing, buffers, conservation, the refinement of `DelayLine` | `RelayCore` |
| `RelayCoreLedgerProofs` | its ledger: snapshots, attribution of egress times, the delay decomposition | `RelayCoreProofs` |
| `Cells` | constructors and `Process` of all cells, as operators | |
| `Engine` | `Handle`, one step a cell invocation | `Cells` |
| `EngineProofs` | theorems about every cell and every pipeline | `Engine` |
| `Relay` | classification, learning, tap and routing of the SRT relay | |
| `RelayProofs` | theorems about `Relay` | `Relay` |
| `RistRelay` | port pair, both loops, tap mutex, closing | |
| `RistRelayProofs` | theorems about `RistRelay` | `RistRelay` |
| `Wire` | the two observers and their counters, as operators | |
| `Oracle` | graders, rosters and rollup, as operators | `Wire` |
| `Session` | one graded run: sender, receiver, lossy path, relay with tap | `Oracle` |
| `SessionProofs` | theorems about `Session`: what the observers count, what the oracles conclude | `Session` |
| `Fec` | `Recover` step by step, a receiver, the graders | |
| `FecProofs` | theorems about `Fec` | `Fec` |
| `Scenario` | `Build`, `BuildLink`, substream names, `Profile.Compile`, as operators | `Cells` |
| `Pattern` | pattern files and trace files: write, read, compare, as operators | |
| `Bond` | `Merge` and the graders, as operators | |
| `Sim` | engines of scenarios, profiles, links and traces, built and driven side by side; recording, statistics, bonding | `Scenario`, `Pattern`, `Bond` |
| `SimProofs` | theorems about `Sim`: reproduction, substreams, statistics, bonding | `Sim` |
| `MC...` | instances for TLC | the module of the name |

A definition whose comment begins with *Mutant* is a plausible bug of the
definition it precedes; it is not part of any specification. Each checked
property has one that violates it.

### State and actions against the code

*RelayCore.* `eg` is the heap, as a set with a minimum under `Less`; `wake` the
channel; `timer`/`target` the timer and the head it was set for; `mem`, `pool`,
`rbuf` and the items' `buf` the pooled buffers with the datagram they hold. `rpc`
and `epc` are the program points of reader and egress between two operations that
another goroutine can observe: a critical section under `mu` is one action
(`Admit`, `TailDrop`, `EgressPop`), as is each atomic, channel or socket
operation. So `enqueue` is `GetBuf`, then `Admit` or `TailDrop`, then `SendWake`
after the unlock; `sendItem` is `SendCheck`, `SendWrite`, `SendFinish`. `Close` is
`CloseFirst` (the swap of closed and closing `done`), `CloseWake` (the
transport moves the read deadline), `CloseSocks` and `CloseReturn` (after
`wg.Wait`), and `CloseAgain` for a caller that lost the swap. The engine is the
set of action lists it may return for a datagram. The history variables `sent`,
`emitted`, `discarded` and the entries' field `own` exist for the properties.

*Engine and Cells.* A cell is a record of configuration and state; `Process`
gives the set of results, one for each outcome of the draws. A payload is an index
into a heap of slices, so sharing is visible. Probabilities are *zero*, *some* or
*one*; jitter is a range. `CellStep`, `NextStage` and `Return` unfold `Handle`.

*Relay, RistRelay.* An address has a host and a form (IPv4, or IPv4 in IPv6);
`normAddr` unmaps it. An attempt of `bindEvenPair` is `Listen` and then `BindPair`, or one of
its ways to fail (`ListenFails`, `OddPort`, `NextTaken`), which close what they
bound; `conn` is the port of its first socket. In `RistRelay` the datapath is a set of media forwards that
may be delivered or given up in any order, which is what `DelayLine` allows.

*Wire, Oracle, Session.* A packet keeps the fields an observer reads. `Session`
numbers packets 0, 1, ... and puts `(isn + n) % Space` on the wire, so the
properties speak of packets and the observer sees only numbers. The sender and
receiver are not in the repository: they are `arq` (requests and resends in any
order), `mute` (never recovers) or `regress` (takes ACKs back). The verdicts are
state functions: every reachable state is a point at which a run may end.

*Fec.* `Decode` is one removal of `Recover`'s loop, smallest first as in the
code; `RxRepair` and `RxRetransmitted` are a receiver that repairs in any order.

*Scenario, Pattern.* A stage is a function from the impairments set in it to their
parameters, so that an empty and an over-specified stage exist. A substream is its
seed and its name; the hash is taken to be injective. A text is the sequence of its
lines, each kept as what the parser makes of it (a header's, record's or
configuration's fields, a number, empty, or unreadable), so that writing and
reading are conversions that can lose something: sorting, clamping, defaults,
skipped blank lines, lines that read as something else after they were cut.

*Sim.* `BuildEngine` and `BuildFails` are one call of `Build`, `BuildLink` or a
trace import; `Drive(e)` is one `Handle` of engine `e` with its next packet.
`RunActions` finishes one engine before the next and `RunLinks` alternates; the
model allows every interleaving, also with further builds. `fixed` holds the
decisions made so far: a cell that asks position *n* of a substream gets the
answer that any other cell with the same state gets there, and the first answer is
arbitrary. So a run is a function of its substreams, and which function is left
open. What is recorded, counted and merged are state functions of the engines'
action histories. `Engine.Handle` is modelled twice: `Engine` takes it apart, for
properties that hold between stages; in `Sim` it is one step, because nothing
else can look in between, and because several engines are compared.

## 3. Properties and runs

Passing runs:

| run | what it shows |
|---|---|
| `core_datapath` | `NoLostWakeup`: egress never sleeps past the head of the heap without a token in the channel. `Conservation`: every action an engine returned is accounted for once, in the queue, the counters or in flight. `BuffersOwned`: one owner a buffer, and what is written is the datagram it was read from. `SnapshotIsRecent`: a snapshot of a ring that wraps is the latest admissions in order. `ImplementsDelayLine`: the core refines the bounded delay line (admission order among equal times, nothing early, refusal only when full). |
| `core_control` | `EnableLedger` and `SetEngine` at any moment, ledger first off: as long as only one ring was ever installed, no egress time ends on another packet's entry though the ring wraps under forwards in flight (`LedgerFaithful`), `finalize` stays inside the ring (`NoPanic`), and the delay decomposition read at any moment covers the packets that were sent and no other (`OwdAttributed`). |
| `core_shutdown` | two callers of `Close`, with fairness: `QuietAfterClose` (no `Close` returns before the goroutines are gone, the second caller's neither), the refinement with closing (at most the write already decided follows), `CloseCompletes`, and `EveryForwardLeaves` with a delay longer than the timer's longest sleep. |
| `engine_pipelines` | every ordered pair of nine cells, ten single cells, and triples with duplication in front: `PacketsConserved`, `UpstreamDelayKept`, `RateLinkKept` (a limiter at the end of a pipeline is never faster than its rate, and behind any stages no packet waits longer than its queue allows, counted from the time those stages gave it, also when these times go backwards), `OnePacketBursts`, `TraceKept` (no opportunity carries more than an MTU, and the search for the first one agrees with its definition) and `SlicesImmutable`. |
| `relay_routing` | `RoutedByRole`: in any order of first datagrams and address forms nothing is reflected or misrouted. `TapExact`: the tap has seen exactly the datagrams that were read, except the upstream's before a sender was learned, and each before it could be on the wire. |
| `rist_ports` | `PortsSeparate` (RTCP in order and lossless to its own peer, media to its own), `ObservedAll` (no count lost between the two loops), `PairHeld` (an attempt to bind that fails, at any of its steps, leaves no socket open, nor does `Close`, and none is closed in use), `CloseCompletes`. |
| `fec_oracle` | all losses of a 3 x 3 matrix in one and two dimensions: `ResidualIsLargest`, `BurstsRecovered` (any burst of at most L), `HonestGraded` (a receiver that only repairs is found sound, and effective if it repaired what can be). |
| `session_graded` | `SequenceAccounted` (gaps and retransmissions, as long as no number is used for two packets), `RequestsExact` and `AckVerdictExact` relate the observer's facts to the traffic; `MuteNotCredited` (no recovery is credited to a sender that resends nothing, over a path that loses and reorders but does not duplicate) and `HonestNotFailed` are about the verdicts. |
| `sim_replay` | `ReplayExact`: two engines built alike that handled the same packets recorded the same pattern and have the same statistics, whatever other engines drew and whenever they were built; a scenario may be written as one pipeline or as two, a trace may have gone through its file or through a manifest whose file was damaged. `AppendedStagesLocal`: appending stages, or changing the other direction, perturbs no earlier stage. `StreamsPrivate`: links, directions and stages never draw from one substream. `GoldenExact`: a pattern reads back as recorded, and a golden file that was cut, lost or repeats a line, and still compares equal, reads back the same. `StatsExact`: reordering is reported exactly if a forward overtakes another of its direction. `MergeSound`: gaps are exactly the packets no link carried. `ReceiverGraded`: with the gaps known, a receiver fails exactly if more carried packets are missing from its output than the merge took for gaps (`CarriedAsGap`, empty unless every link lost a copy of a duplicated packet, as in the bond of `Twice` and `Loss`); with the gaps unknown, any shortfall is warned about; no flow is found exactly if nothing was delivered. |

Runs in which TLC finds what the code does against what its comments say:

| run | what it shows |
|---|---|
| `core_replace` (`EntriesFaithful`) | replacing a ledger at runtime lets a handle of the old ring stamp an unrelated entry of the new one: generations start again at 1. With a smaller new ring the index is outside it and `finalize` panics. |
| `engine_trace_timebase` (`UpstreamDelayKept`) | a delivery trace computes from the ingress time and drops the delay of the cells before it. |
| `session_wrap` (`RetransmissionsReal`) | after 2^16 packets the RIST observer takes every new packet for a retransmission. |

### Bounds

Every bound is a constant. Three datagrams with two actions each fill a heap of
two and make a ring of two wrap (`core_datapath`); `MaxDelay = 2 > Hour = 1`
needs a second sleep; four buffers suffice for the pool to hand one out again
while others are in use; `Horizon` ends time after the last forward is due. One
packet is enough for `core_shutdown`, since a plan of two forwards has one in the
writer's hand and one in the heap when `Close` comes; two closers give a first and
a later one. In `engine_pipelines` seconds and milliseconds are scaled to four
and two units, so that truncating divisions truncate; three packets at a limiter
of rate two with a queue of two reach the limit. `Space = 8` with
an initial number 7 puts the wrap inside a session of three packets, so that one
RIST request names 7 and 0, and keeps half of the space above the longest jump, as
2^15 is above any in practice; the initial number 0 is for what is stated up to the
wrap. Ports 4, 5 and 6 in `rist_ports` give an attempt that finds an odd port, one
whose successor is free and one whose successor is taken.
`Space = 4` is outrun by five packets. A ring of three in `core_control` is the
smallest in which the median and the 99th percentile differ.

`sim_replay` checks a list of jobs instead of all scenarios (`MCSim`): bonds of two
and three lossy, bursty, duplicating and dark links, one of them run twice;
scenarios beside an edited version (rewritten, reseeded, appended to, changed in
one direction, inserted into); profiles of every kind of loss and delay; traces
given, imported and pinned by a manifest, with every single damage of the file;
and each error of `build`. Two to four packets suffice to have drops before and
after one another on every stage and a packet of each direction; the random
decisions are all explored.

`CHECK_DEADLOCK FALSE` is used for `Session` only: the bounded traffic of a
session ends and the run is over.

### Fairness

`RelayCore` (`core_shutdown`): weak fairness of the reader, of egress and of the
clock, since the Go scheduler runs every runnable goroutine and a read blocks for
at most the deadline; weak fairness of a caller in the middle of `Close`. Strong
fairness of `EgressExit` only: a `select` picks uniformly among its ready cases,
so a closed `done` channel is taken in the end although the timer or the wake
channel is ready again each time. Nothing is fair about arrivals, calls of
`Close` or the control calls. `RistRelay`: strong fairness of each read loop,
because both wait for one `sync.Mutex`, which hands over to a starving waiter.

## 4. Proofs

For all values of the constants (queue bound, engines and their plans, ring
capacity, number of packets, buffers and callers; any addresses; any matrix and
droplist; any pipeline of any cells; any space of sequence numbers; any set of jobs):

| theorem | statement | argument |
|---|---|---|
| `RelayCoreProofs!TypeCorrect` | `Spec => []TypeOK` | `TypeOK` is inductive; besides types it says at which program points reader and egress hold a forward or a buffer. Lemmas `NewLedgerType`, `StartEntryType`, `FinalizeEntryType` say that the ring stays a ring. |
| `RelayCoreProofs!WakeupSafe` | `Spec => []NoLostWakeup` | inductive together with `TypeOK`. Each action that makes a new head leaves the reader at the point before its send, and the send fills the one-slot channel. |
| `RelayCoreProofs!CloseSafe` | `Spec => []QuietAfterClose` | inductive with `TypeOK`: sockets close only with both goroutines done, and a done goroutine takes no step. |
| `RelayCoreProofs!BuffersSafe` | `Spec => []BuffersOwned` | strengthened to `BuffersInv`: also the reader's own buffer is not a forward's, it holds the datagram being handled, and admission orders in use are below `egOrd`, so two forwards are never confused. |
| `RelayCoreProofs!ConservationCorrect` | `Spec => []Conservation` | `QueueInv` adds that the heap is finite and disjoint from egress's hand, that admission numbers in use are different and at most `egOrd` (so an admission adds one to the cardinality), and that the reader has actions left only while it processes. |
| `RelayCoreProofs!DelayLineImplemented` | `Spec => ImplementsDelayLine` | step simulation: each action maps to an action of `DelayLine` or to a stutter. `DeliveryInv` supplies what the abstract send asks for: what egress holds is due, and nothing admitted before it with a time no later is still in the heap. |
| `RelayCoreLedgerProofs!SnapshotCorrect` | `Spec => []SnapshotIsRecent` | `RingInv`: slots below `next` hold the admissions up to the last one, the slots from `next` on the ones a round earlier once the ring is full. `ModWrap` and `SnapshotSlots` turn the code's modulo arithmetic into positions. |
| `RelayCoreLedgerProofs!NoPanicCorrect`, `LedgerCorrect` | `Spec => []NoPanic`, `Spec => []LedgerFaithful` | `LedgerInv`: while there was one ring, a live forward's handle is inside it and not from its future, its slot's generation equals the handle's only while the slot holds that forward's entry (`HandleOK`), and an entry has an egress time exactly when its forward has left (`EntryOK`, with `SentInv`: a waiting forward was not written yet). |
| `RelayProofs!RoutingCorrect`, `TapCorrect` | `Spec => []RoutedByRole`, `Spec => []TapExact` | `RoutingInv` adds that the learned sender is the first client read, and that forwards carry numbers of datagrams that were read. Lemma `NormAddr`: normalised addresses are equal exactly if the hosts are. |
| `RistRelayProofs!PairCorrect` | `Spec => []PairHeld` | `PairInv` adds that nothing is closed before the relay runs; then inductive over the steps of an attempt, closing and the loops' exits. |
| `RistRelayProofs!TapCorrect` | `Spec => []ObservedAll` | `TapInv`: the holder of `tapMu` is the loop inside the tap, and the count it has read is still the count. |
| `RistRelayProofs!PortsCorrect` | `Spec => []PortsSeparate` | `PortsInv`: what each loop holds is the last datagram of its port, its sender is the first that spoke there, and the RTCP datagrams written are, in order, those handled that have a peer. `PeerStable`: who that peer is depends on the datagrams up to it only. |
| `FecProofs!ResidualExact` | `Spec => []ResidualIsLargest` | `DecodeInv`: the counts per column and row are those of the remaining set; recovered and remaining partition the losses; every stuck set of losses is inside the remaining set. A removal takes a loss that is alone in its column or row, which no stuck set contains. At the end nothing is removable, so the rest is stuck and the largest. Lemma `AloneExact` relates the code's counters to the sets. |
| `FecProofs!BurstsCorrect` | `Spec => []BurstsRecovered` | from `ResidualExact`: two losses at most L - 1 apart are in different columns (`ColumnApart`), so no part of a burst is stuck. |
| `FecProofs!HonestCorrect` | `Spec => []HonestGraded` | `ReceiverInv`: a receiver without retransmissions keeps every stuck set missing, and repairs and missing packets never exceed the losses; with `ResidualExact` its count is at most what `Recover` finds, and equal when nothing is left to repair. |
| `EngineProofs!PacketsCorrect` | `Spec => []PacketsConserved` | `EngineInv`: the packets between stages are sound (due no earlier than received, with a payload that exists), outputs pile up only while a stage runs, and nothing is between stages when no `Handle` runs. `ProcessOK`, with one lemma a cell, says that every cell keeps packets sound and only adds to the heap. |
| `EngineProofs!SlicesCorrect` | `Spec => SlicesImmutable` | from `EngineInv` and `ProcessOK`. |
| `EngineProofs!CausalityCorrect` | `Spec => []NeverEarly` | from `EngineInv`. No run checks `NeverEarly` by itself: it is the last sentence of `UpstreamDelayKept`. |
| `EngineProofs!DelaysCorrect` | `Spec => []DelaysCompose` | `DelayInv`: a packet has at least the delay of the stages it is through, and cells keep their configuration. `ProcessKeeps`, cell by cell: what is sent on has the delay the packet came with and the cell's own. The delivery trace is the one cell for which that is false, and counts as starting from nothing (`KeptDelay`). |
| `EngineProofs!UpstreamProved` | `Spec => [](EarlyTraces => UpstreamDelayKept)` | from `DelaysCorrect`: where the stages in front of each delivery trace impose no delay, a trace that starts from nothing discards none. Without `EarlyTraces` the property is false: run `engine_trace_timebase`. |
| `EngineProofs!RateLinkProved` | `Spec => RateLinkKept` | `RateInv`: the clock of a limiter that ends a pipeline is the delivery time of the last packet it sent; what it sent and what is not returned yet are paced, in the order it was handed over. `LimiterStep`, `QueueStep`: one invocation of any limiter keeps its packet for the queue at most, from the time the packet came with. |
| `EngineProofs!BurstsProved` | `Spec => [](ChainsIsolated => OnePacketBursts)` | `BurstInv`: a chain that has just dropped is in the good state, in which it drops nothing, so a forward follows before the next drop. `ChainsIsolated` is what the property silently assumes: a second chain, a stage that drops behind the chain or a stage that duplicates in front of it may separate the chain's forward from the forwards of the pipeline. |
| `EngineProofs!TraceProved` | `Spec => [](SchedulesParsed => TraceKept)` | `TraceInv`, when a trace is the only stage of a pipeline: it has used at least one opportunity for each packet it let through, and the k-th forward is due no earlier than opportunity k. `SchedulesParsed` (sorted, not negative) is what `NewDeliveryTrace` and `ParseDeliveryTrace` make of a schedule; with negative times the search is wrong. The arithmetic under it: `SearchExact` (the binary search), `TimesSorted` (later opportunities are not earlier, across the cycles of a loop), `FirstSound` (four cases: empty, once, looped, and looped with period 0), `CapacityKept` (from the k-th forward to the count at any time). |
| `SessionProofs!AckVerdictProved` | `Spec => []AckVerdictExact` | `AckInv`: the observer's last ACK of the receiver's direction is the receiver's last one, and the flag is up as long as the receiver's ACKs are sorted. |
| `SessionProofs!RequestsProved` | `Spec => []RequestsExact` | inductive; the lemmas say what a range of an SRT loss report and a bit mask of a RIST request add to the set. |
| `SessionProofs!MuteProved` | `Spec => []MuteNotCredited` | `RecoveryInv`: an observer has the wire numbers of what it was shown (`SeenInv`), nothing on the path is a retransmission or has been shown before until something is resent (`FreshInv`), a mute receiver has nothing resent (`MuteInv`). Under the property's `NoReuse`, and for a path that does not duplicate. |
| `SessionProofs!RetransmissionsRealUntilReuse` | `Spec => [](NoReuse => RetransmissionsReal)` | `RetransInv`: a second sighting, and nothing else, is counted. `NoReuse` (no number was used for two packets) is needed: run `session_wrap`. |
| `SessionProofs!HonestProved` | `Spec => []HonestNotFailed` | `HonestInv`: a handshake was seen, ACKs are in order and cover only what arrived; then every grader's failing branch is excluded in turn. |
| `SessionProofs!SequenceProved`, `ShortRunAccounted` | `Spec => [](WithinHalf => SequenceAccounted)`; the same for runs of at most half the space, without a hypothesis on states | `SequenceInv`: the highest number and the gaps are those of the packets shown. A 16-bit difference tells which of two packets is the later one only within half the space (`WithinHalf`), which is the assumption of the code's signed comparison. `SequenceAccounted` itself is stated up to the first number that is used for two packets (`NoReuse`), hence through one wrap. |
| `RelayCoreLedgerProofs!OwdProved` | `Spec => []OwdAttributed` | from `LedgerInv` and `RingInv`. `RankBounds`: the index of a nearest rank lies in the sample, so the code's two clamps never bite; the samples of residence and of its parts have the same rank, and one of them is pointwise no less than the other, hence its quantile is no less (`QuantilesGrow`). |
| `SimProofs!ReplayProved` | `Spec => [](ImportsKeep => ReplayExact)` | `SimInv`: what is known of the substreams is possible (`Known`); each engine is in the one state that they lead to from its pipelines (`Replayed`, a `History` of states), with the substreams of its cells where `build` put them (`SameWiring`). `InvokeOnce`, `ServedOnce`, `PassedOnce` and `HandleOnce`: two runs of a packet through equal cells that know the same do the same, by induction over packets and stages. `ImportsKeep` says that a trace which went through its file or a manifest comes back as it was. |
| `SimProofs!AppendedProved` | `Spec => []AppendedStagesLocal` | `HandleAhead`: the stages in front do the same, and what comes behind them only adds drops at the end (`Behind`, `Begins`); then `HistoryAhead` over the trace, and `SelectedNow`, `SelectedAfter`: what is recorded of a packet is settled once it was handled. |
| `SimProofs!StreamsProved` | `Spec => []StreamsPrivate` | from `SimInv` and `PipelineBuilt`: a substream's name says link, direction and place. |
| `SimProofs!MergeProved`, `GradeProved` | `Spec => []MergeSound`, `Spec => []ReceiverGraded` | from `SimInv` with what a settled bond recorded of each packet (`ActsOK`: drops and forwards, at least one a packet). `GapsSplit`: the gaps are the packets no link carried and, apart from them, `CarriedAsGap`; so the threshold is the number of carried packets less that of `CarriedAsGap`. |
| `SimProofs!StatsProved` | `Spec => [](Dated => StatsExact)` | `Tallied`, by induction over the recorded actions. `Dated` says that forwards are due at natural times, which depends on the types of the cells' parameters. |

The assumptions are the named `ASSUME`s on constants in the component modules,
which TLC evaluates in the runs. `Engine`'s says that the pipelines are made of
cells as their constructors make them (`Cell`), `RelayCore`'s that a plan's
forwards are not due before the datagram came, which is what `CausalityCorrect`
shows of the engine. `NoPanicCorrect` and `LedgerCorrect` are about a ring that is
never replaced by another one, as the properties say (`OneRing`); what happens
otherwise is the run `core_replace`. `Sim`'s (`JobsAssumption`) says that jobs hold
slices, that a stage sets fields of the file format, and that a packet has a
direction. The inductive invariants were checked by TLC on the instances of the runs
before they were proved, `RateInv` and `BurstInv` on further pipelines of up to four
cells, and the hypotheses `ImportsKeep` and `Dated` hold in every state of the run
`sim_replay`, `SchedulesParsed` in every state of `engine_pipelines`.

What a recursion computes is proved without an induction theorem: a set of
counterexamples that is not empty has a least element (`LeastNat`, from `WFMin`), and
the least one is refuted. That works for recursive functions of the modules
themselves (`LeastDelays`, `Served`, `Passed`, `StatsOf`, `Selected`, the histories of
an engine), whose existence is proved first where a function is defined by recursion.

Only model-checked, and why:

- liveness (`EveryForwardLeaves`, `CloseCompletes` of both): fairness and `ENABLED`
  are outside of the prover;
- that `SortSeq` sorts, so that `SchedulesParsed` holds of what `DeliveryTrace` makes:
  an operator with an operator as an argument;
- `GoldenExact` and the hypothesis `ImportsKeep`: writing, reading and comparing
  files are `FoldLeft`, `SelectSeq` and `SortSeq` with operators as arguments, which
  the provers cannot instantiate;
- `Dated`: it takes the types of all parameters of a scenario.

## 5. Disagreements between code and comments that have no run

- `firstOppAtOrAfter` (`internal/droplist/droplist.go:264`) skips the opportunity
  at a time that is an exact multiple of the period, though it is "the earliest
  ... >= ms". `FirstOppSound`, a part of `TraceKept`, is stated so that it allows exactly this.
- `decideReorder` takes two draws a packet; its comment says "exactly one Uint64".
- A datagram of the upstream that arrives before a sender was learned is not shown
  to the tap, which "is invoked for every datagram the relay sees"; `TapExact` excepts it.
- `fecRecoverySound` holds the claim against the droplist alone also when ARQ is
  not isolated: a retransmission can make a further loss repairable, and an honest
  count is failed.
- `recordAck` compares 31-bit numbers plainly: a session that wraps fails
  `ack-monotonic`. `decodeNak` reduces a range across the wrap to its start.
  `AckVerdictExact`, `RequestsExact` (for SRT) and `HonestNotFailed` are stated up
  to the wrap.
- `RunLinks` enters a duplicated packet as dropped if any of its copies is, so
  `Merge` may count a gap too many; `MergeSound` says when it does not.
- `bond.go:168-170`: "a merge that loses a survivable packet can never be masked",
  and lines 160-161: "Every packet that survived on at least one link MUST reach the
  merged output". If every link lost one copy of a duplicated packet, that packet
  is a gap for the ledgers though it was carried, and a receiver that loses it, or
  any other one in its place, passes. `ReceiverGraded` says how many are masked.
- `scenario.go:4-6`: "reordering or adding stages never perturbs unrelated stages'
  draws". The name of a substream contains the stage's index, so a stage inserted
  in front renames, and changes, all streams behind it. `AppendedStagesLocal` is
  what does hold.
- `sim.go:74` counts "forwards whose DeliverAt precedes a prior forward's"; the
  code compares with the forward just before, so of two packets that overtake the
  same one only the first counts. `StatsExact` bounds the difference.
- `Compare` returns no difference "when they are byte-identical", and also if the
  texts differ in empty lines at the end; `Parse` is "strict", and accepts any
  version and empty lines anywhere. `GoldenExact` says that neither hides a
  difference in seed or records.
- `Manifest.TraceProfile` hashes the file and opens it again to read it, so it
  imports what it hashed only if the file does not change in between.

## 6. Not modelled, and why

Decoding of header bits (layout; the expansion of loss reports is modelled); JSON
files; the tables of built-in profiles, the fields of a citation and the listing
commands (data and output without state); `ParseDropList` (splitting a list of
numbers); the bits of the random generator and the probability of anything;
statistics (floating point); reports and dashboard (rendering); QUIC detection (a
test of two bits). The overflow of `(queueFreeAt - DeliverAt) * RateBps` at
gigabytes a second is listed as a hazard and not modelled, since times are scaled
down. Files do not change while they are read. In `Session` no datagram is
duplicated in front of the tap: the RIST observer counts a second sighting as a
retransmission, so such a duplicate would credit a sender that never resends.
`RunLinks` is given engines that handled nothing before, as its callers do; their
ingress counters are in step.

## 7. Plan

Done, in this order: `Ledger`, `RelayCore` with `DelayLine`; `Cells`, `Engine`;
`Relay`, `RistRelay`; `Fec`; `Wire`, `Oracle`, `Session`; `Bond`; the first five
theorems; `Scenario`, `Pattern`, and `Sim`, which composes them with `Cells` and
`Bond`; then the proofs of both relays, of the queue, the refinement and the ledger
of `RelayCore`, of `Fec`'s receiver, and of `Engine`.

The proofs of `Engine`'s limiter, chains and delivery trace, of `Session` and of `Sim` came last.

What could come next: types for the parameters of a scenario, from which `Dated`
follows; sorting as an operator that can be reasoned about, for `SchedulesParsed`
and then `ImportsKeep`; a receiver with retransmissions in `Fec`.

## 8. Running

```
tlc -workers 2 -config RelayCore_datapath.cfg MCRelayCore
tlapm RelayCoreProofs.tla
```

and likewise for the other runs, whose modules and configurations are listed in
`PROJECT.json`. The longest runs take about two minutes.
