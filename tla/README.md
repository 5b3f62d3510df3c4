# The flight recorder in TLA+

Models of the distributed GPU training flight recorder, checked with TLC, and
proofs about them, checked with TLAPS. Paths are relative to the repository's
root; `file.go:12` names a line of it.

## The system

Training processes write events (collectives and hardware samples) to one JSONL
file per rank. On every node an *agent* follows the files, keeps recent history
in a ring buffer and streams each event to the *coordinator*. Asked for a report,
the coordinator correlates the collectives of all ranks, finds the ranks that
others wait for, and explains each from that rank's hardware samples. The same
analysis runs offline over a trace (`gfr replay`), and a simulator writes traces
of runs with a known fault to test it with.

| Part | State it keeps | Operations | Hard behaviour | What makes it correct |
|---|---|---|---|---|
| shim `shim/gfr_torch.py` | collectives seen, stop flag | poll_once, start, stop, sample | a dump or a write that fails half way, a flush beside a thread that has not ended, an NVML call that fails | each completed collective is written, once; a missing reading is not taken for one |
| tail collector `internal/collector/tail.go` | offset and partial line per file | poll and drain, Stop | reads that end inside a line, truncation, Stop with a full channel | every line emitted once, whole, in order |
| replay collector `internal/collector/replay.go` | position in the trace | Start, emit, Stop | cancellation, a file with a bad line | the rank's part of the trace, in order, or an error |
| agent `internal/agent/agent.go` | goroutines and three kinds of channel | Run | backpressure, cancellation, a failing Start, closing in the right order | nothing lost or reordered, nil means delivered, Run ends and leaves nothing behind |
| ring buffer `internal/buffer` | slots, count, mutex | Push, Snapshot, Range, Len, Dropped | snapshots beside pushes, wrap-around | a log of the newest events |
| client `internal/transport/grpc.go` | stream, backoff | StreamEvents, pump | a coordinator that is down, a stream that breaks | a prefix arrives, the acknowledgement covers it |
| server `internal/transport/grpc.go` | handlers, received | StreamEvents, GetReport, Stop | streams in parallel, malformed messages, graceful stop | acknowledgements fit, every call is answered |
| conversion `internal/transport/convert.go` | none | ToProto, FromProto | fields and zeros that a form leaves out | the analysis reads what was sent |
| Live, Analyze `internal/coordinator` | newest events | Ingest, Report, Analyze | eviction, copies, ranks ahead of each other | a report of one instant, the same live and offline |
| correlator `internal/correlator/correlator.go` | events per rank, groups per collective | IngestEvent, EventsForRank | any order of arrival, duplicates, lookback | exactly the window, in time order |
| detection `correlator.go`, `detector.go` | none | DetectAnomalies | thresholds, windows, missing reports | who is reported really lags |
| attribution `internal/attribution` | none | Attribute | absent signals, window edges, ranking | claims are backed by samples of the window |
| trace codec `internal/trace` | none | Read, Write, DecodeLine | bad and empty lines | round trip, or an error |
| simulator `internal/sim`, `cmd/gfr-sim` | a run's parameters | Generate, causesFor, Score | who reports the lag, who samples what | the fault can be found from the trace |
| command line `cmd/gfr` | none | coordinator, agent, replay | signals | a cancelled context, a graceful stop |

How they meet: shim and tail collector through files; collectors, agent and
client through Go channels; client and server through a gRPC stream that may
break; handlers and reports through Live's mutex; detection and attribution by
calls. Signals reach the agent as a cancelled context and the coordinator as
GracefulStop.

`PROJECT.json` lists every component with its status, and the hazards: the lines
at which something can go wrong that a test would hardly reach, each with the
properties aimed at it.

## Modules

| Module | Code | State and actions |
|---|---|---|
| `BoundedLog` | what `internal/buffer` promises | the retained events, how many were lost, each reader's snapshot; `Push`, `Snapshot` and `Walk` are atomic |
| `RingBuffer` | `internal/buffer/ringbuffer.go` | slots, count, mutex; one action per memory access of `Push` and `Snapshot`, `Range` hands out its copy event by event and its fn may call back. Refines `BoundedLog`; a push takes effect when its event is stored |
| `StreamService` | what one agent's stream promises | per stream what is still to be sent, in flight and delivered; delivery in order and once, breaking, the acknowledgement |
| `Agent` | `agent.go`, the client half of `grpc.go`, the collectors' goroutines | a control point for each goroutine (`coll`, `fan`, `run`, `str`), the channels, the connection; one action per channel operation, select branch and return. `pushed` is what was pushed to the ring buffer. Refines `StreamService` |
| `Coordinator` | the server half of `grpc.go`, `Live`, the stop in `coordinatorCmd` | one handler per stream, `Recv`, `Ingest` and `Count` apart, GetReport calls, `Stop` and `Stopped`. Refines `StreamService` |
| `Correlator` | the store half of `correlator.go` | events per rank, groups, newest timestamp; one action, `IngestEvent`, since the mutex is held throughout |
| `Statistics` | `ComputeStats` of `detector.go` | operators: order statistics, median and median distance from it, of a function with a finite domain; used by detection and by the rules |
| `Detection` | `DetectAnomalies` | an operator with one helper for each idea of the code; collectives are named by their positions, so a window and a block are sets of positions; they complete one by one and it is evaluated after each |
| `Attribution` | `engine.go` | an operator for each rule, over a part of the rank's events (a function on some of their indices); a rank's samples arrive one by one and `Attribute` is evaluated after each |
| `TailCollector` | `tail.go`, with the writer and whoever rotates files | files apart from their paths, offset and partial line, the goroutine's control point; opening, reading, emitting and ticking are apart |
| `Recorder` | the Recorder class of `gfr_torch.py`, with the training job | a control point for the thread and for the training loop that stops it; a poll is dump, look, mark, write, each a step, and dumps, conversions and writes may raise |
| `Sampler` | `NVMLSampler.sample`, feeding `Attribution` | one sample per poll, each NVML call may fail; what it leaves in the event goes to the rules |
| `Codec` | `trace.go`, `convert.go` | operators: the fields a line and a message carry for each type of event, what they leave out and put back |
| `Simulation` | `internal/sim` | operators: `Generate`, `causesFor`, the parts of `Score` |
| `Pipeline` | `coordinator.go` (`Analyze`), `replay.go`, the path through `cmd/gfr` | composes `Simulation`, `Codec`, `Correlator`, `Detection` and `Attribution`: one agent per rank delivers its part of the trace event by event and may restart |
| `Flows` | | operators: the elements of a sequence that are in a set (`Only`), what a source gives in order (`Between`); as recursive functions, so that they can be reasoned about |
| `FlowLemmas` | | lemmas about those, and about induction over numbers and sequences |
| `RingBufferProofs`, `CoordinatorProofs`, `AgentProofs`, `RecorderProofs`, `TailCollectorProofs`, `CorrelatorProofs` | that of the module they are about | theorems, below |
| `AnalysisProofs` | that of `Detection` and `Attribution` | theorems about both, and the lemmas about `Statistics` they share |
| `MC...` | | values for TLC |

Two compositions tie the modules together. `StreamService` is implemented twice,
by the client side with a coarse server (`Agent`) and by the server side with
coarse clients (`Coordinator`), so both models of one connection make the same
promise. `Pipeline` calls the operators of the store, of detection and of
attribution that their own modules check one by one.

Operators whose comment begins with `Mutant:` are what a plausible bug would make
of the definition after them. They are not used by the specifications; put in
the place of the definition they make a property fail, which shows that the
property can.

### What the models leave out

- Data that no property tells apart: names, sizes, texts, log output. Events are
  `<<collector, number>>` in `Agent`, `<<stream, number>>` in `Coordinator`, and
  a collective is its number in `Recorder`.
- Floating point. `Detection` keeps integers by doubling medians, and compares
  squares for `z > ThresholdSigma`, with 1.48 for 1.4826 and 1.25 for 1.2533;
  `Attribution` computes with fractions. Rounding at a threshold is not covered.
- `Detection` leaves out the operation's name, the lag figure, and the order in
  which anomalies are returned; `Attribution` the details and the summary text.
- `TailCollector` splits a line into two pieces, head and tail: reads end between
  pieces, not inside of one. ReadAll is one step. Read errors other than a
  missing file are left out.
- The wrap of `written` after 2^64 pushes; a server without a handler; events
  that ToProto cannot convert (the five types all convert); the window of a
  ReportRequest, which GetReport ignores (`grpc.go:98`).
- In `Agent` one connection may break `MaxFaults` times; a stream once broken is
  never continued (`grpc.go:175-177`), so more breaks add only failed opens.
- `Pipeline` has no channels and no connection (they are `Agent`'s and
  `Coordinator`'s), and Live does not evict. Noise is a bounded table instead of
  a random number, and a stalled GPU's utilisation is 12, within the code's range
  of 10 to 20.
- `Recorder` takes each lookup and insertion in `_seen` as one step, which the
  interpreter lock provides. PyTorch's ring and NVML are external. A poll's
  append to the file is one step, and one that fails tears between two events:
  the chunks of two pollers that write at once, and a torn line glued to the next
  one, are not looked at. An exception of the sampler (`gfr_torch.py:163`) loses
  what a file that cannot be opened does, and is the same action.

## Runs

| Run | Question | Bounds, and why they are enough |
|---|---|---|
| `ring` | Does the buffer, one memory access at a time, implement the bounded log, and does every call return? | two threads, each may push and walk; capacity 3 rounds up to 4; five pushes, so the buffer fills and wraps |
| `agent` | What is lost, when, what does nil mean, does Run end, does the client implement the stream? | up to two collectors (one finite, one live that may fail to start), with and without client; channels of capacity 1, so that each is full at times; 2 and 1 events; one break; the link up or down at first |
| `coordinator` | Do streams, reports and a graceful stop get along, does the server implement the streams? | two streams of up to two messages, one malformed; one GetReport; Live keeps two events, so it evicts |
| `correlator` | Is the store exactly the window, in any order of arrival? | up to five arrivals of seven events, of two ranks and two collectives, with repeats; a lookback of 2 and none |
| `detection` | Who is reported, and on what evidence? | three ranks, blocks of three, every sequence of up to seven collectives of five kinds (two blocks and a partial one), with reports missing and durations of 0; a window of the last six, so everything is seen at first and then the oldest leaves |
| `tail` | Are lines emitted once, whole and in order, and does Stop return? | a file of three lines (one of them bad) written while followed, one that was there; channel of 1; one truncation or removal |
| `attribution` | What may the rules claim? | every history of up to five events of ten kinds before, in and after the window |
| `recorder` | Is each collective written once, and does stop flush? | a ring of three entries and five collectives, so entries are overwritten between dumps; one entry whose number cannot be read, with one before it and up to two behind it, and one that raises once it is marked, with one on either side; dumps that fail; writes that stop after any part |
| `pipeline` | Who is blamed, and for what, at every moment of a live run, and is it what replay says? | eight steps, samples every second step, blocks of two; three ranks, or two with pcie, nvlink, ecc and host_stall; one restart with a healthy run and with two faults; an empty line, a torn file; noise of 3 in 100 against a lag of 30 |

Three more runs each show a disagreement between the code and what its comments
say, by checking one property that states the comment:

- `agent_broken_stream`: "the ring buffer, not the wire, is the durable record"
  (`grpc.go:136-138`). When the stream breaks, nobody receives from `out` any
  more; once it is full Run waits at `agent.go:87` until it is cancelled, and
  events stop reaching the ring buffer. Four events and channels of one suffice.
- `detection_ended`: "so a fault that has ended is still reported"
  (`correlator.go:150-153`). One more flagged block much later takes the report
  back, since the healthy blocks between count (`correlator.go:243-244`).
  `LaterIsNoExcuse` is about flagged blocks and not about reports for the same
  reason: a rank that had lagged more keeps every block it was flagged for, but a
  block far from them that is then flagged too may stretch the span and take the
  report back. It takes more collectives than the run has to see that.
- `sampler_absent`: "Rules never fire on absent data" (`engine.go:66-67`). When
  the utilisation call fails, `sample` writes zeros (`gfr_torch.py:108`), which
  host_stall takes for an idle GPU.

Three divergences are small enough to note without a run. Malformed messages are
"counted and skipped" (`grpc.go:70`), but nothing counts them (`grpc.go:82-86`).
clock_reduced "stays below the explicit throttle rules" (`engine.go:175-177`),
but not below a throttle that few samples show; `ThrottleOutranksClock` states
when it does. host_stall is "suppressed when a hardware throttle is present"
(`engine.go:324-332`), but a throttle that only a ThermalEvent reports is not
looked at.

The last flush is not what its comment promises when something raises. `stop`
ends with a poll called "final flush" (`gfr_torch.py:181`), and `poll_once`
swallows what is raised while it converts (`gfr_torch.py:160-161`): what the poll
had marked until then is in `_seen` and never written, what stands behind the
entry is not looked at, and `stop` returns normally. An entry whose
`collective_seq_id` is no number raises before it is marked (`gfr_torch.py:66`),
so every poll ends at it until the ring has dropped it. `FinalFlush` names these
losses (`failed[Main]`, `unreached`) and says that there are no others: without an
entry that raises and with a dump that succeeds, all that had completed is in the
file, but for what the thread lost or has in hand.

Deadlock is checked in `ring`, `agent` and `coordinator`, where an ended Run
and a stopped server are explicit self-loops. It is off where the system really
stops: the bounded inputs of `Correlator`, `Detection`, `Attribution`, `Sampler`
and `Pipeline` run out, in `TailCollector` the goroutine has ended and Stop has
returned, and in `Recorder` thread and training loop have ended.

Properties worth reading first: `NilMeansDelivered` and `ImplementsStream`
(`Agent`), `ImplementsStreams` and `ReportIsCurrent` (`Coordinator`),
`HistoryExact` (`Correlator`), `LaterIsNoExcuse` (`Detection`), `ClaimsAreBacked`
and `LaterEventsChangeNothing` (`Attribution`), `ConsumedIsEmitted`
(`TailCollector`), `OneCopy` (`Recorder`), `LiveAgreesWithReplay` (`Pipeline`),
`ImplementsBoundedLog` (`RingBuffer`).

In `Pipeline`, a restarted agent sends its part again. Collectives replace
their first copies, hardware samples are counted twice: the anomalies stay the
same, but confidences move, so the exact chain is demanded of runs without a
restart only.

One hazard has no property: a restarted *job* numbers its collectives from the
start, so its reports join the groups of the run before (`correlator.go:98`).
No event carries what would tell the two apart.

### Fairness

- `RingBuffer`: a thread inside a call goes on; a lock is granted if the mutex is
  free again and again (strong fairness), which Go's mutex ensures by handing
  itself to a waiter that starves. Nobody has to call.
- `Agent`: every goroutine that can move does; the coordinator handles what it
  received; a reset stream is noticed. A select whose context stays done takes
  that branch in the end (strong fairness of `StreamCancel`), since Go chooses
  among ready cases at random. A live collector need not emit, nobody need
  cancel, a lost link need not return: `ReplayEnds` names that as its condition.
- `Coordinator`: handlers and reports run and the end of a stop is noticed.
  Agents owe nothing: `StopEnds` is conditional on every agent ending its stream.
- `TailCollector`: the goroutine runs, its ticker ticks, a done context is chosen
  in the end, and the agent takes events until it is cancelled. Writers and
  operators owe nothing. That the agent goes on taking events is an assumption
  about the rest of the system: as `agent_broken_stream` shows, it does not after
  its stream broke and `out` filled up, so `EveryLineEmitted` speaks of agents
  without a client and of streams that stand.
- The other modules state none, and no liveness: the recorder's daemon thread may
  die with its process at any point, and the analysis is a function of what
  arrived.

## Proofs

Each theorem is of the form `Spec => []P`, an action property `Spec => [][A]_vars`,
or a refinement (`Spec => ImplementsBoundedLog`, `ImplementsStream`,
`ImplementsStreams`), for every value of the constants. Liveness is not used: they
are about `Spec` without fairness. `ParametersAssumption` and its like give the
constants their types and are evaluated by TLC in the runs. Hardly any of these
properties is inductive by itself: what each module proves first is the invariant
that is, told here part by part.

`RingBufferProofs`, for every set of events, any number of threads and every
capacity: `TypeCorrect` (`TypeOK`, with the length of a snapshot under
construction), `OnlyPushedEventsRead` (`NoZeroEventRead`) and `Refinement`
(`ImplementsBoundedLog`). It assumes `SizeAssumption` (the rounded capacity is a
positive number; that it is a power of two is not needed, since `Slot` is the
remainder) and `NamesAssumption` (the values that stand for a free mutex and an
empty slot are no threads and no events).

- `MutexInv`: the threads at a point between lock and unlock are exactly the
  holder of the mutex;
- `ArgInv`: a thread that pushes holds an event;
- `SlotInv`: every slot of the retained window was written, where the window
  counts a push from the moment its event is stored;
- `PartInv`: a snapshot under construction agrees with the buffer as it is,
  which needs that nobody else is between lock and unlock;
- `CopyInv`: what readers hold are events.

The step that carries the argument is a store (`StoreMovesWindow`): it moves the
window on by one, which rests on `SlotsDiffer`, that two events less than Size
apart have different slots.

`CoordinatorProofs`, for any number of streams and report calls, any number of
messages, malformed ones among them, and any bound of Live: `TypeCorrect`
(`TypeOK`), `ReportsAreCurrent` (`ReportIsCurrent`), `StopLosesNothing`
(`StopIsGraceful`) and `StreamsAreServed` (`ImplementsStreams`). Live is the tail
of the history it forgets (`LiveInv`), a handler counts an event after it has read
it and before it reads the next (`HandlerInv`), and a report in progress holds the
tail of the history as it was at some moment since the call (`SnapInv`). For the
streams: what was ingested of each is what was read of it, in order, but for the
malformed messages and the one its handler holds (`FlowInv`); the counter lags
behind the log by the handlers between Ingest and Count (`CountInv`); a stopped
server has no handler left (`IdleInv`). The argument about Live rests on the lemma
`EvictionIsTail`: dropping the oldest event at each arrival keeps what dropping
them all at the end would.

`AgentProofs`, for any number of collectors, any number of events, any
capacities and any number of faults: `TypeCorrect` (`TypeOK`),
`LeavesNothingBehind` (`NothingLeftBehind`), `CollectorsInOrder`
(`CollectorOrder`), `BackpressureLosesNothing` (`NothingLostWhileUp`),
`ReturnedNilDelivered` (`NilMeansDelivered`) and `StreamIsKept`
(`ImplementsStream`). How far Run is tells who may be running: its loop ends after
merged was closed, which is after the last fan-in goroutine (`FanInv`); it goes
from collector to collector only when the streaming goroutine has ended
(`StrInv`), each one behind its index has ended (`CollInv`), and the index is past
the last when it returns (`IdxInv`). `HoldInv` bounds the channels. A failed Start
goes to the same shutdown before any fan-in goroutine exists, which is why
`FanInv` speaks of goroutines that are off. For the events: what each collector
emitted is, in order, what was pushed to the ring buffer, what `merged` holds,
what its fan-in goroutine has in hand and what its channel holds, and only the end
of that may have been dropped, by a cancelled goroutine (`StreamInv`, `HandInv`,
`EndInv`); what was pushed is what the client sent, holds, and finds in `out`
(`ForwardInv`, `OrderInv`); nil comes from an acknowledgement of all of it
(`AnswerInv`). Two orders of the same events, of the collectors and of the wire,
are related by `Only`, the part of a sequence that is one collector's.

`RecorderProofs`, for every ring size, any number of collectives, every set of
entries that cannot be read or converted: `TypeCorrect` (`TypeOK`), `KeptOnce` (`OneCopy`)
and `LastFlush` (`FinalFlush`). A poller's place says what it has in hand
(`PlaceInv`, `HandInv`); what is marked as seen is in the file, in a hand, or was
lost to an exception (`KeptInv`); until stop gives up waiting there is one poller at
a time (`AloneInv`), so that nothing is marked twice (`OnceInv`); what the ring
showed at stop's dump is marked, still to be looked at, or out of the poll's reach
since an exception, and at the end all of it is marked or out of reach
(`FlushInv`), hence kept by `KeptInv`; and if anything is out of reach or lost to
stop's own poll, then an entry of that dump raised or the dump failed (`Excused`).

`TailCollectorProofs`, for any files, any number of truncations and removals and
any capacity: `TypeCorrect` (`TypeOK`), `NeverTwice` (`InOrderOnce`) and
`NothingReadIsLost` (`ConsumedIsEmitted`). The first two need that no file stands
at two paths (`Tidy`), that no more is kept for later than was read (`Short`), and
that everything still to come of a path is behind what was emitted of it, where
the weights `W` put all pieces ever written in the order of writing (`LogOrdered`,
`OrderedAt`). The last one has an invariant of its own about content: generations
are counted (`Dated`), an offset was counted in the content of some generation and
belongs to the one at the path or to an older one (`Aged`), heads are followed by
their own tails (`Paired`), and what was read of the present content is what was
emitted and what is in hand (`Consumed`).

`CorrelatorProofs`, for any number of ranks and collectives, any events and every
lookback: `TypeCorrect` (`TypeOK`), `HistoryIsTheWindow` (`HistoryExact`) and
`LatestIsHeld` (`GroupsHoldTheLatest`). `HistoryInv` takes a history apart by
instants: it is in time order, and its part of each instant is what arrived from
the rank for that instant, in order of arrival, as long as the instant is in the
window. An insertion disturbs one instant, a trim removes whole ones. A sequence
in time order is known by its parts, which gives the equality with the window.

`AnalysisProofs` is about both halves of an analysis. For `Detection`, any finite
set of ranks, any durations, windows, block size and thresholds:
`DetectionTypeCorrect` (`DetectionTypeOK`), `ReportedRanksLag`
(`ReportedRanksReallyLag`) and `LaterNeverUnflags` (`LaterIsNoExcuse`). It assumes
`DetectionAssumption`: a collective has a report, and its durations and all
parameters are natural numbers. The invariant (`DetectionInv`, a lemma) says only that the
collectives stand one after the other and that what is found is what
`DetectAnomalies` returns for them; the work is about that operator, on every
history.

- A block is the positions whose place, counted from the first, falls in a range;
  places count up and leave none out (`PlacesCountUp`, by `EveryPlaceIsTaken`). So
  blocks are disjoint, in order (`BlocksInOrder`), and none is left out between two
  (`BetweenBlocks`). That gives the instants and the counts of an anomaly
  (`AnomalyFits`).
- A flagged rank's median lag is above its peers', so above 0, and then half of
  its lags are (`HalfAboveZero`, from the order statistics). Summed over the blocks
  from the first flagged to the last, of which the others may be without a lag at
  all, this is the bound of `ReportedRanksReallyLag` (`HalfOfAll`).
- Order statistics and medians grow with the values (`SmallestGrows`,
  `MedianGrows`). When one rank arrives later, its lags grow, its peers' are the
  same, and the floor, which is the median of all durations, does not grow: so the
  excess grows over no more noise (`ExceedsMore`, `StaysFlagged`).

For `Attribution`, every history of samples, every window, and any readings:
`TypeCorrect` (`TypeOK`), `BackedByReadings` (`ClaimsAreBacked`), `RealChanges`
(`ChangesAreReal`), `ThrottleFirst` (`ThrottleOutranksClock`) and
`LaterEventsAreIgnored` (`LaterEventsChangeNothing`). The report is what
`Attribute` gives for the events so far (`IInv`); the work is about the rules. One
lemma for each says that its verdict is backed and, where it is a change, real
(`Good`); that of the ECC rule, that a rise from the first sample it counts to the
last is one in the window (`RiseIsWithin`). It rests on `MedianIsBetween`: a median is half the sum of two of the
values. `RankedInOrder` says that the chain is a permutation of what fired that
respects confidence and, in a tie, the order of the rules; it needs that
confidences are ordered as fractions (`FractionsAreOrdered`), and that in a strict
order of n things each place from 1 to n is taken (`EveryPlaceIsTaken`).

Where a proof goes by induction, over the length of a sequence or along a recursive
function, it is over sets: `SetInduction` and `AppendInduction` of `FlowLemmas`
take the set of numbers or sequences for which a fact holds, and follow from
`LeastElement`. That a recursive function has the value its definition says is
proved the same way (`Solvable`, `Addable`).

Only model-checked:

- all liveness: the prover does neither fairness nor ENABLED;
- `Pipeline` (`NoFalseStraggler`, `LiveAgreesWithReplay`, `FaultExplained`), which
  is about given runs of the simulator, with their noise, and calls `Codec`,
  `Correlator`, `Detection` and `Attribution` on them; the trace and the replay are
  folds over sequences (`SelectSeq`, `FoldLeft`, `SortSeq`), whose arguments are
  operators, which the provers do not see through;
- the runs that expect a violation.

## Not modelled

- Of `internal/types`: fields that nothing reads, names, and the defaults of the
  configuration, which are without behaviour.
- Of the command line: flags, the report command, printing.
- Of the simulator: random noise (a table stands for it) and the printed tables
  of detection rates, which are statistics over many seeds.
- Benchmark scripts: they start processes on real GPUs and compare files.
- Generated protocol code: modelled by how `internal/transport` uses it.
- Deployment and tooling: configuration and build files.

## What is left

1. For `Pipeline`, that the store does not depend on the order in which ranks'
   events interleave (`Insert` and `Join` of different ranks commute), which is the
   core of `LiveAgreesWithReplay` for runs without a restart.
2. An abstract store for `Correlator` (what arrived, restricted to the window),
   with `HistoryExact` as refinement.
3. A job's identity in the events, once they carry one: see the hazard above.

## Running

    tlc -workers 2 -config MCAgent.cfg MCAgent
    tlapm AgentProofs.tla        # TailCollectorProofs takes longest, some minutes
