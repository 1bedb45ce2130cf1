# rampa in TLA+

rampa is a load-testing tool: a script declares scenarios, an engine runs their
virtual users (VUs) as coroutines of one asyncio event loop, a background thread
aggregates the samples they emit, and frontends (command line, terminal UI, MCP
server, test plugins) follow the run on an event bus. This directory holds TLA+
models of the parts where order, concurrency and failure matter, TLC
configurations that check them on small instances, and TLAPS proofs of their main
invariants. Paths below are relative to `src/rampa/` of the repository unless they
begin with `docs/` or `scripts/`.

## The system

| Part | State it keeps | Operations | Talks to |
|---|---|---|---|
| metric engine (`metrics.py`) | sample queue, `_running`, sinks and sub-sinks, snapshots, grace deadlines | `start`, `stop`, and the thread: get, drain, ingest, snapshot, check thresholds | fed by all VUs through the queue; calls back `on_sample`, `on_snapshot`, `on_threshold`, `abort_callback` |
| engine (`engine.py`) | the task of `_run`, its status, abort event, signal handlers | setup, execute, teardown, shutdown; `RunController.stop/pause/resume/wait/events` | starts executors in a TaskGroup, stops the metric engine, publishes phases |
| event bus (`bus.py`) | list of bounded subscriber queues | `subscribe`, `unsubscribe`, `publish`, `publish_threadsafe`, `events` | fed by the engine and, through the loop, by the metric thread |
| pause gate (`pause.py`) | an asyncio Event, paused seconds | `pause`, `resume`, `wait_if_paused` | awaited at the head of every iteration |
| iterations (`executors/__init__.py`) | `ExecutionState`: iteration counter, active and peak VUs | `run_iteration`, `vu_started`, `vu_stopped`, `make_worker` | used by all executors; emits samples, closes the clients |
| executors (`executors/*.py`) | remaining iterations, semaphore, tick, stage, tasks | `run` of six executors | coroutines in the engine's TaskGroup |
| workers and clients (`worker.py`, `http.py`, `protocols/`) | sessions, channels, the timings of a request | checks, custom metrics, requests, connections, streams, close | called by the user's function; emit samples |
| thresholds (`thresholds.py`) | parsed expressions | parse, evaluate | read sinks, in the thread and at the end |
| distributed (`distributed/*.py`) | worker table, sequence numbers, sample batches, segments | register, remove, broadcast, stream, partition | a connection between each worker and the coordinator |
| outputs and runner (`output.py`, `outputs/`, `runner.py`) | buffered samples, outputs | start, add, flush, stop, `run_test` | consume events, samples and the result |
| MCP (`mcp/`) | registry of runs, their background tasks | start, stop, pause, resume, list, status, metrics | wraps controllers |
| `scripts/mcp_swap.py` | configurations of agent CLIs, backups, a recovery state, a lock | `use-local`, `revert` | files that the user and the CLIs edit as well |
| configuration, loader, CLI, TUI, CI, plugins | - | parsing, formatting, adapters | start runs |

What is hard in it:

* **Shutdown.** `stop()` of the metric engine clears a flag and sends a sentinel
  while the thread may be anywhere in its loop; the closing snapshot travels back
  through the loop's callback queue and has to arrive before the end marker.
* **Cancellation and failure.** Any await of the run may raise `CancelledError`; a
  failing scenario cancels the others; clean-up may itself fail.
* **The pause gate.** VUs wait there in large numbers, and stop, cancellation and a
  second pause may come before they have run again.
* **Schedules.** Arrival-rate executors promise that every tick is accounted for;
  ramps promise a number of VUs, or a rate, at a time.
* **Bounded queues.** A slow reader of the bus loses events, and must be the only one.
* **Tasks that wait for tasks.** A run over MCP is completed by a task that waits on a
  task that waits on the run; `run_test()` waits for the drain of a stream.
* **Connections.** A worker's connection may break with batches in flight, be opened
  again, and be cleaned up late.
* **Shared state across awaits.** Requests of one client share one set of timings;
  clients are closed while tasks of the user still call them.
* **Several files, one after the other.** A swap writes backup, state and configuration,
  and may be killed, fail, or be overtaken by the user between any two.

## Modules

| Module | What it models |
|---|---|
| `SamplePipe` | what the metric pipeline promises: samples are taken in order, and after stop it closes with a snapshot of all that was put before |
| `MetricEngine` | the queue, `stop()` and the aggregation thread at the grain of its queue operations, with live thresholds and grace periods; implements `SamplePipe` |
| `Sinks` | counters, gauges, rates and both kinds of trend; the registry, sub-sinks, `check()` and custom metrics, and the evaluation of thresholds on them |
| `RunLifecycle` | what a frontend may rely on: the order of phase events, the end marker, and how they fit the result |
| `Engine` | `Engine._run()`, the VUs of constant-vus, pause, stop, cancellation, the loop's callback queue, on top of `SamplePipe`; implements `RunLifecycle` |
| `EventBus` | subscriber queues and the streams of `RunController.events()` |
| `Runner` | `run_test()` with its drain and progress tasks on the streams of `EventBus` (which it EXTENDS), `OutputManager`, and the outputs by kind |
| `RunRegistry` | the runs of an MCP server: four tasks each on a queue of ready tasks, the registry, the tools and resources, and the handler of SIGINT |
| `ClosedExecutors` | shared-iterations and per-vu-iterations side by side, with `run_iteration()` and the gauges |
| `ArrivalRate` | one constant-arrival-rate scenario |
| `RampingArrivalRate` | one ramping-arrival-rate scenario: its scheduler on the iterations of `ArrivalRate`, which it EXTENDS |
| `RampingVUs` | one ramping-vus scenario |
| `Clients` | the HTTP, WebSocket and gRPC clients of one iteration under overlapping calls, and their clean-up |
| `Segments` | the partition of VUs and iterations among the workers of a distributed run |
| `Distributed` | the workers of `Segments`, which it EXTENDS, streaming samples to the coordinator over connections that break, and broadcasts the other way |
| `McpSwap` | `use-local` and `revert` of `scripts/mcp_swap.py` with crashes, failures and edits |
| `*Proofs` | theorems and proofs: `IterationProofs` about `ClosedExecutors` and `Clients`, `McpProofs` about `RunRegistry`, `RunnerProofs` about `EventBus` and `Runner`, `EngineProofs` about `Engine` and `Sinks`, the others about what they are named for and what EXTENDS it |
| `MC*` | the instances for TLC |

Beside each definition that a property depends on stands a wrong variant of it, under
a comment that begins with "Wrong:" and used by no specification. Put in its place, each
makes TLC find the property violated: the properties depend on what the code does.

### How the state corresponds to the code

**One event loop.** Coroutines suspend only at an await, so an action of `Engine`,
`ClosedExecutors`, `ArrivalRate`, `RampingArrivalRate` or `RampingVUs` is what a coroutine
does from one place where it can be suspended to the next: at the pause gate, in the
user's function, in a sleep, at the end. `await` of a semaphore that is free and of an
open gate do not suspend. In the arrival-rate modules and `RampingVUs` the scheduler needs
several actions without suspending; `LoopIsFree` keeps others out meanwhile, time excepted.
In `Engine` and `ClosedExecutors` the VUs are in `vu`; `"gate"` is a VU in
`Event.wait()`, and `"woken"` one whose future was resolved by `resume()` and which
goes on even if the gate is closed again. `RunRegistry` goes one step further: there the
order in which tasks become ready decides what a tool sees, so `ready` is the loop's queue.
The end of a run takes two steps in it: `ShutsDown` gives the signal handler back, stops the
metric engine and goes to the end of the queue (`sleep(0)`); `EngineEnds` settles the status
when its turn comes. In between the run is `"closing"`: still active, asked for by the tools,
and without a handler.

**The metric thread.** `thread` is the place in `_run()`, `closing` says that it has
left the loop. Each `get`, each element of a drain and each judged threshold is an
action of its own, so that `stop()`, which runs on the other thread, falls between any
two of them. Snapshots are represented by the number of samples they cover. A get that
times out may do so as soon as the queue is empty. `MetricEngine` has the sinks its
thresholds need; `Sinks` has all of them, puts and ingests a sample in one step, and keeps
exact fractions: a value is an integer number of half thousandths, so that the histogram's
truncation to thousandths shows.

**The native histogram.** `HdrTrendSink` gives whole thousandths to the `Histogram` of the
hdrhistogram crate with three significant digits. The crate is external; what the
model says of it is that it counts values in buckets, of width 1 below 2048 and twice as
wide from each power of two to the next (`Width`), and that `format_stats()` takes a bucket
for its lowest value in the minimum, its middle in the mean, and its highest value in the
maximum and the percentiles (`Lowest`, `Middle`, `Highest`). A sink is then a count per
bucket. So the reference definitions are twofold: `StatisticsFollowSamples` and
`VerdictsFollowSamples` speak of the samples in a list and of the buckets of the samples
in a histogram, and `WithinPrecision` compares the histogram with the samples themselves: in
thousandths no statistic is further off than the 0.1% of `histogram.rs`. A threshold that lies between
a sample and the end of its bucket may thus be judged differently in a native build.
`Half` is 1024 and `Widths` the first powers of two, enough for the values of the run.

**The run.** `pc` is the place in `_run()`. `cancel` distinguishes a cancellation that
is asked for from one that was raised, because a TaskGroup that has an error of its own
raises that first and leaves the cancellation to the next await, which may be the
`sleep(0)` of the shutdown. `ready` is the loop's queue of callbacks, in which the run
task queues up at `sleep(0)` behind the snapshots. Samples that a VU emits in one step
count as one. Thresholds of a run are strings, so `abort_on_fail` and grace periods are
reachable only for users of `MetricEngine`; they are modelled there.

**The bus and the runner.** Events are numbered by publication, `None` is 0. `lost` counts
what a full queue has refused. In `Runner` the engine is reduced to what it publishes,
emits and ends with; an output may raise at any of its calls, which leaves `run_test()`
there; outputs are of three kinds, those that only print, those that write a file in
`stop()` (JSON, CSV), and those that post batches (InfluxDB, OTel, Prometheus, webhook).

**Schedules.** In `RampingArrivalRate` a tick's `due` is computed from one reading of the
clock and compared with a later one, as in the code; `tick` counts the ticks taken.

**Clients.** `report` and `late` are histories: of each request when it began, how long it
took, the phases it emitted, and whether another overlapped it; and whether a call was made
during the clean-up. What a task calls after the iteration is over is not followed.

**Distributed.** The server that accepts connections and calls `CoordinatorState` is not in
the repository: it is external, one task per connection, and it handles the end of a
connection after what was received on it. `wire` holds what is on its way; a connection that
breaks keeps a prefix of it.

**Swaps.** A process goes through lock, state, and for each CLI read, backup, record, write,
and back again on failure; each write of a file is a step after which it may be killed.
A configuration is what becomes of the one server entry in each scope. The path of a
configuration is a regular file or a symbolic link: `link` is the place where it leads,
`Own` for none, and a physical file is a CLI with a place. `use-local` resolves the path once and
records it (`target_path`); `revert` writes to what was recorded; and `atomic_write()`
follows a link that the user has put where a regular file was. At any time the user may edit a
file, repoint the link, replace it by a file or a file by a link, or delete a backup.
`pristine` and `spoilt` are histories of the physical files: what the user had in each before it was
first swapped, and the files to which something was done that no revert can undo. What the
user does to a link spoils no file by itself: `revert` still puts back the file it swapped, and
what is live then is what the user has put there, as
`tests/test_mcp_swap.py:2867` asks for.

Variables marked *history* exist for properties only; no guard reads them except the
bounds.

## Runs

`tlc -config X.cfg M` for each line; the properties are stated in the modules.

| Run | cfg | Bounds | What it shows |
|---|---|---|---|
| metrics | `MCMetricEngine.cfg` | 3 samples out of 3 kinds, 3 ticks, drain limit 1, join timeout 2, 2 thresholds | no sample missing from the last snapshot; grace periods; the thread ends; refinement of `SamplePipe` |
| sinks | `MCSinks.cfg` | 3 samples or checks over 5 metrics and 2 tags, values up to the third width of buckets, 15 thresholds, either trend sink | statistics and verdicts are those of the samples or of their buckets, wherever snapshots fall; buckets are within 0.1% |
| engine | `MCEngine.cfg` | 2 VUs, 1 iteration each, 2 waiting callbacks | nothing works after execute; final snapshot complete and shown; PASSED means it; every run ends; refinement of `RunLifecycle` |
| runner | `MCRunner.cfg` | 2 streams and the primary queue, size 2, 3 events, 3 samples, batch 2, an output of each kind | streams are exact and end unless full; exit code 0 means delivered; `run_test()` returns |
| registry | `MCRunRegistry.cfg` | 2 runs, queue of 3, 2 events each | records are complete, tools agree, lone runs get their signal until they shut down, runs complete |
| closed | `MCClosedExecutors.cfg` | a pool of 3 for 2 VUs, 2 VUs with 2 each | run exactly, gauges exact |
| arrival | `MCArrivalRate.cfg` | interval 2, duration 7; two stages up to 1 and down to 0 from 0.5 per unit; 2 VUs, 13 readings | semaphore and ticks accounted for, on schedule, scenarios end - for either executor |
| ramping | `MCRampingVUs.cfg` | stages to 2, 3 and 1 of 3 VUs, starting from 1 | clean exit, no overshoot, the ramp ends |
| clients | `MCClients.cfg` | 2 tasks, 2 calls between them, 2 servers | phases of a lone request add up; nothing is left open |
| distributed | `MCDistributed.cfg` | partition: 1 to 5 workers, amounts up to 13; streams: 2 workers, 4 samples, batch 2, 2 connections each, 1 break, 1 broadcast | a partition; samples in order, once, and all of them if nothing breaks; broadcasts reach the registered |
| swap | `MCMcpSwap.cfg` | 2 processes, the CLI with two scopes, its path and one place a link may lead to, 3 commands, 2 mishaps | originals stay recoverable; a successful revert restores them |
| stop_while_paused | `MCEngine_pausestop.cfg` | 1 VU | a departure, see below |

These bounds are small, but each contains the case it is about: a drain limit of 1 with
3 samples makes the bounded drain stop at its limit, at an empty queue and at the
sentinel; two VUs suffice for one that fails and one that is cancelled, or one at the
gate and one iterating; three events and the `None` overflow a queue of two; a duration
of 7 with an interval of 2 ends between two ticks, and 13 readings of the clock let the
loop stall past the end; the two stages meet at the highest rate, so that a schedule carried over from
the first would show as a burst in the second; a pool of 3 is not divisible by its VUs;
two calls are a request and the one that overlaps it, reuses its session or follows a
close; three commands are two swaps of two scopes and a revert, or a swap that dies, a swap
and a revert; with two places a file becomes a link and a link a file, while a link that is
repointed to another one is left to the proof; values of 1, 4101 and 4103 half thousandths are
one alone in its bucket and two that share one whose highest value they are not; three samples of a batch size of two are a full batch and a rest.
`MaxIterations` bounds iterations a constant-vus VU starts, `MaxReady` the snapshots that
wait in the loop (the closing one is always accepted), the other `Max...` constants what
their comments say. A VU at its bound waits for the deadline, as one that is between two
iterations might. Symmetry is used where no liveness property is checked: among the
processes of a swap, and among tasks and servers of the clients.

`CHECK_DEADLOCK FALSE` stands in the configurations of systems that may stop: a run that
is over, or whose bounded clock has run out, has nothing left to do.

## Where the code does not do what its documentation says

One departure has a run: in `stop_while_paused` TLC finds `StopEndsRun` violated. "Request
graceful stop" (`engine.py:118`), but VUs at the pause gate are not woken by `stop()`, and
the run goes on waiting until somebody resumes it.

These others were met while modelling; the models behave as the code does, and the
properties except these cases, at the place their comments say:

* "events until the run completes" (`engine.py:185`): the `None` is dropped when the queue of
  a stream is full (`bus.py:97`), and its reader, `run_test()` included, waits forever:
  hence the exceptions of `StreamEndsUnlessFull` and `RunnerReturns`.
* "Active virtual users" (`docs/library/metrics.md:18`): the `vus` gauge of several scenarios
  holds the number of whichever changed last; `GaugesExact` is about one scenario's tag.
* "rather than silently reducing the arrival rate" (`constant_arrival_rate.py:22`): ticks
  overdue at the end of the duration are not counted as dropped.
* "Ramp users up and down" (`docs/library/executors.md:14`): no VU is ever ended by a stage.
* Exit code 6 for a failing output (`docs/cli/run.md:58`): an output that raises leaves
  `run_test()` with a traceback and exit code 1.
* "revert" puts the original back (`scripts/mcp_swap.py:13`): with `--scope`, reverting the
  layer that was swapped first before the other one loses it (`Recoverable` excepts this).
* "revert always lands on the pre-swap config" (`scripts/mcp_swap.py:13`): when a link is
  repointed under a swap and `use-local` is run again, the layer keeps its backup and takes
  the new target (lines 1836-1844), so `revert` writes the old file's content over the new
  file and leaves the old one swapped. When a regular configuration is replaced by a link,
  `revert` writes through the link (`atomic_write()`). `Recoverable` excepts both.
* "Called once" (`metrics.py:664`): `abort_callback` is called at every evaluation that finds the
  threshold failing past its grace period (`metrics.py:864`), which `GraceHonoured` states.
* A SIGINT stops a run (`engine.py:302`): a run that shuts down has removed the handlers
  (`engine.py:410`) before it joins the metric thread, which takes up to five seconds, and
  before it settles its status. A signal then meets the default handler;
  `SignalsStopLoneRuns` excepts a run in its own shutdown.
* Two builds, one verdict: with the native histogram trends are rounded to buckets, so a
  threshold near a value can pass in one build and fail in the other.
* `counter()` and `gauge()` of a worker: a metric that is not registered becomes a trend, and
  `count` of it counts samples, not what was added.
* A threshold with a tag on a metric that first appears in the run has no sub-sink and always
  passes; one on a percentile other than 90, 95 and 99 reads 0.0.
* Timings of HTTP requests: on a connection of the pool the time to send counts as blocked
  too; `http_req_receiving` is 0 because aiohttp reports the end of the request before the
  body is read; a request that is refused before it starts repeats the phases of the one
  before; overlapping requests report the phases of the one that started last.

## Fairness

Fairness is on the steps of the program, never on users. The event loop runs every
task and callback that is ready (weak fairness on VU steps, the run task, the tasks of the
runner, the registry and the streams, pending callbacks); the operating system schedules the metric thread; time
passes; a live connection delivers. Setup, teardown and iterations are assumed to return,
for the code enforces no timeout on them (`setup_timeout`, `teardown_timeout` and
`graceful_stop` are configuration only). `RampEnds` does not need that iterations return:
cancelled ones do. `RunEnds`, `ScenarioEnds` and `RunsComplete` assume `[]<>~paused`, that no
pause lasts forever, which is the finding of `stop_while_paused` read the other way round.
Nobody has to reconnect, to report, or to call a tool.

## Proofs

TLAPS checks the following for every value of the constants that satisfies the
assumptions named in the modules.

* `MetricEngineProofs`: `TypeCorrect`; `FinalSnapshotIsComplete`; `ImplementsSamplePipe`.
  `FinalSnapshotComplete` is not inductive: it says nothing about a thread that is still
  draining. The invariant `Delivery` says what is in the queue - the samples between
  `taken` and the end of the log, with the sentinel, when it has been put and not
  consumed, behind everything that was put before `stop()` - and that a thread which is
  past its final drain has taken all of these. `FinalSnapshotIsComplete` and the
  refinement follow from it; each action of the thread maps to one step of `SamplePipe` or a
  stutter. `GraceAlwaysHonoured`, for thresholds whose texts differ (`TextsDiffer`), from
  `Graces`: a threshold with a grace period has a deadline exactly while it is failing, as
  far from when it began to fail as the period is long. With equal texts it is
  false: the second threshold overwrites the deadline of the first (`metrics.py:858`).
* `EngineProofs`, about `Engine`: `TypeCorrect`; `NoWorkOutlivesExecute` from `Calm` (no VU is at work
  outside the execute phase); `PassedMeansPassed` from `Unhurried` (a VU is off only
  because of the deadline, an abort or trouble, and trouble leaves a mark on the
  status), for runs with at least one VU; `FinalSnapshotIsOfTheRun` from `Collected` (after
  the join everything put is taken and in the newest snapshot) and `FinalSnapshotIsShown`
  from `Shown` (the last snapshot is shown or waits in front of the run task), both under
  `JoinExpires = FALSE`. That assumption is needed: `Thread.join(timeout=5.0)` gives up
  silently, and with `JoinExpires = TRUE` the two properties fail.
  `EngineImplementsLifecycle` needs no such assumption: every step of a run maps to a step
  of `RunLifecycle` or a stutter.
* `EngineProofs`, about `Sinks`: `StatisticsAlwaysFollowSamples`, `StaysWithinPrecision` and
  `VerdictsAlwaysFollowSamples` from `SinksInv`, for any samples, metrics, thresholds, widths of buckets and bounds. `StatisticsFollowSamples` speaks of what
  a snapshot would show and not of what is stored, so the invariant says what a sink is
  after any set of samples (`Represents`): a sum; a latest, a least and a greatest value; two
  counts; a list that a bijection maps to the samples, and that is ascending if it is
  marked as sorted; or a count for each bucket. The proof has five parts.
    * *Sums.* They are folds that take elements in the order CHOOSE picks. That the fold has
      an equation is shown on the subsets of the set, which are well-founded (`SumsExist`);
      then it may begin with any element (`SumRemove`), so a list, a histogram and the
      samples have the same sum (`SumMoved`, `SumWeighted`).
    * *Adding and sorting.* Each `add()` keeps `Represents` for one more sample (`SinkAdds`),
      and `list.sort()` exists: a value goes to the place given by the number of values
      before it (`SortingExists`), and has the same samples afterwards (`SinkSorts`).
    * *Showing.* What `format()` shows is the statistic of the samples (`SinkShows`). Of a
      percentile as many samples as its rank says are at most that and as many at least,
      by interpolation in the list (`PercentileSplits`) or by nearest rank in the
      histogram (`QuantileSplits`); highest values rise with their buckets
      (`HighestIs`), so the ranks of buckets are those of what is shown (`HistogramEnds`).
    * *Precision.* A bucket of width w > 1 begins at `Half * w` or above, so none of its values
      is further than 0.1% from another (`BucketNear`); for the mean, sums of values that are close
      are close (`SumNear`); for a percentile, some sample has the wanted rank (`RankExists`),
      and it is in the bucket that `value_at_quantile()` finds (`QuantileNear`).
    * *Steps.* The outcomes of a `check()` are ingested by a fold; that it goes through
      them one by one is again a well-founded argument (`AllHeld`). A verdict is about the
      samples that were there when it was found; `JudgedOf` is that verdict with the values
      as parameters, so that samples, metrics and sinks that come later cannot change it
      (`GrowsKeeps`). A sub-sink cannot appear behind a verdict, and a base sink that does had
      no samples.
  `SinksInv` quantifies over bijections and lists of any length: TLC checks the three
  properties that follow from it, and not the invariant itself.
* `RunnerProofs`: `StreamsFaithful`, and `RunnerStreamsFaithful` for the streams that
  `Runner` opens, from `BusInv`: every queue holds an increasing stretch of what was
  published since its subscription, beyond what its reader has yielded, and all of it if
  nothing was lost. `ExitZeroMeansDelivered` from `RunnerInv`, a ledger of where the
  samples are at each point of `run_test()`: in `OutputManager`, in the batch under way, or,
  all of them, in each output that had its turn.
* `McpProofs`, about `RunRegistry`: `CompletedRunsRecorded` and `ToolsAlwaysAgree` from `Recorded`. Of each run: the
  tasks that are to run are on the loop's queue once (`Entries`), how far one task is bounds
  how far the others are (`Stages`), and where the last event is (`Delivered`): still to
  come; or on the queue in front of the None, with the drain ahead of the wait on the loop;
  or in the record. `LoneRunsGetTheSignal` from `Marked`: an active run is marked as beside
  another, is in its own shutdown, or has the handler.
* `McpProofs`, about `McpSwap`: `OriginalsStayRecoverable` and `RevertsRestoreOriginals` from
  `SwapInv`. Whoever is past the lock holds it, so one process at most is in the middle of
  something (`LockOK`, `OthersAside`), and what it has in memory is what is on disk, but for
  the swap it is about to record (`JobOK`). `Recoverable` alone is not inductive: a rollback
  goes back to what was recorded before the swap and to the bytes that were read, so
  the original must be found with those too, all the way (`SwapOK`); and a layer may be
  forgotten because it is the newest of its file and, if it is the only one, the file is already the
  original (`RevertOK`). All of it is about physical files, so that a layer which a swap takes
  from one file to another, and a write that a link diverts, touch none that is not excepted. `AllTaken` says that a revert of everything that has not failed
  still has before it whatever is recorded. That oldest and newest layers exist, and that
  the next seq_no is above all others, rests on the well-foundedness of < on Nat.
* `DistributedProofs`, partition: `SharesPartition`, from the monotonicity
  of `i * K \div n` and, for coverage, from the segment of an element being found by
  division; `DistributedShares` carries them over to the workers that stream.
* `DistributedProofs`, connections: `BroadcastReachesAll` from `Reached` (who was registered when
  a broadcast began has been sent it, is still to be, or has lost its connection);
  `NeverTwiceAtCoordinator` and `SamplesConservedAlways` from `Flowing`: what a worker has in
  its queue, in the batch and on the wire and what the coordinator has counted follow one
  another, in this order, without an overlap, and without a gap on an unbroken connection.
* `ArrivalRateProofs`: `TypeCorrect`; `SemaphoreIsExact` and `EveryTickAccounted`, which are
  inductive together (`Account`); `AlwaysOnSchedule` from `Timely`, which adds that a
  scheduler at a tick has reached the tick's time, and only gets there for ticks within an
  interval of the end; `StopTakesOneTick` from `Prompt` (no tick has been late while the
  scheduler is before its tick). `RampSemaphoreIsExact` and `RampTicksAccounted` reuse the
  lemmas about the iterations; `RampAlwaysOnSchedule` from `OnPace`: what is due lies at
  least one shortest interval behind the tick before, and a tick that is scheduled was
  scheduled within the stage. It rests on `NoIntervalShorter`: a rate interpolated between
  two others is at most the higher one, and integer division turns that round.
* `RampingVUsProofs`: `TypeCorrect`; `ExitIsClean` from `Reapable`: in the final loop every
  task that is alive is still to be cancelled or is the one awaited, so no action of a VU
  adds one behind the loop's back; `RampNeverOvershoots` from `DesiredBounded`: the number
  interpolated within a stage lies between where the stage begins and its target.
* `IterationProofs`, about `ClosedExecutors`: `TypeCorrect`, by which no pool is overdrawn;
  `GaugesAreExact` from `Exact`: the counter of a scenario is the cardinality of the set of
  its VUs at work, which each step changes by one VU at most; `ScenariosRunExactly` from
  `Accounted`: iterations counted, those under way and those left in the pools are together
  the iterations configured.
* `IterationProofs`, about `Clients`: `DoneLeavesNothingOpen` from `Tidy`: at each step of a
  clean-up that meets no call, what is open belongs to a client whose `close()` is still to
  come; `PhasesAlwaysAddUp` from `Timed`: of a request in flight that nothing overlaps the
  stamps are its own, are there as far as it has come (`Placed`) and rise in the order of
  the hooks (`Ordered`), so that the phases, differences of neighbours, add up.

The assumptions on the constants are those of the code: sets of VUs, streams or outputs are
finite, sizes and limits are positive, a scenario has a VU (`config.vus or 1`), no run and no
process is named by the word for "no handler" and "nobody has the lock". In `Sinks` a value
recorded is a number and no infinity (`Inf` is `math.inf`, 1 000 000 in the run),
buckets of width w > 1 begin at 1000 * w or above (`Half`), the
built-in metrics have types and include `checks`, and a threshold compares with a fraction.

Every invariant and every action property of the runs is proved. Only model-checked:
liveness (`ThreadEnds`, `RunEnds`, `StreamEndsUnlessFull`, `RunnerReturns`, `RunsComplete`,
`EverythingArrives`, `ScenarioEnds`, `RampEnds`), which is out of the prover's reach.

## Abstractions to keep in mind

* Interpolation is exact: in `RampingVUs` the code's `int()` of a float may truncate to
  one VU less at the last step of a stage, and in `RampingArrivalRate` intervals are rounded
  down to the clock of the model.
* `ArrivalRate` and `MetricEngine` measure time in integers; `Clients` counts readings of the
  clock, no two of which are equal.
* `GraceHonoured` is checked with thresholds whose texts differ: deadlines and options are
  looked up by text, so equal texts share them.
* The verdict of the final threshold evaluation in `Engine` is any Boolean when there are
  thresholds and a snapshot; `Sinks` says which.
* Values are numbers: a sample that is infinite, or a callback that raises, ends the metric
  thread in the code and is not modelled.
* A cancellation is asked for at most once in a behaviour, and the task that waits stands
  for whoever cancels the run.
* A stream of `EventBus` that its reader abandons unsubscribes at once; in the code the
  event loop closes an abandoned async generator, and so its `finally`, a little later.
* `Engine` uses VUs that are cancelled with their TaskGroup. The orphans that `RampingVUs`
  leaves when it is cancelled in a sleep are visible there (`CleanExit` is about a normal
  return) but not composed with `Engine`.
* `McpSwap` is checked with one CLI, the one with two scopes; several CLIs share the state
  file, but each has its own configuration and backups, and the proofs are for any number. No
  two CLIs share a physical file, and what a link leads to is a regular file.

## Not modelled, and what could come next

Left out: configuration and loader (pure parsing, threshold expressions included), the
formats of outputs, envelopes, archives and agent configurations, CLI, TUI and CI reports
(formatting and I/O), the pytest and unittest plugins (adapters), what of the Rust histogram
`metrics.py` does not use, the
documentation widgets and the benchmark script. Of the pause gate the seconds spent paused,
of `mcp_swap.py` the commands that only read, of the MCP server discovery and wiring.

Next would be `Engine` with several executors at once, the orphans of ramping-vus among them,
and thresholds with equal texts.
