------------------------------- MODULE Engine -------------------------------
(***************************************************************************)
(* One run of rampa: Engine._run() with the executors' VUs, the pause gate, *)
(* the metric pipeline, the event loop's queue of callbacks and whoever    *)
(* holds the RunController (engine.py, pause.py, executors/__init__.py,    *)
(* executors/constant_vus.py).                                             *)
(*                                                                         *)
(* The run task and the VUs are coroutines of one event loop: an action    *)
(* here is at most what one of them does between two awaits.  (Between the  *)
(* end of an iteration and the head of the loop others may come in here,    *)
(* which the loop allows only where it suspends.)  The metric thread is    *)
(* SamplePipe, which MetricEngine implements.  The bus is its history of   *)
(* phase events; queues and consumers are modelled in EventBus.            *)
(***************************************************************************)
EXTENDS Integers, Sequences, FiniteSets

CONSTANTS
  VU,            \* the VUs of all scenarios
  HasThresholds, \* the configuration declares thresholds
  MayPause,      \* somebody may call pause() and resume()
  MayCancel,     \* somebody may cancel the task that waits for the run
  MayFail,       \* setup, teardown, executors and iterations may raise
  JoinExpires,   \* stop() of the metric engine may give up its join()
  MaxIterations, \* bound: iterations one VU starts
  MaxReady       \* bound: snapshot callbacks waiting in the event loop

ASSUME EngineAssumption ==
  /\ IsFiniteSet(VU)
  /\ {HasThresholds, MayPause, MayCancel, MayFail, JoinExpires} \subseteq BOOLEAN
  /\ MaxIterations \in Nat /\ MaxReady \in Nat

VARIABLES
  pc,         \* where _run() is
  status,     \* status
  stopReason, \* stop_reason has been set
  cancel,     \* "no", "asked" by task.cancel(), "raised" in _run()
  failing,    \* a task of the TaskGroup, or its body, has raised
  abort,      \* abort_event
  paused,     \* the gate of PauseController is closed
  deadline,   \* the duration of the scenario is over
  vu,         \* where each VU is
  iterations, \* iterations each VU has started
  ready,      \* the loop's callbacks: snapshots to publish, and RunTask
  shown,      \* samples covered by the last SnapshotEvent published
  final,      \* samples covered by the snapshot of the RunResult
  events,     \* phase events published, "end" for the None after them
  result,     \* the outcome of run_task
  put, taken, latest, need, pipe  \* the metric pipeline, see SamplePipe

Pipe      == INSTANCE SamplePipe
Lifecycle == INSTANCE RunLifecycle

outcomeVars == <<status, stopReason, final, events, result>>
userVars    == <<abort, paused, deadline>>
vuVars      == <<vu, iterations>>
loopVars    == <<ready, shown>>
pipeVars    == <<put, taken, latest, need, pipe>>
vars == <<pc, cancel, failing, outcomeVars, userVars, vuVars, loopVars, pipeVars>>

(* The run task's entry in the callback queue; the others are snapshots. *)
RunTask == -2

-----------------------------------------------------------------------------
Init ==
  /\ pc = "created" /\ status = "PASSED" /\ stopReason = FALSE
  /\ cancel = "no" /\ failing = FALSE
  /\ abort = FALSE /\ paused = FALSE /\ deadline = FALSE
  /\ vu = [v \in VU |-> "none"] /\ iterations = [v \in VU |-> 0]
  /\ ready = <<>> /\ shown = -1 /\ final = -1
  /\ events = <<>> /\ result = "none"
  /\ Pipe!PipeInit

(* metric_engine.stop() blocks the event loop until its thread is joined. *)
LoopRuns == pc \notin {"flush", "joining"}

Publish(phase) == events' = Append(events, phase) /\ UNCHANGED <<stopReason, final, result>>

othersOfPhase == <<cancel, userVars, vuVars, loopVars, pipeVars>>

-----------------------------------------------------------------------------
(* Engine._run().                                                          *)

BeginSetup ==
  /\ pc = "created" /\ cancel = "no"
  /\ pc' = "setup"
  /\ Publish("setup")
  /\ UNCHANGED <<status, failing, othersOfPhase>>

SetupOk ==
  /\ pc = "setup" /\ cancel = "no"
  /\ pc' = "execute"
  /\ Publish("execute")
  /\ UNCHANGED <<status, failing, othersOfPhase>>

SetupRaises ==
  /\ pc = "setup" /\ cancel = "no" /\ MayFail
  /\ pc' = "teardown"
  /\ status' = "SETUP_FAILED"
  /\ Publish("teardown")
  /\ UNCHANGED <<failing, othersOfPhase>>

(* create_executor() raises in the body of the TaskGroup (an unknown        *)
(* executor name): the tasks created before it are cancelled unstarted.    *)
CreateRaises ==
  /\ pc = "execute" /\ MayFail
  /\ \A v \in VU : vu[v] = "none"
  /\ failing' = TRUE
  /\ UNCHANGED <<pc, outcomeVars, othersOfPhase>>

AllOff == \A v \in VU : vu[v] = "off"

(* Wrong: a failing task ends the phase without the others being awaited.   *)
ExecuteEndsUnawaited ==
  /\ pc = "execute"
  /\ failing \/ (AllOff /\ cancel = "no")
  /\ pc' = "teardown"
  /\ status' = IF failing THEN "EXECUTION_FAILED" ELSE status
  /\ failing' = FALSE
  /\ Publish("teardown")
  /\ UNCHANGED othersOfPhase

(* Wrong: the exception is caught, but leaves no mark on the status.        *)
ExecuteEndsUnmarked ==
  /\ pc = "execute" /\ AllOff
  /\ failing \/ cancel = "no"
  /\ pc' = "teardown"
  /\ failing' = FALSE
  /\ Publish("teardown")
  /\ UNCHANGED <<status, othersOfPhase>>

(* The TaskGroup is left when all its tasks are done.  An exception in one  *)
(* of them has priority over a cancellation, which stays asked for.        *)
ExecuteEnds ==
  /\ pc = "execute" /\ AllOff
  /\ failing \/ cancel = "no"
  /\ pc' = "teardown"
  /\ status' = IF failing THEN "EXECUTION_FAILED" ELSE status
  /\ failing' = FALSE
  /\ Publish("teardown")
  /\ UNCHANGED othersOfPhase

(* teardown_fn; when it never suspends a cancellation cannot land in it.   *)
TeardownOk ==
  /\ pc = "teardown"
  /\ pc' = "flush"
  /\ UNCHANGED <<failing, outcomeVars, othersOfPhase>>

(* Wrong: a failing teardown hides what failed before it.                   *)
TeardownRaisesLast ==
  /\ pc = "teardown" /\ MayFail
  /\ pc' = "flush"
  /\ status' = "TEARDOWN_FAILED"
  /\ UNCHANGED <<failing, stopReason, final, events, result, othersOfPhase>>

TeardownRaises ==
  /\ pc = "teardown" /\ MayFail
  /\ pc' = "flush"
  /\ status' = IF status = "PASSED" THEN "TEARDOWN_FAILED" ELSE status
  /\ UNCHANGED <<failing, stopReason, final, events, result, othersOfPhase>>

(* CancelledError is no Exception: it skips the rest of the try block and  *)
(* enters the finally clause, once the TaskGroup's tasks are done.         *)
CancelLands ==
  /\ cancel = "asked"
  /\ pc \in {"setup", "teardown"} \/ (pc = "execute" /\ AllOff /\ ~failing)
  /\ cancel' = "raised"
  /\ pc' = "flush"
  /\ UNCHANGED <<failing, outcomeVars, userVars, vuVars, loopVars, pipeVars>>

(* A task cancelled before its first step never enters its body; one that  *)
(* is cancelled in sleep(0) leaves the finally clause there.               *)
CancelCutsShort ==
  /\ cancel = "asked"
  /\ \/ pc = "created" /\ UNCHANGED ready
     \/ pc = "yield" /\ ready # <<>> /\ Head(ready) = RunTask /\ ready' = Tail(ready)
  /\ pc' = "done"
  /\ result' = "cancelled"
  /\ UNCHANGED <<cancel, failing, status, stopReason, final, events, userVars, vuVars, shown, pipeVars>>

(* metric_engine.stop(): clear the flag, put the sentinel ...              *)
StopMetrics ==
  /\ pc = "flush"
  /\ pc' = "joining"
  /\ Pipe!StopPipe
  /\ UNCHANGED <<cancel, failing, outcomeVars, userVars, vuVars, loopVars>>

(* Wrong: no join.                                                          *)
JoinedAtOnce ==
  /\ pc = "joining"
  /\ pc' = "yield"
  /\ ready' = Append(ready, RunTask)
  /\ UNCHANGED <<cancel, failing, outcomeVars, userVars, vuVars, shown, pipeVars>>

(* Wrong: no sleep(0): the run goes on before the callbacks.                *)
JoinedWithoutYield ==
  /\ pc = "joining"
  /\ pipe = "closed" \/ JoinExpires
  /\ pc' = "yield"
  /\ ready' = <<RunTask>> \o ready
  /\ UNCHANGED <<cancel, failing, outcomeVars, userVars, vuVars, shown, pipeVars>>

(* ... and join; then sleep(0) queues the task behind the callbacks.       *)
Joined ==
  /\ pc = "joining"
  /\ pipe = "closed" \/ JoinExpires
  /\ pc' = "yield"
  /\ ready' = Append(ready, RunTask)
  /\ UNCHANGED <<cancel, failing, outcomeVars, userVars, vuVars, shown, pipeVars>>

(* get_latest_snapshot(), evaluate_thresholds() - whose verdict is left    *)
(* open -, the final status, "complete" and the None that ends the streams. *)
Finalize ==
  /\ pc = "yield" /\ cancel # "asked"
  /\ ready # <<>> /\ Head(ready) = RunTask
  /\ pc' = "done"
  /\ ready' = Tail(ready)
  /\ final' = latest
  /\ \E failed \in BOOLEAN :
       /\ failed => HasThresholds /\ latest # -1
       /\ status' = IF status # "PASSED" THEN status
                    ELSE IF failed THEN "THRESHOLD_FAILED"
                    ELSE IF abort THEN "STOPPED" ELSE "PASSED"
  /\ stopReason' = (status' = "STOPPED")
  /\ events' = events \o <<"complete", "end">>
  /\ result' = IF cancel = "raised" THEN "cancelled" ELSE status'
  /\ UNCHANGED <<cancel, failing, userVars, vuVars, shown, pipeVars>>

RunStep ==
  \/ BeginSetup \/ SetupOk \/ SetupRaises \/ CreateRaises \/ ExecuteEnds
  \/ TeardownOk \/ TeardownRaises \/ CancelLands \/ CancelCutsShort
  \/ StopMetrics \/ Joined \/ Finalize

-----------------------------------------------------------------------------
(* A VU: ConstantVUsExecutor._run_vu() and run_iteration().  The samples   *)
(* that one step emits count as one.                                       *)

othersOfVU == <<pc, cancel, outcomeVars, userVars, loopVars>>

Goes(v, where) == vu' = [vu EXCEPT ![v] = where]

(* The TaskGroups cancel the tasks of a run that fails or is cancelled.    *)
Cancelling == failing \/ cancel = "asked"

VuStarts(v) ==
  /\ pc = "execute" /\ vu[v] = "none" /\ ~Cancelling
  /\ Goes(v, "top")
  /\ Pipe!PutSample
  /\ UNCHANGED <<iterations, failing, othersOfVU>>

(* while loop.time() < deadline and not abort: ... wait_if_paused()         *)
VuLoops(v) ==
  /\ vu[v] = "top" /\ ~Cancelling
  /\ ~deadline /\ ~abort
  /\ iterations[v] < MaxIterations
  /\ IF paused
       THEN Goes(v, "gate") /\ UNCHANGED iterations
       ELSE Goes(v, "iter") /\ iterations' = [iterations EXCEPT ![v] = @ + 1]
  /\ UNCHANGED <<failing, pipeVars, othersOfVU>>

(* The gate's Event.wait() returns once the VU was woken, even if the gate *)
(* has been closed again since.                                            *)
VuPassesGate(v) ==
  /\ vu[v] = "woken" /\ ~Cancelling
  /\ Goes(v, "iter")
  /\ iterations' = [iterations EXCEPT ![v] = @ + 1]
  /\ UNCHANGED <<failing, pipeVars, othersOfVU>>

(* The iteration returns or raises, which is counted and swallowed.        *)
IterationEnds(v) ==
  /\ vu[v] = "iter" /\ ~Cancelling
  /\ Goes(v, "top")
  /\ Pipe!PutSample
  /\ UNCHANGED <<iterations, failing, othersOfVU>>

(* Closing a client in its finally clause raises, which is not swallowed,  *)
(* even if it was a cancellation that led there.                           *)
CleanupRaises(v) ==
  /\ vu[v] = "iter" /\ MayFail
  /\ Goes(v, "off")
  /\ failing' = TRUE
  /\ Pipe!PutSample
  /\ UNCHANGED <<iterations, othersOfVU>>

VuEnds(v) ==
  /\ vu[v] = "top" /\ ~Cancelling
  /\ deadline \/ abort
  /\ Goes(v, "off")
  /\ Pipe!PutSample
  /\ UNCHANGED <<iterations, failing, othersOfVU>>

VuCancelled(v) ==
  /\ pc = "execute" /\ Cancelling
  /\ vu[v] # "off"
  /\ Goes(v, "off")
  /\ IF vu[v] = "none" THEN UNCHANGED pipeVars ELSE Pipe!PutSample
  /\ UNCHANGED <<iterations, failing, othersOfVU>>

VuStep(v) ==
  \/ VuStarts(v) \/ VuLoops(v) \/ VuPassesGate(v) \/ IterationEnds(v)
  \/ CleanupRaises(v) \/ VuEnds(v) \/ VuCancelled(v)

-----------------------------------------------------------------------------
(* The holder of the RunController, the clock, the callbacks of the loop.  *)

othersOfUser == <<pc, failing, outcomeVars, iterations, loopVars, pipeVars>>

(* stop(), or SIGINT or SIGTERM while the handlers are installed.          *)
Stop ==
  /\ LoopRuns /\ ~abort
  /\ abort' = TRUE
  /\ UNCHANGED <<paused, deadline, vu, cancel, othersOfUser>>

Pause ==
  /\ LoopRuns /\ MayPause /\ ~paused
  /\ paused' = TRUE
  /\ UNCHANGED <<abort, deadline, vu, cancel, othersOfUser>>

(* Wrong: the gate opens, but nobody is woken.                              *)
ResumeWakesNobody ==
  /\ LoopRuns /\ paused
  /\ paused' = FALSE
  /\ UNCHANGED <<abort, deadline, vu, cancel, othersOfUser>>

(* resume() sets the gate's Event: every VU that waits at it is woken.     *)
Resume ==
  /\ LoopRuns /\ paused
  /\ paused' = FALSE
  /\ vu' = [v \in VU |-> IF vu[v] = "gate" THEN "woken" ELSE vu[v]]
  /\ UNCHANGED <<abort, deadline, cancel, othersOfUser>>

(* The task that awaits wait() is cancelled, and run_task with it (at most *)
(* once in a behaviour).                                                   *)
Cancel ==
  /\ LoopRuns /\ MayCancel /\ cancel = "no" /\ pc # "done"
  /\ cancel' = "asked"
  /\ UNCHANGED <<userVars, vu, othersOfUser>>

DeadlinePasses ==
  /\ pc = "execute" /\ ~deadline
  /\ deadline' = TRUE
  /\ UNCHANGED <<abort, paused, vu, cancel, othersOfUser>>

(* publish(SnapshotEvent), queued by publish_threadsafe().                 *)
PublishSnapshot ==
  /\ LoopRuns
  /\ ready # <<>> /\ Head(ready) # RunTask
  /\ shown' = Head(ready)
  /\ ready' = Tail(ready)
  /\ UNCHANGED <<pc, cancel, failing, outcomeVars, userVars, vuVars, pipeVars>>

-----------------------------------------------------------------------------
(* The metric thread, with on_snapshot = publish_threadsafe().             *)

othersOfMetrics == <<pc, cancel, failing, outcomeVars, userVars, vuVars, shown>>

MetricsIngest == Pipe!IngestSample /\ UNCHANGED <<ready, othersOfMetrics>>

MetricsSnapshot ==
  /\ Len(ready) < MaxReady
  /\ Pipe!Snapshot
  /\ ready' = Append(ready, latest')
  /\ UNCHANGED othersOfMetrics

MetricsClose ==
  /\ Pipe!ClosePipe
  /\ ready' = Append(ready, latest')
  /\ UNCHANGED othersOfMetrics

MetricsStep == MetricsIngest \/ MetricsSnapshot \/ MetricsClose

Next ==
  \/ RunStep
  \/ \E v \in VU : VuStep(v)
  \/ Stop \/ Pause \/ Resume \/ Cancel \/ DeadlinePasses \/ PublishSnapshot
  \/ MetricsStep

(* The event loop runs every task and callback that is ready, setup,       *)
(* teardown and iterations return, time passes, and the metric thread      *)
(* drains its queue.  Users have to do nothing.                            *)
Fairness ==
  /\ WF_vars(RunStep)
  /\ \A v \in VU : WF_vars(VuStep(v))
  /\ WF_vars(DeadlinePasses) /\ WF_vars(PublishSnapshot)
  /\ WF_vars(MetricsIngest) /\ WF_vars(MetricsClose)

Spec == Init /\ [][Next]_vars /\ Fairness

-----------------------------------------------------------------------------
(* Properties.                                                             *)

TypeOK ==
  /\ pc \in {"created", "setup", "execute", "teardown", "flush", "joining", "yield", "done"}
  /\ status \in Lifecycle!Status
  /\ cancel \in {"no", "asked", "raised"}
  /\ {stopReason, failing, abort, paused, deadline} \subseteq BOOLEAN
  /\ vu \in [VU -> {"none", "top", "gate", "woken", "iter", "off"}]
  /\ iterations \in [VU -> Nat]
  /\ ready \in Seq(Int)
  /\ shown \in Int /\ final \in Int
  /\ events \in Seq(Lifecycle!Phases \cup {"end"})
  /\ result \in Lifecycle!Status \cup {"none", "cancelled"}
  /\ Pipe!PipeTypeOK

Working == {"top", "gate", "woken", "iter"}
Ended   == "end" \in Lifecycle!Announced

(* No VU is still at work once teardown was announced or the metrics are   *)
(* being collected, however the execute phase ended (engine.py, the        *)
(* TaskGroup of _run(), and those of the executors).                       *)
NoWorkAfterExecute ==
  pc \notin {"created", "setup", "execute"} => \A v \in VU : vu[v] \notin Working

(* The snapshot of the result covers every sample any VU emitted: nothing  *)
(* is emitted after the pipeline was stopped, and all that was put before  *)
(* has been ingested (engine.py, the finally clause of _run()).            *)
FinalSnapshotCoversRun == Ended => final = put

(* The last SnapshotEvent before the end marker shows that same snapshot:  *)
(* the callback of the closing snapshot runs before _run() goes on, thanks *)
(* to its sleep(0).                                                        *)
FinalSnapshotShown == Ended => shown = final

(* A run that reports PASSED ran its whole duration, was not asked to stop *)
(* or cancelled before its status was decided, and lost no VU to an error. *)
PassedRanInFull ==
  [][(result # "PASSED" /\ result' = "PASSED") =>
        /\ deadline /\ ~abort /\ cancel = "no"
        /\ AllOff]_vars

(* The phases on the bus and the result are those of an orderly lifecycle. *)
ImplementsLifecycle == Lifecycle!LifecycleSpec

(* Every run comes to an end, provided no pause lasts forever.             *)
RunEnds == ([]<>~paused) => <>(result # "none")

(* RunController.stop() is documented as "Request graceful stop".          *)
StopEndsRun == abort ~> (result # "none")
=============================================================================
