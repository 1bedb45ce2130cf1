---------------------------- MODULE RunRegistry ----------------------------
(***************************************************************************)
(* Runs that are started, stopped and asked for over MCP                    *)
(* (mcp/tools/runs.py, mcp/registry.py, with start() and RunController of   *)
(* engine.py).  Every run has four tasks on the event loop of the server:    *)
(* the engine's run_task, the wait_task on it, the event_task that drains    *)
(* its events into the record, and the task that completes the record.       *)
(*                                                                         *)
(* The loop is a queue: a task that becomes ready runs after those that      *)
(* were ready before it.  A tool call may come in between any two of them.  *)
(* Events are counted; of the engine there is left that it publishes them   *)
(* and ends, of the process that SIGINT has one handler.                    *)
(***************************************************************************)
EXTENDS Integers, Sequences, FiniteSetsExt

CONSTANTS
  Run,       \* the runs a client starts
  MaxSize,   \* maxsize of the queue of events
  MayRaise,  \* run_task may end with an exception that is no Exception
  MaxEvents  \* bound: events of a run

ASSUME RunRegistryAssumption ==
  /\ "none" \notin Run
  /\ MaxSize \in Nat \ {0} /\ MaxEvents \in Nat /\ MayRaise \in BOOLEAN

VARIABLES
  ready,     \* the loop's queue of ready tasks: pairs of a task and its run
  task,      \* per run: where the four tasks are - "none", "new", "waiting",
             \* "ready", "done"; run_task is "running" until it removes the
             \* signal handler, and "closing" in the sleep(0) after that
  outcome,   \* per run: what run_task came to: "none" yet, a status - "passed"
             \* stands for all of those but "stopped" - or "raised"
  abort,     \* per run: abort_event
  paused,    \* per run: the pause gate is closed
  queue,     \* per run: the primary queue, events and None
  published, \* history, per run: events published before the None
  lost,      \* history, per run: something was dropped from the queue
  runs,      \* _runs: the runs registered
  runtime,   \* the runs whose record has a runtime
  result,    \* per run: result of its record, "none" before
  events,    \* per run: how many events its record holds
  kept,      \* _background_tasks: the runs whose completion is referenced
  handler,   \* the run SIGINT stops, "none" for the default handler
  killed,    \* the default handler has interrupted the server
  beside     \* history: runs during which another run was active

engineVars == <<outcome, abort, paused, published, lost, handler, killed, beside>>
recordVars == <<runs, runtime, result, kept>>
vars == <<ready, task, queue, events, engineVars, recordVars>>

Tasks == {"run", "wait", "drain", "complete"}
Event == "event"
None  == "None"

Init ==
  /\ ready = <<>>
  /\ task = [r \in Run |-> [t \in Tasks |-> "none"]]
  /\ outcome = [r \in Run |-> "none"]
  /\ abort = [r \in Run |-> FALSE] /\ paused = [r \in Run |-> FALSE]
  /\ queue = [r \in Run |-> <<>>]
  /\ published = [r \in Run |-> 0] /\ lost = [r \in Run |-> FALSE]
  /\ runs = {} /\ runtime = {} /\ kept = {}
  /\ result = [r \in Run |-> "none"] /\ events = [r \in Run |-> 0]
  /\ handler = "none" /\ killed = FALSE /\ beside = {}

Active == {r \in Run : task[r]["run"] \notin {"none", "done"}}

(* A task that waits is made ready, at the end of the queue.               *)
Woken(r, t, tasks) == [tasks EXCEPT ![r][t] = IF @ = "waiting" THEN "ready" ELSE @]
Wakes(r, t) == IF task[r][t] = "waiting" THEN <<<<t, r>>>> ELSE <<>>

----------------------------------------------------------------------------
(* start_run_impl(): without a suspension, so that all the tasks begin      *)
(* after it, in the order in which they were created.                      *)
Order(r) == <<<<"run", r>>, <<"wait", r>>, <<"drain", r>>, <<"complete", r>>>>

StartRun(r) ==
  /\ ~killed /\ task[r]["run"] = "none"
  /\ task' = [task EXCEPT ![r] = [t \in Tasks |-> "new"]]
  /\ ready' = ready \o Order(r)
  /\ handler' = r
  /\ runs' = runs \cup {r} /\ runtime' = runtime \cup {r} /\ kept' = kept \cup {r}
  /\ beside' = IF Active = {} THEN beside ELSE beside \cup Active \cup {r}
  /\ UNCHANGED <<queue, events, outcome, abort, paused, published, lost, killed, result>>

(* bus.publish(), of one item after the other: dropped if the queue is full, *)
(* or nobody drains it any more.                                           *)
Queued(r, items) ==
  IF task[r]["drain"] = "done" THEN queue[r]
  ELSE SubSeq(queue[r] \o items, 1, Min({MaxSize, Len(queue[r]) + Len(items)}))

Put(r, items) ==
  /\ queue' = [queue EXCEPT ![r] = Queued(r, items)]
  /\ lost' = [lost EXCEPT ![r] =
       @ \/ (task[r]["drain"] # "done" /\ Len(queue[r]) + Len(items) > MaxSize)]

(* The drain is made ready by the first item.                              *)
Drains(r) == queue'[r] # queue[r]

WakesDrain(r) ==
  /\ ready' = ready \o (IF Drains(r) THEN Wakes(r, "drain") ELSE <<>>)
  /\ task' = IF Drains(r) THEN Woken(r, "drain", task) ELSE task

(* Phases, snapshots, thresholds: whatever the running engine publishes.    *)
EngineEvent(r) ==
  /\ ~killed /\ task[r]["run"] \in {"running", "closing"}
  /\ published[r] < MaxEvents
  /\ published' = [published EXCEPT ![r] = @ + 1]
  /\ Put(r, <<Event>>) /\ WakesDrain(r)
  /\ UNCHANGED <<events, outcome, abort, paused, handler, killed, beside, recordVars>>

(* The finally of Engine._run() up to its await: the handler is removed, the  *)
(* metric engine stopped, and in sleep(0) the run goes to the end of the    *)
(* loop's queue.  Meanwhile SIGINT has its default handler, and tools are    *)
(* answered.                                                               *)
ShutsDown(r) ==
  /\ ~killed /\ task[r]["run"] = "running"
  /\ handler' = "none"
  /\ task' = [task EXCEPT ![r]["run"] = "closing"]
  /\ ready' = Append(ready, <<"run", r>>)
  /\ UNCHANGED <<queue, events, outcome, abort, paused, published, lost, killed, beside, recordVars>>

----------------------------------------------------------------------------
(* The loop runs the task at the head of its queue.                        *)
First(t, r) == ~killed /\ ready # <<>> /\ Head(ready) = <<t, r>>

RunBegins(r) ==
  /\ First("run", r) /\ task[r]["run"] = "new"
  /\ task' = [task EXCEPT ![r]["run"] = "running"]
  /\ ready' = Tail(ready)
  /\ UNCHANGED <<queue, events, engineVars, recordVars>>

(* The rest of _run() after its sleep(0): the status is settled, the last    *)
(* items are published, and the task that waits is made ready.             *)
Ends(r, last) ==
  /\ First("run", r) /\ task[r]["run"] = "closing"
  /\ \E end \in {"passed"} \cup (IF abort[r] THEN {"stopped"} ELSE {})
                          \cup (IF MayRaise THEN {"raised"} ELSE {}) :
       outcome' = [outcome EXCEPT ![r] = end]
  /\ published' = [published EXCEPT ![r] = @ + 1]
  /\ Put(r, last)
  /\ LET drained == IF Drains(r) THEN Woken(r, "drain", task) ELSE task
     IN  task' = Woken(r, "wait", [drained EXCEPT ![r]["run"] = "done"])
  /\ ready' = Tail(ready) \o (IF Drains(r) THEN Wakes(r, "drain") ELSE <<>>) \o Wakes(r, "wait")
  /\ UNCHANGED <<events, abort, paused, handler, killed, beside, recordVars>>

(* Wrong: the complete event comes after the None.                          *)
EngineEndsTooSoon(r) == Ends(r, <<None, Event>>)

(* The complete event, then None.                                          *)
EngineEnds(r) == Ends(r, <<Event, None>>)

(* wait_task: await run_task.                                              *)
WaitRuns(r) ==
  /\ First("wait", r)
  /\ IF task[r]["run"] = "done"
       THEN /\ task' = Woken(r, "complete", [task EXCEPT ![r]["wait"] = "done"])
            /\ ready' = Tail(ready) \o Wakes(r, "complete")
       ELSE /\ task' = [task EXCEPT ![r]["wait"] = "waiting"]
            /\ ready' = Tail(ready)
  /\ UNCHANGED <<queue, events, engineVars, recordVars>>

(* _drain_events(): everything in the queue, up to the None.  Without a     *)
(* runtime there is nothing to drain.                                      *)
DrainRuns(r) ==
  /\ First("drain", r)
  /\ ready' = Tail(ready)
  /\ IF task[r]["drain"] = "new" /\ r \notin runtime
       THEN task' = [task EXCEPT ![r]["drain"] = "done"] /\ UNCHANGED <<queue, events>>
     ELSE LET ends == {i \in DOMAIN queue[r] : queue[r][i] = None} IN
       /\ queue' = [queue EXCEPT ![r] = <<>>]
       /\ events' = [events EXCEPT ![r] = @ +
            (IF ends = {} THEN Len(queue[r]) ELSE (CHOOSE i \in ends : TRUE) - 1)]
       /\ task' = [task EXCEPT ![r]["drain"] = IF ends = {} THEN "waiting" ELSE "done"]
  /\ UNCHANGED <<engineVars, recordVars>>

(* Wrong: the record of a completed run keeps its runtime.                  *)
CompleteKeepsRuntime(r) ==
  /\ First("complete", r)
  /\ ready' = Tail(ready)
  /\ IF task[r]["wait"] # "done"
       THEN task' = [task EXCEPT ![r]["complete"] = "waiting"] /\ UNCHANGED <<kept, result>>
     ELSE /\ task' = [task EXCEPT ![r]["complete"] = "done"]
          /\ kept' = kept \ {r}
          /\ result' = [result EXCEPT ![r] = IF outcome[r] = "raised" THEN @ ELSE outcome[r]]
  /\ UNCHANGED <<queue, events, engineVars, runtime, runs>>

(* Wrong: the signal handler is removed with the runtime.                   *)
CompleteRemovesHandler(r) ==
  /\ First("complete", r)
  /\ ready' = Tail(ready)
  /\ IF task[r]["wait"] # "done"
       THEN /\ task' = [task EXCEPT ![r]["complete"] = "waiting"]
            /\ UNCHANGED <<kept, runtime, result, handler>>
     ELSE /\ task' = [task EXCEPT ![r]["complete"] = "done"]
          /\ kept' = kept \ {r} /\ runtime' = runtime \ {r}
          /\ result' = [result EXCEPT ![r] = outcome[r]]
          /\ handler' = "none"
  /\ UNCHANGED <<queue, events, outcome, abort, paused, published, lost, killed, beside, runs>>

(* Wrong: a run that is not over is not waited for.                         *)
CompleteUnawaited(r) ==
  /\ First("complete", r)
  /\ ready' = Tail(ready)
  /\ task' = [task EXCEPT ![r]["complete"] = "done"]
  /\ kept' = kept \ {r}
  /\ IF outcome[r] \in {"none", "raised"} THEN UNCHANGED <<runtime, result>>
     ELSE result' = [result EXCEPT ![r] = outcome[r]] /\ runtime' = runtime \ {r}
  /\ UNCHANGED <<queue, events, engineVars, runs>>

(* _wait_and_complete(): await wait_task, complete(), and the callback that  *)
(* discards the task.  When the wait raises the record stays as it is.      *)
CompleteRuns(r) ==
  /\ First("complete", r)
  /\ ready' = Tail(ready)
  /\ IF task[r]["wait"] # "done"
       THEN /\ task' = [task EXCEPT ![r]["complete"] = "waiting"]
            /\ UNCHANGED <<kept, runtime, result>>
     ELSE /\ task' = [task EXCEPT ![r]["complete"] = "done"]
          /\ kept' = kept \ {r}
          /\ IF outcome[r] = "raised" THEN UNCHANGED <<runtime, result>>
             ELSE /\ result' = [result EXCEPT ![r] = outcome[r]]
                  /\ runtime' = runtime \ {r}
  /\ UNCHANGED <<queue, events, engineVars, runs>>

Loop == \E r \in Run :
  RunBegins(r) \/ EngineEnds(r) \/ WaitRuns(r) \/ DrainRuns(r) \/ CompleteRuns(r)

----------------------------------------------------------------------------
(* The other tools; each is one step of the loop.  stop, pause and resume    *)
(* answer "already_completed" without a runtime.                           *)
ControlAnswers(r) == IF r \in runtime THEN "accepted" ELSE "already_completed"

(* get_status goes by the result, then by the runtime; list_runs,           *)
(* get_thresholds and the resources of runs and thresholds by the result;   *)
(* get_metrics and the resources of metrics take the snapshot of the result, *)
(* then that of the controller.                                            *)
ListAnswers(r)    == IF result[r] = "none" THEN "running" ELSE result[r]
StatusAnswers(r)  == IF result[r] = "none" /\ r \notin runtime THEN "unknown" ELSE ListAnswers(r)
MetricsAnswers(r) ==
  IF result[r] # "none" THEN "final" ELSE IF r \in runtime THEN "live" ELSE "empty"

StopRun(r) ==
  /\ ~killed /\ r \in runtime
  /\ abort' = [abort EXCEPT ![r] = TRUE]
  /\ UNCHANGED <<ready, task, queue, events, outcome, paused, published, lost,
                 handler, killed, beside, recordVars>>

PauseOrResume(r) ==
  /\ ~killed /\ r \in runtime /\ published[r] < MaxEvents
  /\ \E p \in BOOLEAN : paused' = [paused EXCEPT ![r] = p]
  /\ published' = [published EXCEPT ![r] = IF outcome[r] = "none" THEN @ + 1 ELSE @]
  /\ Put(r, <<Event>>) /\ WakesDrain(r)
  /\ UNCHANGED <<events, outcome, abort, handler, killed, beside, recordVars>>

(* SIGINT.                                                                 *)
Signal ==
  /\ ~killed
  /\ IF handler = "none" THEN killed' = TRUE /\ UNCHANGED abort
     ELSE abort' = [abort EXCEPT ![handler] = TRUE] /\ UNCHANGED killed
  /\ UNCHANGED <<ready, task, queue, events, outcome, paused, published, lost,
                 handler, beside, recordVars>>

Next ==
  \/ Loop \/ Signal
  \/ \E r \in Run : StartRun(r) \/ EngineEvent(r) \/ ShutsDown(r)
                    \/ StopRun(r) \/ PauseOrResume(r)

(* The loop turns, and a run that is not paused comes to its end.          *)
Spec ==
  /\ Init /\ [][Next]_vars
  /\ WF_vars(Loop)
  /\ \A r \in Run : WF_vars(~paused[r] /\ ShutsDown(r))

----------------------------------------------------------------------------
(* Properties.                                                             *)

(* A run that is shown as completed is so with the status the engine gave   *)
(* it and with all of its events: the drain, two steps ahead of the wait,   *)
(* has read the last of them before the record is completed, unless the     *)
(* queue overflowed (_drain_events(), _wait_and_complete()).                *)
CompletedIsRecorded ==
  \A r \in Run : result[r] # "none" =>
    /\ result[r] = outcome[r]
    /\ ~lost[r] => events[r] = published[r]

(* The tools agree on whether a run is over, although some go by the         *)
(* runtime of the record and some by its result, and none ever takes back    *)
(* what it has said: a run once completed is not running again, nor does it   *)
(* change its status (mcp/tools/, mcp/resources.py).                         *)
ToolsAgree ==
  [][\A r \in runs :
       /\ (ControlAnswers(r) = "accepted") = (StatusAnswers(r) = "running")
       /\ (MetricsAnswers(r) = "live") = (StatusAnswers(r) = "running")
       /\ StatusAnswers(r) = ListAnswers(r)
       /\ StatusAnswers(r) # "running" => StatusAnswers(r)' = StatusAnswers(r)]_vars

(* A run that is alone gets the SIGINT: the server is not interrupted        *)
(* during it, except in its own shutdown, for which it has given the handler *)
(* back.  Of two that overlap the first to shut down takes the handler of    *)
(* the other away (engine.py, start() and _run()).                         *)
SignalsStopLoneRuns == killed => \A r \in Active : r \in beside \/ task[r]["run"] = "closing"

(* A run is shown as completed in the end, unless it is paused for ever,     *)
(* the server is interrupted, or its engine raised: then the record says     *)
(* running for ever.                                                       *)
RunsComplete ==
  \A r \in Run : ([]<>~paused[r]) =>
    (task[r]["run"] = "running" ~> (result[r] # "none" \/ outcome[r] = "raised" \/ killed))
=============================================================================
