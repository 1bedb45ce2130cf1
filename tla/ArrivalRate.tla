---------------------------- MODULE ArrivalRate ----------------------------
(***************************************************************************)
(* One constant-arrival-rate scenario (executors/constant_arrival_rate.py):  *)
(* a scheduler that starts an iteration at every tick of a fixed schedule,  *)
(* or drops it when all VUs are busy, and the iterations it has started.    *)
(*                                                                         *)
(* Scheduler and iterations are coroutines of one event loop: from one      *)
(* suspension to the next the scheduler keeps the loop to itself, while     *)
(* time goes on.  Iterations are alike, so they are counted by the place    *)
(* where they are.  Time is an integer; the loop may be late by any amount. *)
(***************************************************************************)
EXTENDS Integers

CONSTANTS
  Interval,  \* time_unit / rate
  Duration,  \* duration
  MaxVUs,    \* max_vus, the initial value of the semaphore
  MayCancel, \* the run may be cancelled, or another scenario may fail
  MayFail,   \* closing the clients of an iteration may raise
  MaxTime    \* bound: readings of the clock since the start

ASSUME ArrivalRateAssumption ==
  /\ {Interval, Duration, MaxVUs} \subseteq Nat \ {0}
  /\ MayCancel \in BOOLEAN /\ MayFail \in BOOLEAN
  /\ MaxTime \in Nat

VARIABLES
  pc,      \* the scheduler: at the "loop" test, asleep in "sleep" until its
           \* next tick, "arrive"s at it, in sleep(0) ("yield"), or has "left"
  clock,   \* loop.time() - start
  tick,    \* tick
  sem,     \* value of the semaphore
  fresh,   \* iterations: tasks that have not started,
  gate,    \*   that wait at the pause gate,
  woken,   \*   were woken from it,
  running, \*   run the user's function,
  ended,   \*   have ended and emitted "iterations"
  dropped, \* "dropped_iterations" samples
  abort,   \* abort_event
  paused,  \* the pause gate is closed
  cut,     \* the TaskGroup cancels its tasks and the scheduler
  late     \* history: ticks taken since abort was set

taskVars == <<fresh, gate, woken, running, ended>>
userVars == <<abort, paused, cut>>
vars == <<pc, clock, tick, sem, taskVars, dropped, userVars, late>>

Init ==
  /\ pc = "loop" /\ clock = 0 /\ tick = 0 /\ sem = MaxVUs
  /\ fresh = 0 /\ gate = 0 /\ woken = 0 /\ running = 0 /\ ended = 0
  /\ dropped = 0 /\ late = 0
  /\ abort = FALSE /\ paused = FALSE /\ cut = FALSE

target == tick * Interval

(* The scheduler is not suspended: no other coroutine runs.                *)
LoopIsFree == pc \in {"sleep", "yield", "left"}

-----------------------------------------------------------------------------
(* run().                                                                  *)

Leave ==
  /\ pc = "loop"
  /\ abort \/ clock >= Duration
  /\ pc' = "left"
  /\ UNCHANGED <<clock, tick, sem, taskVars, dropped, userVars, late>>

(* Wrong: a scheduler that does not wait for its tick.                      *)
NextTickAtOnce ==
  /\ pc = "loop"
  /\ ~abort /\ clock < Duration
  /\ pc' = "arrive"
  /\ UNCHANGED <<clock, tick, sem, taskVars, dropped, userVars, late>>

(* if now < target_time: await asyncio.sleep(target_time - now)            *)
NextTick ==
  /\ pc = "loop"
  /\ ~abort /\ clock < Duration
  /\ pc' = IF clock < target THEN "sleep" ELSE "arrive"
  /\ UNCHANGED <<clock, tick, sem, taskVars, dropped, userVars, late>>

Wake ==
  /\ pc = "sleep" /\ ~cut
  /\ clock >= target
  /\ pc' = "arrive"
  /\ UNCHANGED <<clock, tick, sem, taskVars, dropped, userVars, late>>

CountLate == late' = IF abort THEN late + 1 ELSE late

(* Wrong: no sample for a dropped iteration.                                *)
DropSilently ==
  /\ pc = "arrive" /\ sem = 0
  /\ CountLate
  /\ pc' = "yield"
  /\ UNCHANGED <<clock, tick, sem, taskVars, dropped, userVars>>

(* if sem.locked(): the iteration is dropped; sleep(0)                     *)
Drop ==
  /\ pc = "arrive" /\ sem = 0
  /\ dropped' = dropped + 1
  /\ CountLate
  /\ pc' = "yield"
  /\ UNCHANGED <<clock, tick, sem, taskVars, userVars>>

AfterYield ==
  /\ pc = "yield" /\ ~cut
  /\ tick' = tick + 1
  /\ pc' = "loop"
  /\ UNCHANGED <<clock, sem, taskVars, dropped, userVars, late>>

(* else: acquire - which does not suspend - and create the task.           *)
Spawn ==
  /\ pc = "arrive" /\ sem > 0
  /\ sem' = sem - 1
  /\ fresh' = fresh + 1
  /\ tick' = tick + 1
  /\ CountLate
  /\ pc' = "loop"
  /\ UNCHANGED <<clock, gate, woken, running, ended, dropped, userVars>>

(* CancelledError in one of the two sleeps: the body of the TaskGroup ends, *)
(* and the TaskGroup cancels its tasks.                                    *)
SchedulerCut ==
  /\ cut /\ pc \in {"sleep", "yield"}
  /\ pc' = "left"
  /\ UNCHANGED <<clock, tick, sem, taskVars, dropped, userVars, late>>

Scheduler == Leave \/ NextTick \/ Wake \/ Drop \/ AfterYield \/ Spawn \/ SchedulerCut

-----------------------------------------------------------------------------
(* _run_iteration().                                                       *)

schedulerVars == <<pc, clock, tick, dropped, late>>

IterationStarts ==
  /\ LoopIsFree /\ ~cut
  /\ fresh > 0 /\ fresh' = fresh - 1
  /\ IF paused THEN gate' = gate + 1 /\ UNCHANGED running
               ELSE running' = running + 1 /\ UNCHANGED gate
  /\ UNCHANGED <<sem, woken, ended, userVars, schedulerVars>>

PassesGate ==
  /\ LoopIsFree /\ ~cut
  /\ woken > 0 /\ woken' = woken - 1
  /\ running' = running + 1
  /\ UNCHANGED <<sem, fresh, gate, ended, userVars, schedulerVars>>

(* Wrong: the semaphore is not released.                                    *)
IterationEndsUnreleased ==
  /\ LoopIsFree /\ ~cut
  /\ running > 0 /\ running' = running - 1
  /\ ended' = ended + 1
  /\ UNCHANGED <<sem, fresh, gate, woken, userVars, schedulerVars>>

(* The user's function returns or raises, and the semaphore is released.   *)
IterationEnds ==
  /\ LoopIsFree /\ ~cut
  /\ running > 0 /\ running' = running - 1
  /\ ended' = ended + 1
  /\ sem' = sem + 1
  /\ UNCHANGED <<fresh, gate, woken, userVars, schedulerVars>>

(* A close() raises: released too, but not counted; the TaskGroup aborts.  *)
CleanupRaises ==
  /\ LoopIsFree /\ MayFail
  /\ running > 0 /\ running' = running - 1
  /\ sem' = sem + 1
  /\ cut' = TRUE
  /\ UNCHANGED <<fresh, gate, woken, ended, abort, paused, schedulerVars>>

(* A task that is cancelled before it has started never reaches the finally *)
(* clause that releases the semaphore.                                     *)
FreshCut ==
  /\ LoopIsFree /\ cut /\ fresh > 0 /\ fresh' = fresh - 1
  /\ UNCHANGED <<sem, gate, woken, running, ended, userVars, schedulerVars>>

WaiterCut ==
  /\ LoopIsFree /\ cut
  /\ \/ gate > 0 /\ gate' = gate - 1 /\ UNCHANGED woken
     \/ woken > 0 /\ woken' = woken - 1 /\ UNCHANGED gate
  /\ sem' = sem + 1
  /\ UNCHANGED <<fresh, running, ended, userVars, schedulerVars>>

IterationCut ==
  /\ LoopIsFree /\ cut
  /\ running > 0 /\ running' = running - 1
  /\ ended' = ended + 1
  /\ sem' = sem + 1
  /\ UNCHANGED <<fresh, gate, woken, userVars, schedulerVars>>

Iteration ==
  \/ IterationStarts \/ PassesGate \/ IterationEnds \/ CleanupRaises
  \/ FreshCut \/ WaiterCut \/ IterationCut

-----------------------------------------------------------------------------
(* The holder of the run, and the clock.                                   *)

Stop ==
  /\ LoopIsFree /\ ~abort /\ abort' = TRUE
  /\ UNCHANGED <<paused, cut, sem, taskVars, schedulerVars>>

Pause ==
  /\ LoopIsFree /\ ~paused /\ paused' = TRUE
  /\ UNCHANGED <<abort, cut, sem, taskVars, schedulerVars>>

(* Wrong: the gate opens, but nobody is woken.                              *)
ResumeWakesNobody ==
  /\ LoopIsFree /\ paused /\ paused' = FALSE
  /\ UNCHANGED <<abort, cut, sem, taskVars, schedulerVars>>

Resume ==
  /\ LoopIsFree /\ paused /\ paused' = FALSE
  /\ gate' = 0 /\ woken' = woken + gate
  /\ UNCHANGED <<abort, cut, sem, fresh, running, ended, schedulerVars>>

Cancel ==
  /\ LoopIsFree /\ MayCancel /\ ~cut /\ cut' = TRUE
  /\ UNCHANGED <<abort, paused, sem, taskVars, schedulerVars>>

Tick ==
  /\ clock < MaxTime /\ clock' = clock + 1
  /\ UNCHANGED <<pc, tick, sem, taskVars, dropped, userVars, late>>

Next == Scheduler \/ Iteration \/ Stop \/ Pause \/ Resume \/ Cancel \/ Tick

(* Tasks that are ready run, iterations return, time passes.               *)
Fairness ==
  /\ WF_vars(Scheduler) /\ WF_vars(Tick)
  /\ WF_vars(IterationStarts) /\ WF_vars(PassesGate) /\ WF_vars(IterationEnds)
  /\ WF_vars(FreshCut) /\ WF_vars(WaiterCut) /\ WF_vars(IterationCut)

Spec == Init /\ [][Next]_vars /\ Fairness

-----------------------------------------------------------------------------
(* Properties.                                                             *)

TypeOK ==
  /\ pc \in {"loop", "sleep", "arrive", "yield", "left"}
  /\ {clock, tick, sem, fresh, gate, woken, running, ended, dropped, late} \subseteq Nat
  /\ {abort, paused, cut} \subseteq BOOLEAN

InFlight == fresh + gate + woken + running

(* The semaphore is what it stands for: as long as the TaskGroup is not     *)
(* aborted, its value and the iterations in flight make up max_vus, so that *)
(* an iteration is dropped only while max_vus of them are in flight, and    *)
(* there never are more.                                                   *)
SemaphoreExact ==
  /\ ~cut => sem + InFlight = MaxVUs
  /\ sem + InFlight <= MaxVUs

(* Every tick of the schedule is an iteration in flight, one that has       *)
(* ended, or one that was dropped, never two of these.                     *)
TicksAccounted ==
  ~cut => InFlight + ended + dropped = tick + (IF pc = "yield" THEN 1 ELSE 0)

(* No tick is taken ahead of its time, and only one can be taken after the  *)
(* duration is over: a slow start is caught up, but never overshoots.       *)
OnSchedule ==
  /\ tick > 0 => (tick - 1) * Interval <= clock
  /\ tick > 0 => (tick - 1) * Interval < Duration + Interval

(* stop() lets the scheduler take at most the one tick it sleeps for.      *)
StopIsPrompt == late <= 1

(* The executor ends: the scheduler leaves and no iteration is left over,   *)
(* unless a pause lasts forever.                                           *)
ScenarioEnds == ([]<>~paused) => <>(pc = "left" /\ InFlight = 0)
=============================================================================
