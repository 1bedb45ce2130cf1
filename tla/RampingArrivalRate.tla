------------------------- MODULE RampingArrivalRate -------------------------
(***************************************************************************)
(* The ramping-arrival-rate executor (executors/ramping_arrival_rate.py).   *)
(* Iterations, semaphore and drops are those of ArrivalRate; the schedule   *)
(* is computed tick by tick: every tick is due an interval after the one    *)
(* before it, and the interval is that of the rate the stage has reached    *)
(* when the previous tick was taken.                                       *)
(*                                                                         *)
(* Rates are in tenths of an iteration per time_unit, the smallest the code *)
(* schedules; an interval is rounded down to a unit of the clock.           *)
(***************************************************************************)
EXTENDS ArrivalRate, Sequences

CONSTANTS
  StartRate, \* _start_rate
  Stages,    \* _stages: records of duration and target
  TimeUnit   \* _time_unit

ASSUME RampingArrivalRateAssumption ==
  /\ {StartRate, TimeUnit} \subseteq Nat \ {0}
  /\ Stages \in Seq([duration : Nat, target : Nat])

VARIABLES
  stage,      \* the stage of the for loop, 0 before the first
  stageStart, \* stage_start - start
  due,        \* target_time - start
  stageTick   \* history: tick when the stage began

stageVars == <<stage, stageStart, due, stageTick>>
rampVars  == <<vars, stageVars>>

RampInit ==
  /\ pc = "stage" /\ clock = 0 /\ tick = 0 /\ sem = MaxVUs
  /\ fresh = 0 /\ gate = 0 /\ woken = 0 /\ running = 0 /\ ended = 0
  /\ dropped = 0 /\ late = 0
  /\ abort = FALSE /\ paused = FALSE /\ cut = FALSE
  /\ stage = 0 /\ stageStart = 0 /\ due = 0 /\ stageTick = 0

RateBefore(i) == IF i = 1 THEN StartRate ELSE Stages[i - 1].target

(* time_unit / max(rate, 0.1), where rate is interpolated linearly.         *)
IntervalAt(i, elapsed) ==
  LET d == Stages[i].duration
      r == RateBefore(i) * d + (Stages[i].target - RateBefore(i)) * elapsed
  IN  (10 * TimeUnit * d) \div (IF r < d THEN d ELSE r)

-----------------------------------------------------------------------------
(* run().                                                                  *)

(* The next stage, or the end of the for loop.                             *)
LeaveStages ==
  /\ pc = "stage"
  /\ abort \/ stage = Len(Stages)
  /\ pc' = "left"
  /\ UNCHANGED <<clock, tick, sem, taskVars, dropped, userVars, late, stageVars>>

(* Wrong: the schedule of a stage goes on from that of the stage before.    *)
BeginStageBehind ==
  /\ pc = "stage" /\ ~abort /\ stage < Len(Stages)
  /\ stage' = stage + 1
  /\ stageStart' = clock /\ stageTick' = tick
  /\ pc' = "loop"
  /\ UNCHANGED <<clock, tick, sem, taskVars, dropped, userVars, late, due>>

BeginStage ==
  /\ pc = "stage" /\ ~abort /\ stage < Len(Stages)
  /\ stage' = stage + 1
  /\ stageStart' = clock /\ due' = clock /\ stageTick' = tick
  /\ pc' = "loop"
  /\ UNCHANGED <<clock, tick, sem, taskVars, dropped, userVars, late>>

(* The head of the while loop.                                             *)
EndStage ==
  /\ pc = "loop"
  /\ abort \/ clock - stageStart >= Stages[stage].duration
  /\ pc' = "stage"
  /\ UNCHANGED <<clock, tick, sem, taskVars, dropped, userVars, late, stageVars>>

ScheduleTick ==
  /\ pc = "loop" /\ ~abort
  /\ clock - stageStart < Stages[stage].duration
  /\ due' = due + IntervalAt(stage, clock - stageStart)
  /\ pc' = "scheduled"
  /\ UNCHANGED <<clock, tick, sem, taskVars, dropped, userVars, late, stage, stageStart, stageTick>>

(* now is read again; if now < target_time: await asyncio.sleep(...)        *)
AwaitTick ==
  /\ pc = "scheduled"
  /\ pc' = IF clock < due THEN "sleep" ELSE "arrive"
  /\ UNCHANGED <<clock, tick, sem, taskVars, dropped, userVars, late, stageVars>>

WakeAtTick ==
  /\ pc = "sleep" /\ ~cut
  /\ clock >= due
  /\ pc' = "arrive"
  /\ UNCHANGED <<clock, tick, sem, taskVars, dropped, userVars, late, stageVars>>

RampScheduler ==
  \/ LeaveStages \/ BeginStage \/ EndStage \/ ScheduleTick \/ AwaitTick \/ WakeAtTick
  \/ (Drop \/ AfterYield \/ Spawn \/ SchedulerCut) /\ UNCHANGED stageVars

(* Time passes; beyond the bound only until the next tick.                 *)
RampTick ==
  /\ clock < MaxTime \/ (pc = "sleep" /\ clock < due)
  /\ clock' = clock + 1
  /\ UNCHANGED <<pc, tick, sem, taskVars, dropped, userVars, late, stageVars>>

RampNext ==
  \/ RampScheduler \/ RampTick
  \/ (Iteration \/ Stop \/ Pause \/ Resume \/ Cancel) /\ UNCHANGED stageVars

RampFairness ==
  /\ WF_rampVars(RampScheduler) /\ WF_rampVars(RampTick)
  /\ WF_rampVars(IterationStarts /\ UNCHANGED stageVars)
  /\ WF_rampVars(PassesGate /\ UNCHANGED stageVars)
  /\ WF_rampVars(IterationEnds /\ UNCHANGED stageVars)
  /\ WF_rampVars(FreshCut /\ UNCHANGED stageVars)
  /\ WF_rampVars(WaiterCut /\ UNCHANGED stageVars)
  /\ WF_rampVars(IterationCut /\ UNCHANGED stageVars)

RampSpec == RampInit /\ [][RampNext]_rampVars /\ RampFairness

-----------------------------------------------------------------------------
(* Properties; SemaphoreExact, TicksAccounted, StopIsPrompt and            *)
(* ScenarioEnds of ArrivalRate are about this executor too.                *)

(* The shortest interval of a stage, at its higher rate.                   *)
Fastest(i) ==
  LET a == IntervalAt(i, 0)
      b == IntervalAt(i, Stages[i].duration)
  IN  IF a < b THEN a ELSE b

(* A stage never offers more load than its higher rate allows, whatever     *)
(* was late before it or in it: its n-th tick is not taken before n of the  *)
(* shortest intervals have passed, and only one tick is taken after its     *)
(* duration.  Neither a stage that overruns nor a held-up loop is made up   *)
(* for by a burst in the next stage.                                       *)
RampOnSchedule ==
  LET n == tick - stageTick IN
  (stage \in DOMAIN Stages /\ n > 0) =>
    /\ n * Fastest(stage) <= clock - stageStart
    /\ (n - 1) * Fastest(stage) < Stages[stage].duration
=============================================================================
