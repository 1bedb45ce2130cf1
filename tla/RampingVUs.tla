----------------------------- MODULE RampingVUs -----------------------------
(***************************************************************************)
(* One ramping-vus scenario (executors/ramping_vus.py): a scheduler that    *)
(* walks through the stages in steps and adds VUs as the interpolated       *)
(* number rises, and the VUs, which are tasks of their own outside any      *)
(* TaskGroup.  After the last step it cancels the VUs one by one.           *)
(*                                                                         *)
(* Scheduler and VUs are coroutines of one event loop.  How long a step or  *)
(* an iteration takes is left open.                                         *)
(***************************************************************************)
EXTENDS Integers, Sequences, FiniteSets, FiniteSetsExt

CONSTANTS
  VU,        \* names for the tasks that are alive at the same time
  NoVU,      \* none of them
  StartVUs,  \* vus
  Stages,    \* sequence of [steps, target]; steps = max(int(duration * 2), 1)
  MayCancel, \* the run may be cancelled, or another scenario may fail
  MayFail    \* closing the clients of an iteration may raise

From(s) == IF s = 1 THEN StartVUs ELSE Stages[s - 1].target

ASSUME RampingVUsAssumption ==
  /\ IsFiniteSet(VU) /\ NoVU \notin VU
  /\ StartVUs \in 0 .. Cardinality(VU)
  /\ Stages \in Seq([steps : Nat \ {0}, target : 0 .. Cardinality(VU)])
  /\ MayCancel \in BOOLEAN /\ MayFail \in BOOLEAN

VARIABLES
  pc,      \* the scheduler: at a "step", in "sleep", at the head of the final
           \* loop ("reap"), in "await" of a task there, or out of run():
           \* "done", "raised" or "cut" by a cancellation
  stage,   \* index of the stage
  step,    \* step
  vu,      \* each task: "none", "new", at the "gate", "woken", "iter"ating
  todo,    \* the rest of list(tasks) in the final loop
  awaited, \* the task that is cancelled and awaited
  broken,  \* the awaited task has raised something else than CancelledError
  crashed, \* history: a VU died of an exception since the last step
  abort,   \* abort_event
  paused,  \* the pause gate is closed
  cut      \* the run has cancelled the scheduler

userVars == <<abort, paused, cut>>
vars == <<pc, stage, step, vu, todo, awaited, broken, crashed, userVars>>

Live == {v \in VU : vu[v] # "none"}

Init ==
  /\ pc = "step" /\ stage = 1 /\ step = 0
  /\ vu = [v \in VU |-> "none"]
  /\ todo = {} /\ awaited = NoVU /\ broken = FALSE /\ crashed = FALSE
  /\ abort = FALSE /\ paused = FALSE /\ cut = FALSE

LoopIsFree == pc \notin {"step", "reap"}

-----------------------------------------------------------------------------
(* run().                                                                  *)

(* int(current_vus + vu_diff_per_step * (step + 1)), in exact arithmetic.   *)
Desired(s, k) ==
  (From(s) * Stages[s].steps + (Stages[s].target - From(s)) * (k + 1)) \div Stages[s].steps

(* Wrong: tasks that are not in an iteration are taken for missing.         *)
StepMiscounts ==
  /\ pc = "step" /\ stage <= Len(Stages) /\ ~abort
  /\ \E new \in SUBSET (VU \ Live) :
       /\ Cardinality(new) =
            Max({0, Desired(stage, step) - Cardinality({v \in VU : vu[v] = "iter"})})
       /\ vu' = [v \in VU |-> IF v \in new THEN "new" ELSE vu[v]]
  /\ crashed' = FALSE
  /\ pc' = "sleep"
  /\ UNCHANGED <<stage, step, todo, awaited, broken, userVars>>

(* The tasks that are missing are created; there is no branch for tasks    *)
(* that are too many.                                                      *)
Step ==
  /\ pc = "step" /\ stage <= Len(Stages) /\ ~abort
  /\ \E new \in SUBSET (VU \ Live) :
       /\ Cardinality(new) = Max({0, Desired(stage, step) - Cardinality(Live)})
       /\ vu' = [v \in VU |-> IF v \in new THEN "new" ELSE vu[v]]
  /\ crashed' = FALSE
  /\ pc' = "sleep"
  /\ UNCHANGED <<stage, step, todo, awaited, broken, userVars>>

Wake ==
  /\ pc = "sleep" /\ ~cut
  /\ pc' = "step"
  /\ IF step + 1 < Stages[stage].steps
       THEN step' = step + 1 /\ UNCHANGED stage
       ELSE step' = 0 /\ stage' = stage + 1
  /\ UNCHANGED <<vu, todo, awaited, broken, crashed, userVars>>

SchedulerCut ==
  /\ pc = "sleep" /\ cut
  /\ pc' = "cut"
  /\ UNCHANGED <<stage, step, vu, todo, awaited, broken, crashed, userVars>>

StagesEnd ==
  /\ pc = "step"
  /\ stage > Len(Stages) \/ abort
  /\ todo' = Live
  /\ pc' = "reap"
  /\ UNCHANGED <<stage, step, vu, awaited, broken, crashed, userVars>>

(* Wrong: the cancelled task is not awaited.                                *)
ReapUnawaited(v) ==
  /\ pc = "reap" /\ v \in todo \cap Live
  /\ todo' = todo \ {v}
  /\ UNCHANGED <<pc, awaited, stage, step, vu, broken, crashed, userVars>>

(* if not task.done(): task.cancel(); await task                           *)
Reap(v) ==
  /\ pc = "reap" /\ v \in todo \cap Live
  /\ todo' = todo \ {v}
  /\ awaited' = v
  /\ pc' = "await"
  /\ UNCHANGED <<stage, step, vu, broken, crashed, userVars>>

(* suppress(CancelledError) - the scheduler's own cancellation included.   *)
Reaped ==
  /\ pc = "await" /\ vu[awaited] = "none"
  /\ awaited' = NoVU
  /\ pc' = IF broken THEN "raised" ELSE "reap"
  /\ UNCHANGED <<stage, step, vu, todo, broken, crashed, userVars>>

ReapEnd ==
  /\ pc = "reap" /\ todo \cap Live = {}
  /\ pc' = "done"
  /\ UNCHANGED <<stage, step, vu, todo, awaited, broken, crashed, userVars>>

Scheduler ==
  \/ Step \/ Wake \/ SchedulerCut \/ StagesEnd
  \/ (\E v \in VU : Reap(v)) \/ Reaped \/ ReapEnd

-----------------------------------------------------------------------------
(* _run_vu(), a task that nobody but the final loop looks at.              *)

schedulerVars == <<pc, stage, step, todo, awaited>>

Enabled(v) == LoopIsFree /\ v # awaited

(* while not state.abort_event.is_set(): await run_iteration(state)        *)
Around(v) ==
  vu' = [vu EXCEPT ![v] = IF abort THEN "none" ELSE IF paused THEN "gate" ELSE "iter"]

VuStarts(v) ==
  /\ Enabled(v) /\ vu[v] = "new"
  /\ Around(v)
  /\ UNCHANGED <<broken, crashed, userVars, schedulerVars>>

PassesGate(v) ==
  /\ Enabled(v) /\ vu[v] = "woken"
  /\ vu' = [vu EXCEPT ![v] = "iter"]
  /\ UNCHANGED <<broken, crashed, userVars, schedulerVars>>

IterationEnds(v) ==
  /\ Enabled(v) /\ vu[v] = "iter"
  /\ Around(v)
  /\ UNCHANGED <<broken, crashed, userVars, schedulerVars>>

(* A close() raises: the task dies of it, and unless it is being awaited   *)
(* nobody notices.                                                         *)
CleanupRaises(v) ==
  /\ LoopIsFree /\ vu[v] = "iter" /\ MayFail
  /\ vu' = [vu EXCEPT ![v] = "none"]
  /\ crashed' = TRUE
  /\ broken' = (broken \/ v = awaited)
  /\ UNCHANGED <<userVars, schedulerVars>>

(* Wrong: a wait at the pause gate cannot be cancelled.                     *)
VuCancelledInIteration(v) ==
  /\ LoopIsFree /\ v = awaited /\ vu[v] \in {"new", "woken", "iter"}
  /\ vu' = [vu EXCEPT ![v] = "none"]
  /\ UNCHANGED <<broken, crashed, userVars, schedulerVars>>

VuCancelled(v) ==
  /\ LoopIsFree /\ v = awaited /\ vu[v] # "none"
  /\ vu' = [vu EXCEPT ![v] = "none"]
  /\ UNCHANGED <<broken, crashed, userVars, schedulerVars>>

VuStep(v) ==
  \/ VuStarts(v) \/ PassesGate(v) \/ IterationEnds(v)
  \/ CleanupRaises(v) \/ VuCancelled(v)

-----------------------------------------------------------------------------
(* The holder of the run.                                                  *)

Stop ==
  /\ LoopIsFree /\ ~abort /\ abort' = TRUE
  /\ UNCHANGED <<vu, broken, crashed, paused, cut, schedulerVars>>

Pause ==
  /\ LoopIsFree /\ ~paused /\ paused' = TRUE
  /\ UNCHANGED <<vu, broken, crashed, abort, cut, schedulerVars>>

Resume ==
  /\ LoopIsFree /\ paused /\ paused' = FALSE
  /\ vu' = [v \in VU |-> IF vu[v] = "gate" THEN "woken" ELSE vu[v]]
  /\ UNCHANGED <<broken, crashed, abort, cut, schedulerVars>>

Cancel ==
  /\ LoopIsFree /\ MayCancel /\ ~cut /\ cut' = TRUE
  /\ UNCHANGED <<vu, broken, crashed, abort, paused, schedulerVars>>

Next ==
  \/ Scheduler
  \/ \E v \in VU : VuStep(v)
  \/ Stop \/ Pause \/ Resume \/ Cancel

(* The scheduler's sleeps end and tasks that are ready run; an iteration    *)
(* may last as long as it likes, but a cancelled task ends.                *)
Fairness ==
  /\ WF_vars(Scheduler)
  /\ \A v \in VU : /\ WF_vars(VuStarts(v)) /\ WF_vars(PassesGate(v))
                   /\ WF_vars(VuCancelled(v))

Spec == Init /\ [][Next]_vars /\ Fairness

-----------------------------------------------------------------------------
(* Properties.                                                             *)

TypeOK ==
  /\ pc \in {"step", "sleep", "reap", "await", "done", "raised", "cut"}
  /\ stage \in 1 .. Len(Stages) + 1 /\ step \in Nat
  /\ stage <= Len(Stages) => step < Stages[stage].steps
  /\ vu \in [VU -> {"none", "new", "gate", "woken", "iter"}]
  /\ todo \subseteq VU /\ awaited \in VU \cup {NoVU}
  /\ {broken, crashed, abort, paused, cut} \subseteq BOOLEAN

(* run() does not return normally before every VU it has created is done,   *)
(* although VUs go on starting iterations while the others are reaped, and  *)
(* whether they end by cancellation, by stop() or by an exception.          *)
CleanExit == pc = "done" => Live = {}

(* The ramp never overshoots: no more VUs are alive than the largest target *)
(* among the stages begun so far, replacements of dead VUs included.        *)
NeverOvershoots == Live # {} =>
  \E s \in 1 .. stage : /\ s <= Len(Stages)
                        /\ \E n \in {Stages[s].target, From(s)} : Cardinality(Live) <= n

(* run() ends whatever happens, for a paused run too: it waits for nothing  *)
(* but tasks it has cancelled.                                             *)
RampEnds == <>(pc \in {"done", "raised", "cut"})
=============================================================================
