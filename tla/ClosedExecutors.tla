-------------------------- MODULE ClosedExecutors --------------------------
(***************************************************************************)
(* The execute phase of a run whose scenarios use the executors with an    *)
(* iteration budget, shared-iterations and per-vu-iterations, with the      *)
(* ExecutionState and run_iteration() they share (executors/__init__.py,    *)
(* executors/shared_iterations.py, executors/per_vu_iterations.py).         *)
(*                                                                         *)
(* VUs are coroutines of one event loop.  Between an await and the next one *)
(* nothing else runs, so an action takes a VU from one place where it can   *)
(* be suspended (not started, at the pause gate, in the user's function) to *)
(* the next, and has the whole body of the loop between them in it.         *)
(***************************************************************************)
EXTENDS Integers, Sequences, FiniteSets, FiniteSetsExt

CONSTANTS
  Scenario,  \* the scenarios of the run
  VU,        \* the VUs of all scenarios
  Home,      \* the scenario of each VU
  Shared,    \* the scenarios that use shared-iterations
  Budget,    \* iterations of each scenario: in total, or for each VU
  MayCancel, \* the run may be cancelled
  MayFail    \* closing the clients of an iteration may raise

ASSUME ClosedExecutorsAssumption ==
  /\ IsFiniteSet(VU) /\ IsFiniteSet(Scenario) /\ Scenario \cap VU = {}
  /\ Home \in [VU -> Scenario] /\ Shared \subseteq Scenario
  /\ \A s \in Scenario : \E v \in VU : Home[v] = s  \* config.vus or 1
  /\ Budget \in [Scenario -> Nat \ {0}]
  /\ MayCancel \in BOOLEAN /\ MayFail \in BOOLEAN

VARIABLES
  vu,       \* "new", at the "gate", "woken" from it, "iter"ating, "off"
  left,     \* remaining of a shared pool, or of the range() of one VU
  started,  \* _iteration_counter of each scenario
  ended,    \* "iterations" samples of each scenario
  active,   \* _active_vus
  peak,     \* _peak_vus
  vus,      \* the newest "vus" sample under each scenario's tag, -1 before
  vusMax,   \* the newest "vus_max" sample under each tag, -1 before
  raised,   \* the scenarios whose TaskGroup has seen an exception
  abort,    \* abort_event
  paused,   \* the pause gate is closed
  cancel    \* the TaskGroup of the run cancels the executors

stateVars == <<active, peak, vus, vusMax>>
userVars  == <<abort, paused, cancel>>
vars == <<vu, left, started, ended, stateVars, raised, userVars>>

Team(s) == {v \in VU : Home[v] = s}

(* The counter a VU takes its iterations from.                             *)
Pool == Shared \cup {v \in VU : Home[v] \notin Shared}
PoolOf(v) == IF Home[v] \in Shared THEN Home[v] ELSE v

Init ==
  /\ vu = [v \in VU |-> "new"]
  /\ left = [p \in Pool |-> Budget[IF p \in Scenario THEN p ELSE Home[p]]]
  /\ started = [s \in Scenario |-> 0] /\ ended = [s \in Scenario |-> 0]
  /\ active = [s \in Scenario |-> 0] /\ peak = [s \in Scenario |-> 0]
  /\ vus = [s \in Scenario |-> -1] /\ vusMax = [s \in Scenario |-> -1]
  /\ raised = {}
  /\ abort = FALSE /\ paused = FALSE /\ cancel = FALSE

-----------------------------------------------------------------------------
(* ExecutionState.                                                         *)

Highest(a, b) == IF a >= b THEN a ELSE b

(* vu_started(), which emits "vus", and "vus_max" when the peak rises.     *)
CountUp(s) ==
  /\ active' = [active EXCEPT ![s] = @ + 1]
  /\ peak' = [peak EXCEPT ![s] = Highest(@, active'[s])]
  /\ vus' = [vus EXCEPT ![s] = active'[s]]
  /\ vusMax' = [vusMax EXCEPT ![s] = IF active'[s] > peak[s] THEN active'[s] ELSE @]

(* vu_stopped().                                                           *)
CountDown(s) ==
  /\ active' = [active EXCEPT ![s] = @ - 1]
  /\ vus' = [vus EXCEPT ![s] = active'[s]]
  /\ UNCHANGED <<peak, vusMax>>

(* vu_started() and vu_stopped() of a VU that finds nothing to do.         *)
CountUpAndDown(s) ==
  /\ peak' = [peak EXCEPT ![s] = Highest(@, active[s] + 1)]
  /\ vus' = [vus EXCEPT ![s] = active[s]]
  /\ vusMax' = [vusMax EXCEPT ![s] = peak'[s]]
  /\ UNCHANGED active

-----------------------------------------------------------------------------
(* A VU.                                                                   *)

(* A task is cancelled by the TaskGroup of its executor or by the run's.   *)
Cancelled(v) == cancel \/ Home[v] \in raised

(* while remaining > 0 and not state.abort_event.is_set(): ...             *)
GoesOn(v) == left[PoolOf(v)] > 0 /\ ~abort

(* ... claim an iteration, wait at the gate, make_worker().                *)
Claim(v) ==
  /\ left' = [left EXCEPT ![PoolOf(v)] = @ - 1]
  /\ vu' = [vu EXCEPT ![v] = IF paused THEN "gate" ELSE "iter"]
  /\ started' = IF paused THEN started ELSE [started EXCEPT ![Home[v]] = @ + 1]

Leaves(v) == vu' = [vu EXCEPT ![v] = "off"] /\ UNCHANGED <<left, started>>

VuStarts(v) ==
  /\ vu[v] = "new" /\ ~Cancelled(v)
  /\ \/ GoesOn(v) /\ Claim(v) /\ CountUp(Home[v])
     \/ ~GoesOn(v) /\ Leaves(v) /\ CountUpAndDown(Home[v])
  /\ UNCHANGED <<ended, raised, userVars>>

PassesGate(v) ==
  /\ vu[v] = "woken" /\ ~Cancelled(v)
  /\ vu' = [vu EXCEPT ![v] = "iter"]
  /\ started' = [started EXCEPT ![Home[v]] = @ + 1]
  /\ UNCHANGED <<left, ended, stateVars, raised, userVars>>

(* Wrong: an iteration that raises is not counted.                          *)
IterationEndsUncounted(v) ==
  /\ vu[v] = "iter" /\ ~Cancelled(v)
  /\ \E n \in 0 .. 1 : ended' = [ended EXCEPT ![Home[v]] = @ + n]
  /\ \/ GoesOn(v) /\ Claim(v) /\ UNCHANGED stateVars
     \/ ~GoesOn(v) /\ Leaves(v) /\ CountDown(Home[v])
  /\ UNCHANGED <<raised, userVars>>

(* The user's function returns or raises; either is counted in "iterations" *)
(* and the VU goes around its loop.                                        *)
IterationEnds(v) ==
  /\ vu[v] = "iter" /\ ~Cancelled(v)
  /\ ended' = [ended EXCEPT ![Home[v]] = @ + 1]
  /\ \/ GoesOn(v) /\ Claim(v) /\ UNCHANGED stateVars
     \/ ~GoesOn(v) /\ Leaves(v) /\ CountDown(Home[v])
  /\ UNCHANGED <<raised, userVars>>

(* Wrong: vu_stopped() is not in a finally clause.                          *)
CleanupRaisesUnstopped(v) ==
  /\ vu[v] = "iter" /\ MayFail
  /\ raised' = raised \cup {Home[v]}
  /\ Leaves(v)
  /\ UNCHANGED <<ended, stateVars, userVars>>

(* A close() in the finally clause raises: the iteration is not counted,   *)
(* and the TaskGroup of the executor cancels the other VUs of the scenario. *)
CleanupRaises(v) ==
  /\ vu[v] = "iter" /\ MayFail
  /\ raised' = raised \cup {Home[v]}
  /\ Leaves(v) /\ CountDown(Home[v])
  /\ UNCHANGED <<ended, userVars>>

(* CancelledError: a task that has not started never runs; an iteration is *)
(* counted even so.                                                        *)
VuCancelled(v) ==
  /\ vu[v] # "off" /\ Cancelled(v)
  /\ Leaves(v)
  /\ IF vu[v] = "new" THEN UNCHANGED stateVars ELSE CountDown(Home[v])
  /\ ended' = [ended EXCEPT ![Home[v]] = IF vu[v] = "iter" THEN @ + 1 ELSE @]
  /\ UNCHANGED <<raised, userVars>>

VuStep(v) ==
  \/ VuStarts(v) \/ PassesGate(v) \/ IterationEnds(v)
  \/ CleanupRaises(v) \/ VuCancelled(v)

(* The executor of a scenario raises once all its VUs are done: the        *)
(* TaskGroup of the run cancels the other executors.                       *)
ScenarioFails(s) ==
  /\ s \in raised /\ ~cancel
  /\ \A v \in Team(s) : vu[v] = "off"
  /\ cancel' = TRUE
  /\ UNCHANGED <<vu, left, started, ended, stateVars, raised, abort, paused>>

-----------------------------------------------------------------------------
(* The holder of the run.                                                  *)

othersOfUser == <<left, started, ended, stateVars, raised>>

Stop ==
  /\ ~abort /\ abort' = TRUE
  /\ UNCHANGED <<vu, paused, cancel, othersOfUser>>

Pause ==
  /\ ~paused /\ paused' = TRUE
  /\ UNCHANGED <<vu, abort, cancel, othersOfUser>>

Resume ==
  /\ paused /\ paused' = FALSE
  /\ vu' = [v \in VU |-> IF vu[v] = "gate" THEN "woken" ELSE vu[v]]
  /\ UNCHANGED <<abort, cancel, othersOfUser>>

Cancel ==
  /\ MayCancel /\ ~cancel /\ cancel' = TRUE
  /\ UNCHANGED <<vu, abort, paused, othersOfUser>>

Next ==
  \/ \E v \in VU : VuStep(v)
  \/ \E s \in Scenario : ScenarioFails(s)
  \/ Stop \/ Pause \/ Resume \/ Cancel

Spec == Init /\ [][Next]_vars

-----------------------------------------------------------------------------
(* Properties.                                                             *)

TypeOK ==
  /\ vu \in [VU -> {"new", "gate", "woken", "iter", "off"}]
  /\ left \in [Pool -> Nat]
  /\ started \in [Scenario -> Nat] /\ ended \in [Scenario -> Nat]
  /\ active \in [Scenario -> Nat] /\ peak \in [Scenario -> Nat]
  /\ vus \in [Scenario -> Nat \cup {-1}] /\ vusMax \in [Scenario -> Nat \cup {-1}]
  /\ raised \subseteq Scenario
  /\ abort \in BOOLEAN /\ paused \in BOOLEAN /\ cancel \in BOOLEAN

At(s, places) == {v \in Team(s) : vu[v] \in places}

(* The iterations a scenario was configured to run.                        *)
Total(s) == IF s \in Shared THEN Budget[s] ELSE Budget[s] * Cardinality(Team(s))

(* A scenario that was let run to its end has run exactly its iterations,  *)
(* and each of them, the failed ones included, is counted once - however   *)
(* often the run was paused in between.                                    *)
RanExactly ==
  \A s \in Scenario :
    (Team(s) = At(s, {"off"}) /\ ~abort /\ ~cancel /\ s \notin raised)
      => started[s] = Total(s) /\ ended[s] = Total(s)

(* Under the tag of its scenario, "vus" shows at any time how many VUs of  *)
(* the scenario are at work, down to 0 at the end, whatever ended them, and *)
(* "vus_max" the largest number that ever were.                            *)
GaugesExact ==
  \A s \in Scenario :
    LET working == Cardinality(At(s, {"gate", "woken", "iter"}))
    IN  /\ vus[s] = working \/ (vus[s] = -1 /\ working = 0)
        /\ vusMax[s] = peak[s] \/ (vusMax[s] = -1 /\ peak[s] = 0)
        /\ working <= peak[s] /\ peak[s] <= Cardinality(Team(s))
=============================================================================
