--------------------------- MODULE MCArrivalRate ---------------------------
(* Small instances of ArrivalRate and RampingArrivalRate for TLC: the        *)
(* executor is one or the other.                                           *)
EXTENDS RampingArrivalRate

VARIABLE executor

(* Its shortest interval is Interval, so that OnSchedule is about both.      *)
UpAndDown == <<[duration |-> 4, target |-> 10], [duration |-> 3, target |-> 0]>>

EInit ==
  \/ executor = "constant" /\ Init
       /\ stage = 0 /\ stageStart = 0 /\ due = 0 /\ stageTick = 0
  \/ executor = "ramping" /\ RampInit

ENext ==
  \/ executor = "constant" /\ Next /\ UNCHANGED <<stageVars, executor>>
  \/ executor = "ramping" /\ RampNext /\ UNCHANGED executor

evars == <<rampVars, executor>>

(* The fairness of both specifications: what is fair is the same, up to the  *)
(* scheduler.                                                              *)
Frozen == UNCHANGED <<stageVars, executor>>

ESpec ==
  /\ EInit /\ [][ENext]_evars
  /\ WF_evars(executor = "constant" /\ Scheduler /\ Frozen)
  /\ WF_evars(executor = "ramping" /\ RampScheduler /\ UNCHANGED executor)
  /\ WF_evars(executor = "constant" /\ Tick /\ Frozen)
  /\ WF_evars(executor = "ramping" /\ RampTick /\ UNCHANGED executor)
  /\ WF_evars(IterationStarts /\ Frozen) /\ WF_evars(PassesGate /\ Frozen)
  /\ WF_evars(IterationEnds /\ Frozen)
  /\ WF_evars(FreshCut /\ Frozen) /\ WF_evars(WaiterCut /\ Frozen)
  /\ WF_evars(IterationCut /\ Frozen)
=============================================================================
