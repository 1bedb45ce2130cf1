---------------------------- MODULE EngineProofs ----------------------------
(***************************************************************************)
(* Proofs about Engine, for any set of VUs and any choice of what may       *)
(* happen to a run: types, that no VU outlives the execute phase, and what  *)
(* a run that reports PASSED has been through; and, as long as the join of  *)
(* the metric thread does not give up, that the snapshot of the result is   *)
(* complete and is the last one shown.                                     *)
(*                                                                         *)
(* And about Sinks, for any samples, metrics and thresholds: every          *)
(* statistic shown is that of the samples recorded so far, and a threshold  *)
(* is judged by them.  The two modules share no name, and are about the two *)
(* halves of the snapshot: when it is taken, and what it shows.            *)
(***************************************************************************)
EXTENDS Engine, Sinks, SequenceTheorems, FiniteSetTheorems, WellFoundedInduction, TLAPS

-----------------------------------------------------------------------------
(* Types.                                                                  *)

LEMMA TypeInit == Init => TypeOK
  <1> SUFFICES ASSUME Init PROVE TypeOK OBVIOUS
  <1>1. iterations \in [VU -> Nat]
    BY DEF Init
  <1>2. status \in Lifecycle!Status
    BY DEF Init, Lifecycle!Status
  <1>3. Pipe!PipeTypeOK
    BY DEF Init, Pipe!PipeInit, Pipe!PipeTypeOK
  <1>4. events \in Seq(Lifecycle!Phases \cup {"end"}) /\ ready \in Seq(Int)
    BY DEF Init
  <1>5. {stopReason, failing, abort, paused, deadline} \subseteq BOOLEAN
    BY DEF Init
  <1>6. /\ pc = "created" /\ cancel = "no" /\ result = "none" /\ shown = -1 /\ final = -1
        /\ vu \in [VU -> {"none", "top", "gate", "woken", "iter", "off"}]
    BY DEF Init
  <1> QED BY <1>1, <1>2, <1>3, <1>4, <1>5, <1>6 DEF TypeOK

LEMMA PhaseAppended ==
  ASSUME TypeOK, NEW phase \in Lifecycle!Phases, events' = Append(events, phase)
  PROVE  events' \in Seq(Lifecycle!Phases \cup {"end"})
  BY DEF TypeOK

LEMMA PipeTypes ==
  ASSUME Pipe!PipeTypeOK,
         \/ UNCHANGED pipeVars \/ Pipe!PutSample \/ Pipe!IngestSample
         \/ Pipe!Snapshot \/ Pipe!StopPipe \/ Pipe!ClosePipe
  PROVE  Pipe!PipeTypeOK'
  BY DEF Pipe!PipeTypeOK, pipeVars, Pipe!PutSample, Pipe!IngestSample,
         Pipe!Snapshot, Pipe!StopPipe, Pipe!ClosePipe

LEMMA TypeRun == ASSUME TypeOK, RunStep PROVE TypeOK'
  <1> USE DEF othersOfPhase, outcomeVars, userVars, vuVars, loopVars
  <1>0. Pipe!PipeTypeOK'
    <2>1. UNCHANGED pipeVars \/ Pipe!StopPipe
      BY DEF RunStep, BeginSetup, SetupOk, SetupRaises, CreateRaises, ExecuteEnds,
             TeardownOk, TeardownRaises, CancelLands, CancelCutsShort, StopMetrics,
             Joined, Finalize
    <2> QED BY <2>1, PipeTypes DEF TypeOK
  <1>1. CASE BeginSetup
    <2>1. events' \in Seq(Lifecycle!Phases \cup {"end"})
      BY <1>1, PhaseAppended DEF BeginSetup, Publish, Lifecycle!Phases
    <2> QED BY <1>0, <1>1, <2>1 DEF TypeOK, BeginSetup, Publish
  <1>2. CASE SetupOk
    <2>1. events' \in Seq(Lifecycle!Phases \cup {"end"})
      BY <1>2, PhaseAppended DEF SetupOk, Publish, Lifecycle!Phases
    <2> QED BY <1>0, <1>2, <2>1 DEF TypeOK, SetupOk, Publish
  <1>3. CASE SetupRaises
    <2>1. events' \in Seq(Lifecycle!Phases \cup {"end"})
      BY <1>3, PhaseAppended DEF SetupRaises, Publish, Lifecycle!Phases
    <2> QED BY <1>0, <1>3, <2>1 DEF TypeOK, SetupRaises, Publish, Lifecycle!Status
  <1>4. CASE CreateRaises
    BY <1>0, <1>4 DEF TypeOK, CreateRaises
  <1>5. CASE ExecuteEnds
    <2>1. events' \in Seq(Lifecycle!Phases \cup {"end"})
      BY <1>5, PhaseAppended DEF ExecuteEnds, Publish, Lifecycle!Phases
    <2>2. status' \in Lifecycle!Status
      BY <1>5 DEF TypeOK, ExecuteEnds, Lifecycle!Status
    <2> QED BY <1>0, <1>5, <2>1, <2>2 DEF TypeOK, ExecuteEnds, Publish
  <1>6. CASE TeardownOk
    BY <1>0, <1>6 DEF TypeOK, TeardownOk
  <1>7. CASE TeardownRaises
    <2>1. status' \in Lifecycle!Status
      BY <1>7 DEF TypeOK, TeardownRaises, Lifecycle!Status
    <2> QED BY <1>0, <1>7, <2>1 DEF TypeOK, TeardownRaises
  <1>8. CASE CancelLands
    BY <1>0, <1>8 DEF TypeOK, CancelLands
  <1>9. CASE CancelCutsShort
    <2>1. ready' \in Seq(Int)
      <3>1. CASE ready' = ready
        BY <3>1 DEF TypeOK
      <3>2. CASE ready # <<>> /\ ready' = Tail(ready)
        BY <3>2 DEF TypeOK
      <3> QED BY <1>9, <3>1, <3>2 DEF CancelCutsShort
    <2> QED BY <1>0, <1>9, <2>1 DEF TypeOK, CancelCutsShort
  <1>10. CASE StopMetrics
    BY <1>0, <1>10 DEF TypeOK, StopMetrics
  <1>11. CASE Joined
    <2>1. ready' \in Seq(Int)
      BY <1>11 DEF TypeOK, Joined, RunTask
    <2> QED BY <1>0, <1>11, <2>1 DEF TypeOK, Joined
  <1>12. CASE Finalize
    <2>1. ready' \in Seq(Int)
      BY <1>12 DEF TypeOK, Finalize
    <2>2. events' \in Seq(Lifecycle!Phases \cup {"end"})
      <3>1. <<"complete", "end">> \in Seq(Lifecycle!Phases \cup {"end"})
        BY DEF Lifecycle!Phases
      <3>2. events \in Seq(Lifecycle!Phases \cup {"end"})
        BY DEF TypeOK
      <3>3. events' = events \o <<"complete", "end">>
        BY <1>12 DEF Finalize
      <3> QED BY <3>1, <3>2, <3>3
    <2>3. status' \in Lifecycle!Status
      BY <1>12 DEF TypeOK, Finalize, Lifecycle!Status
    <2>4. stopReason' \in BOOLEAN /\ result' \in Lifecycle!Status \cup {"none", "cancelled"}
      BY <1>12, <2>3 DEF Finalize
    <2>5. final' \in Int
      BY <1>12 DEF TypeOK, Finalize, Pipe!PipeTypeOK
    <2>6. pc' = "done" /\ UNCHANGED <<cancel, failing, abort, paused, deadline, vu, iterations, shown>>
      BY <1>12 DEF Finalize
    <2> HIDE DEF othersOfPhase, outcomeVars, userVars, vuVars, loopVars
    <2> QED BY <1>0, <2>1, <2>2, <2>3, <2>4, <2>5, <2>6 DEF TypeOK
  <1> QED BY <1>1, <1>2, <1>3, <1>4, <1>5, <1>6, <1>7, <1>8, <1>9, <1>10, <1>11, <1>12
          DEF RunStep

LEMMA TypeVu == ASSUME TypeOK, NEW v \in VU, VuStep(v) PROVE TypeOK'
  <1> USE DEF othersOfVU, outcomeVars, userVars, loopVars
  <1>0. Pipe!PipeTypeOK'
    <2>1. UNCHANGED pipeVars \/ Pipe!PutSample
      BY DEF VuStep, VuStarts, VuLoops, VuPassesGate, IterationEnds, CleanupRaises,
             VuEnds, VuCancelled
    <2> QED BY <2>1, PipeTypes DEF TypeOK
  <1>1. vu' \in [VU -> {"none", "top", "gate", "woken", "iter", "off"}]
    BY DEF TypeOK, Goes, VuStep, VuStarts, VuLoops, VuPassesGate, IterationEnds,
           CleanupRaises, VuEnds, VuCancelled
  <1>2. iterations' \in [VU -> Nat]
    <2>1. CASE VuLoops(v)
      BY <2>1 DEF TypeOK, VuLoops
    <2>2. CASE VuPassesGate(v)
      BY <2>2 DEF TypeOK, VuPassesGate
    <2>3. CASE UNCHANGED iterations
      BY <2>3 DEF TypeOK
    <2> QED BY <2>1, <2>2, <2>3
            DEF VuStep, VuStarts, IterationEnds, CleanupRaises, VuEnds, VuCancelled
  <1>3. failing' \in BOOLEAN /\ UNCHANGED othersOfVU
    BY DEF TypeOK, VuStep, VuStarts, VuLoops, VuPassesGate, IterationEnds, CleanupRaises,
           VuEnds, VuCancelled
  <1> QED BY <1>0, <1>1, <1>2, <1>3 DEF TypeOK

OtherStep ==
  \/ Stop \/ Pause \/ Resume \/ Cancel \/ DeadlinePasses \/ PublishSnapshot \/ MetricsStep

LEMMA TypeOther == ASSUME TypeOK, OtherStep PROVE TypeOK'
  <1> USE DEF othersOfUser, othersOfMetrics, outcomeVars, userVars, loopVars, vuVars
  <1>0. Pipe!PipeTypeOK'
    <2>1. UNCHANGED pipeVars \/ Pipe!IngestSample \/ Pipe!Snapshot \/ Pipe!ClosePipe
      BY DEF OtherStep, Stop, Pause, Resume, Cancel, DeadlinePasses, PublishSnapshot,
             MetricsStep, MetricsIngest, MetricsSnapshot, MetricsClose
    <2> QED BY <2>1, PipeTypes DEF TypeOK
  <1>1. CASE Stop \/ Pause \/ Resume \/ Cancel \/ DeadlinePasses
    BY <1>0, <1>1 DEF TypeOK, Stop, Pause, Resume, Cancel, DeadlinePasses
  <1>2. CASE PublishSnapshot
    <2>1. ready' \in Seq(Int) /\ shown' \in Int
      BY <1>2 DEF TypeOK, PublishSnapshot
    <2> QED BY <1>0, <1>2, <2>1 DEF TypeOK, PublishSnapshot
  <1>3. CASE MetricsStep
    <2>1. latest' \in Int
      BY <1>0 DEF Pipe!PipeTypeOK
    <2>2. ready' \in Seq(Int)
      <3>1. CASE ready' = ready
        BY <3>1 DEF TypeOK
      <3>2. CASE ready' = Append(ready, latest')
        BY <2>1, <3>2 DEF TypeOK
      <3> QED BY <1>3, <3>1, <3>2
              DEF MetricsStep, MetricsIngest, MetricsSnapshot, MetricsClose
    <2> QED BY <1>0, <1>3, <2>2
            DEF TypeOK, MetricsStep, MetricsIngest, MetricsSnapshot, MetricsClose
  <1> QED BY <1>1, <1>2, <1>3 DEF OtherStep

(* Every variable keeps its type.                                          *)
THEOREM TypeCorrect == Spec => []TypeOK
  <1>1. TypeOK /\ [Next]_vars => TypeOK'
    <2> SUFFICES ASSUME TypeOK, [Next]_vars PROVE TypeOK' OBVIOUS
    <2>1. CASE UNCHANGED vars
      BY <2>1 DEF TypeOK, vars, outcomeVars, userVars, vuVars, loopVars, pipeVars,
                  Pipe!PipeTypeOK
    <2>2. CASE \E v \in VU : VuStep(v)
      BY <2>2, TypeVu
    <2> QED BY <2>1, <2>2, TypeRun, TypeOther DEF Next, OtherStep
  <1> QED BY <1>1, TypeInit, PTL DEF Spec

-----------------------------------------------------------------------------
(* No VU is at work outside the execute phase.                             *)

Calm ==
  /\ pc \in {"created", "setup"} => \A v \in VU : vu[v] = "none"
  /\ pc \notin {"created", "setup", "execute"} => \A v \in VU : vu[v] \in {"none", "off"}

LEMMA CalmRun == ASSUME TypeOK, Calm, RunStep PROVE Calm'
  BY DEF Calm, RunStep, BeginSetup, SetupOk, SetupRaises, CreateRaises, ExecuteEnds,
         TeardownOk, TeardownRaises, CancelLands, CancelCutsShort, StopMetrics, Joined,
         Finalize, othersOfPhase, vuVars, AllOff

(* A VU takes a step in the execute phase only.                            *)
LEMMA VuInExecute ==
  ASSUME Calm, NEW v \in VU, VuStep(v)
  PROVE  pc = "execute" /\ pc' = "execute"
  <1>1. pc = "execute"
    BY DEF Calm, VuStep, VuStarts, VuLoops, VuPassesGate, IterationEnds, CleanupRaises,
           VuEnds, VuCancelled
  <1>2. pc' = pc
    BY DEF VuStep, VuStarts, VuLoops, VuPassesGate, IterationEnds, CleanupRaises,
           VuEnds, VuCancelled, othersOfVU
  <1> QED BY <1>1, <1>2

LEMMA CalmOther == ASSUME TypeOK, Calm, OtherStep PROVE Calm'
  <1> USE DEF othersOfUser, othersOfMetrics, vuVars
  <1>1. pc' = pc
    BY DEF OtherStep, Stop, Pause, Resume, Cancel, DeadlinePasses, PublishSnapshot,
           MetricsStep, MetricsIngest, MetricsSnapshot, MetricsClose
  <1>2. CASE Resume
    BY <1>1, <1>2 DEF Calm, Resume, TypeOK
  <1>3. CASE ~Resume
    <2>1. vu' = vu
      BY <1>3 DEF OtherStep, Stop, Pause, Cancel, DeadlinePasses, PublishSnapshot,
                  MetricsStep, MetricsIngest, MetricsSnapshot, MetricsClose
    <2> QED BY <1>1, <2>1 DEF Calm
  <1> QED BY <1>2, <1>3

LEMMA CalmInductive == Spec => []Calm
  <1>1. Init => Calm
    BY DEF Init, Calm
  <1>2. TypeOK /\ Calm /\ [Next]_vars => Calm'
    <2> SUFFICES ASSUME TypeOK, Calm, [Next]_vars PROVE Calm' OBVIOUS
    <2>1. CASE UNCHANGED vars
      BY <2>1 DEF Calm, vars, vuVars
    <2>2. CASE \E v \in VU : VuStep(v)
      <3>1. pc' = "execute" BY <2>2, VuInExecute
      <3> QED BY <3>1 DEF Calm
    <2> QED BY <2>1, <2>2, CalmRun, CalmOther DEF Next, OtherStep
  <1> QED BY <1>1, <1>2, TypeCorrect, PTL DEF Spec

(* However the execute phase ends, no VU is at work after it.              *)
THEOREM NoWorkOutlivesExecute == Spec => []NoWorkAfterExecute
  <1>1. Calm => NoWorkAfterExecute
    BY DEF Calm, NoWorkAfterExecute, Working
  <1> QED BY <1>1, CalmInductive, PTL

-----------------------------------------------------------------------------
(* What lies behind a run that still may report PASSED.                    *)

Untroubled == status = "PASSED" /\ cancel = "no" /\ ~failing

Unhurried ==
  /\ (\E v \in VU : vu[v] = "off") => deadline \/ abort \/ ~Untroubled
  /\ (pc \in {"teardown", "flush", "joining", "yield"} /\ Untroubled) => AllOff
  /\ pc # "execute" => ~failing

LEMMA UnhurriedRun ==
  ASSUME TypeOK, Calm, Unhurried, RunStep PROVE Unhurried'
  <1> USE DEF othersOfPhase, outcomeVars, userVars, vuVars, Untroubled, AllOff
  <1>1. vu' = vu /\ abort' = abort /\ deadline' = deadline
    BY DEF RunStep, BeginSetup, SetupOk, SetupRaises, CreateRaises, ExecuteEnds,
           TeardownOk, TeardownRaises, CancelLands, CancelCutsShort, StopMetrics, Joined,
           Finalize
  <1>2. Untroubled' => Untroubled
    BY DEF TypeOK, RunStep, BeginSetup, SetupOk, SetupRaises, CreateRaises, ExecuteEnds,
           TeardownOk, TeardownRaises, CancelLands, CancelCutsShort, StopMetrics, Joined,
           Finalize, Publish
  <1>3. (pc' \in {"teardown", "flush", "joining", "yield"} /\ Untroubled') => AllOff
    <2>1. CASE ExecuteEnds
      BY <2>1 DEF ExecuteEnds
    <2>2. CASE SetupRaises \/ CancelLands
      BY <2>2 DEF SetupRaises, CancelLands
    <2>3. CASE BeginSetup \/ SetupOk \/ CreateRaises
      BY <1>2, <2>3 DEF BeginSetup, SetupOk, CreateRaises
    <2>4. CASE TeardownOk \/ TeardownRaises \/ CancelCutsShort \/ StopMetrics \/ Joined \/ Finalize
      BY <1>2, <2>4 DEF Unhurried, TeardownOk, TeardownRaises, CancelCutsShort, StopMetrics,
                        Joined, Finalize
    <2> QED BY <2>1, <2>2, <2>3, <2>4 DEF RunStep
  <1>4. pc' # "execute" => ~failing'
    BY DEF TypeOK, Unhurried, RunStep, BeginSetup, SetupOk, SetupRaises, CreateRaises,
           ExecuteEnds, TeardownOk, TeardownRaises, CancelLands, CancelCutsShort, StopMetrics,
           Joined, Finalize
  <1> HIDE DEF Untroubled
  <1> QED BY <1>1, <1>2, <1>3, <1>4 DEF Unhurried

LEMMA UnhurriedVu ==
  ASSUME TypeOK, Calm, Unhurried, NEW v \in VU, VuStep(v) PROVE Unhurried'
  <1> USE DEF othersOfVU, outcomeVars, userVars
  <1>1. pc' = "execute"
    BY VuInExecute
  <1>2. UNCHANGED <<abort, deadline, status, cancel>> /\ (failing' = failing \/ failing')
    BY DEF VuStep, VuStarts, VuLoops, VuPassesGate, IterationEnds, CleanupRaises,
           VuEnds, VuCancelled
  <1>3. Untroubled' => Untroubled
    BY <1>2 DEF Untroubled
  <1>4. CASE VuStarts(v) \/ VuLoops(v) \/ VuPassesGate(v) \/ IterationEnds(v)
    <2>1. \A w \in VU : vu'[w] = "off" => vu[w] = "off"
      BY <1>4 DEF TypeOK, VuStarts, VuLoops, VuPassesGate, IterationEnds, Goes
    <2> QED BY <1>1, <1>2, <1>3, <2>1 DEF Unhurried
  <1>5. CASE VuEnds(v)
    BY <1>1, <1>2, <1>5 DEF Unhurried, VuEnds
  <1>6. CASE CleanupRaises(v) \/ VuCancelled(v)
    <2>1. ~Untroubled'
      BY <1>2, <1>6 DEF CleanupRaises, VuCancelled, Cancelling, Untroubled
    <2> QED BY <1>1, <2>1 DEF Unhurried
  <1> QED BY <1>4, <1>5, <1>6 DEF VuStep

LEMMA UnhurriedOther ==
  ASSUME TypeOK, Unhurried, OtherStep PROVE Unhurried'
  <1> USE DEF othersOfUser, othersOfMetrics, outcomeVars, userVars, vuVars
  <1>1. pc' = pc /\ status' = status /\ failing' = failing
    BY DEF OtherStep, Stop, Pause, Resume, Cancel, DeadlinePasses, PublishSnapshot,
           MetricsStep, MetricsIngest, MetricsSnapshot, MetricsClose
  <1>2. (abort => abort') /\ (deadline => deadline') /\ (cancel' = "no" => cancel = "no")
    BY DEF OtherStep, Stop, Pause, Resume, Cancel, DeadlinePasses, PublishSnapshot,
           MetricsStep, MetricsIngest, MetricsSnapshot, MetricsClose
  <1>3. \A w \in VU : (vu'[w] = "off") <=> (vu[w] = "off")
    <2>1. CASE Resume
      BY <2>1 DEF TypeOK, Resume
    <2>2. CASE ~Resume
      <3>1. vu' = vu
        BY <2>2 DEF OtherStep, Stop, Pause, Cancel, DeadlinePasses, PublishSnapshot,
                    MetricsStep, MetricsIngest, MetricsSnapshot, MetricsClose
      <3> QED BY <3>1
    <2> QED BY <2>1, <2>2
  <1> QED BY <1>1, <1>2, <1>3 DEF Unhurried, Untroubled, AllOff

LEMMA UnhurriedInductive == Spec => []Unhurried
  <1>1. Init => Unhurried
    BY DEF Init, Unhurried
  <1>2. TypeOK /\ Calm /\ Unhurried /\ [Next]_vars => Unhurried'
    <2> SUFFICES ASSUME TypeOK, Calm, Unhurried, [Next]_vars PROVE Unhurried' OBVIOUS
    <2>1. CASE UNCHANGED vars
      BY <2>1 DEF Unhurried, Untroubled, AllOff, vars, outcomeVars, userVars, vuVars
    <2>2. CASE \E v \in VU : VuStep(v)
      BY <2>2, UnhurriedVu
    <2> QED BY <2>1, <2>2, UnhurriedRun, UnhurriedOther DEF Next, OtherStep
  <1> QED BY <1>1, <1>2, TypeCorrect, CalmInductive, PTL DEF Spec

(* PASSED means that the run had its whole duration, unless it has no VU.  *)
THEOREM PassedMeansPassed ==
  ASSUME VU # {}
  PROVE  Spec => PassedRanInFull
  <1>1. TypeOK /\ Unhurried /\ [Next]_vars =>
          ((result # "PASSED" /\ result' = "PASSED") =>
             deadline /\ ~abort /\ cancel = "no" /\ AllOff)
    <2> SUFFICES ASSUME TypeOK, Unhurried, [Next]_vars, result # "PASSED", result' = "PASSED"
                 PROVE  deadline /\ ~abort /\ cancel = "no" /\ AllOff
      OBVIOUS
    <2>1. Finalize
      <3> USE DEF othersOfPhase, outcomeVars
      <3>1. CASE UNCHANGED vars
        BY <3>1 DEF vars
      <3>2. CASE \E v \in VU : VuStep(v)
        BY <3>2 DEF VuStep, VuStarts, VuLoops, VuPassesGate, IterationEnds, CleanupRaises,
                    VuEnds, VuCancelled, othersOfVU
      <3>3. CASE OtherStep
        BY <3>3 DEF OtherStep, Stop, Pause, Resume, Cancel, DeadlinePasses, PublishSnapshot,
                    MetricsStep, MetricsIngest, MetricsSnapshot, MetricsClose,
                    othersOfUser, othersOfMetrics
      <3>4. CASE RunStep
        BY <3>4 DEF RunStep, BeginSetup, SetupOk, SetupRaises, CreateRaises, ExecuteEnds,
                    TeardownOk, TeardownRaises, CancelLands, CancelCutsShort, StopMetrics,
                    Joined, Publish
      <3> QED BY <3>1, <3>2, <3>3, <3>4 DEF Next, OtherStep
    <2>2. status = "PASSED" /\ ~abort /\ cancel = "no" /\ pc = "yield"
      BY <2>1 DEF Finalize, TypeOK
    <2>3. ~failing
      BY <2>2 DEF Unhurried
    <2> QED BY <2>2, <2>3 DEF Unhurried, Untroubled, AllOff
  <1> QED BY <1>1, TypeCorrect, UnhurriedInductive, PTL DEF Spec, PassedRanInFull

-----------------------------------------------------------------------------
(* The metric pipeline and the callbacks, from the end of the execute phase *)
(* to the end of the run.                                                  *)

Collected ==
  /\ taken <= put
  /\ pc \notin {"joining", "yield", "done"} => pipe = "open"
  /\ pc \in {"joining", "yield"} => pipe # "open" /\ need = put
  /\ pipe = "closed" => latest = taken /\ taken >= need
  /\ pc = "yield" => pipe = "closed"
  /\ Ended => pc = "done" /\ pipe = "closed" /\ final = latest /\ final = put

LEMMA PhaseIsNoEnd ==
  ASSUME TypeOK, ~Ended, NEW phase \in Lifecycle!Phases, events' = Append(events, phase)
  PROVE  ~Ended'
  <1> DEFINE S == Lifecycle!Phases \cup {"end"}
  <1>1. events \in Seq(S) /\ phase \in S /\ phase # "end"
    BY DEF TypeOK, Lifecycle!Phases
  <1>2. \A i \in DOMAIN events : events[i] # "end"
    BY DEF Ended, Lifecycle!Announced
  <1>3. ASSUME NEW i \in DOMAIN events' PROVE events'[i] # "end"
    <2> HIDE DEF S
    <2>1. i \in 1 .. Len(events) + 1 /\ DOMAIN events = 1 .. Len(events)
      BY <1>1, <1>3
    <2>2. CASE i = Len(events) + 1
      BY <1>1, <2>2
    <2>3. CASE i # Len(events) + 1
      <3>1. i \in 1 .. Len(events)
        BY <1>1, <2>1, <2>3
      <3>2. events'[i] = events[i]
        BY <1>1, <3>1
      <3> QED BY <1>2, <2>1, <3>1, <3>2
    <2> QED BY <2>2, <2>3
  <1> QED BY <1>3 DEF Ended, Lifecycle!Announced

(* The steps of _run() but the last one leave the end marker unpublished.  *)
LEMMA EndedByFinalize ==
  ASSUME TypeOK, ~Ended, RunStep, ~Finalize
  PROVE  ~Ended'
  <1>1. CASE BeginSetup \/ SetupOk \/ SetupRaises \/ ExecuteEnds
    <2>1. PICK phase \in Lifecycle!Phases : events' = Append(events, phase)
      BY <1>1 DEF BeginSetup, SetupOk, SetupRaises, ExecuteEnds, Publish, Lifecycle!Phases
    <2> QED BY <2>1, PhaseIsNoEnd
  <1>2. CASE events' = events
    BY <1>2 DEF Ended, Lifecycle!Announced
  <1>3. CASE ~(BeginSetup \/ SetupOk \/ SetupRaises \/ ExecuteEnds)
    BY <1>2, <1>3 DEF RunStep, CreateRaises, TeardownOk, TeardownRaises, CancelLands,
                      CancelCutsShort, StopMetrics, Joined, outcomeVars
  <1> QED BY <1>1, <1>3

LEMMA CollectedRun ==
  ASSUME JoinExpires = FALSE, TypeOK, Collected, RunStep PROVE Collected'
  <1> USE DEF othersOfPhase, outcomeVars, userVars, vuVars, loopVars, pipeVars
  <1>1. pc # "done" /\ ~Ended
    BY DEF Collected, RunStep, BeginSetup, SetupOk, SetupRaises, CreateRaises, ExecuteEnds,
           TeardownOk, TeardownRaises, CancelLands, CancelCutsShort, StopMetrics, Joined,
           Finalize
  <1>2. CASE Finalize
    <2>1. UNCHANGED <<put, taken, latest, need, pipe>> /\ final' = latest /\ pc' = "done"
      BY <1>2 DEF Finalize
    <2>2. pipe = "closed" /\ need = put /\ latest = taken /\ taken >= need /\ taken <= put
      BY <1>2 DEF Finalize, Collected
    <2>3. latest = put
      BY <2>2 DEF TypeOK, Pipe!PipeTypeOK
    <2> QED BY <2>1, <2>2, <2>3 DEF Collected
  <1>3. CASE ~Finalize
    <2>1. ~Ended'
      BY <1>1, <1>3, EndedByFinalize
    <2>2. CASE StopMetrics
      BY <2>1, <2>2 DEF Collected, StopMetrics, Pipe!StopPipe, TypeOK, Pipe!PipeTypeOK
    <2>3. CASE ~StopMetrics
      BY <1>1, <1>3, <2>1, <2>3
         DEF Collected, RunStep, BeginSetup, SetupOk, SetupRaises, CreateRaises, ExecuteEnds,
             TeardownOk, TeardownRaises, CancelLands, CancelCutsShort, Joined
    <2> QED BY <2>2, <2>3
  <1> QED BY <1>2, <1>3

LEMMA CollectedVu ==
  ASSUME TypeOK, Calm, Collected, NEW v \in VU, VuStep(v) PROVE Collected'
  <1> USE DEF othersOfVU, outcomeVars
  <1>1. pc = "execute" /\ pc' = "execute"
    BY VuInExecute
  <1>2. UNCHANGED <<taken, latest, need, pipe, events, final>> /\ put' \in {put, put + 1}
    BY DEF VuStep, VuStarts, VuLoops, VuPassesGate, IterationEnds, CleanupRaises, VuEnds,
           VuCancelled, Pipe!PutSample, pipeVars
  <1>3. ~Ended /\ ~Ended'
    BY <1>1, <1>2 DEF Collected, Ended, Lifecycle!Announced
  <1>4. taken' <= put'
    BY <1>2 DEF Collected, TypeOK, Pipe!PipeTypeOK
  <1> QED BY <1>1, <1>2, <1>3, <1>4 DEF Collected

LEMMA CollectedOther ==
  ASSUME TypeOK, Collected, OtherStep PROVE Collected'
  <1> USE DEF othersOfUser, othersOfMetrics, outcomeVars, pipeVars
  <1>1. UNCHANGED <<pc, final, events>>
    BY DEF OtherStep, Stop, Pause, Resume, Cancel, DeadlinePasses, PublishSnapshot,
           MetricsStep, MetricsIngest, MetricsSnapshot, MetricsClose
  <1>2. Ended' <=> Ended
    BY <1>1 DEF Ended, Lifecycle!Announced
  <1>3. CASE MetricsStep
    BY <1>1, <1>2, <1>3
       DEF Collected, TypeOK, MetricsStep, MetricsIngest, MetricsSnapshot, MetricsClose,
           Pipe!IngestSample, Pipe!Snapshot, Pipe!ClosePipe, Pipe!PipeTypeOK
  <1>4. CASE Stop \/ Pause \/ Resume \/ Cancel \/ DeadlinePasses \/ PublishSnapshot
    <2>1. UNCHANGED <<put, taken, latest, need, pipe>>
      BY <1>4 DEF Stop, Pause, Resume, Cancel, DeadlinePasses, PublishSnapshot
    <2> QED BY <1>1, <1>2, <2>1 DEF Collected
  <1> QED BY <1>3, <1>4 DEF OtherStep

LEMMA CollectedInductive ==
  ASSUME JoinExpires = FALSE PROVE Spec => []Collected
  <1>1. Init => Collected
    BY DEF Init, Collected, Pipe!PipeInit, Ended, Lifecycle!Announced
  <1>2. TypeOK /\ Calm /\ Collected /\ [Next]_vars => Collected'
    <2> SUFFICES ASSUME TypeOK, Calm, Collected, [Next]_vars PROVE Collected' OBVIOUS
    <2>1. CASE UNCHANGED vars
      BY <2>1 DEF Collected, Ended, Lifecycle!Announced, vars, outcomeVars, pipeVars
    <2>2. CASE \E v \in VU : VuStep(v)
      BY <2>2, CollectedVu
    <2> QED BY <2>1, <2>2, CollectedRun, CollectedOther DEF Next, OtherStep
  <1> QED BY <1>1, <1>2, TypeCorrect, CalmInductive, PTL DEF Spec

(* The snapshot of the result covers all that the VUs emitted, if stop()   *)
(* waits for the metric thread as long as it takes.                        *)
THEOREM FinalSnapshotIsOfTheRun ==
  ASSUME JoinExpires = FALSE PROVE Spec => []FinalSnapshotCoversRun
  <1>1. Collected => FinalSnapshotCoversRun
    BY DEF Collected, FinalSnapshotCoversRun
  <1> QED BY <1>1, CollectedInductive, PTL

-----------------------------------------------------------------------------
(* The loop's callbacks: the run task has one entry, while it yields, and   *)
(* it is behind the closing snapshot.                                      *)

Shown ==
  /\ pc \notin {"yield", "done"} => \A i \in 1 .. Len(ready) : ready[i] # RunTask
  /\ (pc = "joining" /\ pipe = "closed") =>
       Len(ready) >= 1 /\ ready[Len(ready)] = latest
  /\ pc = "yield" =>
       /\ Len(ready) >= 1 /\ ready[Len(ready)] = RunTask
       /\ \A i \in 1 .. Len(ready) - 1 : ready[i] # RunTask
       /\ IF Len(ready) = 1 THEN shown = latest ELSE ready[Len(ready) - 1] = latest
  /\ Ended => ready = <<>> /\ shown = final

LEMMA ShownRun ==
  ASSUME JoinExpires = FALSE, TypeOK, Collected, Shown, RunStep PROVE Shown'
  <1> USE DEF othersOfPhase, outcomeVars, userVars, vuVars, loopVars, pipeVars
  <1>1. pc # "done" /\ ~Ended
    BY DEF Collected, RunStep, BeginSetup, SetupOk, SetupRaises, CreateRaises, ExecuteEnds,
           TeardownOk, TeardownRaises, CancelLands, CancelCutsShort, StopMetrics, Joined,
           Finalize
  <1>2. CASE Finalize
    <2>1. ready # <<>> /\ Head(ready) = RunTask /\ pc = "yield" /\ ready' = Tail(ready)
      BY <1>2 DEF Finalize
    <2>2. Len(ready) = 1
      <3> HIDE DEF othersOfPhase, outcomeVars, userVars, vuVars, loopVars, pipeVars
      <3>1. ready \in Seq(Int) /\ Len(ready) \in Nat
        BY DEF TypeOK
      <3>2. ready[1] = RunTask
        BY <2>1, <3>1
      <3>3. \A i \in 1 .. Len(ready) - 1 : ready[i] # RunTask
        BY <2>1 DEF Shown
      <3>5. Len(ready) >= 1
        BY <2>1 DEF Shown
      <3>4. CASE Len(ready) >= 2
        <4>1. 1 \in 1 .. Len(ready) - 1
          BY <3>1, <3>4
        <4>2. ready[1] # RunTask
          BY <3>3, <4>1
        <4> QED BY <3>2, <4>2
      <3> QED BY <3>1, <3>4, <3>5
    <2>3. ready' = <<>>
      <3> HIDE DEF othersOfPhase, outcomeVars, userVars, vuVars, loopVars, pipeVars
      <3>1. ready \in Seq(Int)
        BY DEF TypeOK
      <3>2. ready' \in Seq(Int) /\ Len(ready') = 0
        BY <2>1, <2>2, <3>1
      <3> QED BY <3>2
    <2>4. pc' = "done" /\ shown' = shown /\ final' = latest
      BY <1>2 DEF Finalize
    <2> QED BY <2>1, <2>2, <2>3, <2>4 DEF Shown
  <1>3. CASE ~Finalize
    <2>1. ~Ended'
      BY <1>1, <1>3, EndedByFinalize
    <2>2. CASE Joined
      <3>1. pc = "joining" /\ pc' = "yield" /\ pipe = "closed"
        BY <2>2 DEF Joined
      <3>2. ready \in Seq(Int) /\ ready' = Append(ready, RunTask) /\ RunTask \in Int
        BY <2>2 DEF Joined, TypeOK, RunTask
      <3>3. Len(ready) >= 1 /\ ready[Len(ready)] = latest /\ latest' = latest
        BY <2>2, <3>1 DEF Joined, Shown
      <3>4. \A i \in 1 .. Len(ready) : ready[i] # RunTask
        BY <3>1 DEF Shown
      <3>5. Len(ready') = Len(ready) + 1 /\ ready'[Len(ready) + 1] = RunTask
        BY <3>2
      <3>6. \A i \in 1 .. Len(ready) : ready'[i] = ready[i]
        BY <3>2
      <3> QED BY <2>1, <3>1, <3>2, <3>3, <3>4, <3>5, <3>6 DEF Shown
    <2>3. CASE CancelCutsShort
      BY <2>1, <2>3 DEF Shown, CancelCutsShort
    <2>4. CASE StopMetrics
      <3>1. ready' = ready /\ pc = "flush" /\ pc' = "joining" /\ pipe' = "stopping"
        BY <2>4 DEF StopMetrics, Pipe!StopPipe
      <3> QED BY <2>1, <3>1 DEF Shown
    <2>5. CASE ~Joined /\ ~CancelCutsShort /\ ~StopMetrics
      <3>1. ready' = ready /\ pc \notin {"joining", "yield", "done"}
                           /\ pc' \notin {"joining", "yield", "done"}
        BY <1>3, <2>5
           DEF RunStep, BeginSetup, SetupOk, SetupRaises, CreateRaises, ExecuteEnds,
               TeardownOk, TeardownRaises, CancelLands
      <3> QED BY <2>1, <3>1 DEF Shown
    <2> QED BY <2>2, <2>3, <2>4, <2>5
  <1> QED BY <1>2, <1>3

LEMMA ShownVu ==
  ASSUME TypeOK, Calm, Collected, Shown, NEW v \in VU, VuStep(v) PROVE Shown'
  <1>1. pc = "execute" /\ pc' = "execute"
    BY VuInExecute
  <1>2. ready' = ready /\ events' = events
    BY DEF othersOfVU, outcomeVars, loopVars, VuStep, VuStarts, VuLoops, VuPassesGate,
           IterationEnds, CleanupRaises, VuEnds, VuCancelled
  <1>3. ~Ended'
    BY <1>1, <1>2 DEF Collected, Ended, Lifecycle!Announced
  <1> QED BY <1>1, <1>2, <1>3 DEF Shown

LEMMA ShownPublish ==
  ASSUME TypeOK, Collected, Shown, PublishSnapshot PROVE Shown'
  <1> USE DEF outcomeVars, userVars, vuVars, pipeVars
  <1>1. /\ pc' = pc /\ final' = final /\ latest' = latest /\ pipe' = pipe
        /\ events' = events /\ pc # "joining"
    BY DEF PublishSnapshot, LoopRuns
  <1>2. Ended' <=> Ended
    BY <1>1 DEF Ended, Lifecycle!Announced
  <1>3. /\ ready \in Seq(Int) /\ ready # <<>> /\ ready[1] # RunTask
        /\ ready' = Tail(ready) /\ shown' = ready[1]
    BY DEF PublishSnapshot, TypeOK
  <1>4. Len(ready') = Len(ready) - 1 /\ Len(ready) \in Nat /\ Len(ready) >= 1
    BY <1>3
  <1>5. \A i \in 1 .. Len(ready) - 1 : ready'[i] = ready[i + 1]
    BY <1>3
  <1>6. ~Ended
    BY <1>3 DEF Shown
  <1>7. CASE pc = "yield"
    <2>1. /\ ready[Len(ready)] = RunTask
          /\ \A i \in 1 .. Len(ready) - 1 : ready[i] # RunTask
          /\ IF Len(ready) = 1 THEN shown = latest ELSE ready[Len(ready) - 1] = latest
      BY <1>7 DEF Shown
    <2>2. Len(ready) >= 2
      BY <1>3, <1>4, <2>1
    <2>3. ready'[Len(ready')] = RunTask
      BY <1>4, <1>5, <2>1, <2>2
    <2>4. \A i \in 1 .. Len(ready') - 1 : ready'[i] # RunTask
      BY <1>4, <1>5, <2>1
    <2>5. IF Len(ready') = 1 THEN shown' = latest ELSE ready'[Len(ready') - 1] = latest
      <3>1. CASE Len(ready) = 2
        BY <1>3, <1>4, <2>1, <3>1
      <3>2. CASE Len(ready) > 2
        <4>1. Len(ready) - 2 \in 1 .. Len(ready) - 1 /\ Len(ready') - 1 = Len(ready) - 2
          BY <1>4, <3>2
        <4>2. ready'[Len(ready) - 2] = ready[Len(ready) - 2 + 1]
          BY <1>5, <4>1
        <4>3. Len(ready) - 2 + 1 = Len(ready) - 1
          BY <1>4
        <4> QED BY <1>4, <2>1, <3>2, <4>1, <4>2, <4>3
      <3> QED BY <1>4, <2>2, <3>1, <3>2
    <2> QED BY <1>1, <1>2, <1>4, <1>6, <1>7, <2>2, <2>3, <2>4, <2>5 DEF Shown
  <1>8. CASE pc # "yield"
    <2>1. pc # "done" => \A i \in 1 .. Len(ready') : ready'[i] # RunTask
      BY <1>4, <1>5, <1>8 DEF Shown
    <2> QED BY <1>1, <1>2, <1>6, <1>8, <2>1 DEF Shown
  <1> QED BY <1>7, <1>8

LEMMA ShownMetrics ==
  ASSUME TypeOK, Collected, Shown, MetricsStep PROVE Shown'
  <1> USE DEF othersOfMetrics, outcomeVars, userVars, vuVars
  <1>1. UNCHANGED <<pc, events, final, shown>> /\ pipe # "closed"
    BY DEF MetricsStep, MetricsIngest, MetricsSnapshot, MetricsClose, Pipe!IngestSample,
           Pipe!Snapshot, Pipe!ClosePipe
  <1>2. ~Ended /\ ~Ended' /\ pc # "yield"
    BY <1>1 DEF Collected, Ended, Lifecycle!Announced
  <1>3. CASE MetricsIngest
    <2>1. ready' = ready /\ pipe' = pipe
      BY <1>3 DEF MetricsIngest, Pipe!IngestSample
    <2> QED BY <1>1, <1>2, <2>1 DEF Shown
  <1>4. CASE MetricsSnapshot \/ MetricsClose
    <2>1. ready' = Append(ready, latest') /\ ready \in Seq(Int)
      BY <1>4 DEF MetricsSnapshot, MetricsClose, TypeOK
    <2>2. latest' \in Nat
      BY <1>4 DEF MetricsSnapshot, MetricsClose, Pipe!Snapshot, Pipe!ClosePipe, TypeOK,
                  Pipe!PipeTypeOK
    <2>3. Len(ready') = Len(ready) + 1 /\ ready'[Len(ready) + 1] = latest'
      BY <2>1
    <2>4. \A i \in 1 .. Len(ready) : ready'[i] = ready[i]
      BY <2>1
    <2>5. latest' # RunTask
      BY <2>2 DEF RunTask
    <2>6. Len(ready) \in Nat
      BY <2>1
    <2>7. pc \notin {"yield", "done"} => \A i \in 1 .. Len(ready') : ready'[i] # RunTask
      <3> SUFFICES ASSUME pc \notin {"yield", "done"}, NEW i \in 1 .. Len(ready')
                   PROVE  ready'[i] # RunTask
        OBVIOUS
      <3>1. CASE i = Len(ready) + 1
        BY <2>3, <2>5, <3>1
      <3>2. CASE i \in 1 .. Len(ready)
        BY <2>4, <3>2 DEF Shown
      <3> QED BY <2>3, <2>6, <3>1, <3>2
    <2> QED BY <1>1, <1>2, <2>3, <2>6, <2>7 DEF Shown
  <1> QED BY <1>3, <1>4 DEF MetricsStep

LEMMA ShownInductive ==
  ASSUME JoinExpires = FALSE PROVE Spec => []Shown
  <1>1. Init => Shown
    BY DEF Init, Shown, Pipe!PipeInit, Ended, Lifecycle!Announced
  <1>2. TypeOK /\ Calm /\ Collected /\ Shown /\ [Next]_vars => Shown'
    <2> SUFFICES ASSUME TypeOK, Calm, Collected, Shown, [Next]_vars PROVE Shown' OBVIOUS
    <2>1. CASE UNCHANGED vars
      BY <2>1 DEF Shown, Ended, Lifecycle!Announced, vars, outcomeVars, loopVars, pipeVars
    <2>2. CASE \E v \in VU : VuStep(v)
      BY <2>2, ShownVu
    <2>3. CASE Stop \/ Pause \/ Resume \/ Cancel \/ DeadlinePasses
      BY <2>3 DEF Shown, Ended, Lifecycle!Announced, Stop, Pause, Resume, Cancel,
                  DeadlinePasses, othersOfUser, outcomeVars, loopVars, pipeVars
    <2> QED BY <2>1, <2>2, <2>3, ShownRun, ShownPublish, ShownMetrics DEF Next
  <1> QED BY <1>1, <1>2, TypeCorrect, CalmInductive, CollectedInductive, PTL DEF Spec

(* The last SnapshotEvent before the end marker shows the snapshot of the  *)
(* result, under the same assumption.                                      *)
THEOREM FinalSnapshotIsShown ==
  ASSUME JoinExpires = FALSE PROVE Spec => []FinalSnapshotShown
  <1>1. Shown => FinalSnapshotShown
    BY DEF Shown, FinalSnapshotShown
  <1> QED BY <1>1, ShownInductive, PTL
-----------------------------------------------------------------------------
(* The lifecycle: where _run() is says what has been announced, and a        *)
(* status of SETUP_FAILED that the execute phase was left out.               *)

LastAt == CASE pc = "created"  -> {"none"}
            [] pc = "setup"    -> {"setup"}
            [] pc = "execute"  -> {"execute"}
            [] pc = "teardown" -> {"teardown"}
            [] OTHER -> IF cancel = "raised" THEN {"setup", "execute", "teardown"}
                        ELSE {"teardown"}

Executed == "execute" \in Lifecycle!Announced

Following ==
  pc # "done" =>
    /\ result = "none"
    /\ Lifecycle!LastPhase \in LastAt
    /\ Lifecycle!LastPhase \in {"none", "setup"} => ~Executed
    /\ Lifecycle!LastPhase = "execute" => Executed
    /\ (status = "SETUP_FAILED") <=> (Lifecycle!LastPhase = "teardown" /\ ~Executed)

(* What the abstract specification makes of a phase that is published.       *)
LEMMA PhaseFollows ==
  ASSUME TypeOK, NEW phase \in Lifecycle!Phases, events' = Append(events, phase)
  PROVE  /\ Lifecycle!LastPhase' = phase
         /\ Executed' <=> (Executed \/ phase = "execute")
  <1> DEFINE S == Lifecycle!Phases \cup {"end"}
  <1>1. events \in Seq(S) /\ phase \in S
    BY DEF TypeOK
  <1> HIDE DEF S
  <1>2. /\ DOMAIN events = 1 .. Len(events) /\ DOMAIN events' = 1 .. Len(events) + 1
        /\ Len(events) \in Nat /\ Len(events') = Len(events) + 1
        /\ events' # <<>> /\ events'[Len(events) + 1] = phase
        /\ \A i \in 1 .. Len(events) : events'[i] = events[i]
    BY <1>1
  <1>3. Lifecycle!LastPhase' = phase
    BY <1>2 DEF Lifecycle!LastPhase
  <1>4. Executed => Executed'
    BY <1>2 DEF Executed, Lifecycle!Announced
  <1>5. phase = "execute" => Executed'
    BY <1>2 DEF Executed, Lifecycle!Announced
  <1>6. ASSUME Executed', phase # "execute" PROVE Executed
    <2>1. PICK i \in 1 .. Len(events) + 1 : events'[i] = "execute"
      BY <1>2, <1>6 DEF Executed, Lifecycle!Announced
    <2>2. i \in 1 .. Len(events)
      BY <1>2, <1>6, <2>1
    <2> QED BY <1>2, <2>1, <2>2 DEF Executed, Lifecycle!Announced
  <1> QED BY <1>3, <1>4, <1>5, <1>6

LEMMA FollowingRun ==
  ASSUME TypeOK, Following, RunStep
  PROVE  Following' /\ [Lifecycle!LifecycleNext]_(Lifecycle!lifecycleVars)
  <1> USE DEF othersOfPhase, outcomeVars
  <1>0. pc # "done" /\ result = "none"
    BY DEF Following, RunStep, BeginSetup, SetupOk, SetupRaises, CreateRaises, ExecuteEnds,
           TeardownOk, TeardownRaises, CancelLands, CancelCutsShort, StopMetrics, Joined,
           Finalize
  <1>a. ASSUME NEW phase \in {"setup", "execute", "teardown"}, Publish(phase),
               Lifecycle!Follows(phase)
        PROVE  /\ Lifecycle!LastPhase' = phase
               /\ Executed' <=> (Executed \/ phase = "execute")
               /\ result' = result
               /\ Lifecycle!LifecycleNext
    BY <1>0, <1>a, PhaseFollows
       DEF Publish, Lifecycle!Phases, Lifecycle!LifecycleNext, Lifecycle!Announce
  <1>b. ASSUME UNCHANGED <<events, result>>
        PROVE  /\ Lifecycle!LastPhase' = Lifecycle!LastPhase /\ Executed' = Executed
               /\ UNCHANGED Lifecycle!lifecycleVars
    BY <1>b DEF Lifecycle!LastPhase, Executed, Lifecycle!Announced, Lifecycle!lifecycleVars
  <1>1. CASE BeginSetup
    <2>1. pc' = "setup" /\ UNCHANGED <<status, cancel>> /\ Publish("setup")
      BY <1>1 DEF BeginSetup
    <2>2. Lifecycle!LastPhase = "none" /\ Lifecycle!Follows("setup")
      BY <1>1 DEF Following, LastAt, BeginSetup, Lifecycle!Follows
    <2>3. ~Executed /\ status # "SETUP_FAILED"
      BY <1>1, <2>2 DEF Following, BeginSetup
    <2>4. /\ Lifecycle!LastPhase' = "setup"
          /\ ~Executed' /\ result' = result /\ Lifecycle!LifecycleNext
      BY <1>a, <2>1, <2>2, <2>3
    <2> QED BY <1>0, <2>1, <2>3, <2>4 DEF Following, LastAt
  <1>2. CASE SetupOk
    <2>1. pc' = "execute" /\ UNCHANGED <<status, cancel>> /\ Publish("execute")
      BY <1>2 DEF SetupOk
    <2>2. Lifecycle!LastPhase = "setup" /\ Lifecycle!Follows("execute")
      BY <1>2 DEF Following, LastAt, SetupOk, Lifecycle!Follows
    <2> QED BY <1>0, <1>a, <2>1, <2>2 DEF Following, LastAt
  <1>3. CASE SetupRaises
    <2>1. pc' = "teardown" /\ status' = "SETUP_FAILED" /\ UNCHANGED cancel /\ Publish("teardown")
      BY <1>3 DEF SetupRaises
    <2>2. Lifecycle!LastPhase = "setup" /\ Lifecycle!Follows("teardown")
      BY <1>3 DEF Following, LastAt, SetupRaises, Lifecycle!Follows
    <2>3. ~Executed /\ status # "SETUP_FAILED"
      BY <1>3, <2>2 DEF Following, SetupRaises
    <2>4. /\ Lifecycle!LastPhase' = "teardown"
          /\ ~Executed' /\ result' = result /\ Lifecycle!LifecycleNext
      BY <1>a, <2>1, <2>2, <2>3
    <2> QED BY <1>0, <2>1, <2>3, <2>4 DEF Following, LastAt
  <1>4. CASE ExecuteEnds
    <2>1. /\ pc' = "teardown" /\ status' \in {status, "EXECUTION_FAILED"}
          /\ UNCHANGED cancel /\ Publish("teardown")
      BY <1>4 DEF ExecuteEnds
    <2>2. Lifecycle!LastPhase = "execute" /\ Lifecycle!Follows("teardown")
      BY <1>4 DEF Following, LastAt, ExecuteEnds, Lifecycle!Follows
    <2> QED BY <1>0, <1>a, <2>1, <2>2 DEF Following, LastAt
  <1>5. CASE CreateRaises \/ TeardownOk \/ TeardownRaises \/ CancelLands \/ StopMetrics \/ Joined
    <2>1. UNCHANGED <<events, result>>
      BY <1>5 DEF CreateRaises, TeardownOk, TeardownRaises, CancelLands, StopMetrics, Joined
    <2>2. (status = "SETUP_FAILED") <=> (status' = "SETUP_FAILED")
      BY <1>5 DEF CreateRaises, TeardownOk, TeardownRaises, CancelLands, StopMetrics, Joined
    <2>3. Lifecycle!LastPhase \in LastAt => Lifecycle!LastPhase \in LastAt'
      BY <1>5, <2>1 DEF LastAt, CreateRaises, TeardownOk, TeardownRaises, CancelLands, StopMetrics, Joined
    <2> QED BY <1>0, <1>b, <2>1, <2>2, <2>3 DEF Following
  <1>6. CASE CancelCutsShort
    <2>1. Following'
      BY <1>6 DEF Following, CancelCutsShort
    <2>2. Lifecycle!LastPhase # "end"
      BY <1>6 DEF Following, LastAt, CancelCutsShort
    <2>3. Lifecycle!EndSilently
      BY <1>0, <1>6, <2>2 DEF Lifecycle!EndSilently, CancelCutsShort
    <2> QED BY <2>1, <2>3 DEF Lifecycle!LifecycleNext
  <1>7. CASE Finalize
    <2>1. Following'
      BY <1>7 DEF Following, Finalize
    <2>2. events' = events \o <<"complete", "end">>
      BY <1>7 DEF Finalize
    <2>3. /\ Lifecycle!LastPhase \in {"setup", "execute", "teardown"}
          /\ cancel # "raised" => Lifecycle!LastPhase = "teardown"
          /\ (status = "SETUP_FAILED") <=> (Lifecycle!LastPhase = "teardown" /\ ~Executed)
      BY <1>7 DEF Following, LastAt, Finalize
    <2>4. cancel # "raised" =>
            result' \in (IF Executed THEN Lifecycle!Status \ {"SETUP_FAILED"} ELSE {"SETUP_FAILED"})
      <3> SUFFICES ASSUME cancel # "raised"
                   PROVE  result' \in (IF Executed THEN Lifecycle!Status \ {"SETUP_FAILED"}
                                                   ELSE {"SETUP_FAILED"})
        OBVIOUS
      <3>1. result' = status' /\ status' \in {status, "THRESHOLD_FAILED", "STOPPED", "PASSED"}
        BY <1>7 DEF Finalize
      <3>2. status # "PASSED" => status' = status
        BY <1>7 DEF Finalize
      <3>3. status \in Lifecycle!Status
        BY DEF TypeOK
      <3> QED BY <2>3, <3>1, <3>2, <3>3 DEF Lifecycle!Status
    <2>5. cancel = "raised" => result' = "cancelled"
      BY <1>7 DEF Finalize
    <2>6. Lifecycle!Complete
      BY <1>0, <2>2, <2>3, <2>4, <2>5 DEF Lifecycle!Complete, Executed
    <2> QED BY <2>1, <2>6 DEF Lifecycle!LifecycleNext
  <1> QED BY <1>1, <1>2, <1>3, <1>4, <1>5, <1>6, <1>7 DEF RunStep

(* Nobody but _run() publishes phases or decides the outcome.               *)
LEMMA FollowingOthers ==
  ASSUME Following, OtherStep \/ (\E v \in VU : VuStep(v)) \/ UNCHANGED vars
  PROVE  Following' /\ [Lifecycle!LifecycleNext]_(Lifecycle!lifecycleVars)
  <1>1. UNCHANGED <<pc, status, events, result>>
    BY DEF OtherStep, Stop, Pause, Resume, Cancel, DeadlinePasses, PublishSnapshot,
           MetricsStep, MetricsIngest, MetricsSnapshot, MetricsClose, VuStep, VuStarts, VuLoops,
           VuPassesGate, IterationEnds, CleanupRaises, VuEnds, VuCancelled, vars,
           othersOfUser, othersOfMetrics, othersOfVU, outcomeVars
  <1>2. cancel' = cancel \/ (cancel = "no" /\ cancel' = "asked")
    BY DEF OtherStep, Stop, Pause, Resume, Cancel, DeadlinePasses, PublishSnapshot,
           MetricsStep, MetricsIngest, MetricsSnapshot, MetricsClose, VuStep, VuStarts, VuLoops,
           VuPassesGate, IterationEnds, CleanupRaises, VuEnds, VuCancelled, vars,
           othersOfUser, othersOfMetrics, othersOfVU
  <1>3. Lifecycle!LastPhase' = Lifecycle!LastPhase /\ Executed' = Executed /\ LastAt' = LastAt
    BY <1>1, <1>2 DEF Lifecycle!LastPhase, Executed, Lifecycle!Announced, LastAt
  <1> QED BY <1>1, <1>3 DEF Following, Lifecycle!lifecycleVars

(* A frontend sees an orderly lifecycle whatever fails or is cancelled: the  *)
(* run implements RunLifecycle step by step.                               *)
THEOREM EngineImplementsLifecycle == Spec => ImplementsLifecycle
  <1>1. Init => Following /\ Lifecycle!LifecycleInit
    BY DEF Init, Following, LastAt, Executed, Lifecycle!LastPhase, Lifecycle!Announced,
           Lifecycle!LifecycleInit
  <1>2. TypeOK /\ Following /\ [Next]_vars =>
          Following' /\ [Lifecycle!LifecycleNext]_(Lifecycle!lifecycleVars)
    BY FollowingRun, FollowingOthers DEF Next, OtherStep
  <1>3. Spec => []Following
    BY <1>1, <1>2, TypeCorrect, PTL DEF Spec
  <1> QED BY <1>1, <1>2, <1>3, TypeCorrect, PTL DEF Spec, ImplementsLifecycle, Lifecycle!LifecycleSpec

-----------------------------------------------------------------------------
(* What the sinks show is exact, and verdicts follow it (Sinks).  First,    *)
(* sums.                                                                    *)

(* Sums over a finite set, which the fold takes in the order CHOOSE picks.  *)
Pick(T) == CHOOSE x \in T : TRUE
Rest(T) == T \ {Pick(T)}
SumsOf(sums, f, S) == sums = [T \in SUBSET S |-> IF T = {} THEN 0 ELSE f[Pick(T)] + sums[Rest(T)]]
Sums(f, S) == CHOOSE sums : SumsOf(sums, f, S)
Sum(f, S) == SumFunctionOnSet(f, S)

(* A set of subsets of a finite set has a member that no other is part of.  *)
LEMMA SmallestSubset ==
  ASSUME NEW S, IsFiniteSet(S), NEW Bad, Bad \subseteq SUBSET S, Bad # {}
  PROVE  \E T \in Bad : IsFiniteSet(T) /\ \A U \in SUBSET T : U # T => U \notin Bad
  <1>1. IsWellFoundedOn(StrictSubsetOrdering(S), FiniteSubsetsOf(S))
    BY FS_StrictSubsetOrderingWellFounded
  <1>2. FiniteSubsetsOf(S) = SUBSET S
    BY FS_FiniteSubsetsOfFinite
  <1>3. PICK T \in Bad : \A U \in Bad : ~ (<<U, T>> \in StrictSubsetOrdering(S))
    BY <1>1, <1>2, WFMin
  <1>4. IsFiniteSet(T)
    BY FS_Subset
  <1>5. ASSUME NEW U \in SUBSET T, U # T, U \in Bad
        PROVE  FALSE
    <2>1. <<U, T>> \in StrictSubsetOrdering(S)
      BY <1>5 DEF StrictSubsetOrdering
    <2> QED
      BY <2>1, <1>3, <1>5
  <1> QED
    BY <1>4, <1>5

(* The element taken first is one of the set.                               *)
LEMMA PickIn ==
  ASSUME NEW T, T # {}
  PROVE  Pick(T) \in T /\ Rest(T) \in SUBSET T /\ Rest(T) # T
  BY DEF Pick, Rest

(* The equation of the sums has one solution, wherever it is solved.        *)
LEMMA SumsAgree ==
  ASSUME NEW f, NEW S, NEW T, IsFiniteSet(S), NEW g, NEW h,
         SumsOf(g, f, S), SumsOf(h, f, T), NEW U, U \subseteq S, U \subseteq T
  PROVE  g[U] = h[U]
  <1> DEFINE Bad == {V \in SUBSET S : V \subseteq T /\ g[V] # h[V]}
  <1> SUFFICES ASSUME Bad # {} PROVE FALSE
    OBVIOUS
  <1>1. Bad \subseteq SUBSET S
    OBVIOUS
  <1> HIDE DEF Bad
  <1>2. PICK V \in Bad : IsFiniteSet(V) /\ \A W \in SUBSET V : W # V => W \notin Bad
    BY <1>1, SmallestSubset
  <1> USE DEF Bad
  <1>3. g[V] = IF V = {} THEN 0 ELSE f[Pick(V)] + g[Rest(V)]
    BY <1>2 DEF SumsOf
  <1>4. h[V] = IF V = {} THEN 0 ELSE f[Pick(V)] + h[Rest(V)]
    BY <1>2 DEF SumsOf
  <1>5. CASE V = {}
    BY <1>2, <1>3, <1>4, <1>5
  <1>6. CASE V # {}
    <2>1. Rest(V) \in SUBSET V /\ Rest(V) # V
      BY <1>6, PickIn
    <2>2. Rest(V) \notin Bad
      BY <1>2, <2>1
    <2>3. g[Rest(V)] = h[Rest(V)]
      BY <2>1, <2>2, <1>2
    <2> QED
      BY <1>2, <1>3, <1>4, <2>3
  <1> QED
    BY <1>5, <1>6

(* SumFunctionOnSet() of the community modules is the solution at S.        *)
LEMMA SumIsSums ==
  ASSUME NEW f, NEW S
  PROVE  Sum(f, S) = Sums(f, S)[S]
  BY DEF Sum, SumFunctionOnSet, FoldFunctionOnSet, MapThenFoldSet, Sums, SumsOf, Pick, Rest

(* Where the equation is solved for every part of S, Sum is the sum that    *)
(* begins with the element CHOOSE picks.                                    *)
LEMMA SumsEquation ==
  ASSUME NEW f, NEW S, IsFiniteSet(S), SumsOf(Sums(f, S), f, S),
         \A T \in SUBSET S : T # S => SumsOf(Sums(f, T), f, T)
  PROVE  Sum(f, S) = IF S = {} THEN 0 ELSE f[Pick(S)] + Sum(f, Rest(S))
  <1>1. Sums(f, S)[S] = IF S = {} THEN 0 ELSE f[Pick(S)] + Sums(f, S)[Rest(S)]
    BY DEF SumsOf
  <1>2. CASE S = {}
    BY <1>1, <1>2, SumIsSums
  <1>3. CASE S # {}
    <2>1. Rest(S) \in SUBSET S /\ Rest(S) # S
      BY <1>3, PickIn
    <2>2. SumsOf(Sums(f, Rest(S)), f, Rest(S))
      BY <2>1
    <2>3. Sums(f, S)[Rest(S)] = Sums(f, Rest(S))[Rest(S)]
      BY <2>1, <2>2, SumsAgree
    <2>4. Sum(f, Rest(S)) = Sums(f, Rest(S))[Rest(S)]
      BY SumIsSums
    <2>5. Sum(f, S) = Sums(f, S)[S]
      BY SumIsSums
    <2> QED
      BY <1>1, <1>3, <2>3, <2>4, <2>5
  <1> QED
    BY <1>2, <1>3

(* For a finite set the equation of the sums has a solution.                *)
LEMMA SumsExist ==
  ASSUME NEW f, NEW S, IsFiniteSet(S)
  PROVE  SumsOf(Sums(f, S), f, S)
  <1> DEFINE Bad == {T \in SUBSET S : ~SumsOf(Sums(f, T), f, T)}
  <1> SUFFICES ASSUME Bad # {} PROVE FALSE
    OBVIOUS
  <1>1. Bad \subseteq SUBSET S
    OBVIOUS
  <1> HIDE DEF Bad
  <1>2. PICK T \in Bad : IsFiniteSet(T) /\ \A U \in SUBSET T : U # T => U \notin Bad
    BY <1>1, SmallestSubset
  <1> USE DEF Bad
  <1>3. ASSUME NEW U \in SUBSET T, U # T
        PROVE  SumsOf(Sums(f, U), f, U)
    BY <1>2, <1>3
  <1>4. ASSUME NEW U \in SUBSET T, U # T
        PROVE  Sum(f, U) = IF U = {} THEN 0 ELSE f[Pick(U)] + Sum(f, Rest(U))
    <2>1. IsFiniteSet(U)
      BY <1>2, FS_Subset
    <2>2. SumsOf(Sums(f, U), f, U)
      BY <1>3, <1>4
    <2>3. ASSUME NEW W \in SUBSET U, W # U
          PROVE  SumsOf(Sums(f, W), f, W)
      BY <1>3, <1>4, <2>3
    <2> QED
      BY <2>1, <2>2, <2>3, SumsEquation
  <1> DEFINE sums == [U \in SUBSET T |-> IF U = {} THEN 0 ELSE f[Pick(U)] + Sum(f, Rest(U))]
  <1>5. ASSUME NEW U \in SUBSET T, U # {}
        PROVE  sums[Rest(U)] = Sum(f, Rest(U))
    <2>1. Rest(U) \in SUBSET U /\ Rest(U) # U
      BY <1>5, PickIn
    <2>2. Rest(U) \in SUBSET T /\ Rest(U) # T
      BY <2>1
    <2> QED
      BY <2>2, <1>4
  <1>6. SumsOf(sums, f, T)
    <2>1. \A U \in SUBSET T : sums[U] = IF U = {} THEN 0 ELSE f[Pick(U)] + sums[Rest(U)]
      BY <1>5
    <2> QED
      BY <2>1 DEF SumsOf
  <1>7. SumsOf(Sums(f, T), f, T)
    BY <1>6 DEF Sums
  <1> QED
    BY <1>2, <1>7

(* A sum over a finite set begins with the element CHOOSE picks.            *)
LEMMA SumEquation ==
  ASSUME NEW f, NEW S, IsFiniteSet(S)
  PROVE  Sum(f, S) = IF S = {} THEN 0 ELSE f[Pick(S)] + Sum(f, Rest(S))
  <1>1. \A T \in SUBSET S : SumsOf(Sums(f, T), f, T)
    BY SumsExist, FS_Subset
  <1> QED
    BY <1>1, SumsEquation

(* The values to be added are integers.                                     *)
IntOn(f, S) == \A x \in S : f[x] \in Int

(* The sum over no elements.                                                *)
LEMMA SumOfNone ==
  ASSUME NEW f
  PROVE  Sum(f, {}) = 0
  BY SumEquation, FS_EmptySet

(* Integers add up to an integer.                                           *)
LEMMA SumInt ==
  ASSUME NEW S, IsFiniteSet(S), NEW f, IntOn(f, S)
  PROVE  Sum(f, S) \in Int
  <1> DEFINE Bad == {T \in SUBSET S : Sum(f, T) \notin Int}
  <1> SUFFICES ASSUME Bad # {} PROVE FALSE
    OBVIOUS
  <1>1. Bad \subseteq SUBSET S
    OBVIOUS
  <1> HIDE DEF Bad
  <1>2. PICK T \in Bad : IsFiniteSet(T) /\ \A U \in SUBSET T : U # T => U \notin Bad
    BY <1>1, SmallestSubset
  <1> USE DEF Bad
  <1>3. Sum(f, T) = IF T = {} THEN 0 ELSE f[Pick(T)] + Sum(f, Rest(T))
    BY <1>2, SumEquation
  <1>4. CASE T = {}
    BY <1>2, <1>3, <1>4
  <1>5. CASE T # {}
    <2>1. Pick(T) \in T /\ Rest(T) \in SUBSET T /\ Rest(T) # T
      BY <1>5, PickIn
    <2>2. Sum(f, Rest(T)) \in Int
      BY <2>1, <1>2
    <2>3. f[Pick(T)] \in Int
      BY <2>1, <1>2 DEF IntOn
    <2>4. f[Pick(T)] + Sum(f, Rest(T)) \in Int
      BY <2>2, <2>3
    <2> QED
      BY <1>2, <1>3, <1>5, <2>4
  <1> QED
    BY <1>4, <1>5

(* Whichever element is taken first.                                       *)
LEMMA SumRemove ==
  ASSUME NEW S, IsFiniteSet(S), NEW f, IntOn(f, S), NEW x \in S
  PROVE  Sum(f, S) = f[x] + Sum(f, S \ {x})
  <1> DEFINE Bad == {T \in SUBSET S : \E y \in T : Sum(f, T) # f[y] + Sum(f, T \ {y})}
  <1> SUFFICES ASSUME Bad # {} PROVE FALSE
    OBVIOUS
  <1>1. Bad \subseteq SUBSET S
    OBVIOUS
  <1> HIDE DEF Bad
  <1>2. PICK T \in Bad : IsFiniteSet(T) /\ \A U \in SUBSET T : U # T => U \notin Bad
    BY <1>1, SmallestSubset
  <1>3. T \in SUBSET S
    BY <1>1, <1>2
  <1>4. PICK y \in T : Sum(f, T) # f[y] + Sum(f, T \ {y})
    BY <1>2 DEF Bad
  <1> DEFINE c == Pick(T)
  <1>5. c \in T /\ Rest(T) = T \ {c}
    BY <1>4, PickIn DEF Rest
  <1>6. Sum(f, T) = f[c] + Sum(f, T \ {c})
    BY <1>2, <1>4, <1>5, SumEquation
  <1>7. c # y
    BY <1>4, <1>6
  <1> HIDE DEF c
  <1>8. ASSUME NEW U \in SUBSET T, U # T, NEW z \in U
        PROVE  Sum(f, U) = f[z] + Sum(f, U \ {z})
    BY <1>2, <1>3, <1>8 DEF Bad
  <1>9. Sum(f, T \ {c}) = f[y] + Sum(f, (T \ {c}) \ {y})
    BY <1>5, <1>7, <1>8
  <1>10. Sum(f, T \ {y}) = f[c] + Sum(f, (T \ {y}) \ {c})
    BY <1>5, <1>7, <1>8
  <1>11. (T \ {y}) \ {c} = (T \ {c}) \ {y}
    OBVIOUS
  <1>12. f[c] \in Int /\ f[y] \in Int
    BY <1>3, <1>5 DEF IntOn
  <1>13. Sum(f, (T \ {c}) \ {y}) \in Int
    <2>1. IsFiniteSet((T \ {c}) \ {y})
      BY <1>2, FS_Subset
    <2>2. IntOn(f, (T \ {c}) \ {y})
      BY <1>3 DEF IntOn
    <2> QED
      BY <2>1, <2>2, SumInt
  <1>14. Sum(f, T) = f[y] + Sum(f, T \ {y})
    <2>1. \A i, j, k \in Int : i + (j + k) = j + (i + k)
      OBVIOUS
    <2>2. Sum(f, T) = f[c] + (f[y] + Sum(f, (T \ {c}) \ {y}))
      BY <1>6, <1>9
    <2>3. Sum(f, T \ {y}) = f[c] + Sum(f, (T \ {c}) \ {y})
      BY <1>10, <1>11
    <2> QED
      BY <2>1, <2>2, <2>3, <1>12, <1>13
  <1> QED
    BY <1>4, <1>14

(* One more element adds its value: what += does to the value of a          *)
(* CounterSink.                                                             *)
LEMMA SumAdd ==
  ASSUME NEW S, IsFiniteSet(S), NEW f, IntOn(f, S), NEW x, x \notin S, f[x] \in Int
  PROVE  Sum(f, S \cup {x}) = Sum(f, S) + f[x]
  <1>1. IsFiniteSet(S \cup {x})
    BY FS_AddElement
  <1>2. IntOn(f, S \cup {x})
    BY DEF IntOn
  <1>3. (S \cup {x}) \ {x} = S
    OBVIOUS
  <1>4. Sum(f, S \cup {x}) = f[x] + Sum(f, S)
    BY <1>1, <1>2, <1>3, SumRemove
  <1>5. Sum(f, S) \in Int
    BY SumInt
  <1> QED
    BY <1>4, <1>5

(* Only the values at the elements count.                                  *)
LEMMA SumSame ==
  ASSUME NEW S, IsFiniteSet(S), NEW f, NEW g, \A x \in S : f[x] = g[x]
  PROVE  Sum(f, S) = Sum(g, S)
  <1> DEFINE Bad == {T \in SUBSET S : Sum(f, T) # Sum(g, T)}
  <1> SUFFICES ASSUME Bad # {} PROVE FALSE
    OBVIOUS
  <1>1. Bad \subseteq SUBSET S
    OBVIOUS
  <1> HIDE DEF Bad
  <1>2. PICK T \in Bad : IsFiniteSet(T) /\ \A U \in SUBSET T : U # T => U \notin Bad
    BY <1>1, SmallestSubset
  <1>3. T \in SUBSET S /\ Sum(f, T) # Sum(g, T)
    BY <1>2 DEF Bad
  <1>4. Sum(f, T) = IF T = {} THEN 0 ELSE f[Pick(T)] + Sum(f, Rest(T))
    BY <1>2, SumEquation
  <1>5. Sum(g, T) = IF T = {} THEN 0 ELSE g[Pick(T)] + Sum(g, Rest(T))
    BY <1>2, SumEquation
  <1>6. T # {}
    BY <1>3, <1>4, <1>5
  <1>7. Pick(T) \in T /\ Rest(T) \in SUBSET T /\ Rest(T) # T
    BY <1>6, PickIn
  <1>8. Sum(f, Rest(T)) = Sum(g, Rest(T))
    BY <1>2, <1>3, <1>7 DEF Bad
  <1>9. f[Pick(T)] = g[Pick(T)]
    BY <1>3, <1>7
  <1> QED
    BY <1>3, <1>4, <1>5, <1>8, <1>9

(* Sums over disjoint sets add up.                                          *)
LEMMA SumUnion ==
  ASSUME NEW A, NEW B, IsFiniteSet(A), IsFiniteSet(B), A \cap B = {},
         NEW f, IntOn(f, A \cup B)
  PROVE  Sum(f, A \cup B) = Sum(f, A) + Sum(f, B)
  <1> DEFINE Bad == {T \in SUBSET B : Sum(f, A \cup T) # Sum(f, A) + Sum(f, T)}
  <1> SUFFICES ASSUME Bad # {} PROVE FALSE
    OBVIOUS
  <1>1. Bad \subseteq SUBSET B
    OBVIOUS
  <1> HIDE DEF Bad
  <1>2. PICK T \in Bad : IsFiniteSet(T) /\ \A U \in SUBSET T : U # T => U \notin Bad
    BY <1>1, SmallestSubset
  <1>3. T \in SUBSET B /\ Sum(f, A \cup T) # Sum(f, A) + Sum(f, T)
    BY <1>2 DEF Bad
  <1>4. IntOn(f, A) /\ IntOn(f, T) /\ IntOn(f, A \cup T)
    BY <1>3 DEF IntOn
  <1>5. Sum(f, A) \in Int
    BY <1>4, SumInt
  <1>6. T # {}
    <2>1. ASSUME T = {} PROVE FALSE
      <3>1. A \cup T = A
        BY <2>1
      <3>2. Sum(f, T) = 0
        BY <2>1, SumOfNone
      <3> QED
        BY <3>1, <3>2, <1>3, <1>5
    <2> QED
      BY <2>1
  <1>7. PICK x : x \in T
    BY <1>6
  <1>8. IsFiniteSet(T \ {x}) /\ IntOn(f, T \ {x})
    BY <1>2, <1>4, FS_Subset DEF IntOn
  <1>9. Sum(f, T \ {x}) \in Int
    BY <1>8, SumInt
  <1>10. Sum(f, T) = f[x] + Sum(f, T \ {x})
    BY <1>2, <1>4, <1>7, SumRemove
  <1>11. Sum(f, A \cup T) = f[x] + Sum(f, (A \cup T) \ {x})
    <2>1. IsFiniteSet(A \cup T)
      BY <1>2, FS_Union
    <2> QED
      BY <2>1, <1>4, <1>7, SumRemove
  <1>12. (A \cup T) \ {x} = A \cup (T \ {x})
    BY <1>3, <1>7
  <1>13. Sum(f, A \cup (T \ {x})) = Sum(f, A) + Sum(f, T \ {x})
    <2>1. T \ {x} \in SUBSET T /\ T \ {x} # T
      BY <1>7
    <2>2. T \ {x} \notin Bad
      BY <2>1, <1>2
    <2> QED
      BY <2>2, <1>3 DEF Bad
  <1>14. f[x] \in Int
    BY <1>4, <1>7 DEF IntOn
  <1>15. \A i, j, k \in Int : i + (j + k) = j + (i + k)
    OBVIOUS
  <1>16. Sum(f, A \cup T) = f[x] + (Sum(f, A) + Sum(f, T \ {x}))
    BY <1>11, <1>12, <1>13
  <1> QED
    BY <1>3, <1>5, <1>9, <1>10, <1>14, <1>15, <1>16

(* The values b of the elements of U.                                       *)
Image(b, U) == {b[x] : x \in U}

(* What it is to be a bijection, without the operators of Functions.        *)
LEMMA BijectionIs ==
  ASSUME NEW S, NEW T, NEW b \in Bijection(S, T)
  PROVE  /\ b \in [S -> T]
         /\ \A x, y \in S : b[x] = b[y] => x = y
         /\ \A z \in T : \E x \in S : b[x] = z
  BY DEF Bijection, Injection, IsInjective, Surjection

(* The other way round: what has to be shown of a bijection.                *)
LEMMA IsBijection ==
  ASSUME NEW S, NEW T, NEW b \in [S -> T],
         \A x, y \in S : b[x] = b[y] => x = y,
         \A z \in T : \E x \in S : b[x] = z
  PROVE  b \in Bijection(S, T)
  BY DEF Bijection, Injection, IsInjective, Surjection

(* A sum does not depend on what its elements are called.                  *)
LEMMA SumMoved ==
  ASSUME NEW S, NEW T, IsFiniteSet(S), NEW b \in Bijection(S, T),
         NEW f, NEW g, IntOn(g, T), \A x \in S : f[x] = g[b[x]]
  PROVE  Sum(f, S) = Sum(g, T)
  <1> DEFINE Bad == {U \in SUBSET S : Sum(f, U) # Sum(g, Image(b, U))}
  <1>1. b \in [S -> T] /\ (\A x, y \in S : b[x] = b[y] => x = y) /\ \A z \in T : \E x \in S : b[x] = z
    BY BijectionIs
  <1>2. Image(b, S) = T
    BY <1>1 DEF Image
  <1>3. IsFiniteSet(T)
    BY FS_Bijection DEF ExistsBijection
  <1> SUFFICES ASSUME Bad # {} PROVE FALSE
    BY <1>2
  <1>4. Bad \subseteq SUBSET S
    OBVIOUS
  <1> HIDE DEF Bad
  <1>5. PICK U \in Bad : IsFiniteSet(U) /\ \A W \in SUBSET U : W # U => W \notin Bad
    BY <1>4, SmallestSubset
  <1>6. U \in SUBSET S /\ Sum(f, U) # Sum(g, Image(b, U))
    BY <1>5 DEF Bad
  <1>7. U # {}
    <2>1. ASSUME U = {} PROVE FALSE
      <3>1. Image(b, U) = {}
        BY <2>1 DEF Image
      <3> QED
        BY <3>1, <2>1, <1>6, SumOfNone
    <2> QED
      BY <2>1
  <1>8. PICK x : x \in U
    BY <1>7
  <1>9. Image(b, U \ {x}) = Image(b, U) \ {b[x]}
    BY <1>1, <1>6, <1>8 DEF Image
  <1>10. Image(b, U) \in SUBSET T
    BY <1>1, <1>6 DEF Image
  <1>11. IsFiniteSet(Image(b, U)) /\ IntOn(g, Image(b, U))
    BY <1>10, <1>3, FS_Subset DEF IntOn
  <1>12. b[x] \in Image(b, U)
    BY <1>8 DEF Image
  <1>13. Sum(g, Image(b, U)) = g[b[x]] + Sum(g, Image(b, U) \ {b[x]})
    BY <1>11, <1>12, SumRemove
  <1>14. IntOn(f, U)
    BY <1>6, <1>1 DEF IntOn
  <1>15. Sum(f, U) = f[x] + Sum(f, U \ {x})
    BY <1>5, <1>8, <1>14, SumRemove
  <1>16. Sum(f, U \ {x}) = Sum(g, Image(b, U \ {x}))
    <2>1. U \ {x} \in SUBSET U /\ U \ {x} # U
      BY <1>8
    <2>2. U \ {x} \notin Bad
      BY <2>1, <1>5
    <2> QED
      BY <2>2, <1>6 DEF Bad
  <1>17. f[x] = g[b[x]]
    BY <1>6, <1>8
  <1> QED
    BY <1>6, <1>9, <1>13, <1>15, <1>16, <1>17

(* As many as there are elements.                                          *)
LEMMA SumConstant ==
  ASSUME NEW S, IsFiniteSet(S), NEW c \in Int, NEW f, \A x \in S : f[x] = c
  PROVE  Sum(f, S) = c * Cardinality(S)
  <1> DEFINE Bad == {T \in SUBSET S : Sum(f, T) # c * Cardinality(T)}
  <1> SUFFICES ASSUME Bad # {} PROVE FALSE
    OBVIOUS
  <1>1. Bad \subseteq SUBSET S
    OBVIOUS
  <1> HIDE DEF Bad
  <1>2. PICK T \in Bad : IsFiniteSet(T) /\ \A U \in SUBSET T : U # T => U \notin Bad
    BY <1>1, SmallestSubset
  <1>3. T \in SUBSET S /\ Sum(f, T) # c * Cardinality(T)
    BY <1>2 DEF Bad
  <1>4. T # {}
    <2>1. ASSUME T = {} PROVE FALSE
      <3>1. Sum(f, T) = 0 /\ Cardinality(T) = 0
        BY <2>1, SumOfNone, FS_EmptySet
      <3> QED
        BY <3>1, <1>3
    <2> QED
      BY <2>1
  <1>5. PICK x : x \in T
    BY <1>4
  <1>6. IntOn(f, T)
    BY <1>3 DEF IntOn
  <1>7. Sum(f, T) = f[x] + Sum(f, T \ {x})
    BY <1>2, <1>5, <1>6, SumRemove
  <1>8. Cardinality(T) \in Nat /\ Cardinality(T \ {x}) \in Nat /\ Cardinality(T \ {x}) = Cardinality(T) - 1
    BY <1>2, <1>5, FS_CardinalityType, FS_RemoveElement
  <1>9. Sum(f, T \ {x}) = c * Cardinality(T \ {x})
    <2>1. T \ {x} \in SUBSET T /\ T \ {x} # T
      BY <1>5
    <2>2. T \ {x} \notin Bad
      BY <2>1, <1>2
    <2> QED
      BY <2>2, <1>3 DEF Bad
  <1>10. \A n \in Nat : c + c * (n - 1) = c * n
    OBVIOUS
  <1>11. f[x] = c
    BY <1>3, <1>5
  <1> QED
    BY <1>3, <1>7, <1>8, <1>9, <1>10, <1>11

(* Counting by value: how many of I have a value in K.                     *)
Having(I, t, K) == {i \in I : t[i] \in K}

(* A value can be taken out of K.                                           *)
LEMMA HavingSplits ==
  ASSUME NEW I, IsFiniteSet(I), NEW t, NEW K, NEW x \in K
  PROVE  /\ Having(I, t, K) = Having(I, t, {x}) \cup Having(I, t, K \ {x})
         /\ Having(I, t, {x}) \cap Having(I, t, K \ {x}) = {}
         /\ IsFiniteSet(Having(I, t, {x})) /\ IsFiniteSet(Having(I, t, K \ {x}))
         /\ Having(I, t, K) \subseteq I
  <1>1. \A L : Having(I, t, L) \subseteq I
    BY DEF Having
  <1>2. IsFiniteSet(Having(I, t, {x})) /\ IsFiniteSet(Having(I, t, K \ {x}))
    BY <1>1, FS_Subset
  <1>3. Having(I, t, K) = Having(I, t, {x}) \cup Having(I, t, K \ {x})
    BY DEF Having
  <1>4. Having(I, t, {x}) \cap Having(I, t, K \ {x}) = {}
    BY DEF Having
  <1> QED
    BY <1>1, <1>2, <1>3, <1>4

(* The counts of a histogram add up to the number of values counted.        *)
LEMMA SumCounts ==
  ASSUME NEW I, IsFiniteSet(I), NEW t, NEW K, IsFiniteSet(K),
         NEW h, \A k \in K : h[k] = Cardinality(Having(I, t, {k}))
  PROVE  Sum(h, K) = Cardinality(Having(I, t, K))
  <1> DEFINE Bad == {L \in SUBSET K : Sum(h, L) # Cardinality(Having(I, t, L))}
  <1> SUFFICES ASSUME Bad # {} PROVE FALSE
    OBVIOUS
  <1>1. Bad \subseteq SUBSET K
    OBVIOUS
  <1> HIDE DEF Bad
  <1>2. PICK L \in Bad : IsFiniteSet(L) /\ \A U \in SUBSET L : U # L => U \notin Bad
    BY <1>1, SmallestSubset
  <1>3. L \in SUBSET K /\ Sum(h, L) # Cardinality(Having(I, t, L))
    BY <1>2 DEF Bad
  <1>4. L # {}
    <2>1. ASSUME L = {} PROVE FALSE
      <3>1. Having(I, t, L) = {}
        BY <2>1 DEF Having
      <3> QED
        BY <3>1, <2>1, <1>3, SumOfNone, FS_EmptySet
    <2> QED
      BY <2>1
  <1>5. PICK x : x \in L
    BY <1>4
  <1> DEFINE A == Having(I, t, {x})
             B == Having(I, t, L \ {x})
  <1>6. Having(I, t, L) = A \cup B /\ A \cap B = {} /\ IsFiniteSet(A) /\ IsFiniteSet(B)
    BY <1>5, HavingSplits
  <1>7. ASSUME NEW k \in K
        PROVE  h[k] \in Nat
    <2>1. IsFiniteSet(Having(I, t, {k}))
      BY FS_Subset DEF Having
    <2> QED
      BY <2>1, <1>7, FS_CardinalityType
  <1>8. IntOn(h, L)
    BY <1>3, <1>7 DEF IntOn
  <1>9. Sum(h, L) = h[x] + Sum(h, L \ {x})
    BY <1>2, <1>5, <1>8, SumRemove
  <1>10. Sum(h, L \ {x}) = Cardinality(B)
    <2>1. L \ {x} \in SUBSET L /\ L \ {x} # L
      BY <1>5
    <2>2. L \ {x} \notin Bad
      BY <2>1, <1>2
    <2> QED
      BY <2>2, <1>3 DEF Bad
  <1>11. h[x] = Cardinality(A)
    BY <1>3, <1>5
  <1> HIDE DEF A, B
  <1>12. Cardinality(A \cup B) = Cardinality(A) + Cardinality(B)
    <2>1. Cardinality(A \cup B) = Cardinality(A) + Cardinality(B) - Cardinality(A \cap B)
      BY <1>6, FS_Union
    <2>2. Cardinality(A \cap B) = 0
      BY <1>6, FS_EmptySet
    <2>3. Cardinality(A) \in Nat /\ Cardinality(B) \in Nat
      BY <1>6, FS_CardinalityType
    <2> QED
      BY <2>1, <2>2, <2>3
  <1> QED
    BY <1>3, <1>6, <1>9, <1>10, <1>11, <1>12

(* The samples and the buckets stand for the same values, and the buckets   *)
(* are weighed by their counts.                                             *)
StandFor(u, g, t, I) == IntOn(u, I) /\ \A i \in I : u[i] = g[t[i]]
Weighed(w, g, t, I, K) == IntOn(g, K) /\ \A k \in K : w[k] = g[k] * Cardinality(Having(I, t, {k}))

(* What the buckets of a histogram stand for, each as often as it was       *)
(* counted, adds up to what the counted values stand for.                   *)
LEMMA SumWeighted ==
  ASSUME NEW I, IsFiniteSet(I), NEW t, NEW u, NEW g, StandFor(u, g, t, I),
         NEW K, IsFiniteSet(K), NEW w, Weighed(w, g, t, I, K)
  PROVE  Sum(w, K) = Sum(u, Having(I, t, K))
  <1>0. /\ IntOn(u, I) /\ \A i \in I : u[i] = g[t[i]]
        /\ IntOn(g, K) /\ \A k \in K : w[k] = g[k] * Cardinality(Having(I, t, {k}))
    BY DEF StandFor, Weighed
  <1> DEFINE Bad == {L \in SUBSET K : Sum(w, L) # Sum(u, Having(I, t, L))}
  <1> SUFFICES ASSUME Bad # {} PROVE FALSE
    OBVIOUS
  <1>1. Bad \subseteq SUBSET K
    OBVIOUS
  <1> HIDE DEF Bad
  <1>2. PICK L \in Bad : IsFiniteSet(L) /\ \A U \in SUBSET L : U # L => U \notin Bad
    BY <1>1, SmallestSubset
  <1>3. L \in SUBSET K /\ Sum(w, L) # Sum(u, Having(I, t, L))
    BY <1>2 DEF Bad
  <1>4. L # {}
    <2>1. ASSUME L = {} PROVE FALSE
      <3>1. Having(I, t, L) = {}
        BY <2>1 DEF Having
      <3> QED
        BY <3>1, <2>1, <1>3, SumOfNone
    <2> QED
      BY <2>1
  <1>5. PICK x : x \in L
    BY <1>4
  <1> DEFINE A == Having(I, t, {x})
             B == Having(I, t, L \ {x})
  <1>6. Having(I, t, L) = A \cup B /\ A \cap B = {} /\ IsFiniteSet(A) /\ IsFiniteSet(B)
        /\ Having(I, t, L) \subseteq I
    BY <1>5, HavingSplits
  <1>7. ASSUME NEW k \in K
        PROVE  w[k] \in Int
    <2>1. IsFiniteSet(Having(I, t, {k}))
      BY FS_Subset DEF Having
    <2>2. Cardinality(Having(I, t, {k})) \in Nat
      BY <2>1, FS_CardinalityType
    <2>3. g[k] * Cardinality(Having(I, t, {k})) \in Int
      BY <2>2, <1>0, <1>7 DEF IntOn
    <2> QED
      BY <2>3, <1>0, <1>7
  <1>8. IntOn(w, L)
    BY <1>3, <1>7 DEF IntOn
  <1>9. Sum(w, L) = w[x] + Sum(w, L \ {x})
    BY <1>2, <1>5, <1>8, SumRemove
  <1>10. Sum(w, L \ {x}) = Sum(u, B)
    <2>1. L \ {x} \in SUBSET L /\ L \ {x} # L
      BY <1>5
    <2>2. L \ {x} \notin Bad
      BY <2>1, <1>2
    <2> QED
      BY <2>2, <1>3 DEF Bad
  <1>11. w[x] = g[x] * Cardinality(A) /\ g[x] \in Int
    BY <1>0, <1>3, <1>5 DEF IntOn
  <1>12. Sum(u, A) = g[x] * Cardinality(A)
    <2>1. \A i \in A : u[i] = g[x]
      BY <1>0 DEF Having
    <2> HIDE DEF A
    <2> QED
      BY <2>1, <1>0, <1>6, <1>11, SumConstant
  <1> HIDE DEF A, B
  <1>13. IntOn(u, A \cup B)
    BY <1>0, <1>6 DEF IntOn
  <1>14. Sum(u, A \cup B) = Sum(u, A) + Sum(u, B)
    BY <1>6, <1>13, SumUnion
  <1> QED
    BY <1>3, <1>6, <1>9, <1>10, <1>11, <1>12, <1>14

(* The least element is the one that is below all others.                   *)
LEMMA MinIs ==
  ASSUME NEW S, S \subseteq Int, NEW m \in S, \A y \in S : m <= y
  PROVE  Min(S) = m
  <1>1. Min(S) \in S /\ \A y \in S : Min(S) <= y
    BY DEF Min
  <1>2. Min(S) <= m /\ m <= Min(S) /\ m \in Int /\ Min(S) \in Int
    BY <1>1
  <1> QED
    BY <1>2

(* The greatest element is the one that is above all others.                *)
LEMMA MaxIs ==
  ASSUME NEW S, S \subseteq Int, NEW m \in S, \A y \in S : y <= m
  PROVE  Max(S) = m
  <1>1. \A y \in S : m >= y
    OBVIOUS
  <1>2. Max(S) \in S /\ \A y \in S : Max(S) >= y
    BY <1>1 DEF Max
  <1>3. m <= Max(S) /\ Max(S) <= m /\ m \in Int /\ Max(S) \in Int
    BY <1>2
  <1> QED
    BY <1>3

(* A finite set of integers has a least element.                            *)
LEMMA LeastOfFinite ==
  ASSUME NEW S, IsFiniteSet(S), S \subseteq Int, S # {}
  PROVE  Min(S) \in S /\ \A y \in S : Min(S) <= y
  <1> DEFINE Bad == {T \in SUBSET S : T # {} /\ ~ \E x \in T : \A y \in T : x <= y}
  <1>1. Bad = {}
    <2> SUFFICES ASSUME Bad # {} PROVE FALSE
      OBVIOUS
    <2>1. Bad \subseteq SUBSET S
      OBVIOUS
    <2> HIDE DEF Bad
    <2>2. PICK T \in Bad : IsFiniteSet(T) /\ \A U \in SUBSET T : U # T => U \notin Bad
      BY <2>1, SmallestSubset
    <2>3. T \in SUBSET S /\ T # {} /\ ~ \E x \in T : \A y \in T : x <= y
      BY <2>2 DEF Bad
    <2>4. PICK x : x \in T
      BY <2>3
    <2>5. CASE T \ {x} = {}
      <3>1. \A y \in T : x <= y
        BY <2>3, <2>4, <2>5
      <3> QED
        BY <3>1, <2>3, <2>4
    <2>6. CASE T \ {x} # {}
      <3>1. T \ {x} \in SUBSET T /\ T \ {x} # T
        BY <2>4
      <3>2. T \ {x} \notin Bad
        BY <3>1, <2>2
      <3>3. PICK m \in T \ {x} : \A y \in T \ {x} : m <= y
        BY <3>2, <2>3, <2>6 DEF Bad
      <3>4. m \in Int /\ x \in Int /\ \A y \in T : y \in Int
        BY <2>3, <2>4, <3>3
      <3>5. CASE m <= x
        <4>1. \A y \in T : m <= y
          BY <3>3, <3>5
        <4> QED
          BY <4>1, <2>3, <3>3
      <3>6. CASE x < m
        <4>1. \A y \in T : x <= y
          BY <3>3, <3>4, <3>6
        <4> QED
          BY <4>1, <2>3, <2>4
      <3> QED
        BY <3>4, <3>5, <3>6
    <2> QED
      BY <2>5, <2>6
  <1>2. PICK m \in S : \A y \in S : m <= y
    BY <1>1
  <1>3. Min(S) = m
    BY <1>2, MinIs
  <1> QED
    BY <1>2, <1>3

(* The greatest of S is the opposite of the least of the opposites.        *)
LEMMA GreatestOfFinite ==
  ASSUME NEW S, IsFiniteSet(S), S \subseteq Int, S # {}
  PROVE  Max(S) \in S /\ \A y \in S : y <= Max(S)
  <1> DEFINE o == [x \in S |-> -x]
             N == Image(o, S)
  <1>1. N \subseteq Int /\ N # {}
    <2>1. \A x \in S : o[x] \in Int
      OBVIOUS
    <2> HIDE DEF o
    <2> QED
      BY <2>1 DEF Image
  <1>2. IsFiniteSet(N)
    <2>1. o \in [S -> N]
      BY DEF Image
    <2>2. \A z \in N : \E x \in S : o[x] = z
      BY DEF Image
    <2>3. \A x, y \in S : o[x] = o[y] => x = y
      OBVIOUS
    <2> HIDE DEF o, N
    <2>4. o \in Bijection(S, N)
      BY <2>1, <2>2, <2>3, IsBijection
    <2> QED
      BY <2>4, FS_Bijection DEF ExistsBijection
  <1> HIDE DEF N
  <1>3. Min(N) \in N /\ \A y \in N : Min(N) <= y
    BY <1>1, <1>2, LeastOfFinite
  <1>4. PICK m \in S : Min(N) = -m
    BY <1>3 DEF N, Image
  <1>5. ASSUME NEW y \in S
        PROVE  -y \in N
    <2>1. o[y] = -y
      OBVIOUS
    <2>2. o[y] \in N
      BY DEF N, Image
    <2> QED
      BY <2>1, <2>2
  <1>6. ASSUME NEW y \in S
        PROVE  y <= m
    <2>1. -m <= -y
      BY <1>3, <1>4, <1>5
    <2> QED
      BY <2>1
  <1>7. Max(S) = m
    BY <1>6, MaxIs
  <1> QED
    BY <1>6, <1>7

-----------------------------------------------------------------------------
(* A list of integers can be sorted: each value goes to the place that is   *)
(* the number of values before it, equal values staying in order.           *)
Before(s, j, i) == s[j] < s[i] \/ (s[j] = s[i] /\ j <= i)
Place(s, i) == {j \in DOMAIN s : Before(s, j, i)}

(* The places are ordered: equal values by where they were.                 *)
LEMMA BeforeOrders ==
  ASSUME NEW s, NEW n \in Nat, s \in [1 .. n -> Int], NEW i \in 1 .. n, NEW j \in 1 .. n
  PROVE  /\ Before(s, i, i)
         /\ Before(s, i, j) \/ Before(s, j, i)
         /\ Before(s, i, j) /\ Before(s, j, i) => i = j
         /\ \A k \in 1 .. n : Before(s, i, j) /\ Before(s, j, k) => Before(s, i, k)
         /\ Before(s, i, j) => s[i] <= s[j]
  <1>1. \A k \in 1 .. n : s[k] \in Int
    OBVIOUS
  <1> QED
    BY <1>1 DEF Before

(* The number of values before one is its place in the sorted list, and     *)
(* grows with it.                                                           *)
LEMMA RankIsPlace ==
  ASSUME NEW s, NEW n \in Nat, s \in [1 .. n -> Int]
  PROVE  /\ \A i \in 1 .. n : Cardinality(Place(s, i)) \in 1 .. n
         /\ \A i, j \in 1 .. n : Before(s, i, j) /\ i # j => Cardinality(Place(s, i)) < Cardinality(Place(s, j))
  <1>1. DOMAIN s = 1 .. n /\ IsFiniteSet(1 .. n) /\ Cardinality(1 .. n) = n
    BY FS_Interval
  <1>2. ASSUME NEW i \in 1 .. n
        PROVE  IsFiniteSet(Place(s, i)) /\ Cardinality(Place(s, i)) \in 1 .. n
    <2>1. Place(s, i) \in SUBSET (1 .. n)
      BY <1>1 DEF Place
    <2>2. IsFiniteSet(Place(s, i)) /\ Cardinality(Place(s, i)) <= n
      BY <2>1, <1>1, FS_Subset
    <2>3. i \in Place(s, i)
      BY <1>1, BeforeOrders DEF Place
    <2>4. Cardinality(Place(s, i)) # 0 /\ Cardinality(Place(s, i)) \in Nat
      BY <2>2, <2>3, FS_EmptySet, FS_CardinalityType
    <2> QED
      BY <2>2, <2>4
  <1>3. ASSUME NEW i \in 1 .. n, NEW j \in 1 .. n, Before(s, i, j), i # j
        PROVE  Cardinality(Place(s, i)) < Cardinality(Place(s, j))
    <2>1. Place(s, i) \in SUBSET Place(s, j)
      BY <1>1, <1>3, BeforeOrders DEF Place
    <2>2. j \in Place(s, j)
      BY <1>1, BeforeOrders DEF Place
    <2>3. j \notin Place(s, i)
      BY <1>1, <1>3, BeforeOrders DEF Place
    <2>4. IsFiniteSet(Place(s, j))
      BY <1>2
    <2>5. Cardinality(Place(s, i)) <= Cardinality(Place(s, j))
      BY <2>1, <2>4, FS_Subset
    <2>6. Cardinality(Place(s, i)) # Cardinality(Place(s, j))
      BY <2>1, <2>2, <2>3, <2>4, FS_Subset
    <2>7. Cardinality(Place(s, i)) \in 1 .. n /\ Cardinality(Place(s, j)) \in 1 .. n
      BY <1>2
    <2> QED
      BY <2>5, <2>6, <2>7
  <1> QED
    BY <1>2, <1>3

(* Some reordering of a list of integers is ascending.                      *)
LEMMA SortingExists ==
  ASSUME NEW s, NEW n \in Nat, s \in [1 .. n -> Int]
  PROVE  \E p \in Bijection(DOMAIN s, DOMAIN s) : Ascending(Reordered(s, p))
  <1> DEFINE r == [i \in 1 .. n |-> Cardinality(Place(s, i))]
  <1>1. DOMAIN s = 1 .. n /\ IsFiniteSet(1 .. n)
    BY FS_Interval
  <1>2. r \in [1 .. n -> 1 .. n]
    BY RankIsPlace
  <1>3. \A i, j \in 1 .. n : Before(s, i, j) /\ i # j => r[i] < r[j]
    BY RankIsPlace
  <1> HIDE DEF r
  <1>4. \A i, j \in 1 .. n : r[i] = r[j] => i = j
    <2>1. \A i \in 1 .. n : r[i] \in Int
      BY <1>2
    <2>2. \A i, j \in 1 .. n : Before(s, i, j) \/ Before(s, j, i)
      BY BeforeOrders
    <2> QED
      BY <1>3, <2>1, <2>2
  <1>5. r \in Injection(1 .. n, 1 .. n)
    BY <1>2, <1>4 DEF Injection, IsInjective
  <1>6. r \in Surjection(1 .. n, 1 .. n)
    BY <1>1, <1>5, FS_Injection
  <1>7. \A m \in 1 .. n : \E i \in 1 .. n : r[i] = m
    BY <1>6 DEF Surjection
  <1> DEFINE p == [m \in 1 .. n |-> CHOOSE i \in 1 .. n : r[i] = m]
  <1>8. \A m \in 1 .. n : p[m] \in 1 .. n /\ r[p[m]] = m
    BY <1>7
  <1>9. p \in [1 .. n -> 1 .. n]
    BY <1>8
  <1> HIDE DEF p
  <1>10. p \in Bijection(1 .. n, 1 .. n)
    <2>1. \A x, y \in 1 .. n : p[x] = p[y] => x = y
      BY <1>8
    <2>2. \A z \in 1 .. n : \E x \in 1 .. n : p[x] = z
      BY <1>2, <1>4, <1>8
    <2> QED
      BY <2>1, <2>2, <1>9, IsBijection
  <1>11. ASSUME NEW i \in 1 .. n, NEW j \in 1 .. n, i < j
         PROVE  s[p[i]] <= s[p[j]]
    <2>1. p[i] \in 1 .. n /\ p[j] \in 1 .. n /\ r[p[i]] = i /\ r[p[j]] = j
      BY <1>8
    <2>2. ~(Before(s, p[j], p[i]) /\ p[i] # p[j])
      <3>1. ~(j < i)
        BY <1>11
      <3> QED
        BY <2>1, <3>1, <1>3
    <2>3. p[i] # p[j]
      BY <2>1, <1>11
    <2>4. Before(s, p[i], p[j])
      BY <2>1, <2>2, <2>3, BeforeOrders
    <2> QED
      BY <2>1, <2>4, BeforeOrders
  <1>12. Ascending(Reordered(s, p))
    <2>1. DOMAIN Reordered(s, p) = 1 .. n /\ \A i \in 1 .. n : Reordered(s, p)[i] = s[p[i]]
      BY <1>1 DEF Reordered
    <2> QED
      BY <2>1, <1>11 DEF Ascending
  <1> QED
    BY <1>1, <1>10, <1>12

(* list.sort() reorders the values, and leaves them ascending.              *)
LEMMA SortedIs ==
  ASSUME NEW s, NEW n \in Nat, s \in [1 .. n -> Int]
  PROVE  \E p \in Bijection(1 .. n, 1 .. n) :
           /\ Sorted(s) = Reordered(s, p)
           /\ Ascending(Sorted(s))
  <1>1. DOMAIN s = 1 .. n
    OBVIOUS
  <1>2. \E p \in Bijection(DOMAIN s, DOMAIN s) : Ascending(Reordered(s, p))
    BY SortingExists
  <1> DEFINE p == CHOOSE p \in Bijection(DOMAIN s, DOMAIN s) : Ascending(Reordered(s, p))
  <1>3. p \in Bijection(DOMAIN s, DOMAIN s) /\ Ascending(Reordered(s, p))
    BY <1>2
  <1>4. Sorted(s) = Reordered(s, p)
    BY DEF Sorted
  <1> QED
    BY <1>1, <1>3, <1>4

-----------------------------------------------------------------------------
(* Adding a sample to a sink.                                               *)

(* What a sink is after it was given the values v of the samples I.         *)
Rounded(v, I) == [i \in I |-> Bucket(v[i])]

IsCounter(sink, v, I) == sink = [type |-> "counter", value |-> Sum(v, I)]

IsGauge(sink, v, I) ==
  sink = IF I = {} THEN [type |-> "gauge", value |-> 0, min |-> Inf, max |-> -Inf]
         ELSE [type |-> "gauge", value |-> v[Max(I)], min |-> Min(Image(v, I)), max |-> Max(Image(v, I))]

IsRate(sink, v, I) ==
  sink = [type |-> "rate", trues |-> Cardinality({i \in I : v[i] # 0}), total |-> Cardinality(I)]

Lists(s, b, n, v, I) ==
  /\ s \in [1 .. n -> Int] /\ b \in Bijection(1 .. n, I)
  /\ \A k \in 1 .. n : s[k] = v[b[k]]

IsList(sink, v, I) ==
  \E n \in Nat : \E s, b, sorted :
    /\ Lists(s, b, n, v, I)
    /\ sorted \in BOOLEAN /\ (sorted => Ascending(s))
    /\ sink = [type |-> "trend", values |-> s, sorted |-> sorted]

Counts(v, I) == [k \in Image(Rounded(v, I), I) |-> Cardinality(Having(I, Rounded(v, I), {k}))]
IsHistogram(sink, v, I) == sink = [type |-> "hdr", hdr |-> Counts(v, I)]

Represents(sink, type, nat, v, I) ==
  /\ type = "counter" => IsCounter(sink, v, I)
  /\ type = "gauge" => IsGauge(sink, v, I)
  /\ type = "rate" => IsRate(sink, v, I)
  /\ type = "trend" /\ ~nat => IsList(sink, v, I)
  /\ type = "trend" /\ nat => IsHistogram(sink, v, I)

(* The samples so far, and one more, m, after all of them.                  *)
Values(v, I) == IsFiniteSet(I) /\ I \subseteq Nat /\ v \in [I -> Int]
Extends(w, v, I, m) ==
  /\ Values(v, I)
  /\ m \in Nat /\ m \notin I /\ \A i \in I : i < m
  /\ w \in [I \cup {m} -> Int]
  /\ \A i \in I : w[i] = v[i]

(* CounterSink.add() keeps the sum of the samples.                          *)
LEMMA CounterAdds ==
  ASSUME NEW v, NEW w, NEW I, NEW m, Extends(w, v, I, m), NEW sink, IsCounter(sink, v, I)
  PROVE  IsCounter(Add(sink, w[m]), w, I \cup {m})
  <1>1. Add(sink, w[m]) = [type |-> "counter", value |-> Sum(v, I) + w[m]]
    BY DEF IsCounter, Add
  <1>2. IntOn(w, I) /\ w[m] \in Int /\ IsFiniteSet(I) /\ m \notin I
    BY DEF Extends, Values, IntOn
  <1>3. Sum(w, I \cup {m}) = Sum(w, I) + w[m]
    BY <1>2, SumAdd
  <1>4. Sum(w, I) = Sum(v, I)
    BY <1>2, SumSame DEF Extends
  <1> QED
    BY <1>1, <1>3, <1>4 DEF IsCounter

(* The values with one more sample.                                         *)
LEMMA ImageExtends ==
  ASSUME NEW v, NEW w, NEW I, NEW m, \A i \in I : w[i] = v[i]
  PROVE  Image(w, I \cup {m}) = Image(v, I) \cup {w[m]}
  BY DEF Image

(* Finitely many samples have finitely many values.                         *)
LEMMA ImageFinite ==
  ASSUME NEW I, IsFiniteSet(I), NEW v
  PROVE  IsFiniteSet(Image(v, I))
  <1> DEFINE f == [i \in I |-> v[i]]
  <1>1. f \in [I -> Image(v, I)] /\ \A z \in Image(v, I) : \E i \in I : f[i] = z
    BY DEF Image
  <1> HIDE DEF f
  <1>2. f \in Surjection(I, Image(v, I))
    BY <1>1 DEF Surjection
  <1> QED
    BY <1>2, FS_Surjection

(* The values of the samples of a sink.                                     *)
LEMMA ImageOfInts ==
  ASSUME NEW v, NEW I, Values(v, I)
  PROVE  /\ IsFiniteSet(Image(v, I)) /\ Image(v, I) \subseteq Int
         /\ I # {} => Image(v, I) # {}
  <1>1. IsFiniteSet(Image(v, I))
    BY ImageFinite DEF Values
  <1>2. \A i \in I : v[i] \in Int
    BY DEF Values
  <1>3. Image(v, I) \subseteq Int /\ (I # {} => Image(v, I) # {})
    BY <1>2 DEF Image
  <1> QED
    BY <1>1, <1>3

(* min() and max() with one more value.                                     *)
LEMMA MinWith ==
  ASSUME NEW S, IsFiniteSet(S), S \subseteq Int, S # {}, NEW x \in Int
  PROVE  Min({Min(S), x}) = Min(S \cup {x}) /\ Max({Max(S), x}) = Max(S \cup {x})
  <1>1. Min(S) \in S /\ \A y \in S : Min(S) <= y
    BY LeastOfFinite
  <1>2. Max(S) \in S /\ \A y \in S : y <= Max(S)
    BY GreatestOfFinite
  <1> DEFINE a == Min(S)
             z == Max(S)
             lo == IF a <= x THEN a ELSE x
             hi == IF x <= z THEN z ELSE x
  <1>3. a \in Int /\ z \in Int
    BY <1>1, <1>2
  <1>4. a \in S /\ z \in S /\ \A y \in S : a <= y /\ y <= z
    BY <1>1, <1>2
  <1> HIDE DEF a, z
  <1>5. lo \in {a, x} /\ lo \in S \cup {x} /\ lo <= a /\ lo <= x /\ lo \in Int
    BY <1>3, <1>4
  <1>6. hi \in {z, x} /\ hi \in S \cup {x} /\ z <= hi /\ x <= hi /\ hi \in Int
    BY <1>3, <1>4
  <1>7. S \cup {x} \subseteq Int /\ {a, x} \subseteq Int /\ {z, x} \subseteq Int
    BY <1>3
  <1> HIDE DEF lo, hi
  <1>8. Min({a, x}) = lo
    <2>1. \A y \in {a, x} : lo <= y
      BY <1>5
    <2> QED
      BY <2>1, <1>5, <1>7, MinIs
  <1>9. Max({z, x}) = hi
    <2>1. \A y \in {z, x} : y <= hi
      BY <1>6
    <2> QED
      BY <2>1, <1>6, <1>7, MaxIs
  <1>10. Min(S \cup {x}) = lo
    <2>1. \A y \in S \cup {x} : lo <= y
      BY <1>3, <1>4, <1>5
    <2> QED
      BY <2>1, <1>5, <1>7, MinIs
  <1>11. Max(S \cup {x}) = hi
    <2>1. \A y \in S \cup {x} : y <= hi
      BY <1>3, <1>4, <1>6
    <2> QED
      BY <2>1, <1>6, <1>7, MaxIs
  <1> QED
    BY <1>8, <1>9, <1>10, <1>11 DEF a, z

(* The fields GaugeSink.add() assigns are all but the type.                 *)
LEMMA GaugeRecord ==
  ASSUME NEW t, NEW a, NEW b, NEW c, NEW x, NEW y, NEW z
  PROVE  [[type |-> t, value |-> a, min |-> b, max |-> c] EXCEPT !.value = x, !.min = y, !.max = z]
         = [type |-> t, value |-> x, min |-> y, max |-> z]
  <1>1. [[type |-> t, value |-> a, min |-> b, max |-> c] EXCEPT !.value = x]
        = [type |-> t, value |-> x, min |-> b, max |-> c]
    OBVIOUS
  <1>2. [[type |-> t, value |-> x, min |-> b, max |-> c] EXCEPT !.min = y]
        = [type |-> t, value |-> x, min |-> y, max |-> c]
    OBVIOUS
  <1>3. [[type |-> t, value |-> x, min |-> y, max |-> c] EXCEPT !.max = z]
        = [type |-> t, value |-> x, min |-> y, max |-> z]
    OBVIOUS
  <1> QED
    BY <1>1, <1>2, <1>3

(* GaugeSink.add() keeps the newest value, the least and the greatest, and  *)
(* its first value replaces both infinities.                                *)
LEMMA GaugeAdds ==
  ASSUME NEW v, NEW w, NEW I, NEW m, Extends(w, v, I, m), -Inf < w[m], w[m] < Inf, Inf \in Nat,
         NEW sink, IsGauge(sink, v, I)
  PROVE  IsGauge(Add(sink, w[m]), w, I \cup {m})
  <1>1. w[m] \in Int /\ Values(v, I) /\ (\A i \in I : w[i] = v[i] /\ i < m) /\ m \in Nat /\ I \subseteq Nat
    BY DEF Extends, Values
  <1>2. Max(I \cup {m}) = m
    <2>1. I \cup {m} \subseteq Int /\ \A y \in I \cup {m} : y <= m
      BY <1>1
    <2> QED
      BY <2>1, MaxIs
  <1>3. \A i \in I : w[i] = v[i]
    BY DEF Extends
  <1>4. Image(w, I \cup {m}) = Image(v, I) \cup {w[m]}
    BY <1>3, ImageExtends
  <1>5. sink.type = "gauge" /\ DOMAIN sink = {"type", "value", "min", "max"}
    BY DEF IsGauge
  <1>6. Add(sink, w[m]) = [type |-> "gauge", value |-> w[m], min |-> Min({sink.min, w[m]}), max |-> Max({sink.max, w[m]})]
    <2>1. PICK a, b, c : sink = [type |-> "gauge", value |-> a, min |-> b, max |-> c]
      BY DEF IsGauge
    <2>2. sink.min = b /\ sink.max = c
      BY <2>1
    <2>3. Add(sink, w[m]) = [sink EXCEPT !.value = w[m], !.min = Min({b, w[m]}), !.max = Max({c, w[m]})]
      BY <1>5, <2>2 DEF Add
    <2>4. Add(sink, w[m]) = [type |-> "gauge", value |-> w[m], min |-> Min({b, w[m]}), max |-> Max({c, w[m]})]
      BY <2>1, <2>3, GaugeRecord
    <2> QED
      BY <2>2, <2>4
  <1>7. Min({sink.min, w[m]}) = Min(Image(w, I \cup {m})) /\ Max({sink.max, w[m]}) = Max(Image(w, I \cup {m}))
    <2>1. CASE I = {}
      <3>1. sink.min = Inf /\ sink.max = -Inf
        BY <2>1 DEF IsGauge
      <3>2. Image(w, I \cup {m}) = {w[m]}
        BY <1>4, <2>1 DEF Image
      <3>3. Min({w[m]}) = w[m] /\ Max({w[m]}) = w[m]
        BY <1>1, MinIs, MaxIs
      <3>4. Min({Inf, w[m]}) = w[m]
        <4>1. {Inf, w[m]} \subseteq Int /\ \A y \in {Inf, w[m]} : w[m] <= y
          BY <1>1
        <4> QED
          BY <4>1, MinIs
      <3>5. Max({-Inf, w[m]}) = w[m]
        <4>1. {-Inf, w[m]} \subseteq Int /\ \A y \in {-Inf, w[m]} : y <= w[m]
          BY <1>1
        <4> QED
          BY <4>1, MaxIs
      <3> QED
        BY <3>1, <3>2, <3>3, <3>4, <3>5
    <2>2. CASE I # {}
      <3>1. sink.min = Min(Image(v, I)) /\ sink.max = Max(Image(v, I))
        BY <2>2 DEF IsGauge
      <3>2. IsFiniteSet(Image(v, I)) /\ Image(v, I) \subseteq Int /\ Image(v, I) # {}
        BY <2>2, <1>1, ImageOfInts
      <3> QED
        BY <3>1, <3>2, <1>1, <1>4, MinWith, SMTT(40)
    <2> QED
      BY <2>1, <2>2
  <1>8. I \cup {m} # {}
    OBVIOUS
  <1> QED
    BY <1>2, <1>6, <1>7, <1>8 DEF IsGauge

(* RateSink.add() counts the samples and those that are not zero.           *)
LEMMA RateAdds ==
  ASSUME NEW v, NEW w, NEW I, NEW m, Extends(w, v, I, m), NEW sink, IsRate(sink, v, I)
  PROVE  IsRate(Add(sink, w[m]), w, I \cup {m})
  <1> DEFINE A == {i \in I : v[i] # 0}
             B == {i \in I \cup {m} : w[i] # 0}
  <1>1. IsFiniteSet(I) /\ m \notin I /\ \A i \in I : w[i] = v[i]
    BY DEF Extends, Values
  <1>2. B = IF w[m] = 0 THEN A ELSE A \cup {m}
    BY <1>1
  <1>3. m \notin A /\ IsFiniteSet(A)
    BY <1>1, FS_Subset
  <1>4. sink = [type |-> "rate", trues |-> Cardinality(A), total |-> Cardinality(I)]
    BY DEF IsRate
  <1> HIDE DEF A, B
  <1>5. Cardinality(B) = IF w[m] = 0 THEN Cardinality(A) ELSE Cardinality(A) + 1
    BY <1>2, <1>3, FS_AddElement
  <1>6. Cardinality(I \cup {m}) = Cardinality(I) + 1
    BY <1>1, FS_AddElement
  <1>7. Add(sink, w[m]) = [type |-> "rate", trues |-> IF w[m] = 0 THEN Cardinality(A) ELSE Cardinality(A) + 1,
                           total |-> Cardinality(I) + 1]
    BY <1>4 DEF Add
  <1>8. Add(sink, w[m]) = [type |-> "rate", trues |-> Cardinality(B), total |-> Cardinality(I \cup {m})]
    BY <1>5, <1>6, <1>7
  <1> QED
    BY <1>8 DEF IsRate, B

(* The two ways to say that s is a list of n integers.                      *)
LEMMA SequenceOf ==
  ASSUME NEW n \in Nat, NEW s \in [1 .. n -> Int]
  PROVE  s \in Seq(Int) /\ Len(s) = n /\ DOMAIN s = 1 .. n
  <1>1. s \in Seq(Int)
    BY SeqDef
  <1>2. Len(s) \in Nat /\ DOMAIN s = 1 .. Len(s)
    BY <1>1, LenProperties
  <1> QED
    BY <1>1, <1>2

(* What list.append() leaves and what it adds.                              *)
LEMMA AppendTo ==
  ASSUME NEW n \in Nat, NEW s \in [1 .. n -> Int], NEW x \in Int
  PROVE  /\ Append(s, x) \in [1 .. n + 1 -> Int]
         /\ Append(s, x)[n + 1] = x
         /\ \A k \in 1 .. n : Append(s, x)[k] = s[k]
  <1>1. s \in Seq(Int) /\ Len(s) = n
    BY SequenceOf
  <1>2. /\ Append(s, x) \in Seq(Int) /\ Len(Append(s, x)) = n + 1
        /\ \A i \in 1 .. n : Append(s, x)[i] = s[i]
        /\ Append(s, x)[n + 1] = x
    BY <1>1, AppendProperties
  <1>3. Append(s, x) \in [1 .. n + 1 -> Int]
    BY <1>2, LenProperties
  <1> QED
    BY <1>2, <1>3

(* TrendSink.add() appends the value, and the list is no longer sorted.     *)
LEMMA ListAdds ==
  ASSUME NEW v, NEW w, NEW I, NEW m, Extends(w, v, I, m), NEW sink, IsList(sink, v, I)
  PROVE  IsList(Add(sink, w[m]), w, I \cup {m})
  <1>1. PICK n \in Nat : \E s, b, sorted :
          /\ Lists(s, b, n, v, I)
          /\ sorted \in BOOLEAN /\ (sorted => Ascending(s))
          /\ sink = [type |-> "trend", values |-> s, sorted |-> sorted]
    BY DEF IsList
  <1>2. PICK s, b, sorted :
          /\ Lists(s, b, n, v, I)
          /\ sorted \in BOOLEAN /\ (sorted => Ascending(s))
          /\ sink = [type |-> "trend", values |-> s, sorted |-> sorted]
    BY <1>1
  <1>3. w[m] \in Int /\ m \notin I /\ \A i \in I : w[i] = v[i]
    BY DEF Extends
  <1>4. s \in [1 .. n -> Int] /\ b \in Bijection(1 .. n, I) /\ \A k \in 1 .. n : s[k] = v[b[k]]
    BY <1>2 DEF Lists
  <1>5. b \in [1 .. n -> I] /\ (\A x, y \in 1 .. n : b[x] = b[y] => x = y) /\ \A z \in I : \E x \in 1 .. n : b[x] = z
    BY <1>4, BijectionIs
  <1> DEFINE r == Append(s, w[m])
             c == [k \in 1 .. n + 1 |-> IF k = n + 1 THEN m ELSE b[k]]
  <1>6. r \in [1 .. n + 1 -> Int] /\ r[n + 1] = w[m] /\ \A k \in 1 .. n : r[k] = s[k]
    BY <1>3, <1>4, AppendTo, ZenonT(60)
  <1>7. c[n + 1] = m /\ \A k \in 1 .. n : c[k] = b[k]
    OBVIOUS
  <1>8. c \in [1 .. n + 1 -> I \cup {m}]
    BY <1>5
  <1>9. \A k \in 1 .. n + 1 : k \in 1 .. n \/ k = n + 1
    OBVIOUS
  <1> HIDE DEF r, c
  <1>10. \A x, y \in 1 .. n + 1 : c[x] = c[y] => x = y
    BY <1>3, <1>5, <1>7, <1>9
  <1>11. \A z \in I \cup {m} : \E x \in 1 .. n + 1 : c[x] = z
    <2>1. \A z \in I : \E x \in 1 .. n : c[x] = z
      BY <1>5, <1>7
    <2>2. 1 .. n \subseteq 1 .. n + 1 /\ n + 1 \in 1 .. n + 1
      OBVIOUS
    <2> QED
      BY <2>1, <2>2, <1>7
  <1>12. c \in Bijection(1 .. n + 1, I \cup {m})
    BY <1>8, <1>10, <1>11, IsBijection
  <1>13. \A k \in 1 .. n + 1 : r[k] = w[c[k]]
    <2>1. \A k \in 1 .. n : r[k] = w[c[k]]
      BY <1>3, <1>4, <1>5, <1>6, <1>7
    <2> QED
      BY <2>1, <1>6, <1>7, <1>9
  <1>14. Lists(r, c, n + 1, w, I \cup {m})
    BY <1>6, <1>12, <1>13 DEF Lists
  <1>15. Add(sink, w[m]) = [type |-> "trend", values |-> r, sorted |-> FALSE]
    BY <1>2 DEF Add, Listed, r
  <1>16. n + 1 \in Nat
    OBVIOUS
  <1> QED
    BY <1>14, <1>15, <1>16 DEF IsList

(* A bucket has a width, and of two values the greater is in a bucket that  *)
(* is no narrower.                                                          *)
LEMMA WidthIs ==
  ASSUME NEW k \in Nat
  PROVE  Width(k) \in Nat /\ Width(k) > 0 /\ \A j \in Nat : j <= k => Width(j) <= Width(k)
  <1> DEFINE Begun(j) == {w \in Widths : w = 1 \/ Half * w <= j}
  <1>1. IsFiniteSet(Widths) /\ Widths \subseteq Nat \ {0} /\ 1 \in Widths /\ Half \in Nat
    BY SinksAssumption
  <1>2. ASSUME NEW j \in Nat
        PROVE  Begun(j) \subseteq Nat \ {0} /\ Width(j) \in Begun(j) /\ \A w \in Begun(j) : w <= Width(j)
    <2>1. Begun(j) \in SUBSET Widths /\ 1 \in Begun(j)
      BY <1>1
    <2>2. Width(j) = Max(Begun(j))
      BY DEF Width
    <2> HIDE DEF Begun
    <2>3. IsFiniteSet(Begun(j))
      BY <1>1, <2>1, FS_Subset
    <2>4. Begun(j) \subseteq Nat \ {0} /\ Begun(j) # {}
      BY <1>1, <2>1
    <2>5. Begun(j) \subseteq Int
      BY <2>4
    <2> QED
      BY <2>2, <2>3, <2>4, <2>5, GreatestOfFinite
  <1>3. ASSUME NEW j \in Nat, j <= k
        PROVE  Begun(j) \subseteq Begun(k)
    <2>1. \A w \in Widths : Half * w \in Nat
      BY <1>1
    <2>2. \A x \in Nat : x <= j => x <= k
      BY <1>3
    <2> QED
      BY <2>1, <2>2
  <1> HIDE DEF Begun
  <1>4. Width(k) \in Nat /\ Width(k) > 0
    BY <1>2
  <1>5. \A j \in Nat : j <= k => Width(j) <= Width(k)
    BY <1>2, <1>3
  <1> QED
    BY <1>4, <1>5

(* The highest values of the buckets are in the order of the lowest ones.   *)
LEMMA HighestIs ==
  ASSUME NEW k \in Nat
  PROVE  /\ Highest(k) \in Nat /\ Middle(k) \in Nat
         /\ \A j \in Nat : (j <= k <=> Highest(j) <= Highest(k)) /\ (j < k <=> Highest(j) < Highest(k))
  <1>1. \A j \in Nat : Width(j) \in Nat /\ Width(j) > 0
    BY WidthIs
  <1>2. \A j \in Nat : (j <= k => Width(j) <= Width(k)) /\ (k <= j => Width(k) <= Width(j))
    BY WidthIs
  <1>3. \A j \in Nat : Highest(j) = j + Width(j) - 1
    BY DEF Highest
  <1>4. \A j \in Nat : Highest(j) \in Nat
    BY <1>1, <1>3
  <1>5. Middle(k) \in Nat
    <2>1. \A w \in Nat : w \div 2 \in Nat
      OBVIOUS
    <2> QED
      BY <1>1, <2>1 DEF Middle
  <1>6. ASSUME NEW j \in Nat
        PROVE  (j <= k <=> Highest(j) <= Highest(k)) /\ (j < k <=> Highest(j) < Highest(k))
    <2>1. Width(j) \in Nat /\ Width(k) \in Nat
      BY <1>1
    <2>2. Highest(j) = j + Width(j) - 1 /\ Highest(k) = k + Width(k) - 1
      BY <1>3
    <2>3. (j <= k => Width(j) <= Width(k)) /\ (k <= j => Width(k) <= Width(j))
      BY <1>2
    <2> QED
      BY <2>1, <2>2, <2>3
  <1> QED
    BY <1>4, <1>5, <1>6

(* A histogram is given no negative value.                                  *)
LEMMA BucketNat ==
  ASSUME NEW x \in Int
  PROVE  Bucket(x) \in Nat
  <1> DEFINE k == Thousandths(x)
  <1>1. k \in Nat
    BY DEF Thousandths
  <1> HIDE DEF k
  <1>2. PICK w \in Nat : w = Width(k) /\ w > 0
    BY <1>1, WidthIs
  <1>3. k - (k % w) \in Nat
    <2>1. k % w \in 0 .. w - 1 /\ k % w <= k
      BY <1>1, <1>2
    <2> QED
      BY <1>1, <1>2, <2>1
  <1> QED
    BY <1>2, <1>3 DEF Bucket, Lowest, k

(* HdrTrendSink.add() counts a value in its bucket.                         *)
LEMMA HistogramAdds ==
  ASSUME NEW v, NEW w, NEW I, NEW m, Extends(w, v, I, m), NEW sink, IsHistogram(sink, v, I)
  PROVE  IsHistogram(Add(sink, w[m]), w, I \cup {m})
  <1> DEFINE J == I \cup {m}
             t == Rounded(v, I)
             u == Rounded(w, J)
             q == Bucket(w[m])
             A == Image(t, I)
             h == Counts(v, I)
  <1>1. IsFiniteSet(I) /\ m \notin I /\ \A i \in I : w[i] = v[i]
    BY DEF Extends, Values
  <1>2. \A i \in I : u[i] = t[i]
    BY <1>1 DEF Rounded
  <1>3. u[m] = q
    BY DEF Rounded
  <1>4. sink = [type |-> "hdr", hdr |-> h]
    BY DEF IsHistogram
  <1>5. DOMAIN h = A /\ \A k \in A : h[k] = Cardinality(Having(I, t, {k}))
    BY DEF Counts
  <1>6. Counts(w, J) = [k \in Image(u, J) |-> Cardinality(Having(J, u, {k}))]
    BY DEF Counts
  <1> HIDE DEF t, u, q, h
  <1>7. Image(u, J) = A \cup {q}
    <2>1. Image(u, I \cup {m}) = Image(t, I) \cup {u[m]}
      BY <1>2 DEF Image
    <2> QED
      BY <2>1, <1>3
  <1>8. ASSUME NEW k \in A \cup {q}
        PROVE  Cardinality(Having(J, u, {k})) = (IF k \in A THEN h[k] ELSE 0) + (IF k = q THEN 1 ELSE 0)
    <2>1. Having(J, u, {k}) = IF k = q THEN Having(I, t, {k}) \cup {m} ELSE Having(I, t, {k})
      BY <1>1, <1>2, <1>3 DEF Having
    <2>2. m \notin Having(I, t, {k}) /\ Having(I, t, {k}) \in SUBSET I
      BY <1>1 DEF Having
    <2>3. IsFiniteSet(Having(I, t, {k}))
      BY <2>2, <1>1, FS_Subset
    <2>4. Cardinality(Having(I, t, {k})) \in Nat
      BY <2>3, FS_CardinalityType
    <2>5. Cardinality(Having(I, t, {k})) = IF k \in A THEN h[k] ELSE 0
      <3>1. CASE k \in A
        BY <3>1, <1>5
      <3>2. CASE k \notin A
        <4>1. Having(I, t, {k}) = {}
          BY <3>2 DEF Having, Image
        <4> QED
          BY <4>1, <3>2, FS_EmptySet
      <3> QED
        BY <3>1, <3>2
    <2>6. CASE k = q
      <3>1. Cardinality(Having(J, u, {k})) = Cardinality(Having(I, t, {k})) + 1
        BY <2>1, <2>2, <2>3, <2>6, FS_AddElement
      <3> QED
        BY <3>1, <2>5, <2>6
    <2>7. CASE k # q
      <3>1. Cardinality(Having(J, u, {k})) = Cardinality(Having(I, t, {k})) + 0
        BY <2>1, <2>4, <2>7
      <3> QED
        BY <3>1, <2>5, <2>7
    <2> QED
      BY <2>6, <2>7
  <1> HIDE DEF A, J
  <1>9. CountedIn(h, q) = [k \in A \cup {q} |-> (IF k \in A THEN h[k] ELSE 0) + (IF k = q THEN 1 ELSE 0)]
    BY <1>5 DEF CountedIn
  <1>10. CountedIn(h, q) = Counts(w, J)
    BY <1>6, <1>7, <1>8, <1>9
  <1>11. Add(sink, w[m]) = [type |-> "hdr", hdr |-> CountedIn(h, q)]
    BY <1>4 DEF Add, q
  <1> QED
    BY <1>10, <1>11 DEF IsHistogram, J

(* Whatever its type, a sink that has the samples so far has one more after *)
(* add().                                                                   *)
LEMMA SinkAdds ==
  ASSUME NEW v, NEW w, NEW I, NEW m, Extends(w, v, I, m), -Inf < w[m], w[m] < Inf, Inf \in Nat,
         NEW sink, NEW type, NEW nat, Represents(sink, type, nat, v, I)
  PROVE  Represents(Add(sink, w[m]), type, nat, w, I \cup {m})
  <1>1. CASE type = "counter"
    <2>1. IsCounter(Add(sink, w[m]), w, I \cup {m})
      BY <1>1, CounterAdds DEF Represents
    <2> QED
      BY <1>1, <2>1 DEF Represents
  <1>2. CASE type = "gauge"
    <2>0. IsGauge(sink, v, I)
      BY <1>2 DEF Represents
    <2>1. IsGauge(Add(sink, w[m]), w, I \cup {m})
      BY <2>0, GaugeAdds
    <2> QED
      BY <1>2, <2>1 DEF Represents
  <1>3. CASE type = "rate"
    <2>1. IsRate(Add(sink, w[m]), w, I \cup {m})
      BY <1>3, RateAdds DEF Represents
    <2> QED
      BY <1>3, <2>1 DEF Represents
  <1>4. CASE type = "trend" /\ ~nat
    <2>1. IsList(Add(sink, w[m]), w, I \cup {m})
      BY <1>4, ListAdds DEF Represents
    <2> QED
      BY <1>4, <2>1 DEF Represents
  <1>5. CASE type = "trend" /\ nat
    <2>1. IsHistogram(Add(sink, w[m]), w, I \cup {m})
      BY <1>5, HistogramAdds DEF Represents
    <2> QED
      BY <1>5, <2>1 DEF Represents
  <1>6. CASE type \notin Types
    BY <1>6 DEF Types, Represents
  <1> QED
    BY <1>1, <1>2, <1>3, <1>4, <1>5, <1>6 DEF Types

(* create_sink(): a new sink of any type has no sample.                     *)
LEMMA NewSink ==
  ASSUME NEW type \in Types, native \in BOOLEAN, NEW v
  PROVE  Represents(CreateSink(type), type, native, v, {})
  <1>1. IsCounter([type |-> "counter", value |-> 0], v, {})
    BY SumOfNone DEF IsCounter
  <1>2. IsGauge([type |-> "gauge", value |-> 0, min |-> Inf, max |-> -Inf], v, {})
    BY DEF IsGauge
  <1>3. IsRate([type |-> "rate", trues |-> 0, total |-> 0], v, {})
    <2>1. {i \in {} : v[i] # 0} = {}
      OBVIOUS
    <2> QED
      BY <2>1, FS_EmptySet DEF IsRate
  <1>4. IsList([type |-> "trend", values |-> <<>>, sorted |-> FALSE], v, {})
    <2>1. <<>> \in [1 .. 0 -> Int] /\ <<>> \in [1 .. 0 -> {}]
      OBVIOUS
    <2>2. <<>> \in Bijection(1 .. 0, {})
      BY <2>1, IsBijection
    <2>3. Lists(<<>>, <<>>, 0, v, {})
      BY <2>1, <2>2 DEF Lists
    <2> QED
      BY <2>3 DEF IsList
  <1>5. IsHistogram([type |-> "hdr", hdr |-> <<>>], v, {})
    <2>1. Image(Rounded(v, {}), {}) = {}
      BY DEF Image
    <2>2. Counts(v, {}) = <<>>
      BY <2>1 DEF Counts
    <2> QED
      BY <2>2 DEF IsHistogram
  <1> QED
    BY <1>1, <1>2, <1>3, <1>4, <1>5 DEF CreateSink, Types, Represents

-----------------------------------------------------------------------------
(* Sorting the list of a sink.                                              *)

(* The list, sorted.                                                        *)
IsSortedList(sink, v, I) ==
  \E n \in Nat : \E s, b, sorted :
    /\ Lists(s, b, n, v, I)
    /\ sorted \in BOOLEAN /\ Ascending(s)
    /\ sink = [type |-> "trend", values |-> s, sorted |-> sorted]

(* A list that is sorted has the same samples, in another order.            *)
LEMMA SortedListed ==
  ASSUME NEW v, NEW I, NEW n \in Nat, NEW s, NEW b, Lists(s, b, n, v, I)
  PROVE  Ascending(Sorted(s)) /\ \E c : Lists(Sorted(s), c, n, v, I)
  <1>1. s \in [1 .. n -> Int] /\ b \in Bijection(1 .. n, I) /\ \A k \in 1 .. n : s[k] = v[b[k]]
    BY DEF Lists
  <1>2. PICK p \in Bijection(1 .. n, 1 .. n) : Sorted(s) = Reordered(s, p) /\ Ascending(Sorted(s))
    BY <1>1, SortedIs
  <1>3. p \in [1 .. n -> 1 .. n] /\ (\A x, y \in 1 .. n : p[x] = p[y] => x = y) /\ \A z \in 1 .. n : \E x \in 1 .. n : p[x] = z
    BY BijectionIs, Zenon
  <1>4. b \in [1 .. n -> I] /\ (\A x, y \in 1 .. n : b[x] = b[y] => x = y) /\ \A z \in I : \E x \in 1 .. n : b[x] = z
    <2>1. b \in Bijection(1 .. n, I)
      BY <1>1
    <2> QED
      BY <2>1 DEF Bijection, Injection, IsInjective, Surjection
  <1> DEFINE c == [k \in 1 .. n |-> b[p[k]]]
  <1>5. c \in [1 .. n -> I] /\ \A k \in 1 .. n : c[k] = b[p[k]]
    BY <1>3, <1>4
  <1> HIDE DEF c
  <1>6. \A x, y \in 1 .. n : c[x] = c[y] => x = y
    BY <1>3, <1>4, <1>5
  <1>7. ASSUME NEW z \in I
        PROVE  \E x \in 1 .. n : c[x] = z
    <2>1. PICK y \in 1 .. n : b[y] = z
      BY <1>4
    <2>2. PICK x \in 1 .. n : p[x] = y
      BY <1>3
    <2> QED
      BY <2>1, <2>2, <1>5
  <1>8. c \in Bijection(1 .. n, I)
    BY <1>5, <1>6, <1>7, IsBijection
  <1>9. Sorted(s) = [k \in 1 .. n |-> s[p[k]]]
    BY <1>1, <1>2 DEF Reordered
  <1>10. Sorted(s) \in [1 .. n -> Int]
    BY <1>1, <1>3, <1>9
  <1>11. ASSUME NEW k \in 1 .. n
         PROVE  Sorted(s)[k] = v[c[k]]
    <2>1. p[k] \in 1 .. n
      BY <1>3
    <2>2. s[p[k]] = v[b[p[k]]]
      BY <1>1, <2>1
    <2> QED
      BY <1>5, <1>9, <2>2
  <1>12. Lists(Sorted(s), c, n, v, I)
    BY <1>8, <1>10, <1>11 DEF Lists
  <1> QED
    BY <1>2, <1>12

(* _ensure_sorted() sorts the list of a TrendSink, and loses no sample.     *)
LEMMA ListSorts ==
  ASSUME NEW v, NEW I, NEW sink, IsList(sink, v, I)
  PROVE  IsSortedList(EnsureSorted(sink), v, I) /\ IsList(EnsureSorted(sink), v, I)
  <1>1. PICK n \in Nat : \E s, b, sorted :
          /\ Lists(s, b, n, v, I)
          /\ sorted \in BOOLEAN /\ (sorted => Ascending(s))
          /\ sink = [type |-> "trend", values |-> s, sorted |-> sorted]
    BY DEF IsList
  <1>2. PICK s, b, sorted :
          /\ Lists(s, b, n, v, I)
          /\ sorted \in BOOLEAN /\ (sorted => Ascending(s))
          /\ sink = [type |-> "trend", values |-> s, sorted |-> sorted]
    BY <1>1
  <1>3. CASE ~sorted /\ s # <<>>
    <2>1. EnsureSorted(sink) = [type |-> "trend", values |-> Sorted(s), sorted |-> TRUE]
      BY <1>2, <1>3 DEF EnsureSorted
    <2>2. Ascending(Sorted(s)) /\ \E c : Lists(Sorted(s), c, n, v, I)
      BY <1>2, SortedListed
    <2> QED
      BY <2>1, <2>2 DEF IsSortedList, IsList
  <1>4. CASE sorted \/ s = <<>>
    <2>1. EnsureSorted(sink) = sink
      BY <1>2, <1>4 DEF EnsureSorted
    <2>2. Ascending(<<>>)
      BY DEF Ascending
    <2>3. Ascending(s)
      BY <1>2, <1>4, <2>2
    <2>4. IsSortedList(sink, v, I)
      BY <1>2, <2>3 DEF IsSortedList
    <2> QED
      BY <2>1, <2>4
  <1> QED
    BY <1>3, <1>4

(* _ensure_sorted() does nothing to the other sinks.                        *)
LEMMA OthersNotSorted ==
  ASSUME NEW v, NEW I, NEW sink,
         IsCounter(sink, v, I) \/ IsGauge(sink, v, I) \/ IsRate(sink, v, I) \/ IsHistogram(sink, v, I)
  PROVE  EnsureSorted(sink) = sink /\ sink.type \in {"counter", "gauge", "rate", "hdr"}
  BY DEF IsCounter, IsGauge, IsRate, IsHistogram, EnsureSorted

(* A sink that is read has the samples it had.                              *)
LEMMA SinkSorts ==
  ASSUME NEW v, NEW I, NEW sink, NEW type \in Types, NEW nat \in BOOLEAN, Represents(sink, type, nat, v, I)
  PROVE  Represents(EnsureSorted(sink), type, nat, v, I)
  <1>1. CASE type = "trend" /\ ~nat
    BY <1>1, ListSorts DEF Represents
  <1>2. CASE ~(type = "trend" /\ ~nat)
    <2>1. EnsureSorted(sink) = sink
      BY <1>2, OthersNotSorted DEF Represents, Types
    <2> QED
      BY <2>1
  <1> QED
    BY <1>1, <1>2

-----------------------------------------------------------------------------
(* What the sinks show.                                                     *)

(* v are the values of the samples I of the log.                            *)
Logged(v, I) == Values(v, I) /\ v = [i \in I |-> log[i].value]

(* The samples of the log in the terms of Statistic.                        *)
LEMMA LoggedIs ==
  ASSUME NEW I, NEW v, Logged(v, I)
  PROVE  /\ IsFiniteSet(I) /\ Cardinality(I) \in Nat /\ (Cardinality(I) = 0 <=> I = {})
         /\ \A i \in I : Raw(i) = v[i] /\ v[i] \in Int
         /\ {Raw(i) : i \in I} = Image(v, I)
         /\ SumFunction([i \in I |-> Raw(i)]) = Sum(v, I)
  <1>1. IsFiniteSet(I) /\ v \in [I -> Int]
    BY DEF Logged, Values
  <1>2. \A i \in I : Raw(i) = v[i] /\ v[i] \in Int
    BY <1>1 DEF Logged, Raw
  <1>3. {Raw(i) : i \in I} = Image(v, I)
    BY <1>2 DEF Image
  <1>4. v = [i \in I |-> Raw(i)]
    BY DEF Logged, Raw
  <1>5. SumFunction([i \in I |-> Raw(i)]) = Sum(v, I)
    <2>1. DOMAIN v = I
      BY <1>1
    <2> QED
      BY <2>1, <1>4 DEF SumFunction, Sum
  <1>6. Cardinality(I) \in Nat /\ (Cardinality(I) = 0 <=> I = {})
    BY <1>1, FS_CardinalityType, FS_EmptySet
  <1> QED
    BY <1>1, <1>2, <1>3, <1>5, <1>6

(* CounterSink.format() shows the statistics of the samples.                *)
LEMMA CounterShown ==
  ASSUME NEW I, NEW v, Logged(v, I), NEW sink, IsCounter(sink, v, I), NEW d \in Nat
  PROVE  /\ DOMAIN Format(sink, d) = {"count", "rate"}
         /\ I = {} => \A agg \in {"count", "rate"} : Format(sink, d)[agg][1] = 0
         /\ \A agg \in {"count", "rate"} : Format(sink, d)[agg] = Statistic(agg, "counter", I, d)
  <1>1. Format(sink, d) = [count |-> <<Sum(v, I), 1>>, rate |-> IF d > 0 THEN <<Sum(v, I), d>> ELSE Zero]
    BY DEF IsCounter, Format
  <1>2. Statistic("count", "counter", I, d) = <<Sum(v, I), 1>>
    BY LoggedIs DEF Statistic
  <1>3. Statistic("rate", "counter", I, d) = IF d > 0 THEN <<Sum(v, I), d>> ELSE Zero
    BY LoggedIs DEF Statistic
  <1>4. I = {} => Sum(v, I) = 0
    BY SumOfNone
  <1> QED
    BY <1>1, <1>2, <1>3, <1>4 DEF Zero

(* GaugeSink.format() shows the statistics of the samples, and zero for both*)
(* infinities.                                                              *)
LEMMA GaugeShown ==
  ASSUME NEW I, NEW v, Logged(v, I), \A i \in I : -Inf < v[i] /\ v[i] < Inf, Inf \in Nat,
         NEW sink, IsGauge(sink, v, I), NEW d \in Nat
  PROVE  /\ DOMAIN Format(sink, d) = {"value", "min", "max"}
         /\ I = {} => \A agg \in {"value", "min", "max"} : Format(sink, d)[agg][1] = 0
         /\ I # {} => \A agg \in {"value", "min", "max"} : Format(sink, d)[agg] = Statistic(agg, "gauge", I, d)
  <1>1. Format(sink, d) = [value |-> <<sink.value, 1>>,
                           min |-> IF sink.min = Inf THEN Zero ELSE <<sink.min, 1>>,
                           max |-> IF sink.max = -Inf THEN Zero ELSE <<sink.max, 1>>]
    BY DEF IsGauge, Format
  <1>2. CASE I = {}
    <2>1. sink.value = 0 /\ sink.min = Inf /\ sink.max = -Inf
      BY <1>2 DEF IsGauge
    <2> QED
      BY <1>1, <1>2, <2>1 DEF Zero
  <1>3. CASE I # {}
    <2>1. sink.value = v[Max(I)] /\ sink.min = Min(Image(v, I)) /\ sink.max = Max(Image(v, I))
      BY <1>3 DEF IsGauge
    <2>2. Values(v, I)
      BY DEF Logged
    <2>3. IsFiniteSet(Image(v, I)) /\ Image(v, I) \subseteq Int /\ Image(v, I) # {}
      BY <1>3, <2>2, ImageOfInts
    <2>4. Min(Image(v, I)) \in Image(v, I) /\ Max(Image(v, I)) \in Image(v, I)
      BY <2>3, LeastOfFinite, GreatestOfFinite
    <2>5. \A x \in Image(v, I) : x # Inf /\ x # -Inf
      <3>1. \A i \in I : v[i] \in Int
        BY <2>2 DEF Values
      <3> QED
        BY <3>1 DEF Image
    <2>6. Max(I) \in I
      <3>1. IsFiniteSet(I) /\ I \subseteq Int
        BY <2>2 DEF Values
      <3> QED
        BY <3>1, <1>3, GreatestOfFinite
    <2>7. /\ Statistic("value", "gauge", I, d) = <<Raw(Max(I)), 1>>
          /\ Statistic("min", "gauge", I, d) = <<Min({Raw(i) : i \in I}), 1>>
          /\ Statistic("max", "gauge", I, d) = <<Max({Raw(i) : i \in I}), 1>>
      BY DEF Statistic
    <2>8. Raw(Max(I)) = v[Max(I)] /\ {Raw(i) : i \in I} = Image(v, I)
      BY <2>6, LoggedIs
    <2>9. sink.min # Inf /\ sink.max # -Inf
      BY <2>1, <2>4, <2>5
    <2>10. Format(sink, d) = [value |-> <<v[Max(I)], 1>>, min |-> <<Min(Image(v, I)), 1>>, max |-> <<Max(Image(v, I)), 1>>]
      BY <1>1, <2>1, <2>9
    <2> QED
      BY <1>3, <2>7, <2>8, <2>10
  <1> QED
    BY <1>2, <1>3

(* RateSink.format() shows the statistics of the samples.                   *)
LEMMA RateShown ==
  ASSUME NEW I, NEW v, Logged(v, I), NEW sink, IsRate(sink, v, I), NEW d \in Nat
  PROVE  /\ DOMAIN Format(sink, d) = {"rate", "passes", "fails"}
         /\ I = {} => \A agg \in {"rate", "passes", "fails"} : Format(sink, d)[agg][1] = 0
         /\ I # {} => \A agg \in {"rate", "passes", "fails"} : Format(sink, d)[agg] = Statistic(agg, "rate", I, d)
  <1> DEFINE A == {i \in I : v[i] # 0}
  <1>1. {i \in I : Raw(i) # 0} = A
    BY LoggedIs, ZenonT(60)
  <1>2. sink = [type |-> "rate", trues |-> Cardinality(A), total |-> Cardinality(I)]
    BY DEF IsRate
  <1>3. Cardinality(I) \in Nat /\ (Cardinality(I) = 0 <=> I = {})
    BY LoggedIs
  <1>4. /\ Statistic("rate", "rate", I, d) = <<Cardinality(A), Cardinality(I)>>
        /\ Statistic("passes", "rate", I, d) = <<Cardinality(A), 1>>
        /\ Statistic("fails", "rate", I, d) = <<Cardinality(I) - Cardinality(A), 1>>
    BY <1>1 DEF Statistic
  <1>5. I = {} => Cardinality(A) = 0
    BY FS_EmptySet
  <1> HIDE DEF A
  <1>6. Format(sink, d) = [rate |-> IF Cardinality(I) > 0 THEN <<Cardinality(A), Cardinality(I)>> ELSE Zero,
                           passes |-> <<Cardinality(A), 1>>,
                           fails |-> <<Cardinality(I) - Cardinality(A), 1>>]
    BY <1>2 DEF Format
  <1> QED
    BY <1>3, <1>4, <1>5, <1>6 DEF Zero

(* The percentiles a trend shows beside its other aggregations.             *)
LEMMA PercentilesAre ==
  /\ DOMAIN Percentiles = {"med", "p(90)", "p(95)", "p(99)"}
  /\ \A x \in DOMAIN Percentiles : Percentiles[x] \in 1 .. 99
  /\ \A x \in {"count", "avg", "min", "max"} : x \notin DOMAIN Percentiles
  /\ TrendKeys = {"count", "avg", "min", "max"} \cup DOMAIN Percentiles
  <1>1. DOMAIN Percentiles = {"med", "p(90)", "p(95)", "p(99)"}
    BY DEF Percentiles
  <1>2. Percentiles["med"] = 50 /\ Percentiles["p(90)"] = 90 /\ Percentiles["p(95)"] = 95 /\ Percentiles["p(99)"] = 99
    BY DEF Percentiles
  <1> QED
    BY <1>1, <1>2 DEF TrendKeys

(* Elements that b picks out one by one.                                    *)
LEMMA AtLeast ==
  ASSUME NEW I, IsFiniteSet(I), NEW A, A \subseteq I, NEW lo \in Nat, NEW hi \in Nat, NEW b,
         \A k \in lo .. hi : b[k] \in A,
         \A x, y \in lo .. hi : b[x] = b[y] => x = y
  PROVE  Cardinality(A) \in Nat /\ Cardinality(A) >= hi - lo + 1
  <1> DEFINE c == [k \in lo .. hi |-> b[k]]
  <1>1. c \in [lo .. hi -> A] /\ \A x, y \in lo .. hi : c[x] = c[y] => x = y
    OBVIOUS
  <1> HIDE DEF c
  <1>2. c \in Injection(lo .. hi, A)
    BY <1>1 DEF Injection, IsInjective
  <1>3. IsFiniteSet(A)
    BY FS_Subset
  <1>4. Cardinality(lo .. hi) <= Cardinality(A)
    BY <1>2, <1>3, FS_Injection
  <1>5. Cardinality(lo .. hi) = IF lo > hi THEN 0 ELSE hi - lo + 1
    BY FS_Interval
  <1>6. Cardinality(A) \in Nat
    BY <1>3, FS_CardinalityType
  <1> QED
    BY <1>4, <1>5, <1>6

(* The list is as long as the samples are many.                             *)
LEMMA ListCounts ==
  ASSUME NEW v, NEW I, IsFiniteSet(I), NEW n \in Nat, NEW s, NEW b, Lists(s, b, n, v, I)
  PROVE  Cardinality(I) = n
  <1>1. b \in Bijection(1 .. n, I)
    BY DEF Lists
  <1>2. ExistsBijection(1 .. n, I)
    BY <1>1 DEF ExistsBijection
  <1> QED
    BY <1>2, FS_CountingElements

(* The samples at most, and at least, the fraction num / den.               *)
Below(v, I, num, den) == {i \in I : v[i] * den <= num}
Above(v, I, num, den) == {i \in I : v[i] * den >= num}

(* A value between those at two neighbouring places of the sorted list has  *)
(* the values of the list up to the first below it and the others above.    *)
LEMMA ListSplits ==
  ASSUME NEW v, NEW I, IsFiniteSet(I), \A i \in I : v[i] \in Int,
         NEW n \in Nat, NEW s, NEW b, Lists(s, b, n, v, I), Ascending(s),
         NEW k \in 1 .. n, NEW num \in Int, NEW den \in {1, 100},
         s[k] * den <= num, k < n => num <= s[k + 1] * den
  PROVE  Cardinality(Below(v, I, num, den)) >= k /\ Cardinality(Above(v, I, num, den)) >= n - k
  <1>1. s \in [1 .. n -> Int] /\ b \in Bijection(1 .. n, I) /\ \A j \in 1 .. n : s[j] = v[b[j]]
    BY DEF Lists
  <1>2. b \in Bijection(1 .. n, I)
    BY <1>1
  <1>3. b \in [1 .. n -> I] /\ \A x, y \in 1 .. n : b[x] = b[y] => x = y
    BY <1>2, BijectionIs
  <1>4. \A i, j \in 1 .. n : i <= j => s[i] <= s[j]
    <2>1. \A i \in 1 .. n : s[i] \in Int
      BY <1>1
    <2>2. \A i, j \in 1 .. n : i < j => s[i] <= s[j]
      BY <1>1 DEF Ascending
    <2> QED
      BY <2>1, <2>2
  <1>5. ASSUME NEW j \in 1 .. n
        PROVE  s[j] \in Int /\ b[j] \in I /\ v[b[j]] = s[j] /\ s[k] \in Int
    BY <1>1, <1>3
  <1> DEFINE A == {i \in I : v[i] * den <= num}
             B == {i \in I : v[i] * den >= num}
  <1>6. \A j \in 1 .. k : b[j] \in A
    <2> SUFFICES ASSUME NEW j \in 1 .. k PROVE v[b[j]] * den <= num /\ b[j] \in I
      OBVIOUS
    <2>1. j \in 1 .. n
      OBVIOUS
    <2>2. s[j] <= s[k]
      BY <2>1, <1>4
    <2>3. s[j] * den <= s[k] * den
      BY <2>1, <2>2, <1>5
    <2>4. s[j] * den \in Int /\ s[k] * den \in Int
      BY <2>1, <1>5
    <2> QED
      BY <2>1, <2>3, <2>4, <1>5
  <1>7. \A j \in k + 1 .. n : b[j] \in B
    <2> SUFFICES ASSUME NEW j \in k + 1 .. n PROVE v[b[j]] * den >= num /\ b[j] \in I
      OBVIOUS
    <2>1. j \in 1 .. n /\ k + 1 \in 1 .. n /\ k + 1 <= j /\ k < n
      OBVIOUS
    <2>2. s[k + 1] <= s[j] /\ s[k + 1] \in Int /\ s[j] \in Int
      BY <2>1, <1>4, <1>5
    <2>3. s[k + 1] * den <= s[j] * den
      BY <2>2
    <2>4. num <= s[j] * den
      BY <2>1, <2>2, <2>3
    <2> QED
      BY <2>1, <2>2, <2>4, <1>5
  <1>8. A \subseteq I /\ B \subseteq I
    OBVIOUS
  <1> HIDE DEF A, B
  <1>9. Cardinality(A) >= k - 1 + 1
    <2>1. \A x, y \in 1 .. k : b[x] = b[y] => x = y
      BY <1>3
    <2>2. 1 \in Nat /\ k \in Nat
      OBVIOUS
    <2> QED
      BY <2>1, <2>2, <1>6, <1>8, AtLeast
  <1>10. Cardinality(B) >= n - (k + 1) + 1
    <2>1. PICK lo \in Nat : lo = k + 1
      OBVIOUS
    <2>2. \A x, y \in lo .. n : b[x] = b[y] => x = y
      BY <1>3, <2>1
    <2>3. \A j \in lo .. n : b[j] \in B
      BY <1>7, <2>1
    <2>4. Cardinality(B) >= n - lo + 1
      BY <2>2, <2>3, <1>8, AtLeast
    <2> QED
      BY <2>1, <2>4
  <1>11. Cardinality(A) \in Nat /\ Cardinality(B) \in Nat
    BY <1>8, FS_Subset, FS_CardinalityType
  <1>12. Cardinality(A) >= k /\ Cardinality(B) >= n - k
    BY <1>9, <1>10, <1>11
  <1> QED
    BY <1>12 DEF A, B, Below, Above

(* The arithmetic of percentile().                                          *)
LEMMA RankBounds ==
  ASSUME NEW p \in 1 .. 99, NEW n \in Nat, n > 0
  PROVE  /\ (p * (n - 1)) \div 100 \in 0 .. n - 1
         /\ (p * (n - 1)) % 100 \in 0 .. 99
  <1>1. n - 1 \in Nat /\ p \in Nat
    OBVIOUS
  <1>2. \A a, q \in Nat : q <= 99 => q * a <= 99 * a /\ q * a \in Nat
    OBVIOUS
  <1>3. p * (n - 1) \in Nat /\ p * (n - 1) <= 99 * (n - 1)
    BY <1>1, <1>2
  <1>4. \A r, a \in Nat : r <= 99 * a => r \div 100 <= a /\ r \div 100 \in Nat /\ r % 100 \in 0 .. 99
    OBVIOUS
  <1> QED
    BY <1>1, <1>3, <1>4

(* The value that percentile() interpolates is between its two neighbours.  *)
LEMMA Between ==
  ASSUME NEW a \in Int, NEW c \in Int, a <= c, NEW r \in 0 .. 99
  PROVE  /\ 100 * a + r * (c - a) \in Int
         /\ a * 100 <= 100 * a + r * (c - a)
         /\ 100 * a + r * (c - a) <= c * 100
  <1>1. c - a \in Nat
    OBVIOUS
  <1>2. \A e \in Nat, q \in 0 .. 99 : 0 <= q * e /\ q * e <= 100 * e /\ q * e \in Nat
    OBVIOUS
  <1>3. 0 <= r * (c - a) /\ r * (c - a) <= 100 * (c - a) /\ r * (c - a) \in Nat
    BY <1>1, <1>2
  <1> QED
    BY <1>3

(* TrendSink.percentile(): as many samples as the rank says are at most the *)
(* percentile, and as many at least.                                        *)
LEMMA PercentileSplits ==
  ASSUME NEW I, NEW v, Logged(v, I), ~native, NEW n \in Nat, NEW s, NEW b,
         Lists(s, b, n, v, I), Ascending(s), n > 0, NEW p \in 1 .. 99
  PROVE  Splits(Percentile(s, p), I, p) /\ Percentile(s, p)[1] \in Int /\ Percentile(s, p)[2] \in {1, 100}
  <1> DEFINE lower == (p * (n - 1)) \div 100
             r == (p * (n - 1)) % 100
  <1>1. lower \in 0 .. n - 1 /\ r \in 0 .. 99
    BY RankBounds
  <1>2. s \in [1 .. n -> Int]
    BY DEF Lists
  <1>3. Len(s) = n
    BY <1>2, SequenceOf
  <1>4. IsFiniteSet(I) /\ \A i \in I : v[i] \in Int /\ Raw(i) = v[i]
    BY LoggedIs
  <1>5. Cardinality(I) = n
    BY <1>4, ListCounts
  <1>6. \A i \in I : Trend(i) = v[i]
    BY <1>4 DEF Trend, Raw
  <1>7. Percentile(s, p) = IF lower + 1 >= n THEN <<s[n], 1>> ELSE <<100 * s[lower + 1] + r * (s[lower + 2] - s[lower + 1]), 100>>
    BY <1>1, <1>3 DEF Percentile
  <1> HIDE DEF lower, r
  <1>8. \E num \in Int, den \in {1, 100} :
          /\ Percentile(s, p) = <<num, den>>
          /\ s[lower + 1] * den <= num
          /\ lower + 1 < n => num <= s[lower + 2] * den
    <2>1. CASE lower + 1 >= n
      <3>1. lower + 1 = n
        BY <2>1, <1>1
      <3>2. s[n] \in Int /\ s[n] * 1 <= s[n]
        BY <1>2
      <3> QED
        BY <3>1, <3>2, <1>7
    <2>2. CASE lower + 1 < n
      <3>1. lower + 1 \in 1 .. n /\ lower + 2 \in 1 .. n /\ lower + 1 < lower + 2 /\ ~(lower + 1 >= n)
        BY <2>2, <1>1
      <3>2. s[lower + 1] \in Int /\ s[lower + 2] \in Int /\ s[lower + 1] <= s[lower + 2]
        BY <3>1, <1>2 DEF Ascending
      <3>3. /\ 100 * s[lower + 1] + r * (s[lower + 2] - s[lower + 1]) \in Int
            /\ s[lower + 1] * 100 <= 100 * s[lower + 1] + r * (s[lower + 2] - s[lower + 1])
            /\ 100 * s[lower + 1] + r * (s[lower + 2] - s[lower + 1]) <= s[lower + 2] * 100
        BY <3>2, <1>1, Between
      <3>4. Percentile(s, p) = <<100 * s[lower + 1] + r * (s[lower + 2] - s[lower + 1]), 100>>
        BY <3>1, <1>7
      <3> QED
        BY <3>3, <3>4
    <2> QED
      BY <2>1, <2>2, <1>1
  <1>9. PICK num \in Int, den \in {1, 100} :
          /\ Percentile(s, p) = <<num, den>>
          /\ s[lower + 1] * den <= num
          /\ lower + 1 < n => num <= s[lower + 2] * den
    BY <1>8
  <1>10. lower + 1 \in 1 .. n /\ lower + 1 + 1 = lower + 2
    BY <1>1
  <1>11. /\ Cardinality({i \in I : v[i] * den <= num}) >= lower + 1
         /\ Cardinality({i \in I : v[i] * den >= num}) >= n - (lower + 1)
    <2>0. PICK k \in 1 .. n : k = lower + 1
      BY <1>10
    <2>1. \A i \in I : v[i] \in Int
      BY <1>4
    <2>2. k < n => num <= s[k + 1] * den
      BY <2>0, <1>9, <1>10
    <2>3. s[k] * den <= num
      BY <2>0, <1>9
    <2>4. IsFiniteSet(I)
      BY <1>4
    <2>5. Cardinality(Below(v, I, num, den)) >= k /\ Cardinality(Above(v, I, num, den)) >= n - k
      BY <2>1, <2>2, <2>3, <2>4, ListSplits
    <2> QED
      BY <2>0, <2>5 DEF Below, Above
  <1>12. /\ {i \in I : Trend(i) * den <= num} = {i \in I : v[i] * den <= num}
         /\ {i \in I : Trend(i) * den >= num} = {i \in I : v[i] * den >= num}
    BY <1>6
  <1>13. /\ Cardinality({i \in I : Trend(i) * den <= num}) >= lower + 1
         /\ Cardinality({i \in I : Trend(i) * den >= num}) >= n - (lower + 1)
    BY <1>11, <1>12
  <1>14. n - (lower + 1) = n - lower - 1
    BY <1>1
  <1>15. Percentile(s, p)[1] = num /\ Percentile(s, p)[2] = den
    BY <1>9
  <1>16. Splits(Percentile(s, p), I, p)
    BY <1>5, <1>13, <1>14, <1>15 DEF Splits, lower
  <1> QED
    BY <1>9, <1>15, <1>16

(* The list adds up to the samples, in whatever order it is.                *)
LEMMA ListAverage ==
  ASSUME NEW I, NEW v, Logged(v, I), ~native, NEW n \in Nat, NEW s, NEW b, Lists(s, b, n, v, I)
  PROVE  SumFunction(s) = SumFunction([i \in I |-> Mean(i)])
  <1>1. s \in [1 .. n -> Int] /\ b \in Bijection(1 .. n, I) /\ \A k \in 1 .. n : s[k] = v[b[k]]
    BY DEF Lists
  <1>2. DOMAIN s = 1 .. n
    BY <1>1
  <1>3. SumFunction(s) = Sum(s, 1 .. n)
    BY <1>2 DEF SumFunction, Sum
  <1>4. \A i \in I : v[i] \in Int /\ Raw(i) = v[i]
    BY LoggedIs
  <1>5. [i \in I |-> Mean(i)] = [i \in I |-> Raw(i)]
    BY DEF Mean
  <1>6. SumFunction([i \in I |-> Mean(i)]) = Sum(v, I)
    BY <1>5, LoggedIs
  <1>7. Sum(s, 1 .. n) = Sum(v, I)
    <2>1. IsFiniteSet(1 .. n)
      BY FS_Interval
    <2>2. IntOn(v, I)
      BY <1>4 DEF IntOn
    <2>3. b \in Bijection(1 .. n, I)
      BY <1>1
    <2>4. \A k \in 1 .. n : s[k] = v[b[k]]
      BY <1>1
    <2> QED
      BY <2>1, <2>2, <2>3, <2>4, SumMoved
  <1> QED
    BY <1>3, <1>6, <1>7

(* The first and the last of the sorted list are its least and its greatest *)
(* value.                                                                   *)
LEMMA ListEnds ==
  ASSUME NEW I, NEW v, Logged(v, I), ~native, NEW n \in Nat, NEW s, NEW b, Lists(s, b, n, v, I),
         Ascending(s), n > 0
  PROVE  Min({Lower(i) : i \in I}) = s[1] /\ Max({Trend(i) : i \in I}) = s[n]
  <1>1. s \in [1 .. n -> Int] /\ b \in Bijection(1 .. n, I) /\ \A k \in 1 .. n : s[k] = v[b[k]]
    BY DEF Lists
  <1>2. b \in [1 .. n -> I] /\ \A z \in I : \E x \in 1 .. n : b[x] = z
    BY <1>1 DEF Bijection, Injection, Surjection
  <1>3. \A i \in I : v[i] \in Int /\ Raw(i) = v[i]
    BY LoggedIs
  <1>4. \A i \in I : Trend(i) = v[i] /\ Lower(i) = v[i]
    BY <1>3 DEF Trend, Lower
  <1> DEFINE T == {Trend(i) : i \in I}
  <1>5. T = {v[i] : i \in I}
    BY <1>4
  <1>6. \A x \in T : \E k \in 1 .. n : x = s[k]
    <2>1. \A i \in I : \E k \in 1 .. n : v[i] = s[k]
      BY <1>1, <1>2, SMTT(40)
    <2> QED
      BY <2>1, <1>5
  <1>7. \A k \in 1 .. n : s[k] \in T
    BY <1>1, <1>2, <1>5
  <1> HIDE DEF T
  <1>8. \A k \in 1 .. n : s[1] <= s[k] /\ s[k] <= s[n] /\ s[k] \in Int
    <2>1. \A k \in 1 .. n : s[k] \in Int
      BY <1>1
    <2>2. \A i, j \in 1 .. n : i < j => s[i] <= s[j]
      BY <1>1 DEF Ascending
    <2>3. 1 \in 1 .. n /\ n \in 1 .. n /\ \A k \in 1 .. n : (k = 1 \/ 1 < k) /\ (k = n \/ k < n)
      OBVIOUS
    <2> QED
      BY <2>1, <2>2, <2>3
  <1>9. T \subseteq Int /\ (\A x \in T : s[1] <= x) /\ (\A x \in T : x <= s[n])
    BY <1>6, <1>8
  <1>10. s[1] \in T /\ s[n] \in T
    BY <1>7
  <1>11. Min(T) = s[1] /\ Max(T) = s[n]
    BY <1>9, <1>10, MinIs, MaxIs
  <1>12. {Lower(i) : i \in I} = {Trend(i) : i \in I}
    BY <1>4
  <1> QED
    BY <1>11, <1>12 DEF T

(* A percentile: it splits the samples, and is a fraction.                  *)
Fraction(x) == x[1] \in Int /\ x[2] \in {1, 100}

TrendShown(stats, I, d) ==
  /\ DOMAIN stats = TrendKeys
  /\ I = {} => \A agg \in TrendKeys : stats[agg][1] = 0
  /\ I # {} => \A agg \in {"count", "avg", "min", "max"} : stats[agg] = Statistic(agg, "trend", I, d)
  /\ I # {} => \A agg \in DOMAIN Percentiles : Splits(stats[agg], I, Percentiles[agg]) /\ Fraction(stats[agg])

(* TrendSink.format() of a sorted list shows the statistics of the samples. *)
LEMMA ListShown ==
  ASSUME NEW I, NEW v, Logged(v, I), ~native, NEW sink, IsSortedList(sink, v, I), NEW d \in Nat
  PROVE  TrendShown(Format(sink, d), I, d)
  <1>1. PICK n \in Nat : \E s, b, sorted :
          /\ Lists(s, b, n, v, I)
          /\ sorted \in BOOLEAN /\ Ascending(s)
          /\ sink = [type |-> "trend", values |-> s, sorted |-> sorted]
    BY DEF IsSortedList
  <1>2. PICK s, b, sorted :
          /\ Lists(s, b, n, v, I)
          /\ sorted \in BOOLEAN /\ Ascending(s)
          /\ sink = [type |-> "trend", values |-> s, sorted |-> sorted]
    BY <1>1
  <1>3. s \in [1 .. n -> Int]
    BY <1>2 DEF Lists
  <1>4. Len(s) = n
    BY <1>3, SequenceOf
  <1>5. IsFiniteSet(I) /\ (Cardinality(I) = 0 <=> I = {})
    BY LoggedIs
  <1>6. Cardinality(I) = n
    BY <1>2, <1>5, ListCounts
  <1> DEFINE stats == Format(sink, d)
  <1>7. stats = [x \in TrendKeys |->
                   CASE n = 0 -> Zero
                     [] n > 0 /\ x = "count" -> <<n, 1>>
                     [] n > 0 /\ x = "avg"   -> <<SumFunction(s), n>>
                     [] n > 0 /\ x = "min"   -> <<s[1], 1>>
                     [] n > 0 /\ x = "max"   -> <<s[n], 1>>
                     [] n > 0 /\ x \in DOMAIN Percentiles -> Percentile(s, Percentiles[x])]
    <2>1. stats = FormatList(s)
      BY <1>2 DEF Format
    <2> QED
      BY <2>1, <1>4 DEF FormatList
  <1> HIDE DEF stats
  <1>8. DOMAIN stats = TrendKeys
    BY <1>7
  <1>9. CASE I = {}
    <2>1. n = 0
      BY <1>5, <1>6, <1>9
    <2>2. \A agg \in TrendKeys : stats[agg] = Zero
      BY <1>7, <2>1
    <2>3. Zero[1] = 0
      BY DEF Zero
    <2> QED
      BY <1>8, <1>9, <2>2, <2>3 DEF TrendShown, stats
  <1>10. CASE I # {}
    <2>1. n > 0
      BY <1>5, <1>6, <1>10
    <2>2. /\ stats["count"] = <<n, 1>> /\ stats["avg"] = <<SumFunction(s), n>>
          /\ stats["min"] = <<s[1], 1>> /\ stats["max"] = <<s[n], 1>>
      <3>1. {"count", "avg", "min", "max"} \subseteq TrendKeys
        BY PercentilesAre
      <3> QED
        BY <3>1, <2>1, <1>7, PercentilesAre
    <2>3. /\ Statistic("count", "trend", I, d) = <<n, 1>>
          /\ Statistic("avg", "trend", I, d) = <<SumFunction([i \in I |-> Mean(i)]), n>>
          /\ Statistic("min", "trend", I, d) = <<Min({Lower(i) : i \in I}), 1>>
          /\ Statistic("max", "trend", I, d) = <<Max({Trend(i) : i \in I}), 1>>
      BY <1>6 DEF Statistic
    <2>4. SumFunction(s) = SumFunction([i \in I |-> Mean(i)])
      BY <1>2, ListAverage
    <2>5. Min({Lower(i) : i \in I}) = s[1] /\ Max({Trend(i) : i \in I}) = s[n]
      BY <1>2, <2>1, ListEnds
    <2>6. \A agg \in {"count", "avg", "min", "max"} : stats[agg] = Statistic(agg, "trend", I, d)
      BY <2>2, <2>3, <2>4, <2>5
    <2>7. ASSUME NEW agg \in DOMAIN Percentiles
          PROVE  Splits(stats[agg], I, Percentiles[agg]) /\ Fraction(stats[agg])
      <3>1. agg \in TrendKeys /\ agg \notin {"count", "avg", "min", "max"}
        BY <2>7, PercentilesAre
      <3>2. stats[agg] = Percentile(s, Percentiles[agg])
        BY <3>1, <2>1, <1>7
      <3>3. Percentiles[agg] \in 1 .. 99
        BY PercentilesAre
      <3>4. /\ Splits(Percentile(s, Percentiles[agg]), I, Percentiles[agg])
            /\ Percentile(s, Percentiles[agg])[1] \in Int /\ Percentile(s, Percentiles[agg])[2] \in {1, 100}
        BY <3>3, <2>1, <1>2, PercentileSplits, SMTT(40)
      <3> QED
        BY <3>2, <3>4 DEF Fraction
    <2> QED
      BY <1>8, <1>10, <2>6, <2>7 DEF TrendShown, stats
  <1> QED
    BY <1>9, <1>10

(* Half thousandths are twice as many as thousandths.                       *)
LEMMA SumTwice ==
  ASSUME NEW S, IsFiniteSet(S), NEW f, IntOn(f, S), NEW g, \A x \in S : g[x] = 2 * f[x]
  PROVE  Sum(g, S) = 2 * Sum(f, S)
  <1> DEFINE Bad == {T \in SUBSET S : Sum(g, T) # 2 * Sum(f, T)}
  <1> SUFFICES ASSUME Bad # {} PROVE FALSE
    OBVIOUS
  <1>1. Bad \subseteq SUBSET S
    OBVIOUS
  <1> HIDE DEF Bad
  <1>2. PICK T \in Bad : IsFiniteSet(T) /\ \A U \in SUBSET T : U # T => U \notin Bad
    BY <1>1, SmallestSubset
  <1>3. T \in SUBSET S /\ Sum(g, T) # 2 * Sum(f, T)
    BY <1>2 DEF Bad
  <1>4. T # {}
    <2>1. ASSUME T = {} PROVE FALSE
      <3>1. Sum(f, T) = 0 /\ Sum(g, T) = 0
        BY <2>1, SumOfNone
      <3> QED
        BY <3>1, <1>3
    <2> QED
      BY <2>1
  <1>5. PICK x : x \in T
    BY <1>4
  <1>6. IntOn(f, T)
    BY <1>3 DEF IntOn
  <1>7. IntOn(g, T)
    <2>1. \A y \in T : g[y] = 2 * f[y] /\ f[y] \in Int
      BY <1>3, <1>6 DEF IntOn
    <2> QED
      BY <2>1 DEF IntOn
  <1>8. Sum(f, T) = f[x] + Sum(f, T \ {x})
    BY <1>2, <1>5, <1>6, SumRemove
  <1>9. Sum(g, T) = g[x] + Sum(g, T \ {x})
    BY <1>2, <1>5, <1>7, SumRemove
  <1>10. Sum(g, T \ {x}) = 2 * Sum(f, T \ {x})
    <2>1. T \ {x} \in SUBSET T /\ T \ {x} # T
      BY <1>5
    <2>2. T \ {x} \notin Bad
      BY <2>1, <1>2
    <2> QED
      BY <2>2, <1>3 DEF Bad
  <1>11. g[x] = 2 * f[x] /\ f[x] \in Int
    BY <1>3, <1>5, <1>6 DEF IntOn
  <1>12. Sum(f, T \ {x}) \in Int
    <2>1. IsFiniteSet(T \ {x}) /\ IntOn(f, T \ {x})
      BY <1>2, <1>6, FS_Subset DEF IntOn
    <2> QED
      BY <2>1, SumInt
  <1>13. \A a, b \in Int : 2 * a + 2 * b = 2 * (a + b)
    OBVIOUS
  <1> QED
    BY <1>3, <1>8, <1>9, <1>10, <1>11, <1>12, <1>13

(* The buckets of the samples, and what is left of the samples in them.     *)
LEMMA RoundedIs ==
  ASSUME NEW I, NEW v, Logged(v, I), native
  PROVE  /\ IsFiniteSet(I)
         /\ \A i \in I : Rounded(v, I)[i] \in Nat /\ Trend(i) = 2 * Highest(Rounded(v, I)[i])
                        /\ Lower(i) = 2 * Rounded(v, I)[i] /\ Mean(i) = 2 * Middle(Rounded(v, I)[i])
         /\ IsFiniteSet(Image(Rounded(v, I), I)) /\ Image(Rounded(v, I), I) \subseteq Nat
         /\ I # {} => Image(Rounded(v, I), I) # {}
  <1> DEFINE t == Rounded(v, I)
  <1>1. IsFiniteSet(I) /\ \A i \in I : v[i] \in Int /\ Raw(i) = v[i]
    BY LoggedIs
  <1>2. ASSUME NEW i \in I
        PROVE  t[i] \in Nat /\ Trend(i) = 2 * Highest(t[i]) /\ Lower(i) = 2 * t[i] /\ Mean(i) = 2 * Middle(t[i])
    <2>1. t[i] = Bucket(v[i])
      BY DEF Rounded
    <2>2. Bucket(v[i]) \in Nat
      BY <1>1, BucketNat
    <2>3. Raw(i) = v[i]
      BY <1>1
    <2> QED
      BY <2>1, <2>2, <2>3 DEF Trend, Lower, Mean
  <1> HIDE DEF t
  <1>3. IsFiniteSet(Image(t, I))
    BY <1>1, ImageFinite
  <1>4. Image(t, I) \subseteq Nat /\ (I # {} => Image(t, I) # {})
    BY <1>2 DEF Image
  <1> QED
    BY <1>1, <1>2, <1>3, <1>4 DEF t

(* The samples in buckets up to k.                                          *)
UpToIn(t, I, k) == {i \in I : t[i] <= k}

(* What the counts of the histogram say of the samples: how many there are, *)
(* how many are in buckets up to k, and what these add up to.               *)
LEMMA HistogramCounts ==
  ASSUME NEW I, NEW v, Logged(v, I), native
  PROVE  /\ DOMAIN Counts(v, I) = Image(Rounded(v, I), I)
         /\ SumFunction(Counts(v, I)) = Cardinality(I)
         /\ \A k \in Int : SumFunctionOnSet(Counts(v, I), {x \in Image(Rounded(v, I), I) : x <= k})
                           = Cardinality(UpToIn(Rounded(v, I), I, k))
         /\ 2 * SumFunction([k \in Image(Rounded(v, I), I) |-> Middle(k) * Counts(v, I)[k]])
            = SumFunction([i \in I |-> Mean(i)])
  <1> DEFINE t == Rounded(v, I)
             A == Image(t, I)
             h == Counts(v, I)
  <1>1. IsFiniteSet(I) /\ IsFiniteSet(A) /\ A \subseteq Nat
    BY RoundedIs
  <1>2. \A i \in I : t[i] \in Nat /\ Mean(i) = 2 * Middle(t[i])
    BY RoundedIs
  <1>3. DOMAIN h = A /\ \A k \in A : h[k] = Cardinality(Having(I, t, {k}))
    BY DEF Counts
  <1> HIDE DEF t, h
  <1>4. \A i \in I : t[i] \in A
    BY DEF Image
  <1> HIDE DEF A
  <1>5. SumFunction(h) = Cardinality(I)
    <2>1. SumFunction(h) = Sum(h, A)
      BY <1>3 DEF SumFunction, Sum
    <2>2. Sum(h, A) = Cardinality(Having(I, t, A))
      BY <1>1, <1>3, SumCounts
    <2>3. Having(I, t, A) = I
      BY <1>4 DEF Having
    <2> QED
      BY <2>1, <2>2, <2>3
  <1>6. ASSUME NEW k \in Int
        PROVE  SumFunctionOnSet(h, {x \in A : x <= k}) = Cardinality(UpToIn(t, I, k))
    <2> DEFINE B == {x \in A : x <= k}
    <2>1. IsFiniteSet(B) /\ \A x \in B : h[x] = Cardinality(Having(I, t, {x}))
      BY <1>1, <1>3, FS_Subset
    <2>2. Having(I, t, B) = UpToIn(t, I, k)
      BY <1>4 DEF Having, UpToIn
    <2> HIDE DEF B
    <2>3. Sum(h, B) = Cardinality(Having(I, t, B))
      BY <1>1, <2>1, SumCounts
    <2> QED
      BY <2>2, <2>3 DEF Sum, B
  <1> DEFINE g == [k \in A |-> Middle(k)]
             w == [k \in A |-> Middle(k) * h[k]]
             m == [i \in I |-> Middle(t[i])]
             u == [i \in I |-> Mean(i)]
  <1>7. 2 * SumFunction(w) = SumFunction(u)
    <2>1. SumFunction(w) = Sum(w, A)
      BY DEF SumFunction, Sum
    <2>2. SumFunction(u) = Sum(u, I)
      BY DEF SumFunction, Sum
    <2>3. IntOn(m, I)
      BY <1>2, HighestIs DEF IntOn
    <2>4. IntOn(g, A)
      BY <1>1, HighestIs DEF IntOn
    <2>5. \A k \in A : w[k] = g[k] * Cardinality(Having(I, t, {k}))
      BY <1>3
    <2>6. \A i \in I : u[i] = 2 * m[i]
      BY <1>2
    <2>7. \A i \in I : m[i] = g[t[i]]
      BY <1>4
    <2> HIDE DEF w, u, g, m
    <2>8. IsFiniteSet(I) /\ IsFiniteSet(A)
      BY <1>1
    <2>9. StandFor(m, g, t, I) /\ Weighed(w, g, t, I, A)
      BY <2>3, <2>5, <2>7, <2>4 DEF StandFor, Weighed
    <2>10. Sum(w, A) = Sum(m, Having(I, t, A))
      BY <2>8, <2>9, SumWeighted
    <2>11. Having(I, t, A) = I
      BY <1>4 DEF Having
    <2>12. Sum(u, I) = 2 * Sum(m, I)
      BY <1>1, <2>3, <2>6, SumTwice
    <2> QED
      BY <2>1, <2>2, <2>10, <2>11, <2>12
  <1> QED
    BY <1>3, <1>5, <1>6, <1>7 DEF t, A, h

(* The arithmetic of value_at_quantile().                                   *)
LEMMA WantedBounds ==
  ASSUME NEW p \in 1 .. 99, NEW n \in Nat, n > 0
  PROVE  LET wanted == Max({1, (p * n + 99) \div 100})
             lower == (p * (n - 1)) \div 100
         IN  wanted \in 1 .. n /\ lower \in Nat /\ lower + 1 <= wanted /\ wanted <= lower + 2
  <1> DEFINE y == p * n
             c == (y + 99) \div 100
             l == (y - p) \div 100
  <1>1. y \in Nat /\ n <= y /\ y <= 99 * n /\ p * (n - 1) = y - p /\ p <= y
    <2>1. \A a \in 1 .. 99, e \in Nat : e > 0 => a * e \in Nat /\ e <= a * e /\ a * e <= 99 * e
                                               /\ a * (e - 1) = a * e - a /\ a <= a * e
      OBVIOUS
    <2> QED
      BY <2>1
  <1> HIDE DEF y
  <1>2. c \in Nat /\ 100 * c <= y + 99 /\ y + 99 < 100 * c + 100
    <2>1. y + 99 \in Nat
      BY <1>1
    <2> QED
      BY <2>1
  <1>3. l \in Nat /\ 100 * l <= y - p /\ y - p < 100 * l + 100
    <2>1. y - p \in Nat
      BY <1>1
    <2> QED
      BY <2>1
  <1> HIDE DEF c, l
  <1>4. c \in 1 .. n /\ l + 1 <= c /\ c <= l + 2
    BY <1>1, <1>2, <1>3
  <1>5. Max({1, c}) = c
    <2>1. {1, c} \subseteq Int /\ \A z \in {1, c} : z <= c
      BY <1>4
    <2> QED
      BY <2>1, MaxIs
  <1> QED
    BY <1>1, <1>3, <1>4, <1>5 DEF y, c, l

(* How many samples the quantile p is to have up to it.                     *)
Wanted(p, n) == Max({1, (p * n + 99) \div 100})

(* value_at_quantile() is the first bucket with as many samples up to it as *)
(* wanted.                                                                  *)
LEMMA QuantileIs ==
  ASSUME NEW I, NEW v, Logged(v, I), native, I # {}, NEW p \in 1 .. 99,
         NEW sink, sink.hdr = Counts(v, I)
  PROVE  \E q \in Image(Rounded(v, I), I) :
           /\ AtQuantile(sink, p) = q
           /\ Cardinality(UpToIn(Rounded(v, I), I, q)) >= Wanted(p, Cardinality(I))
           /\ \A x \in Image(Rounded(v, I), I) :
                x < q => ~(Cardinality(UpToIn(Rounded(v, I), I, x)) >= Wanted(p, Cardinality(I)))
  <1> DEFINE t == Rounded(v, I)
             A == Image(t, I)
             h == Counts(v, I)
             n == Cardinality(I)
             S == {k \in A : Cardinality(UpToIn(t, I, k)) >= Wanted(p, n)}
  <1>1. IsFiniteSet(A) /\ A \subseteq Int /\ A # {} /\ \A i \in I : t[i] \in Int
    BY RoundedIs
  <1>2. DOMAIN h = A /\ SumFunction(h) = n
    BY HistogramCounts
  <1>3. \A k \in Int : SumFunctionOnSet(h, {x \in A : x <= k}) = Cardinality(UpToIn(t, I, k))
    BY HistogramCounts
  <1>4. n \in Nat /\ n > 0
    <2>1. n \in Nat /\ (n = 0 <=> I = {})
      BY LoggedIs
    <2> QED
      BY <2>1
  <1>5. Wanted(p, n) \in 1 .. n
    BY <1>4, WantedBounds DEF Wanted
  <1>6. \A i \in I : t[i] \in A
    BY DEF Image
  <1> HIDE DEF t, A, h, n
  <1>7. AtQuantile(sink, p) = Min({k \in A : SumFunctionOnSet(h, {x \in A : x <= k}) >= Wanted(p, n)})
    <2>1. sink.hdr = h
      BY DEF h
    <2> QED
      BY <2>1, <1>2 DEF AtQuantile, Wanted, Recorded, Histogram
  <1>8. {k \in A : SumFunctionOnSet(h, {x \in A : x <= k}) >= Wanted(p, n)} = S
    BY <1>1, <1>3
  <1>9. Max(A) \in A /\ \A x \in A : x <= Max(A)
    BY <1>1, GreatestOfFinite
  <1>10. UpToIn(t, I, Max(A)) = I
    BY <1>6, <1>9 DEF UpToIn
  <1>11. Max(A) \in S
    BY <1>4, <1>5, <1>9, <1>10 DEF n
  <1>12. IsFiniteSet(S) /\ S \subseteq Int /\ S # {}
    BY <1>1, <1>11, FS_Subset
  <1>13. Min(S) \in S /\ \A x \in S : Min(S) <= x
    BY <1>12, LeastOfFinite
  <1>14. PICK q \in A : q = Min(S)
    BY <1>13
  <1>15. AtQuantile(sink, p) = q
    BY <1>7, <1>8, <1>14
  <1>16. Cardinality(UpToIn(t, I, q)) >= Wanted(p, n)
    BY <1>13, <1>14
  <1>17. ASSUME NEW x \in A, x < q
         PROVE  ~(Cardinality(UpToIn(t, I, x)) >= Wanted(p, n))
    <2>1. x \notin S
      BY <1>1, <1>13, <1>14, <1>17
    <2> QED
      BY <2>1
  <1> HIDE DEF S
  <1> QED
    BY <1>15, <1>16, <1>17 DEF t, A, n

(* The samples in buckets below a bucket of the histogram are those up to   *)
(* the bucket before it.                                                    *)
LEMMA QuantileSplits ==
  ASSUME NEW I, NEW v, Logged(v, I), native, I # {}, NEW p \in 1 .. 99,
         NEW sink, sink.hdr = Counts(v, I)
  PROVE  Highest(AtQuantile(sink, p)) \in Int /\ Splits(<<2 * Highest(AtQuantile(sink, p)), 1>>, I, p)
  <1> DEFINE t == Rounded(v, I)
             A == Image(t, I)
             n == Cardinality(I)
             lower == (p * (n - 1)) \div 100
             W == Wanted(p, n)
  <1>1. PICK q \in A :
           /\ AtQuantile(sink, p) = q
           /\ Cardinality(UpToIn(t, I, q)) >= W
           /\ \A x \in A : x < q => ~(Cardinality(UpToIn(t, I, x)) >= W)
    BY QuantileIs
  <1>2. IsFiniteSet(A) /\ A \subseteq Int /\ q \in Nat
    BY RoundedIs
  <1>3. \A i \in I : t[i] \in Nat /\ Trend(i) = 2 * Highest(t[i])
    BY RoundedIs
  <1>4. IsFiniteSet(I) /\ n \in Nat /\ n > 0
    <2>1. IsFiniteSet(I) /\ n \in Nat /\ (n = 0 <=> I = {})
      BY LoggedIs
    <2> QED
      BY <2>1
  <1>5. W \in 1 .. n /\ lower \in Nat /\ lower + 1 <= W /\ W <= lower + 2
    BY <1>4, WantedBounds DEF Wanted
  <1>6. \A i \in I : t[i] \in A
    BY DEF Image
  <1> DEFINE L == {i \in I : t[i] < q}
  <1> HIDE DEF t, A, n, lower, W
  <1>7. \A k : UpToIn(t, I, k) \in SUBSET I
    BY DEF UpToIn
  <1>8. \A k : IsFiniteSet(UpToIn(t, I, k)) /\ Cardinality(UpToIn(t, I, k)) \in Nat
    BY <1>4, <1>7, FS_Subset, FS_CardinalityType
  <1>9. Cardinality(L) \in Nat /\ Cardinality(L) <= lower + 1 /\ IsFiniteSet(L)
    <2>1. CASE L = {}
      BY <2>1, <1>5, FS_EmptySet
    <2>2. CASE L # {}
      <3> DEFINE B == {x \in A : x < q}
      <3>1. IsFiniteSet(B) /\ B \subseteq Int
        BY <1>2, FS_Subset
      <3>2. B # {}
        BY <2>2, <1>6
      <3>3. Max(B) \in B /\ \A x \in B : x <= Max(B)
        BY <3>1, <3>2, GreatestOfFinite
      <3>4. PICK k \in A : k = Max(B) /\ k < q
        BY <3>3
      <3>5. \A x \in A : x < q => x <= k
        BY <3>3, <3>4
      <3>6. L = UpToIn(t, I, k)
        <4>1. ASSUME NEW i \in I
              PROVE  t[i] < q <=> t[i] <= k
          <5>1. t[i] \in A /\ t[i] \in Int /\ k \in Int /\ q \in Int
            BY <1>2, <1>6
          <5>2. k < q /\ (t[i] < q => t[i] <= k)
            BY <5>1, <3>4, <3>5
          <5> QED
            BY <5>1, <5>2
        <4> QED
          BY <4>1 DEF UpToIn
      <3>7. ~(Cardinality(L) >= W)
        BY <3>4, <3>6, <1>1
      <3>8. Cardinality(L) \in Nat /\ IsFiniteSet(L)
        BY <3>6, <1>8
      <3> QED
        BY <3>7, <3>8, <1>5
    <2> QED
      BY <2>1, <2>2
  <1> DEFINE top == 2 * Highest(q)
             lo == {i \in I : Trend(i) * 1 <= top}
             hi == {i \in I : Trend(i) * 1 >= top}
  <1>10. ASSUME NEW i \in I
        PROVE  (Trend(i) * 1 <= top <=> t[i] <= q) /\ (Trend(i) * 1 >= top <=> ~(t[i] < q))
    <2>1. t[i] \in Nat /\ Trend(i) = 2 * Highest(t[i])
      BY <1>3
    <2>2. PICK x \in Nat, y \in Nat : x = Highest(t[i]) /\ y = Highest(q)
      BY <1>2, <2>1, HighestIs
    <2>3. (t[i] <= q <=> x <= y) /\ (t[i] < q <=> x < y)
      BY <1>2, <2>1, <2>2, HighestIs
    <2>4. Trend(i) * 1 = 2 * x /\ top = 2 * y
      BY <2>1, <2>2
    <2> HIDE DEF top
    <2>5. (2 * x <= 2 * y <=> x <= y) /\ (2 * x >= 2 * y <=> ~(x < y))
      OBVIOUS
    <2> QED
      BY <2>3, <2>4, <2>5
  <1> HIDE DEF top
  <1>11. lo = UpToIn(t, I, q)
    BY <1>10 DEF UpToIn
  <1>12. hi = I \ L
    BY <1>10
  <1>13. L \subseteq I
    OBVIOUS
  <1> HIDE DEF lo, hi, L
  <1>14. Cardinality(lo) >= lower + 1
    BY <1>1, <1>5, <1>8, <1>11
  <1>15. Cardinality(hi) >= n - lower - 1
    <2>1. Cardinality(I \ L) = Cardinality(I) - Cardinality(I \cap L)
      BY <1>4, <1>9, FS_Difference
    <2>2. I \cap L = L
      BY <1>13
    <2>3. Cardinality(hi) = n - Cardinality(L)
      BY <2>1, <2>2, <1>12 DEF n
    <2> QED
      BY <2>3, <1>4, <1>5, <1>9
  <1>16. Splits(<<top, 1>>, I, p)
    BY <1>14, <1>15 DEF Splits, lo, hi, lower, n
  <1>17. Highest(q) \in Nat
    BY <1>2, HighestIs
  <1> QED
    BY <1>1, <1>16, <1>17 DEF top

(* The least and the greatest value recorded.                               *)
LEMMA HistogramEnds ==
  ASSUME NEW I, NEW v, Logged(v, I), native, I # {}
  PROVE  LET A == Image(Rounded(v, I), I)
         IN  Min({Lower(i) : i \in I}) = 2 * Min(A) /\ Max({Trend(i) : i \in I}) = 2 * Highest(Max(A))
  <1> DEFINE t == Rounded(v, I)
             A == Image(t, I)
             S == {Lower(i) : i \in I}
             T == {Trend(i) : i \in I}
  <1>1. \A i \in I : t[i] \in Nat /\ Lower(i) = 2 * t[i] /\ Trend(i) = 2 * Highest(t[i])
    BY RoundedIs
  <1>2. IsFiniteSet(A) /\ A \subseteq Nat /\ A \subseteq Int /\ A # {}
    BY RoundedIs
  <1>3. (\A i \in I : t[i] \in A) /\ \A a \in A : \E i \in I : a = t[i]
    BY DEF Image
  <1> HIDE DEF t, A
  <1>4. Min(A) \in A /\ \A y \in A : Min(A) <= y
    BY <1>2, LeastOfFinite
  <1>5. Max(A) \in A /\ \A y \in A : y <= Max(A)
    BY <1>2, GreatestOfFinite
  <1>6. PICK a \in A, z \in A : a = Min(A) /\ z = Max(A)
    BY <1>4, <1>5
  <1>7. a \in Nat /\ z \in Nat /\ \A i \in I : a <= t[i] /\ t[i] <= z
    BY <1>2, <1>3, <1>4, <1>5, <1>6
  <1>8. PICK y \in Nat : y = Highest(z)
    BY <1>7, HighestIs
  <1>9. \A i \in I : Highest(t[i]) \in Nat /\ Highest(t[i]) <= y
    BY <1>1, <1>7, <1>8, HighestIs
  <1>10. \A i \in I : /\ Lower(i) \in Int /\ 2 * a <= Lower(i)
                     /\ Trend(i) \in Int /\ Trend(i) <= 2 * y
    BY <1>1, <1>7, <1>9
  <1>11. 2 * a \in S /\ 2 * y \in T
    BY <1>1, <1>3, <1>8
  <1>12. S \subseteq Int /\ (\A x \in S : 2 * a <= x) /\ T \subseteq Int /\ \A x \in T : x <= 2 * y
    BY <1>10
  <1> HIDE DEF S, T
  <1>13. Min(S) = 2 * a
    BY <1>11, <1>12, MinIs
  <1>14. Max(T) = 2 * y
    BY <1>11, <1>12, MaxIs
  <1> QED
    BY <1>6, <1>8, <1>13, <1>14 DEF S, T, A, t

(* HdrTrendSink.format() shows the statistics of the buckets that the       *)
(* samples fell into.                                                       *)
LEMMA HistogramShown ==
  ASSUME NEW I, NEW v, Logged(v, I), native, NEW sink, IsHistogram(sink, v, I), NEW d \in Nat
  PROVE  TrendShown(Format(sink, d), I, d)
  <1> DEFINE stats == Format(sink, d)
             A == Image(Rounded(v, I), I)
             h == Counts(v, I)
             n == Cardinality(I)
  <1>1. sink.type = "hdr" /\ sink.hdr = h
    BY DEF IsHistogram
  <1>2. n \in Nat /\ (n = 0 <=> I = {})
    BY LoggedIs
  <1>3. /\ DOMAIN h = A /\ SumFunction(h) = n
        /\ 2 * SumFunction([k \in A |-> Middle(k) * h[k]]) = SumFunction([i \in I |-> Mean(i)])
    BY HistogramCounts
  <1> HIDE DEF A, h, n
  <1>4. stats = [x \in TrendKeys |->
                   CASE n = 0 -> Zero
                     [] n > 0 /\ x = "count" -> <<n, 1>>
                     [] n > 0 /\ x = "avg"   -> <<2 * SumFunction([k \in A |-> Middle(k) * h[k]]), n>>
                     [] n > 0 /\ x = "min"   -> <<2 * Min(A), 1>>
                     [] n > 0 /\ x = "max"   -> <<2 * Highest(Max(A)), 1>>
                     [] n > 0 /\ x \in DOMAIN Percentiles -> <<2 * Highest(AtQuantile(sink, Percentiles[x])), 1>>]
    <2>1. stats = FormatHistogram(sink)
      BY <1>1 DEF Format
    <2>2. Recorded(sink) = n /\ Histogram(sink) = A
      BY <1>1, <1>3 DEF Recorded, Histogram
    <2> QED
      BY <2>1, <2>2, <1>1 DEF FormatHistogram
  <1> HIDE DEF stats
  <1>5. DOMAIN stats = TrendKeys
    BY <1>4
  <1>6. CASE I = {}
    <2>1. n = 0
      BY <1>2, <1>6
    <2>2. \A agg \in TrendKeys : stats[agg] = Zero
      BY <1>4, <2>1
    <2>3. Zero[1] = 0
      BY DEF Zero
    <2> QED
      BY <1>5, <1>6, <2>2, <2>3 DEF TrendShown, stats
  <1>7. CASE I # {}
    <2>1. n > 0 /\ n # 0
      BY <1>2, <1>7
    <2>2. /\ stats["count"] = <<n, 1>> /\ stats["avg"] = <<2 * SumFunction([k \in A |-> Middle(k) * h[k]]), n>>
          /\ stats["min"] = <<2 * Min(A), 1>> /\ stats["max"] = <<2 * Highest(Max(A)), 1>>
      <3>1. {"count", "avg", "min", "max"} \subseteq TrendKeys
        BY PercentilesAre
      <3> QED
        BY <3>1, <2>1, <1>4, PercentilesAre
    <2>3. /\ Statistic("count", "trend", I, d) = <<n, 1>>
          /\ Statistic("avg", "trend", I, d) = <<SumFunction([i \in I |-> Mean(i)]), n>>
          /\ Statistic("min", "trend", I, d) = <<Min({Lower(i) : i \in I}), 1>>
          /\ Statistic("max", "trend", I, d) = <<Max({Trend(i) : i \in I}), 1>>
      BY DEF Statistic, n
    <2>4. Min({Lower(i) : i \in I}) = 2 * Min(A) /\ Max({Trend(i) : i \in I}) = 2 * Highest(Max(A))
      BY <1>7, HistogramEnds DEF A
    <2>5. \A agg \in {"count", "avg", "min", "max"} : stats[agg] = Statistic(agg, "trend", I, d)
      BY <1>3, <2>2, <2>3, <2>4
    <2>6. ASSUME NEW agg \in DOMAIN Percentiles
          PROVE  Splits(stats[agg], I, Percentiles[agg]) /\ Fraction(stats[agg])
      <3>1. agg \in TrendKeys /\ agg # "count" /\ agg # "avg" /\ agg # "min" /\ agg # "max"
        BY <2>6, PercentilesAre
      <3>2. stats[agg] = <<2 * Highest(AtQuantile(sink, Percentiles[agg])), 1>>
        BY <3>1, <2>1, <1>4
      <3>3. Percentiles[agg] \in 1 .. 99
        BY PercentilesAre
      <3>4. sink.hdr = Counts(v, I)
        BY <1>1 DEF h
      <3>5. /\ Highest(AtQuantile(sink, Percentiles[agg])) \in Int
            /\ Splits(<<2 * Highest(AtQuantile(sink, Percentiles[agg])), 1>>, I, Percentiles[agg])
        BY <3>3, <3>4, <1>7, QuantileSplits
      <3>6. Fraction(<<2 * Highest(AtQuantile(sink, Percentiles[agg])), 1>>)
        BY <3>5 DEF Fraction
      <3> QED
        BY <3>2, <3>5, <3>6
    <2> QED
      BY <1>5, <1>7, <2>5, <2>6 DEF TrendShown, stats
  <1> QED
    BY <1>6, <1>7

-----------------------------------------------------------------------------
(* The aggregations of each type of metric.                                 *)
Keys(type) ==
  CASE type = "counter" -> {"count", "rate"}
    [] type = "gauge" -> {"value", "min", "max"}
    [] type = "rate" -> {"rate", "passes", "fails"}
    [] type = "trend" -> TrendKeys

(* What a sink shows of the samples I.                                      *)
Shows(stats, type, I, d) ==
  /\ DOMAIN stats = Keys(type)
  /\ I = {} => \A agg \in Keys(type) : stats[agg][1] = 0
  /\ I # {} => \A agg \in Keys(type) \ DOMAIN Percentiles : stats[agg] = Statistic(agg, type, I, d)
  /\ I # {} => \A agg \in Keys(type) \cap DOMAIN Percentiles :
                 Splits(stats[agg], I, Percentiles[agg]) /\ Fraction(stats[agg]) /\ type = "trend"

(* Whatever its type, a sink that is read shows the statistics of its       *)
(* samples.                                                                 *)
LEMMA SinkShows ==
  ASSUME NEW I, NEW v, Logged(v, I), \A i \in I : -Inf < v[i] /\ v[i] < Inf, Inf \in Nat,
         NEW sink, NEW type \in Types, native \in BOOLEAN, Represents(sink, type, native, v, I), NEW d \in Nat
  PROVE  Shows(Format(EnsureSorted(sink), d), type, I, d)
  <1> DEFINE stats == Format(EnsureSorted(sink), d)
  <1>1. {"count", "rate", "value", "min", "max", "passes", "fails"} \cap DOMAIN Percentiles = {}
    BY PercentilesAre
  <1>2. CASE type = "counter"
    <2>1. IsCounter(sink, v, I)
      BY <1>2 DEF Represents
    <2>2. EnsureSorted(sink) = sink
      BY <2>1, OthersNotSorted
    <2>3. Keys(type) = {"count", "rate"}
      BY <1>2 DEF Keys
    <2>4. /\ DOMAIN Format(sink, d) = {"count", "rate"}
          /\ I = {} => \A agg \in {"count", "rate"} : Format(sink, d)[agg][1] = 0
          /\ \A agg \in {"count", "rate"} : Format(sink, d)[agg] = Statistic(agg, "counter", I, d)
      BY <2>1, CounterShown
    <2> QED
      BY <1>1, <1>2, <2>2, <2>3, <2>4 DEF Shows
  <1>3. CASE type = "gauge"
    <2>1. IsGauge(sink, v, I)
      BY <1>3 DEF Represents
    <2>2. EnsureSorted(sink) = sink
      BY <2>1, OthersNotSorted
    <2>3. Keys(type) = {"value", "min", "max"}
      BY <1>3 DEF Keys
    <2>4. /\ DOMAIN Format(sink, d) = {"value", "min", "max"}
          /\ I = {} => \A agg \in {"value", "min", "max"} : Format(sink, d)[agg][1] = 0
          /\ I # {} => \A agg \in {"value", "min", "max"} : Format(sink, d)[agg] = Statistic(agg, "gauge", I, d)
      BY <2>1, GaugeShown
    <2> QED
      BY <1>1, <1>3, <2>2, <2>3, <2>4 DEF Shows
  <1>4. CASE type = "rate"
    <2>1. IsRate(sink, v, I)
      BY <1>4 DEF Represents
    <2>2. EnsureSorted(sink) = sink
      BY <2>1, OthersNotSorted
    <2>3. Keys(type) = {"rate", "passes", "fails"}
      BY <1>4 DEF Keys
    <2>4. /\ DOMAIN Format(sink, d) = {"rate", "passes", "fails"}
          /\ I = {} => \A agg \in {"rate", "passes", "fails"} : Format(sink, d)[agg][1] = 0
          /\ I # {} => \A agg \in {"rate", "passes", "fails"} : Format(sink, d)[agg] = Statistic(agg, "rate", I, d)
      BY <2>1, RateShown
    <2> QED
      BY <1>1, <1>4, <2>2, <2>3, <2>4 DEF Shows
  <1>5. CASE type = "trend"
    <2>1. TrendShown(stats, I, d)
      <3>1. CASE native
        <4>1. IsHistogram(sink, v, I)
          BY <1>5, <3>1 DEF Represents
        <4>2. EnsureSorted(sink) = sink
          BY <4>1, OthersNotSorted
        <4> QED
          BY <3>1, <4>1, <4>2, HistogramShown
      <3>2. CASE ~native
        <4>1. IsList(sink, v, I)
          BY <1>5, <3>2 DEF Represents
        <4>2. IsSortedList(EnsureSorted(sink), v, I)
          BY <4>1, ListSorts
        <4> QED
          BY <3>2, <4>2, ListShown
      <3> QED
        BY <3>1, <3>2
    <2>2. Keys(type) = TrendKeys
      BY <1>5 DEF Keys
    <2>3. TrendKeys \ DOMAIN Percentiles = {"count", "avg", "min", "max"}
      BY PercentilesAre
    <2>4. TrendKeys \cap DOMAIN Percentiles = DOMAIN Percentiles
      BY PercentilesAre
    <2> QED
      BY <1>5, <2>1, <2>2, <2>3, <2>4 DEF Shows, TrendShown
  <1> QED
    BY <1>2, <1>3, <1>4, <1>5 DEF Types

-----------------------------------------------------------------------------
(* Ingesting a sample.                                                      *)

(* What may be in the log.                                                  *)
Entry == Sample \cup UNION {{Outcomes(verdicts)[i] : i \in DOMAIN verdicts} : verdicts \in Checked}

(* The samples of a log that a sink was given, and their values.            *)
FedOf(lg, key, upto) == {i \in 1 .. upto : lg[i].metric = key[1] /\ key[2] \in {AnyTag, lg[i].tag}}
ValuesOf(lg, I) == [i \in I |-> lg[i].value]
(* A sink is that of its samples; the sinks of a state are.                 *)
Holds(sink, type, nat, lg, key) ==
  Represents(sink, type, nat, ValuesOf(lg, FedOf(lg, key, Len(lg))), FedOf(lg, key, Len(lg)))

SinksHold(nat, ss, mm, lg) ==
  /\ lg \in Seq(Entry)
  /\ mm \in [DOMAIN mm -> Types]
  /\ \A m \in DOMAIN mm : <<m, AnyTag>> \in DOMAIN ss
  /\ \A i \in 1 .. Len(lg) : <<lg[i].metric, AnyTag>> \in DOMAIN ss
  /\ \A key \in DOMAIN ss : key[1] \in DOMAIN mm /\ Holds(ss[key], mm[key[1]], nat, lg, key)

(* Every value recorded is an integer, and finite.                          *)
LEMMA EntryIs ==
  ASSUME NEW e \in Entry
  PROVE  e.value \in Int /\ -Inf < e.value /\ e.value < Inf
  <1>1. CASE e \in Sample
    BY <1>1, SinksAssumption
  <1>2. CASE e \notin Sample
    <2>1. PICK verdicts \in Checked : \E i \in DOMAIN verdicts : e = Outcomes(verdicts)[i]
      BY <1>2 DEF Entry
    <2>2. PICK i \in DOMAIN verdicts : e = Outcomes(verdicts)[i]
      BY <2>1
    <2>3. e.value \in {0, 1}
      BY <2>2 DEF Outcomes
    <2>4. Inf \in Nat /\ 1 < Inf
      BY SinksAssumption
    <2> QED
      BY <2>3, <2>4
  <1> QED
    BY <1>1, <1>2

(* The samples of a sink are samples of the log, with integer values.       *)
LEMMA FedIs ==
  ASSUME NEW lg \in Seq(Entry), NEW key
  PROVE  /\ FedOf(lg, key, Len(lg)) \subseteq 1 .. Len(lg) /\ Len(lg) \in Nat
         /\ Values(ValuesOf(lg, FedOf(lg, key, Len(lg))), FedOf(lg, key, Len(lg)))
  <1> DEFINE I == FedOf(lg, key, Len(lg))
  <1>1. Len(lg) \in Nat /\ DOMAIN lg = 1 .. Len(lg)
    BY LenProperties
  <1>2. I \in SUBSET (1 .. Len(lg))
    BY DEF FedOf
  <1>3. IsFiniteSet(1 .. Len(lg))
    BY <1>1, FS_Interval
  <1>4. IsFiniteSet(I)
    BY <1>2, <1>3, FS_Subset
  <1>5. \A i \in 1 .. Len(lg) : lg[i] \in Entry
    BY <1>1, ElementOfSeq
  <1>6. \A i \in 1 .. Len(lg) : lg[i].value \in Int
    BY <1>5, EntryIs
  <1>7. ValuesOf(lg, I) \in [I -> Int]
    BY <1>2, <1>6 DEF ValuesOf
  <1>8. I \subseteq Nat
    BY <1>1, <1>2
  <1> QED
    BY <1>1, <1>2, <1>4, <1>7, <1>8 DEF Values

(* A sample goes to the sinks of its metric without a filter, or with its tag*)
LEMMA FedGrows ==
  ASSUME NEW lg \in Seq(Entry), NEW e \in Entry, NEW key
  PROVE  LET I == FedOf(lg, key, Len(lg))
             J == FedOf(Append(lg, e), key, Len(Append(lg, e)))
             m == Len(lg) + 1
         IN  IF key[1] = e.metric /\ key[2] \in {AnyTag, e.tag}
             THEN /\ J = I \cup {m}
                  /\ Extends(ValuesOf(Append(lg, e), J), ValuesOf(lg, I), I, m)
                  /\ ValuesOf(Append(lg, e), J)[m] = e.value
             ELSE J = I /\ ValuesOf(Append(lg, e), J) = ValuesOf(lg, I)
  <1> DEFINE I == FedOf(lg, key, Len(lg))
             g == Append(lg, e)
             J == FedOf(g, key, Len(g))
             n == Len(lg)
             match == key[1] = e.metric /\ key[2] \in {AnyTag, e.tag}
  <1>1. /\ g \in Seq(Entry) /\ Len(g) = n + 1 /\ g[n + 1] = e
        /\ \A i \in 1 .. n : g[i] = lg[i]
    BY AppendProperties
  <1>2. n \in Nat /\ I \subseteq 1 .. n /\ Values(ValuesOf(lg, I), I)
    BY FedIs
  <1>3. J \subseteq 1 .. Len(g) /\ Values(ValuesOf(g, J), J)
    BY <1>1, FedIs
  <1>4. \A i \in 1 .. n + 1 : i \in 1 .. n \/ i = n + 1
    BY <1>2
  <1>5. 1 .. n \subseteq 1 .. n + 1 /\ n + 1 \in 1 .. n + 1
    BY <1>2
  <1> HIDE DEF n, g
  <1>6. \A i \in 1 .. n : i \in J <=> i \in I
    BY <1>1, <1>5 DEF FedOf, n
  <1>7. n + 1 \in J <=> match
    BY <1>1, <1>5 DEF FedOf
  <1> HIDE DEF I, J, match
  <1>8. J = IF match THEN I \cup {n + 1} ELSE I
    <2>1. J \subseteq 1 .. n + 1
      BY <1>1, <1>3
    <2>2. \A i \in J : i \in I \/ i = n + 1
      BY <2>1, <1>4, <1>6
    <2>3. \A i \in I : i \in J
      BY <1>2, <1>6
    <2>4. CASE match
      BY <2>2, <2>3, <1>7, <2>4
    <2>5. CASE ~match
      BY <2>2, <2>3, <1>7, <2>5
    <2> QED
      BY <2>4, <2>5
  <1>9. \A i \in I : ValuesOf(g, J)[i] = ValuesOf(lg, I)[i] /\ i \in J
    BY <1>1, <1>2, <1>8 DEF ValuesOf
  <1>10. CASE match
    <2>1. J = I \cup {n + 1}
      BY <1>8, <1>10
    <2>2. ValuesOf(g, J)[n + 1] = e.value
      BY <1>1, <2>1 DEF ValuesOf
    <2>3. n + 1 \in Nat /\ n + 1 \notin I /\ \A i \in I : i < n + 1
      BY <1>2
    <2>4. ValuesOf(g, J) \in [I \cup {n + 1} -> Int]
      BY <1>3, <2>1 DEF Values
    <2>5. Extends(ValuesOf(g, J), ValuesOf(lg, I), I, n + 1)
      BY <1>2, <1>9, <2>3, <2>4 DEF Extends
    <2> QED
      BY <1>10, <2>1, <2>2, <2>5 DEF n, g, I, J, match
  <1>11. CASE ~match
    <2>1. J = I
      BY <1>8, <1>11
    <2>2. ValuesOf(g, J) = ValuesOf(lg, I)
      BY <1>9, <2>1 DEF ValuesOf
    <2> QED
      BY <1>11, <2>1, <2>2 DEF n, g, I, J, match
  <1> QED
    BY <1>10, <1>11

(* The types of the metrics, after a sample of the given name.              *)
Typed(mm, name) == [m \in DOMAIN mm \cup {name} |-> IF m \in DOMAIN mm THEN mm[m] ELSE "trend"]

(* _ingest() of a sample keeps every sink the sink of its samples, also one *)
(* it creates.                                                              *)
LEMMA IngestHolds ==
  ASSUME NEW ss, NEW mm, NEW lg, SinksHold(native, ss, mm, lg), native \in BOOLEAN, NEW e \in Entry
  PROVE  /\ SinksHold(native, Ingest(ss, e), Typed(mm, e.metric), Append(lg, e))
         /\ DOMAIN Ingest(ss, e) = DOMAIN ss \cup {<<e.metric, AnyTag>>}
  <1> DEFINE base == <<e.metric, AnyTag>>
             kk == Typed(mm, e.metric)
             g == Append(lg, e)
             known == IF base \in DOMAIN ss THEN ss
                      ELSE [key \in DOMAIN ss \cup {base} |-> IF key \in DOMAIN ss THEN ss[key] ELSE CreateSink("trend")]
             tt == Ingest(ss, e)
  <1>1. /\ lg \in Seq(Entry) /\ mm \in [DOMAIN mm -> Types]
        /\ \A m \in DOMAIN mm : <<m, AnyTag>> \in DOMAIN ss
        /\ \A i \in 1 .. Len(lg) : <<lg[i].metric, AnyTag>> \in DOMAIN ss
        /\ \A key \in DOMAIN ss : key[1] \in DOMAIN mm /\ Holds(ss[key], mm[key[1]], native, lg, key)
    BY DEF SinksHold
  <1>2. /\ g \in Seq(Entry) /\ Len(g) = Len(lg) + 1 /\ g[Len(lg) + 1] = e
        /\ \A i \in 1 .. Len(lg) : g[i] = lg[i]
    BY <1>1, AppendProperties
  <1>3. base[1] = e.metric /\ base[2] = AnyTag
    OBVIOUS
  <1>4. DOMAIN known = DOMAIN ss \cup {base}
    OBVIOUS
  <1>5. tt = [key \in DOMAIN known |-> IF key[1] = e.metric /\ key[2] \in {AnyTag, e.tag} THEN Add(known[key], e.value) ELSE known[key]]
    BY DEF Ingest
  <1>6. /\ DOMAIN kk = DOMAIN mm \cup {e.metric} /\ kk \in [DOMAIN kk -> Types]
        /\ \A m \in DOMAIN mm : kk[m] = mm[m]
        /\ e.metric \notin DOMAIN mm => kk[e.metric] = "trend"
    <2>1. "trend" \in Types
      BY DEF Types
    <2> QED
      BY <1>1, <2>1 DEF Typed
  <1>7. ASSUME NEW key \in DOMAIN known
        PROVE  key[1] \in DOMAIN kk /\ Holds(known[key], kk[key[1]], native, lg, key)
    <2>1. CASE key \in DOMAIN ss
      <3>1. known[key] = ss[key]
        BY <2>1
      <3>2. key[1] \in DOMAIN mm /\ Holds(ss[key], mm[key[1]], native, lg, key)
        BY <2>1, <1>1
      <3> QED
        BY <3>1, <3>2, <1>6
    <2>2. CASE key \notin DOMAIN ss
      <3>1. key = base /\ base \notin DOMAIN ss
        BY <2>2, <1>4
      <3>2. known[key] = CreateSink("trend")
        BY <3>1
      <3>3. e.metric \notin DOMAIN mm
        BY <3>1, <1>1
      <3>4. key[1] \in DOMAIN kk /\ kk[key[1]] = "trend"
        BY <3>1, <3>3, <1>6, <1>3
      <3>5. FedOf(lg, key, Len(lg)) = {}
        BY <3>1, <1>1, <1>3 DEF FedOf
      <3>6. Represents(CreateSink("trend"), "trend", native, ValuesOf(lg, {}), {})
        <4>1. "trend" \in Types
          BY DEF Types
        <4> QED
          BY <4>1, NewSink
      <3> QED
        BY <3>2, <3>4, <3>5, <3>6 DEF Holds
    <2> QED
      BY <2>1, <2>2
  <1> HIDE DEF known, tt, g, base, kk
  <1>8. DOMAIN tt = DOMAIN ss \cup {base}
    BY <1>4, <1>5
  <1>9. ASSUME NEW key \in DOMAIN tt
        PROVE  key[1] \in DOMAIN kk /\ Holds(tt[key], kk[key[1]], native, g, key)
    <2> DEFINE I == FedOf(lg, key, Len(lg))
               J == FedOf(g, key, Len(g))
               m == Len(lg) + 1
    <2>1. key \in DOMAIN known
      BY <1>4, <1>8
    <2>2. key[1] \in DOMAIN kk /\ Represents(known[key], kk[key[1]], native, ValuesOf(lg, I), I)
      BY <2>1, <1>7 DEF Holds
    <2>3. e.value \in Int /\ -Inf < e.value /\ e.value < Inf /\ Inf \in Nat
      BY EntryIs, SinksAssumption
    <2>4. CASE key[1] = e.metric /\ key[2] \in {AnyTag, e.tag}
      <3>1. J = I \cup {m} /\ Extends(ValuesOf(g, J), ValuesOf(lg, I), I, m) /\ ValuesOf(g, J)[m] = e.value
        BY <1>1, <2>4, FedGrows DEF g
      <3>2. tt[key] = Add(known[key], e.value)
        BY <2>1, <2>4, <1>5
      <3> HIDE DEF I, J, m
      <3>3. PICK w : w = ValuesOf(g, J)
        OBVIOUS
      <3>4. PICK v : v = ValuesOf(lg, I)
        OBVIOUS
      <3>5. Extends(w, v, I, m) /\ w[m] = e.value
        BY <3>1, <3>3, <3>4
      <3>6. Represents(known[key], kk[key[1]], native, v, I)
        BY <2>2, <3>4
      <3>7. -Inf < w[m] /\ w[m] < Inf
        BY <3>5, <2>3
      <3>8. Represents(Add(known[key], w[m]), kk[key[1]], native, w, I \cup {m})
        BY <3>5, <3>6, <3>7, <2>3, SinkAdds
      <3>9. Represents(tt[key], kk[key[1]], native, ValuesOf(g, J), J)
        BY <3>1, <3>2, <3>3, <3>5, <3>8
      <3> QED
        BY <3>9, <2>2 DEF Holds, J
    <2>5. CASE ~(key[1] = e.metric /\ key[2] \in {AnyTag, e.tag})
      <3>1. J = I /\ ValuesOf(g, J) = ValuesOf(lg, I)
        BY <1>1, <2>5, FedGrows DEF g
      <3>2. tt[key] = known[key]
        BY <2>1, <2>5, <1>5
      <3> HIDE DEF I, J
      <3>3. Represents(tt[key], kk[key[1]], native, ValuesOf(g, J), J)
        BY <3>1, <3>2, <2>2
      <3> QED
        BY <3>3, <2>2 DEF Holds, J
    <2> QED
      BY <2>4, <2>5
  <1>10. \A m \in DOMAIN kk : <<m, AnyTag>> \in DOMAIN tt
    BY <1>1, <1>6, <1>8 DEF base
  <1>11. \A i \in 1 .. Len(g) : <<g[i].metric, AnyTag>> \in DOMAIN tt
    <2>1. Len(lg) \in Nat
      BY <1>1, LenProperties
    <2>2. \A i \in 1 .. Len(g) : i \in 1 .. Len(lg) \/ i = Len(lg) + 1
      BY <2>1, <1>2
    <2> QED
      BY <2>2, <1>1, <1>2, <1>8 DEF base
  <1>12. SinksHold(native, tt, kk, g)
    BY <1>2, <1>6, <1>9, <1>10, <1>11 DEF SinksHold
  <1> QED
    BY <1>8, <1>12 DEF tt, g, base, kk

-----------------------------------------------------------------------------
(* Ingesting the outcomes of a check() one by one.                          *)

(* The sinks after some of the outcomes of a check(), the last given last.  *)
Others(T) == T \ {Max(T)}
StagesOf(stages, ss, o, S) ==
  stages = [T \in SUBSET S |-> IF T = {} THEN ss ELSE Ingest(stages[Others(T)], o[Max(T)])]
Stages(ss, o, S) == CHOOSE stages : StagesOf(stages, ss, o, S)
Ingested(ss, o, S) == Stages(ss, o, S)[S]

(* A finite set of integers, as one hypothesis.                             *)
FiniteInts(S) == IsFiniteSet(S) /\ S \subseteq Int

(* A part of a finite set of integers is one.                               *)
LEMMA FiniteIntsPart ==
  ASSUME NEW S, FiniteInts(S), NEW T \in SUBSET S
  PROVE  FiniteInts(T) /\ IsFiniteSet(T) /\ T \subseteq Int
  BY FS_Subset DEF FiniteInts

(* FoldLeft() of the outcomes is the stage with all of them.                *)
LEMMA FoldIsIngested ==
  ASSUME NEW ss, NEW o
  PROVE  FoldLeft(Ingest, ss, o) = Ingested(ss, o, DOMAIN o)
  BY DEF FoldLeft, MapThenFoldSet, Ingested, Stages, StagesOf, Others

(* Without its last, a set of outcomes is smaller.                          *)
LEMMA OthersIn ==
  ASSUME NEW T, FiniteInts(T), T # {}
  PROVE  Others(T) \in SUBSET T /\ Others(T) # T
  <1>1. Max(T) \in T
    BY GreatestOfFinite DEF FiniteInts
  <1> QED
    BY <1>1 DEF Others

(* The equation of the stages has one solution, wherever it is solved.      *)
LEMMA StagesAgree ==
  ASSUME NEW ss, NEW o, NEW S, NEW T, FiniteInts(S), NEW g, NEW h,
         StagesOf(g, ss, o, S), StagesOf(h, ss, o, T), NEW U, U \subseteq S, U \subseteq T
  PROVE  g[U] = h[U]
  <1> DEFINE Bad == {V \in SUBSET S : V \subseteq T /\ g[V] # h[V]}
  <1> SUFFICES ASSUME Bad # {} PROVE FALSE
    OBVIOUS
  <1>1. Bad \subseteq SUBSET S
    OBVIOUS
  <1> HIDE DEF Bad
  <1>2. PICK V \in Bad : IsFiniteSet(V) /\ \A W \in SUBSET V : W # V => W \notin Bad
    BY <1>1, SmallestSubset DEF FiniteInts
  <1> USE DEF Bad
  <1>3. g[V] = IF V = {} THEN ss ELSE Ingest(g[Others(V)], o[Max(V)])
    BY <1>2 DEF StagesOf
  <1>4. h[V] = IF V = {} THEN ss ELSE Ingest(h[Others(V)], o[Max(V)])
    BY <1>2 DEF StagesOf
  <1>5. CASE V = {}
    BY <1>2, <1>3, <1>4, <1>5
  <1>6. CASE V # {}
    <2>1. FiniteInts(V)
      BY <1>2, FiniteIntsPart
    <2>2. Others(V) \in SUBSET V /\ Others(V) # V
      BY <1>2, <1>6, <2>1, OthersIn
    <2>3. Others(V) \notin Bad
      BY <1>2, <2>2
    <2>4. g[Others(V)] = h[Others(V)]
      BY <2>2, <2>3, <1>2
    <2>5. g[V] = h[V]
      BY <1>3, <1>4, <1>6, <2>4
    <2> QED
      BY <1>2, <2>5
  <1> QED
    BY <1>5, <1>6

(* Where the equation is solved for every part of S, the last outcome is    *)
(* ingested last.                                                           *)
LEMMA IngestedEquation ==
  ASSUME NEW ss, NEW o, NEW S, FiniteInts(S),
         \A T \in SUBSET S : StagesOf(Stages(ss, o, T), ss, o, T)
  PROVE  Ingested(ss, o, S) = IF S = {} THEN ss ELSE Ingest(Ingested(ss, o, Others(S)), o[Max(S)])
  <1>1. Stages(ss, o, S)[S] = IF S = {} THEN ss ELSE Ingest(Stages(ss, o, S)[Others(S)], o[Max(S)])
    BY DEF StagesOf
  <1>2. CASE S = {}
    BY <1>1, <1>2 DEF Ingested
  <1>3. CASE S # {}
    <2>1. Others(S) \in SUBSET S /\ Others(S) # S
      BY <1>3, OthersIn
    <2>2. StagesOf(Stages(ss, o, Others(S)), ss, o, Others(S))
      BY <2>1
    <2>3. Stages(ss, o, S)[Others(S)] = Stages(ss, o, Others(S))[Others(S)]
      <3>1. PICK g : g = Stages(ss, o, S)
        OBVIOUS
      <3>2. PICK T : T = Others(S)
        OBVIOUS
      <3>3. PICK h : h = Stages(ss, o, T)
        OBVIOUS
      <3>4. StagesOf(g, ss, o, S)
        BY <3>1
      <3>5. StagesOf(h, ss, o, T)
        BY <2>2, <3>2, <3>3
      <3>6. T \subseteq S
        BY <2>1, <3>2
      <3>7. g[T] = h[T]
        BY <3>4, <3>5, <3>6, StagesAgree
      <3> QED
        BY <3>1, <3>2, <3>3, <3>7
    <2> QED
      BY <1>1, <1>3, <2>3 DEF Ingested
  <1> QED
    BY <1>2, <1>3

(* For finitely many outcomes the equation of the stages has a solution.    *)
LEMMA StagesExist ==
  ASSUME NEW ss, NEW o, NEW S, FiniteInts(S)
  PROVE  StagesOf(Stages(ss, o, S), ss, o, S)
  <1> DEFINE Bad == {T \in SUBSET S : ~StagesOf(Stages(ss, o, T), ss, o, T)}
  <1> SUFFICES ASSUME Bad # {} PROVE FALSE
    OBVIOUS
  <1>1. Bad \subseteq SUBSET S
    OBVIOUS
  <1> HIDE DEF Bad
  <1>2. PICK T \in Bad : IsFiniteSet(T) /\ \A U \in SUBSET T : U # T => U \notin Bad
    BY <1>1, SmallestSubset DEF FiniteInts
  <1> USE DEF Bad
  <1>3. ASSUME NEW U \in SUBSET T, U # T
        PROVE  StagesOf(Stages(ss, o, U), ss, o, U)
    BY <1>2, <1>3
  <1>4. ASSUME NEW U \in SUBSET T
        PROVE  FiniteInts(U)
    BY <1>2, FiniteIntsPart
  <1>5. ASSUME NEW U \in SUBSET T, U # T
        PROVE  Ingested(ss, o, U) = IF U = {} THEN ss ELSE Ingest(Ingested(ss, o, Others(U)), o[Max(U)])
    <2>1. FiniteInts(U)
      BY <1>4
    <2>2. \A W \in SUBSET U : StagesOf(Stages(ss, o, W), ss, o, W)
      BY <1>3, <1>5
    <2> QED
      BY <2>1, <2>2, IngestedEquation
  <1> DEFINE stages == [U \in SUBSET T |-> IF U = {} THEN ss ELSE Ingest(Ingested(ss, o, Others(U)), o[Max(U)])]
  <1>6. ASSUME NEW U \in SUBSET T, U # {}
        PROVE  stages[Others(U)] = Ingested(ss, o, Others(U))
    <2>1. FiniteInts(U)
      BY <1>4
    <2>2. Others(U) \in SUBSET U /\ Others(U) # U
      BY <1>6, <2>1, OthersIn
    <2>3. Others(U) \in SUBSET T /\ Others(U) # T
      BY <2>2
    <2> QED
      BY <2>3, <1>5
  <1>7. StagesOf(stages, ss, o, T)
    <2>1. \A U \in SUBSET T : stages[U] = IF U = {} THEN ss ELSE Ingest(stages[Others(U)], o[Max(U)])
      BY <1>6
    <2> QED
      BY <2>1 DEF StagesOf
  <1>8. StagesOf(Stages(ss, o, T), ss, o, T)
    BY <1>7 DEF Stages
  <1> QED
    BY <1>2, <1>8

(* One outcome after another.                                               *)
LEMMA IngestedOneByOne ==
  ASSUME NEW ss, NEW o, NEW n \in Nat
  PROVE  /\ Ingested(ss, o, {}) = ss
         /\ Ingested(ss, o, 1 .. n + 1) = Ingest(Ingested(ss, o, 1 .. n), o[n + 1])
  <1>1. ASSUME NEW S, FiniteInts(S)
        PROVE  Ingested(ss, o, S) = IF S = {} THEN ss ELSE Ingest(Ingested(ss, o, Others(S)), o[Max(S)])
    <2>1. \A T \in SUBSET S : StagesOf(Stages(ss, o, T), ss, o, T)
      <3>1. \A T \in SUBSET S : FiniteInts(T)
        BY <1>1, FiniteIntsPart
      <3> QED
        BY <3>1, StagesExist
    <2> QED
      BY <1>1, <2>1, IngestedEquation
  <1>2. Ingested(ss, o, {}) = ss
    <2>1. FiniteInts({})
      BY FS_EmptySet DEF FiniteInts
    <2> QED
      BY <2>1, <1>1
  <1>3. Ingested(ss, o, 1 .. n + 1) = Ingest(Ingested(ss, o, 1 .. n), o[n + 1])
    <2>1. FiniteInts(1 .. n + 1) /\ 1 .. n + 1 \subseteq Int /\ n + 1 \in 1 .. n + 1
      BY FS_Interval DEF FiniteInts
    <2>2. Max(1 .. n + 1) = n + 1
      <3>1. \A y \in 1 .. n + 1 : y <= n + 1
        OBVIOUS
      <3> QED
        BY <2>1, <3>1, MaxIs
    <2>3. Others(1 .. n + 1) = 1 .. n
      BY <2>2 DEF Others
    <2>4. 1 .. n + 1 # {}
      BY <2>1
    <2> QED
      BY <2>1, <2>2, <2>3, <2>4, <1>1
  <1> QED
    BY <1>2, <1>3

(* The log and the sinks after the first k of the outcomes o.               *)
Longer(g, lg, o, k) ==
  /\ g \in Seq(Entry) /\ Len(g) = Len(lg) + k
  /\ \A i \in 1 .. Len(lg) : g[i] = lg[i]
  /\ \A i \in 1 .. k : g[Len(lg) + i] = o[i]
(* After k outcomes, the sinks are those of the log with them.              *)
HeldAt(k, ss, mm, lg, o) ==
  \E g : /\ Longer(g, lg, o, k)
         /\ SinksHold(native, Ingested(ss, o, 1 .. k), mm, g)
         /\ DOMAIN Ingested(ss, o, 1 .. k) = DOMAIN ss

(* The next outcome of a check() keeps what held after those before it.     *)
LEMMA NextHeld ==
  ASSUME NEW ss, NEW mm, NEW lg \in Seq(Entry), NEW o, NEW k \in Nat, HeldAt(k, ss, mm, lg, o),
         o[k + 1] \in Entry, o[k + 1].metric \in DOMAIN mm, native \in BOOLEAN
  PROVE  HeldAt(k + 1, ss, mm, lg, o)
  <1>1. PICK g : /\ Longer(g, lg, o, k)
                 /\ SinksHold(native, Ingested(ss, o, 1 .. k), mm, g)
                 /\ DOMAIN Ingested(ss, o, 1 .. k) = DOMAIN ss
    BY DEF HeldAt
  <1>2. PICK e \in Entry : e = o[k + 1]
    OBVIOUS
  <1>3. PICK tt : tt = Ingested(ss, o, 1 .. k)
    OBVIOUS
  <1>4. SinksHold(native, tt, mm, g) /\ DOMAIN tt = DOMAIN ss
    BY <1>1, <1>3
  <1>5. mm \in [DOMAIN mm -> Types] /\ <<e.metric, AnyTag>> \in DOMAIN tt /\ e.metric \in DOMAIN mm
    BY <1>2, <1>4 DEF SinksHold
  <1>6. Typed(mm, e.metric) = mm
    BY <1>5 DEF Typed
  <1>7. /\ SinksHold(native, Ingest(tt, e), mm, Append(g, e))
        /\ DOMAIN Ingest(tt, e) = DOMAIN tt \cup {<<e.metric, AnyTag>>}
    BY <1>4, <1>6, IngestHolds
  <1>8. Ingested(ss, o, 1 .. k + 1) = Ingest(tt, e)
    BY <1>2, <1>3, IngestedOneByOne
  <1>9. Longer(Append(g, e), lg, o, k + 1)
    <2>1. g \in Seq(Entry) /\ Len(g) = Len(lg) + k /\ Len(lg) \in Nat
      BY <1>1, LenProperties DEF Longer
    <2>2. /\ Append(g, e) \in Seq(Entry) /\ Len(Append(g, e)) = Len(lg) + k + 1
          /\ \A i \in 1 .. Len(lg) + k : Append(g, e)[i] = g[i]
          /\ Append(g, e)[Len(lg) + k + 1] = e
      BY <2>1, AppendProperties
    <2>3. \A i \in 1 .. Len(lg) : Append(g, e)[i] = lg[i]
      <3>1. \A i \in 1 .. Len(lg) : i \in 1 .. Len(lg) + k
        BY <2>1
      <3> QED
        BY <3>1, <2>2, <1>1 DEF Longer
    <2>4. \A i \in 1 .. k + 1 : Append(g, e)[Len(lg) + i] = o[i]
      <3>1. \A i \in 1 .. k : Len(lg) + i \in 1 .. Len(lg) + k
        BY <2>1
      <3>2. \A i \in 1 .. k : Append(g, e)[Len(lg) + i] = o[i]
        BY <3>1, <2>2, <1>1 DEF Longer
      <3>3. Append(g, e)[Len(lg) + (k + 1)] = o[k + 1]
        BY <2>1, <2>2, <1>2
      <3>4. \A i \in 1 .. k + 1 : i \in 1 .. k \/ i = k + 1
        OBVIOUS
      <3> QED
        BY <3>2, <3>3, <3>4
    <2>5. Len(Append(g, e)) = Len(lg) + (k + 1)
      BY <2>1, <2>2
    <2> QED
      BY <2>2, <2>3, <2>4, <2>5 DEF Longer
  <1>10. DOMAIN Ingest(tt, e) = DOMAIN ss
    BY <1>4, <1>5, <1>7
  <1> QED
    BY <1>7, <1>8, <1>9, <1>10 DEF HeldAt

(* All outcomes of a check() are ingested one after another: the sinks are  *)
(* the sinks of the log with the outcomes at its end.                       *)
LEMMA AllHeld ==
  ASSUME NEW ss, NEW mm, NEW lg, SinksHold(native, ss, mm, lg), NEW o \in Seq(Entry),
         \A i \in 1 .. Len(o) : o[i].metric \in DOMAIN mm, native \in BOOLEAN
  PROVE  /\ SinksHold(native, FoldLeft(Ingest, ss, o), mm, lg \o o)
         /\ DOMAIN FoldLeft(Ingest, ss, o) = DOMAIN ss
  <1> DEFINE n == Len(o)
             Bad == {k \in 0 .. n : ~HeldAt(k, ss, mm, lg, o)}
  <1>1. lg \in Seq(Entry) /\ Len(lg) \in Nat
    BY LenProperties DEF SinksHold
  <1>2. n \in Nat /\ DOMAIN o = 1 .. n /\ \A i \in 1 .. n : o[i] \in Entry
    BY LenProperties, ElementOfSeq
  <1>3. HeldAt(0, ss, mm, lg, o)
    <2>1. Longer(lg, lg, o, 0)
      BY <1>1 DEF Longer
    <2>2. 1 .. 0 = {}
      OBVIOUS
    <2>3. Ingested(ss, o, {}) = ss
      <3>1. 0 \in Nat
        OBVIOUS
      <3> QED
        BY <3>1, IngestedOneByOne
    <2>4. Ingested(ss, o, 1 .. 0) = ss
      BY <2>2, <2>3
    <2> QED
      BY <2>1, <2>4 DEF HeldAt
  <1>4. HeldAt(n, ss, mm, lg, o)
    <2> SUFFICES ASSUME ~HeldAt(n, ss, mm, lg, o) PROVE FALSE
      OBVIOUS
    <2>1. Bad # {} /\ Bad \subseteq 0 .. n
      BY <1>2
    <2>2. IsFiniteSet(Bad) /\ Bad \subseteq Int
      <3>1. 0 \in Int /\ n \in Int
        BY <1>2
      <3>2. IsFiniteSet(0 .. n)
        <4> HIDE DEF n
        <4> QED
          BY <3>1, FS_Interval
      <3> QED
        BY <2>1, <3>2, FS_Subset
    <2>3. Min(Bad) \in Bad /\ \A k \in Bad : Min(Bad) <= k
      BY <2>1, <2>2, LeastOfFinite
    <2>4. PICK k \in 0 .. n : k \in Bad /\ \A j \in Bad : k <= j
      BY <2>1, <2>3
    <2>5. k # 0
      BY <1>3, <2>4
    <2>6. k - 1 \in 0 .. n /\ k - 1 \in Nat /\ k \in 1 .. n /\ ~(k <= k - 1) /\ (k - 1) + 1 = k
      BY <1>2, <2>5
    <2>7. PICK j \in Nat : j = k - 1
      BY <2>6
    <2>8. HeldAt(j, ss, mm, lg, o)
      BY <2>4, <2>6, <2>7
    <2>9. j + 1 = k
      BY <2>6, <2>7
    <2>10. o[j + 1] \in Entry /\ o[j + 1].metric \in DOMAIN mm
      BY <1>2, <2>6, <2>9
    <2>11. HeldAt(j + 1, ss, mm, lg, o)
      BY <1>1, <2>8, <2>10, NextHeld
    <2> QED
      BY <2>4, <2>9, <2>11
  <1>5. PICK g : /\ Longer(g, lg, o, n)
                 /\ SinksHold(native, Ingested(ss, o, 1 .. n), mm, g)
                 /\ DOMAIN Ingested(ss, o, 1 .. n) = DOMAIN ss
    BY <1>4 DEF HeldAt
  <1>6. g = lg \o o
    <2>1. /\ lg \o o \in Seq(Entry) /\ Len(lg \o o) = Len(lg) + n
          /\ \A i \in 1 .. Len(lg) + n : (lg \o o)[i] = IF i <= Len(lg) THEN lg[i] ELSE o[i - Len(lg)]
      BY <1>1, ConcatProperties
    <2>2. g \in Seq(Entry) /\ Len(g) = Len(lg) + n
      BY <1>5 DEF Longer
    <2>3. ASSUME NEW i \in 1 .. Len(lg) + n
          PROVE  g[i] = (lg \o o)[i]
      <3>1. CASE i <= Len(lg)
        <4>1. i \in 1 .. Len(lg)
          BY <3>1, <1>1
        <4>2. g[i] = lg[i]
          BY <4>1, <1>5 DEF Longer
        <4> QED
          BY <4>2, <3>1, <2>1
      <3>2. CASE ~(i <= Len(lg))
        <4>1. i - Len(lg) \in 1 .. n /\ Len(lg) + (i - Len(lg)) = i
          BY <3>2, <1>1, <1>2
        <4>2. g[Len(lg) + (i - Len(lg))] = o[i - Len(lg)]
          BY <4>1, <1>5 DEF Longer
        <4> QED
          BY <4>1, <4>2, <3>2, <2>1
      <3> QED
        BY <3>1, <3>2
    <2> QED
      BY <2>1, <2>2, <2>3, SeqEqual
  <1>7. FoldLeft(Ingest, ss, o) = Ingested(ss, o, 1 .. n)
    BY <1>2, FoldIsIngested
  <1> QED
    BY <1>5, <1>6, <1>7

-----------------------------------------------------------------------------
(* The steps.                                                               *)

(* The aggregations shown do not depend on whether the list is sorted.      *)
LEMMA KeysShown ==
  ASSUME NEW sink, NEW type \in Types, NEW nat \in BOOLEAN, NEW v, NEW I, Represents(sink, type, nat, v, I), NEW d
  PROVE  DOMAIN Format(sink, d) = Keys(type)
  <1>1. CASE type = "counter"
    <2>1. sink.type = "counter"
      BY <1>1 DEF Represents, IsCounter
    <2> QED
      BY <2>1, <1>1 DEF Format, Keys
  <1>2. CASE type = "gauge"
    <2>1. sink.type = "gauge"
      BY <1>2 DEF Represents, IsGauge
    <2> QED
      BY <2>1, <1>2 DEF Format, Keys
  <1>3. CASE type = "rate"
    <2>1. sink.type = "rate"
      BY <1>3 DEF Represents, IsRate
    <2> QED
      BY <2>1, <1>3 DEF Format, Keys
  <1>4. CASE type = "trend"
    <2>1. sink.type \in {"trend", "hdr"}
      <3>1. IsList(sink, v, I) \/ IsHistogram(sink, v, I)
        BY <1>4 DEF Represents
      <3>2. IsList(sink, v, I) => sink.type = "trend"
        BY DEF IsList
      <3>3. IsHistogram(sink, v, I) => sink.type = "hdr"
        BY DEF IsHistogram
      <3> QED
        BY <3>1, <3>2, <3>3
    <2>2. Keys(type) = TrendKeys
      BY <1>4 DEF Keys
    <2>3. CASE sink.type = "trend"
      <3>1. Format(sink, d) = FormatList(sink.values)
        BY <2>3 DEF Format
      <3> QED
        BY <3>1, <2>2 DEF FormatList
    <2>4. CASE sink.type = "hdr"
      <3>1. Format(sink, d) = FormatHistogram(sink)
        BY <2>4 DEF Format
      <3> QED
        BY <3>1, <2>2 DEF FormatHistogram
    <2> QED
      BY <2>1, <2>3, <2>4
  <1> QED
    BY <1>1, <1>2, <1>3, <1>4 DEF Types

-----------------------------------------------------------------------------
(* The inductive invariant: every sink is the sink of its samples, and the  *)
(* verdicts are about samples that are in the log.                          *)
SinksInv ==
  /\ native \in BOOLEAN
  /\ SinksHold(native, sinks, metrics, log)
  /\ DOMAIN Builtin \subseteq DOMAIN metrics
  /\ judged.upto \in Nat /\ judged.upto <= Len(log) /\ judged.lasted \in Nat
  /\ DOMAIN results \subseteq DOMAIN Thresholds

(* The registered metrics and the sub-sinks of the thresholds start without *)
(* a sample.                                                                *)
LEMMA SinksInvInit ==
  SinksInit => SinksInv
  <1> SUFFICES ASSUME SinksInit PROVE SinksInv
    OBVIOUS
  <1>1. native \in BOOLEAN /\ metrics = Builtin /\ log = <<>> /\ results = <<>> /\ judged = [upto |-> 0, lasted |-> 0]
    BY DEF SinksInit
  <1>2. log \in Seq(Entry) /\ Len(log) = 0
    BY <1>1, EmptySeq
  <1>3. metrics \in [DOMAIN metrics -> Types]
    BY <1>1, SinksAssumption
  <1>4. sinks = [key \in ((DOMAIN Builtin) \X {AnyTag}) \cup SubSinks |-> CreateSink(Builtin[key[1]])]
    BY DEF SinksInit
  <1>5. \A key \in DOMAIN sinks : key[1] \in DOMAIN Builtin /\ sinks[key] = CreateSink(Builtin[key[1]])
    BY <1>4 DEF SubSinks
  <1>6. \A m \in DOMAIN metrics : <<m, AnyTag>> \in DOMAIN sinks
    BY <1>1, <1>4
  <1>7. ASSUME NEW key \in DOMAIN sinks
        PROVE  key[1] \in DOMAIN metrics /\ Holds(sinks[key], metrics[key[1]], native, log, key)
    <2>1. FedOf(log, key, Len(log)) = {}
      BY <1>2 DEF FedOf
    <2>2. PICK type \in Types : type = Builtin[key[1]]
      BY <1>5, SinksAssumption
    <2>3. Represents(CreateSink(type), type, native, ValuesOf(log, {}), {})
      BY <1>1, NewSink
    <2>4. Represents(sinks[key], metrics[key[1]], native, ValuesOf(log, {}), {})
      BY <1>1, <1>5, <2>2, <2>3
    <2> QED
      BY <1>1, <1>5, <2>1, <2>4 DEF Holds
  <1>8. \A i \in 1 .. Len(log) : <<log[i].metric, AnyTag>> \in DOMAIN sinks
    BY <1>2
  <1>9. SinksHold(native, sinks, metrics, log)
    BY <1>2, <1>3, <1>6, <1>7, <1>8 DEF SinksHold
  <1> QED
    BY <1>1, <1>2, <1>9 DEF SinksInv

(* A snapshot or an evaluation sorts some of the lists.                     *)
LEMMA SortedStillHold ==
  ASSUME NEW ss, NEW tt, NEW mm, NEW lg, SinksHold(native, ss, mm, lg), native \in BOOLEAN,
         DOMAIN tt = DOMAIN ss, \A key \in DOMAIN ss : tt[key] \in {ss[key], EnsureSorted(ss[key])}
  PROVE  SinksHold(native, tt, mm, lg)
  <1>1. /\ lg \in Seq(Entry) /\ mm \in [DOMAIN mm -> Types]
        /\ \A m \in DOMAIN mm : <<m, AnyTag>> \in DOMAIN ss
        /\ \A i \in 1 .. Len(lg) : <<lg[i].metric, AnyTag>> \in DOMAIN ss
        /\ \A key \in DOMAIN ss : key[1] \in DOMAIN mm /\ Holds(ss[key], mm[key[1]], native, lg, key)
    BY DEF SinksHold
  <1>2. ASSUME NEW key \in DOMAIN ss
        PROVE  Holds(tt[key], mm[key[1]], native, lg, key)
    <2>1. PICK type \in Types : type = mm[key[1]]
      BY <1>1
    <2>2. PICK I : I = FedOf(lg, key, Len(lg))
      OBVIOUS
    <2>3. Represents(ss[key], type, native, ValuesOf(lg, I), I)
      BY <1>1, <2>1, <2>2 DEF Holds
    <2>4. Represents(EnsureSorted(ss[key]), type, native, ValuesOf(lg, I), I)
      BY <2>3, SinkSorts
    <2>5. Represents(tt[key], type, native, ValuesOf(lg, I), I)
      BY <2>3, <2>4
    <2> QED
      BY <2>1, <2>2, <2>5 DEF Holds
  <1>3. \A key \in DOMAIN tt : key[1] \in DOMAIN mm /\ Holds(tt[key], mm[key[1]], native, lg, key)
    BY <1>1, <1>2
  <1> QED
    BY <1>1, <1>3 DEF SinksHold

(* The samples of a check() are samples of the built-in metric checks.      *)
LEMMA OutcomesAre ==
  ASSUME NEW verdicts \in Checked
  PROVE  /\ Outcomes(verdicts) \in Seq(Entry)
         /\ \A i \in 1 .. Len(Outcomes(verdicts)) : Outcomes(verdicts)[i].metric = "checks"
  <1>1. PICK n \in Nat : DOMAIN verdicts = 1 .. n
    BY SinksAssumption
  <1> DEFINE o == Outcomes(verdicts)
  <1>2. DOMAIN o = 1 .. n /\ o = [i \in 1 .. n |-> o[i]]
    BY <1>1 DEF Outcomes
  <1>3. \A i \in 1 .. n : o[i] \in Entry
    BY <1>1 DEF Entry
  <1>4. \A i \in 1 .. n : o[i].metric = "checks"
    BY <1>1 DEF Outcomes
  <1> HIDE DEF o
  <1>5. o \in [1 .. n -> Entry]
    BY <1>2, <1>3
  <1>6. o \in Seq(Entry)
    BY <1>5, SeqDef
  <1>7. DOMAIN o = 1 .. Len(o)
    BY <1>6, LenProperties
  <1> QED
    BY <1>2, <1>4, <1>6, <1>7 DEF o

(* What a step does to the history the verdicts are about.                  *)
Grows ==
  /\ native' = native /\ judged' = judged /\ results' = results
  /\ \A i \in 1 .. Len(log) : log'[i] = log[i]
  /\ \A m \in DOMAIN metrics : m \in DOMAIN metrics' /\ metrics'[m] = metrics[m]
  /\ \A key \in DOMAIN sinks' : key \in DOMAIN sinks \/ \A i \in 1 .. Len(log) : log[i].metric # key[1]

(* A sample is recorded (Worker.counter(), gauge(), trend()).               *)
LEMMA RecordStep ==
  ASSUME SinksInv, NEW s \in Sample, Record(s)
  PROVE  SinksInv' /\ Grows
  <1>1. /\ log' = Append(log, s) /\ sinks' = Ingest(sinks, s)
        /\ metrics' = Typed(metrics, s.metric)
        /\ native' = native /\ results' = results /\ judged' = judged
    BY DEF Record, Registered, Typed
  <1>2. s \in Entry
    BY DEF Entry
  <1>3. native \in BOOLEAN /\ SinksHold(native, sinks, metrics, log)
    BY DEF SinksInv
  <1>4. /\ SinksHold(native, Ingest(sinks, s), Typed(metrics, s.metric), Append(log, s))
        /\ DOMAIN Ingest(sinks, s) = DOMAIN sinks \cup {<<s.metric, AnyTag>>}
    BY <1>2, <1>3, IngestHolds
  <1>5. SinksHold(native', sinks', metrics', log')
    BY <1>1, <1>4
  <1>6. log \in Seq(Entry) /\ \A i \in 1 .. Len(log) : <<log[i].metric, AnyTag>> \in DOMAIN sinks
    BY <1>3 DEF SinksHold
  <1>7. Len(log) \in Nat /\ Len(log') = Len(log) + 1 /\ \A i \in 1 .. Len(log) : log'[i] = log[i]
    BY <1>1, <1>2, <1>6, AppendProperties, LenProperties
  <1>8. \A m \in DOMAIN metrics : m \in DOMAIN metrics' /\ metrics'[m] = metrics[m]
    BY <1>1 DEF Typed
  <1>9. \A key \in DOMAIN sinks' : key \in DOMAIN sinks \/ \A i \in 1 .. Len(log) : log[i].metric # key[1]
    <2>1. ASSUME NEW key \in DOMAIN sinks', key \notin DOMAIN sinks, NEW i \in 1 .. Len(log), log[i].metric = key[1]
          PROVE  FALSE
      <3>1. key = <<s.metric, AnyTag>>
        BY <1>1, <1>4, <2>1
      <3>2. <<log[i].metric, AnyTag>> = key
        BY <2>1, <3>1
      <3> QED
        BY <3>2, <1>6, <2>1
    <2> QED
      BY <2>1
  <1>10. Grows
    BY <1>1, <1>7, <1>8, <1>9 DEF Grows
  <1> HIDE DEF Grows
  <1>11. SinksInv'
    <2>1. native' \in BOOLEAN
      BY <1>1, <1>3
    <2>2. DOMAIN Builtin \subseteq DOMAIN metrics'
      BY <1>8 DEF SinksInv
    <2>3. judged'.upto \in Nat /\ judged'.upto <= Len(log') /\ judged'.lasted \in Nat
      BY <1>1, <1>7 DEF SinksInv
    <2>4. DOMAIN results' \subseteq DOMAIN Thresholds
      BY <1>1 DEF SinksInv
    <2> QED
      BY <1>5, <2>1, <2>2, <2>3, <2>4 DEF SinksInv
  <1> QED
    BY <1>10, <1>11

(* The outcomes of a check() are recorded (Worker.check()).                 *)
LEMMA CheckStep ==
  ASSUME SinksInv, NEW verdicts \in Checked, Check(verdicts)
  PROVE  SinksInv' /\ Grows
  <1> DEFINE o == Outcomes(verdicts)
  <1>1. /\ log' = log \o o /\ sinks' = FoldLeft(Ingest, sinks, o)
        /\ metrics' = metrics /\ native' = native /\ results' = results /\ judged' = judged
    BY DEF Check
  <1>2. o \in Seq(Entry) /\ \A i \in 1 .. Len(o) : o[i].metric = "checks"
    BY OutcomesAre
  <1> HIDE DEF o
  <1>3. native \in BOOLEAN /\ SinksHold(native, sinks, metrics, log) /\ "checks" \in DOMAIN metrics
    BY SinksAssumption DEF SinksInv
  <1>4. \A i \in 1 .. Len(o) : o[i].metric \in DOMAIN metrics
    BY <1>2, <1>3
  <1>5. /\ SinksHold(native, FoldLeft(Ingest, sinks, o), metrics, log \o o)
        /\ DOMAIN FoldLeft(Ingest, sinks, o) = DOMAIN sinks
    BY <1>2, <1>3, <1>4, AllHeld
  <1>6. log \in Seq(Entry)
    BY <1>3 DEF SinksHold
  <1>7. Len(log) \in Nat /\ Len(o) \in Nat
    BY <1>2, <1>6, LenProperties
  <1>8. Len(log') = Len(log) + Len(o) /\ \A i \in 1 .. Len(log) : log'[i] = log[i]
    <2>1. /\ Len(log \o o) = Len(log) + Len(o)
          /\ \A i \in 1 .. Len(log) + Len(o) : (log \o o)[i] = IF i <= Len(log) THEN log[i] ELSE o[i - Len(log)]
      BY <1>2, <1>6, ConcatProperties
    <2>2. \A i \in 1 .. Len(log) : i \in 1 .. Len(log) + Len(o) /\ i <= Len(log)
      BY <1>7
    <2> QED
      BY <1>1, <2>1, <2>2
  <1>9. DOMAIN sinks' = DOMAIN sinks
    BY <1>1, <1>5
  <1>10. Grows
    BY <1>1, <1>8, <1>9 DEF Grows
  <1>11. SinksHold(native, sinks', metrics', log')
    BY <1>1, <1>5
  <1>12. SinksInv'
    <2>1. judged'.upto \in Nat /\ judged'.upto <= Len(log') /\ judged'.lasted \in Nat
      BY <1>1, <1>7, <1>8 DEF SinksInv
    <2> QED
      BY <1>1, <1>11, <2>1 DEF SinksInv
  <1> QED
    BY <1>10, <1>12

(* A snapshot reads every base sink (_emit_snapshot()).                     *)
LEMMA SnapshotStep ==
  ASSUME SinksInv, Snapshot
  PROVE  SinksInv' /\ Grows /\ DOMAIN sinks' = DOMAIN sinks
  <1>1. /\ sinks' = [key \in DOMAIN sinks |-> IF key[2] = AnyTag THEN EnsureSorted(sinks[key]) ELSE sinks[key]]
        /\ native' = native /\ metrics' = metrics /\ results' = results /\ log' = log /\ judged' = judged
    BY DEF Snapshot
  <1>2. native \in BOOLEAN /\ SinksHold(native, sinks, metrics, log)
    BY DEF SinksInv
  <1>3. DOMAIN sinks' = DOMAIN sinks /\ \A key \in DOMAIN sinks : sinks'[key] \in {sinks[key], EnsureSorted(sinks[key])}
    BY <1>1
  <1>4. SinksHold(native, sinks', metrics, log)
    BY <1>2, <1>3, SortedStillHold
  <1>5. SinksHold(native, sinks', metrics', log')
    BY <1>1, <1>4
  <1> QED
    BY <1>1, <1>3, <1>5 DEF SinksInv, Grows

(* The thresholds are judged (evaluate_thresholds()).                       *)
LEMMA EvaluateStep ==
  ASSUME SinksInv, NEW d \in Durations, Evaluate(d)
  PROVE  SinksInv' /\ DOMAIN sinks' = DOMAIN sinks
  <1>1. /\ DOMAIN sinks' = DOMAIN sinks
        /\ \A key \in DOMAIN sinks : sinks'[key] \in {sinks[key], EnsureSorted(sinks[key])}
    BY DEF Evaluate
  <1>2. /\ native' = native /\ metrics' = metrics /\ log' = log
        /\ judged' = [upto |-> Len(log), lasted |-> d]
        /\ DOMAIN results' = DOMAIN Thresholds
    BY DEF Evaluate
  <1>3. native \in BOOLEAN /\ SinksHold(native, sinks, metrics, log)
    BY DEF SinksInv
  <1>4. SinksHold(native, sinks', metrics, log)
    BY <1>1, <1>3, SortedStillHold
  <1>5. SinksHold(native, sinks', metrics', log')
    BY <1>2, <1>4
  <1>6. Len(log) \in Nat /\ d \in Nat
    BY <1>3, LenProperties, SinksAssumption DEF SinksHold
  <1>7. judged'.upto = Len(log') /\ judged'.lasted = d
    BY <1>2
  <1> QED
    BY <1>1, <1>2, <1>5, <1>6, <1>7 DEF SinksInv

(* In a state of the invariant, every sink shows the statistics of the      *)
(* samples of the log that it was given.                                    *)
LEMMA FedHolds ==
  ASSUME SinksInv, NEW key \in DOMAIN sinks, NEW d \in Durations
  PROVE  /\ key[1] \in DOMAIN metrics /\ metrics[key[1]] \in Types
         /\ Shows(Format(EnsureSorted(sinks[key]), d), metrics[key[1]], Fed(key, Len(log)), d)
         /\ DOMAIN Format(sinks[key], 0) = Keys(metrics[key[1]])
  <1>1. native \in BOOLEAN /\ SinksHold(native, sinks, metrics, log)
    BY DEF SinksInv
  <1>2. /\ log \in Seq(Entry) /\ metrics \in [DOMAIN metrics -> Types]
        /\ key[1] \in DOMAIN metrics /\ Holds(sinks[key], metrics[key[1]], native, log, key)
    BY <1>1 DEF SinksHold
  <1>3. PICK type \in Types : type = metrics[key[1]]
    BY <1>2
  <1>4. PICK I : I = FedOf(log, key, Len(log))
    OBVIOUS
  <1>5. PICK v : v = ValuesOf(log, I)
    OBVIOUS
  <1>6. Represents(sinks[key], type, native, v, I)
    BY <1>2, <1>3, <1>4, <1>5 DEF Holds
  <1>7. Values(v, I) /\ I \subseteq 1 .. Len(log) /\ Len(log) \in Nat
    BY <1>2, <1>4, <1>5, FedIs
  <1>8. Logged(v, I)
    BY <1>5, <1>7 DEF Logged, ValuesOf
  <1>9. \A i \in I : -Inf < v[i] /\ v[i] < Inf
    <2>1. \A i \in I : log[i] \in Entry
      BY <1>2, <1>7, ElementOfSeq
    <2>2. \A i \in I : v[i] = log[i].value
      BY <1>5 DEF ValuesOf
    <2> QED
      BY <2>1, <2>2, EntryIs
  <1>10. Inf \in Nat /\ d \in Nat
    BY SinksAssumption
  <1>11. Shows(Format(EnsureSorted(sinks[key]), d), type, I, d)
    BY <1>1, <1>6, <1>8, <1>9, <1>10, SinkShows
  <1>12. DOMAIN Format(sinks[key], 0) = Keys(type)
    BY <1>1, <1>6, KeysShown
  <1>13. Fed(key, Len(log)) = I
    BY <1>4 DEF Fed, FedOf
  <1> QED
    BY <1>2, <1>3, <1>11, <1>12, <1>13

(* The inductive invariant is strong enough: whatever the order of samples, *)
(* snapshots and evaluations was, format() shows the statistics of the      *)
(* samples recorded (StatisticsFollowSamples).                                      *)
THEOREM SinksInvStatistics ==
  SinksInv => StatisticsFollowSamples
  <1> SUFFICES ASSUME SinksInv, NEW key \in DOMAIN sinks, NEW d \in Durations,
                      NEW agg \in DOMAIN Format(EnsureSorted(sinks[key]), d)
               PROVE  LET stats == Format(EnsureSorted(sinks[key]), d)
                          I == Fed(key, Len(log))
                      IN  CASE I = {} -> stats[agg][1] = 0
                            [] I # {} /\ agg \in DOMAIN Percentiles -> Splits(stats[agg], I, Percentiles[agg])
                            [] I # {} /\ agg \notin DOMAIN Percentiles ->
                                 Same(stats[agg], Statistic(agg, metrics[key[1]], I, d))
    BY DEF StatisticsFollowSamples
  <1> DEFINE stats == Format(EnsureSorted(sinks[key]), d)
             I == Fed(key, Len(log))
             type == metrics[key[1]]
  <1>1. Shows(stats, type, I, d)
    BY FedHolds
  <1>2. agg \in Keys(type)
    BY <1>1 DEF Shows
  <1> HIDE DEF stats, I, type
  <1>3. CASE I = {}
    <2>1. stats[agg][1] = 0
      BY <1>1, <1>2, <1>3 DEF Shows
    <2> QED
      BY <1>3, <2>1 DEF stats, I
  <1>4. CASE I # {} /\ agg \in DOMAIN Percentiles
    <2>1. Splits(stats[agg], I, Percentiles[agg])
      BY <1>1, <1>2, <1>4 DEF Shows
    <2> QED
      BY <1>4, <2>1 DEF stats, I
  <1>5. CASE I # {} /\ agg \notin DOMAIN Percentiles
    <2>1. stats[agg] = Statistic(agg, type, I, d)
      BY <1>1, <1>2, <1>5 DEF Shows
    <2>2. Same(stats[agg], Statistic(agg, type, I, d))
      BY <2>1 DEF Same
    <2> QED
      BY <1>5, <2>2 DEF stats, I, type
  <1> QED
    BY <1>3, <1>4, <1>5

-----------------------------------------------------------------------------
(* What a bucket of the width of k needs.                                   *)
LEMMA WidthReaches ==
  ASSUME NEW k \in Nat
  PROVE  /\ Width(k) \in Widths /\ (Width(k) = 1 \/ Half * Width(k) <= k)
         /\ \A w \in Widths : Half * w <= k => w <= Width(k)
  <1> DEFINE Begun == {w \in Widths : w = 1 \/ Half * w <= k}
  <1>1. IsFiniteSet(Widths) /\ Widths \subseteq Nat \ {0} /\ 1 \in Widths
    BY SinksAssumption
  <1>2. Begun \in SUBSET Widths /\ 1 \in Begun
    BY <1>1
  <1>3. Width(k) = Max(Begun)
    BY DEF Width
  <1> HIDE DEF Begun
  <1>4. IsFiniteSet(Begun) /\ Begun # {}
    BY <1>1, <1>2, FS_Subset
  <1>5. Begun \subseteq Int
    BY <1>1, <1>2
  <1>6. Width(k) \in Begun /\ \A w \in Begun : w <= Width(k)
    BY <1>3, <1>4, <1>5, GreatestOfFinite
  <1> QED
    BY <1>6 DEF Begun

(* Buckets of one width begin at its multiples.                             *)
LEMMA MultipleBelow ==
  ASSUME NEW k \in Nat, NEW w \in Nat, w > 0, NEW h \in Nat, h * w <= k
  PROVE  h * w <= k - (k % w)
  <1>1. PICK q \in Nat, r \in Nat : k = w * q + r /\ r = k % w /\ r < w
    <2>1. k = w * (k \div w) + (k % w) /\ k \div w \in Nat /\ k % w \in Nat /\ k % w < w
      OBVIOUS
    <2> QED
      BY <2>1
  <1>2. h <= q
    <2> SUFFICES ASSUME ~(h <= q) PROVE FALSE
      OBVIOUS
    <2>1. PICK d \in Nat : h = q + 1 + d
      <3>1. h - q - 1 \in Nat /\ h = q + 1 + (h - q - 1)
        OBVIOUS
      <3> QED
        BY <3>1
    <2>2. h * w = w * q + w + d * w /\ d * w \in Nat /\ w * q \in Nat
      BY <2>1
    <2> QED
      BY <1>1, <2>2
  <1>3. h * w <= w * q
    <2>1. PICK d \in Nat : q = h + d
      <3>1. q - h \in Nat /\ q = h + (q - h)
        BY <1>2
      <3> QED
        BY <3>1
    <2>2. w * q = h * w + d * w /\ d * w \in Nat /\ h * w \in Nat
      BY <2>1
    <2> QED
      BY <2>2
  <1>4. k - (k % w) = w * q
    <2>1. w * q \in Nat
      OBVIOUS
    <2> QED
      BY <1>1, <2>1
  <1> QED
    BY <1>3, <1>4

(* Of two values the greater is in no lower bucket.                         *)
LEMMA LowestRises ==
  ASSUME NEW j \in Nat, NEW k \in Nat, j <= k
  PROVE  Lowest(j) \in Nat /\ Lowest(k) \in Nat /\ Lowest(j) <= Lowest(k)
  <1>1. PICK u \in Nat, w \in Nat : u = Width(j) /\ w = Width(k) /\ u > 0 /\ w > 0 /\ u <= w
    BY WidthIs
  <1>2. Lowest(j) = j - (j % u) /\ Lowest(k) = k - (k % w)
    BY <1>1 DEF Lowest
  <1>3. j % u \in Nat /\ j % u <= j /\ k % w \in Nat /\ k % w <= k
    BY <1>1
  <1>4. Lowest(j) \in Nat /\ Lowest(k) \in Nat /\ Lowest(j) <= j
    BY <1>2, <1>3
  <1>5. CASE u = w
    <2>1. PICK q \in Nat : Lowest(j) = q * w /\ q * w \in Nat
      <3>1. j = u * (j \div u) + (j % u) /\ j \div u \in Nat
        BY <1>1
      <3>2. PICK q \in Nat : q = j \div u
        BY <3>1
      <3>3. u * q \in Nat /\ u * q = q * u
        OBVIOUS
      <3>4. j = u * q + (j % u)
        BY <3>1, <3>2
      <3>5. PICK a \in Nat : a = u * q
        BY <3>3
      <3>6. Lowest(j) = a
        BY <3>4, <3>5, <1>2, <1>3
      <3> QED
        BY <3>3, <3>5, <3>6, <1>5
    <2>2. q * w <= k
      BY <2>1, <1>4
    <2> QED
      BY <2>1, <2>2, <1>1, <1>2, <1>4, MultipleBelow
  <1>6. CASE u # w
    <2>0. w # 1
      BY <1>1, <1>6
    <2>1. w \in Widths /\ Half * w <= k /\ Half \in Nat
      <3>1. w \in Widths /\ (w = 1 \/ Half * w <= k)
        BY <1>1, WidthReaches
      <3> QED
        BY <3>1, <2>0, SinksAssumption
    <2>2. ~(Half * w <= j)
      BY <2>1, <1>1, <1>6, WidthReaches
    <2>3. Half * w <= Lowest(k)
      BY <2>1, <1>1, <1>2, MultipleBelow
    <2>4. PICK x \in Nat : x = Half * w
      BY <2>1
    <2> QED
      BY <2>2, <2>3, <2>4, <1>4
  <1> QED
    BY <1>5, <1>6

(* A whole number within 0.1% of another.                                   *)
Close(x, y) == 1000 * (x - y) <= y /\ 1000 * (y - x) <= y

(* No value of a bucket is further than 0.1% from what the bucket stands    *)
(* for: the buckets of width w begin at Half * w.                           *)
LEMMA BucketNear ==
  ASSUME NEW k \in Nat
  PROVE  /\ Lowest(k) \in Nat /\ Middle(Lowest(k)) \in Nat /\ Highest(Lowest(k)) \in Nat
         /\ Close(Lowest(k), k) /\ Close(Middle(Lowest(k)), k) /\ Close(Highest(Lowest(k)), k)
  <1>1. PICK w \in Nat : w = Width(k) /\ w > 0
    BY WidthIs
  <1>2. PICK b \in Nat : b = Lowest(k)
    BY LowestRises
  <1>3. b = k - (k % w) /\ k % w \in 0 .. w - 1
    BY <1>1, <1>2 DEF Lowest
  <1>4. w = 1 \/ Half * w <= k
    BY <1>1, WidthReaches
  <1>5. Half \in Nat /\ 1000 <= Half /\ w \in Widths
    BY <1>1, WidthReaches, SinksAssumption
  <1>6. Width(b) = w
    <2>1. PICK u \in Nat : u = Width(b) /\ u > 0 /\ u <= w
      <3>1. b <= k
        BY <1>3
      <3> QED
        BY <3>1, <1>1, WidthIs
    <2>2. CASE w = 1
      BY <2>1, <2>2
    <2>3. CASE w # 1
      <3>1. Half * w <= k
        BY <1>4, <2>3
      <3>2. Half * w <= b
        BY <3>1, <1>1, <1>3, <1>5, MultipleBelow, Zenon
      <3>3. w <= u
        BY <3>2, <2>1, <1>5, WidthReaches
      <3> QED
        BY <3>3, <2>1
    <2> QED
      BY <2>2, <2>3
  <1>7. PICK m \in Nat, h \in Nat : m = Middle(b) /\ h = Highest(b)
    BY HighestIs
  <1>8. h = b + w - 1
    BY <1>6, <1>7 DEF Highest
  <1>9. b <= m /\ m <= h
    <2>1. m = b + (w \div 2)
      BY <1>6, <1>7 DEF Middle
    <2>2. w \div 2 \in Nat /\ w \div 2 <= w - 1
      BY <1>1
    <2> QED
      BY <2>1, <2>2, <1>8
  <1>10. 1000 * (w - 1) <= k
    <2>1. CASE w = 1
      BY <2>1
    <2>2. CASE w # 1
      <3>1. Half * w <= k
        BY <1>4, <2>2
      <3>2. PICK d \in Nat : Half = 1000 + d
        <4>1. Half - 1000 \in Nat /\ Half = 1000 + (Half - 1000)
          BY <1>5
        <4> QED
          BY <4>1
      <3>3. Half * w = 1000 * w + d * w /\ d * w \in Nat
        BY <3>2
      <3> QED
        BY <3>1, <3>3
    <2> QED
      BY <2>1, <2>2
  <1>11. ASSUME NEW x \in {b, m, h}
         PROVE  Close(x, k)
    <2>1. x \in Nat /\ b <= x /\ x <= h
      BY <1>8, <1>9, <1>1
    <2>2. b <= k /\ k <= h
      BY <1>3, <1>8
    <2>3. x - k <= w - 1 /\ k - x <= w - 1
      BY <2>1, <2>2, <1>8
    <2> QED
      BY <2>1, <2>3, <1>10 DEF Close
  <1>12. Close(b, k) /\ Close(m, k) /\ Close(h, k)
    BY <1>11
  <1> QED
    BY <1>2, <1>7, <1>12

(* Of some samples one has rank W: as many values are up to its own, and    *)
(* fewer are below.                                                         *)
LEMMA RankExists ==
  ASSUME NEW I, IsFiniteSet(I), NEW f, IntOn(f, I), NEW W \in 1 .. Cardinality(I)
  PROVE  \E i \in I : /\ Cardinality(UpToIn(f, I, f[i])) >= W
                      /\ Cardinality({j \in I : f[j] < f[i]}) < W
  <1> DEFINE A == Image(f, I)
             S == {k \in A : Cardinality(UpToIn(f, I, k)) >= W}
  <1>1. IsFiniteSet(A) /\ A \subseteq Int /\ \A i \in I : f[i] \in A
    <2>1. IsFiniteSet(A)
      BY ImageFinite
    <2> QED
      BY <2>1 DEF Image, IntOn
  <1>2. \A k \in A : \E i \in I : k = f[i]
    BY DEF Image
  <1>3. Cardinality(I) \in Nat /\ W \in Nat /\ W > 0 /\ W <= Cardinality(I)
    BY FS_CardinalityType
  <1>4. A # {}
    <2>1. I # {}
      <3>1. I = {} => Cardinality(I) = 0
        BY FS_EmptySet
      <3> QED
        BY <3>1, <1>3
    <2> QED
      BY <2>1, <1>1
  <1> HIDE DEF A
  <1>5. Max(A) \in S
    <2>1. Max(A) \in A /\ \A y \in A : y <= Max(A)
      BY <1>1, <1>4, GreatestOfFinite
    <2>2. UpToIn(f, I, Max(A)) = I
      BY <2>1, <1>1 DEF UpToIn
    <2> QED
      BY <2>1, <2>2, <1>3
  <1>6. IsFiniteSet(S) /\ S \subseteq Int /\ S # {}
    <2>1. S \in SUBSET A
      OBVIOUS
    <2> HIDE DEF S
    <2> QED
      BY <2>1, <1>1, <1>5, FS_Subset
  <1>7. Min(S) \in S /\ \A y \in S : Min(S) <= y
    BY <1>6, LeastOfFinite
  <1>8. PICK i \in I : f[i] = Min(S)
    BY <1>2, <1>7
  <1>9. Cardinality(UpToIn(f, I, f[i])) >= W
    BY <1>7, <1>8
  <1>10. \A x \in A : x < f[i] => ~(Cardinality(UpToIn(f, I, x)) >= W)
    <2>1. ASSUME NEW x \in A, x < f[i] PROVE x \notin S
      <3>1. x \in Int /\ f[i] \in Int
        BY <1>1
      <3>2. ~(f[i] <= x)
        BY <3>1, <2>1
      <3> QED
        BY <3>2, <1>7, <1>8
    <2> QED
      BY <2>1
  <1> DEFINE L == {j \in I : f[j] < f[i]}
  <1> HIDE DEF S
  <1>11. Cardinality(L) < W
    <2>1. CASE L = {}
      BY <2>1, <1>3, FS_EmptySet
    <2>2. CASE L # {}
      <3> DEFINE B == {x \in A : x < f[i]}
      <3>1. IsFiniteSet(B) /\ B \subseteq Int
        BY <1>1, FS_Subset
      <3>2. B # {}
        BY <2>2, <1>1
      <3>3. Max(B) \in B /\ \A x \in B : x <= Max(B)
        BY <3>1, <3>2, GreatestOfFinite
      <3>4. PICK k \in A : k = Max(B) /\ k < f[i]
        BY <3>3
      <3>5. \A x \in A : x < f[i] => x <= k
        BY <3>3, <3>4
      <3>6. L = UpToIn(f, I, k)
        <4>1. ASSUME NEW j \in I
              PROVE  f[j] < f[i] <=> f[j] <= k
          <5>1. f[j] \in A /\ f[j] \in Int /\ k \in Int /\ f[i] \in Int
            BY <1>1
          <5>2. k < f[i] /\ (f[j] < f[i] => f[j] <= k)
            BY <5>1, <3>4, <3>5
          <5> QED
            BY <5>1, <5>2
        <4> QED
          BY <4>1 DEF UpToIn
      <3>7. ~(Cardinality(L) >= W)
        BY <3>4, <3>6, <1>10
      <3>8. Cardinality(L) \in Nat
        <4>1. L \in SUBSET I
          OBVIOUS
        <4> QED
          BY <4>1, FS_Subset, FS_CardinalityType
      <3> QED
        BY <3>7, <3>8, <1>3
    <2> QED
      BY <2>1, <2>2
  <1> QED
    BY <1>9, <1>11

(* What is within 0.1% of each of some values adds up to within 0.1% of     *)
(* their sum.                                                               *)
LEMMA SumNear ==
  ASSUME NEW S, IsFiniteSet(S), NEW f, IntOn(f, S), NEW g, IntOn(g, S), \A x \in S : Close(f[x], g[x])
  PROVE  Close(Sum(f, S), Sum(g, S))
  <1> DEFINE Bad == {T \in SUBSET S : ~Close(Sum(f, T), Sum(g, T))}
  <1> SUFFICES ASSUME Bad # {} PROVE FALSE
    OBVIOUS
  <1>1. Bad \subseteq SUBSET S
    OBVIOUS
  <1> HIDE DEF Bad
  <1>2. PICK T \in Bad : IsFiniteSet(T) /\ \A U \in SUBSET T : U # T => U \notin Bad
    BY <1>1, SmallestSubset
  <1>3. T \in SUBSET S /\ ~Close(Sum(f, T), Sum(g, T))
    BY <1>2 DEF Bad
  <1>4. T # {}
    <2>1. ASSUME T = {} PROVE FALSE
      <3>1. Sum(f, T) = 0 /\ Sum(g, T) = 0
        BY <2>1, SumOfNone
      <3>2. Close(0, 0)
        BY DEF Close
      <3> QED
        BY <3>1, <3>2, <1>3
    <2> QED
      BY <2>1
  <1>5. PICK x : x \in T
    BY <1>4
  <1>6. IntOn(f, T) /\ IntOn(g, T)
    BY <1>3 DEF IntOn
  <1>7. Sum(f, T) = f[x] + Sum(f, T \ {x})
    BY <1>2, <1>5, <1>6, SumRemove
  <1>8. Sum(g, T) = g[x] + Sum(g, T \ {x})
    BY <1>2, <1>5, <1>6, SumRemove
  <1>9. Close(Sum(f, T \ {x}), Sum(g, T \ {x}))
    <2>1. T \ {x} \in SUBSET T /\ T \ {x} # T
      BY <1>5
    <2>2. T \ {x} \notin Bad
      BY <2>1, <1>2
    <2> QED
      BY <2>2, <1>3 DEF Bad
  <1>10. f[x] \in Int /\ g[x] \in Int /\ Close(f[x], g[x])
    BY <1>3, <1>5, <1>6 DEF IntOn
  <1>11. Sum(f, T \ {x}) \in Int /\ Sum(g, T \ {x}) \in Int
    <2>1. IsFiniteSet(T \ {x}) /\ IntOn(f, T \ {x}) /\ IntOn(g, T \ {x})
      BY <1>2, <1>6, FS_Subset DEF IntOn
    <2> QED
      BY <2>1, SumInt
  <1>12. \A a, b, c, d \in Int : Close(a, b) /\ Close(c, d) => Close(a + c, b + d)
    BY DEF Close
  <1> QED
    BY <1>3, <1>7, <1>8, <1>9, <1>10, <1>11, <1>12

(* Of each sample, what is left of it is close to it, and in its order.     *)
LEMMA SampleNear ==
  ASSUME NEW I, NEW v, Logged(v, I), native
  PROVE  \A i \in I : /\ Thousandths(v[i]) \in Nat /\ Exact(i) = 2 * Thousandths(v[i])
                      /\ Rounded(v, I)[i] = Lowest(Thousandths(v[i]))
                      /\ Lower(i) \in Nat /\ Mean(i) \in Nat /\ Trend(i) \in Nat /\ Exact(i) \in Nat
                      /\ Close(Lower(i), Exact(i)) /\ Close(Mean(i), Exact(i)) /\ Close(Trend(i), Exact(i))
  <1> SUFFICES ASSUME NEW i \in I
               PROVE  /\ Thousandths(v[i]) \in Nat /\ Exact(i) = 2 * Thousandths(v[i])
                      /\ Rounded(v, I)[i] = Lowest(Thousandths(v[i]))
                      /\ Lower(i) \in Nat /\ Mean(i) \in Nat /\ Trend(i) \in Nat /\ Exact(i) \in Nat
                      /\ Close(Lower(i), Exact(i)) /\ Close(Mean(i), Exact(i)) /\ Close(Trend(i), Exact(i))
    OBVIOUS
  <1>1. v[i] \in Int /\ Raw(i) = v[i]
    BY LoggedIs
  <1>2. PICK k \in Nat : k = Thousandths(v[i])
    BY <1>1 DEF Thousandths
  <1>3. Exact(i) = 2 * k
    BY <1>1, <1>2 DEF Exact
  <1>4. Rounded(v, I)[i] = Lowest(k)
    BY <1>2 DEF Rounded, Bucket
  <1>5. Lower(i) = 2 * Lowest(k) /\ Mean(i) = 2 * Middle(Lowest(k)) /\ Trend(i) = 2 * Highest(Lowest(k))
    BY <1>4, RoundedIs
  <1>6. Lowest(k) \in Nat /\ Middle(Lowest(k)) \in Nat /\ Highest(Lowest(k)) \in Nat
    BY BucketNear
  <1>7. Close(Lowest(k), k) /\ Close(Middle(Lowest(k)), k) /\ Close(Highest(Lowest(k)), k)
    BY BucketNear
  <1>8. \A a, b \in Nat : Close(a, b) => Close(2 * a, 2 * b)
    BY DEF Close
  <1>9. \A a \in Nat : 2 * a \in Nat
    OBVIOUS
  <1>10. Close(Lower(i), Exact(i)) /\ Close(Mean(i), Exact(i)) /\ Close(Trend(i), Exact(i))
    BY <1>3, <1>5, <1>6, <1>7, <1>8
  <1>11. Lower(i) \in Nat /\ Mean(i) \in Nat /\ Trend(i) \in Nat /\ Exact(i) \in Nat
    BY <1>3, <1>5, <1>6, <1>9
  <1> QED
    BY <1>2, <1>3, <1>4, <1>10, <1>11

(* A percentile of the histogram is close to a sample of its rank: that of  *)
(* the rank wanted, which is in the bucket found.                           *)
LEMMA QuantileNear ==
  ASSUME NEW I, NEW v, Logged(v, I), native, I # {}, NEW p \in 1 .. 99,
         NEW sink, sink.hdr = Counts(v, I)
  PROVE  \E i \in I : Near(<<2 * Highest(AtQuantile(sink, p)), 1>>, <<Exact(i), 1>>) /\ Ranked(i, I, p)
  <1> DEFINE t == Rounded(v, I)
             A == Image(t, I)
             n == Cardinality(I)
             lower == (p * (n - 1)) \div 100
             W == Wanted(p, n)
             f == [i \in I |-> Thousandths(v[i])]
  <1>1. PICK q \in A :
           /\ AtQuantile(sink, p) = q
           /\ Cardinality(UpToIn(t, I, q)) >= W
           /\ \A x \in A : x < q => ~(Cardinality(UpToIn(t, I, x)) >= W)
    BY QuantileIs
  <1>2. IsFiniteSet(I) /\ A \subseteq Nat /\ q \in Nat
    BY RoundedIs
  <1>3. \A i \in I : /\ f[i] \in Nat /\ t[i] = Lowest(f[i]) /\ Exact(i) = 2 * f[i]
                     /\ Trend(i) \in Nat /\ Exact(i) \in Nat /\ Close(Trend(i), Exact(i))
    BY SampleNear
  <1>4. \A i \in I : t[i] \in Nat /\ Trend(i) = 2 * Highest(t[i])
    BY RoundedIs
  <1>5. n \in Nat /\ n > 0
    <2>1. n \in Nat /\ (n = 0 <=> I = {})
      BY LoggedIs
    <2> QED
      BY <2>1
  <1>6. W \in 1 .. n /\ lower \in Nat /\ lower + 1 <= W /\ W <= lower + 2
    BY <1>5, WantedBounds DEF Wanted
  <1>7. \A i \in I : t[i] \in A
    BY DEF Image
  <1>8. n = Cardinality(I)
    OBVIOUS
  <1> HIDE DEF t, A, n, lower, W, f
  <1>9. IntOn(f, I)
    BY <1>3 DEF IntOn
  <1>10. PICK i \in I : /\ Cardinality(UpToIn(f, I, f[i])) >= W
                        /\ Cardinality({j \in I : f[j] < f[i]}) < W
    BY <1>2, <1>6, <1>8, <1>9, RankExists
  <1> DEFINE L == {j \in I : f[j] < f[i]}
  <1>11. \A U \in SUBSET I : IsFiniteSet(U) /\ Cardinality(U) \in Nat
    BY <1>2, FS_Subset, FS_CardinalityType
  <1>12. \A k : UpToIn(t, I, k) \in SUBSET I /\ UpToIn(f, I, k) \in SUBSET I
    BY DEF UpToIn
  <1>13. L \in SUBSET I
    OBVIOUS
  <1>14. \A x, y \in I : f[x] <= f[y] => t[x] <= t[y]
    BY <1>3, LowestRises
  <1>15. \A U, V \in SUBSET I : U \subseteq V => Cardinality(U) <= Cardinality(V)
    BY <1>2, FS_Subset
  <1>16. ~(t[i] < q)
    <2>1. UpToIn(f, I, f[i]) \subseteq UpToIn(t, I, t[i])
      BY <1>14 DEF UpToIn
    <2>2. Cardinality(UpToIn(f, I, f[i])) <= Cardinality(UpToIn(t, I, t[i]))
      BY <2>1, <1>12, <1>15
    <2>3. Cardinality(UpToIn(t, I, t[i])) >= W
      BY <2>2, <1>6, <1>5, <1>10, <1>11, <1>12
    <2> QED
      BY <2>3, <1>1, <1>7
  <1>17. ~(q < t[i])
    <2> SUFFICES ASSUME q < t[i] PROVE FALSE
      OBVIOUS
    <2>1. ASSUME NEW j \in I, t[j] <= q PROVE f[j] < f[i]
      <3>1. t[j] \in Nat /\ t[i] \in Nat /\ f[j] \in Nat /\ f[i] \in Nat
        BY <1>3, <1>4
      <3>2. ~(t[i] <= t[j])
        BY <3>1, <2>1, <1>2
      <3>3. ~(f[i] <= f[j])
        BY <3>2, <1>14
      <3> QED
        BY <3>1, <3>3
    <2>2. UpToIn(t, I, q) \subseteq L
      BY <2>1 DEF UpToIn
    <2>3. Cardinality(UpToIn(t, I, q)) <= Cardinality(L)
      BY <2>2, <1>12, <1>13, <1>15
    <2> QED
      BY <2>3, <1>1, <1>5, <1>6, <1>10, <1>11, <1>12, <1>13
  <1>18. q = t[i]
    BY <1>2, <1>4, <1>16, <1>17
  <1>19. Near(<<2 * Highest(AtQuantile(sink, p)), 1>>, <<Exact(i), 1>>)
    <2>1. 2 * Highest(AtQuantile(sink, p)) = Trend(i)
      BY <1>1, <1>4, <1>18
    <2>2. PICK x \in Nat, y \in Nat : x = Trend(i) /\ y = Exact(i) /\ Close(x, y)
      BY <1>3
    <2>3. Near(<<x, 1>>, <<y, 1>>)
      BY <2>2 DEF Near, Close
    <2> QED
      BY <2>1, <2>2, <2>3
  <1>20. {j \in I : Exact(j) <= Exact(i)} = UpToIn(f, I, f[i])
    <2>1. ASSUME NEW j \in I PROVE Exact(j) <= Exact(i) <=> f[j] <= f[i]
      BY <1>3
    <2> QED
      BY <2>1 DEF UpToIn
  <1>21. {j \in I : Exact(j) >= Exact(i)} = I \ L
    <2>1. ASSUME NEW j \in I PROVE Exact(j) >= Exact(i) <=> ~(f[j] < f[i])
      BY <1>3
    <2> QED
      BY <2>1
  <1>22. Cardinality(I \ L) = n - Cardinality(L)
    <2>1. Cardinality(I \ L) = Cardinality(I) - Cardinality(I \cap L)
      BY <1>2, <1>11, <1>13, FS_Difference
    <2>2. I \cap L = L
      BY <1>13
    <2> QED
      BY <2>1, <2>2, <1>8
  <1>23. Cardinality(UpToIn(f, I, f[i])) >= lower + 1
    BY <1>5, <1>6, <1>10, <1>11, <1>12
  <1>24. Cardinality(I \ L) >= n - lower - 1
    <2>1. Cardinality(L) \in Nat /\ Cardinality(L) < W
      BY <1>10, <1>11, <1>13
    <2> HIDE DEF L
    <2> QED
      BY <2>1, <1>22, <1>5, <1>6
  <1> HIDE DEF L
  <1>25. Ranked(i, I, p)
    BY <1>20, <1>21, <1>23, <1>24 DEF Ranked, n, lower
  <1> QED
    BY <1>19, <1>25

(* The least and the greatest sample, and what is left of them.             *)
LEMMA EndsNear ==
  ASSUME NEW I, NEW v, Logged(v, I), native, I # {}
  PROVE  /\ Near(<<Min({Lower(i) : i \in I}), 1>>, <<Min({Exact(i) : i \in I}), 1>>)
         /\ Near(<<Max({Trend(i) : i \in I}), 1>>, <<Max({Exact(i) : i \in I}), 1>>)
  <1> DEFINE t == Rounded(v, I)
             f == [i \in I |-> Thousandths(v[i])]
             E == {Exact(i) : i \in I}
             S == {Lower(i) : i \in I}
             T == {Trend(i) : i \in I}
  <1>1. \A i \in I : /\ f[i] \in Nat /\ t[i] = Lowest(f[i]) /\ Exact(i) = 2 * f[i]
                     /\ Lower(i) \in Nat /\ Trend(i) \in Nat /\ Exact(i) \in Nat
                     /\ Close(Lower(i), Exact(i)) /\ Close(Trend(i), Exact(i))
    BY SampleNear
  <1>2. \A i \in I : t[i] \in Nat /\ Lower(i) = 2 * t[i] /\ Trend(i) = 2 * Highest(t[i])
    BY RoundedIs
  <1>3. IsFiniteSet(I)
    BY RoundedIs
  <1>4. IsFiniteSet(E)
    <2>1. E = Image([i \in I |-> Exact(i)], I)
      BY DEF Image
    <2> QED
      BY <2>1, <1>3, ImageFinite
  <1> HIDE DEF t, f
  <1>5. E \subseteq Int /\ E # {} /\ S \subseteq Int /\ T \subseteq Int
    BY <1>1
  <1>6. \A i, j \in I : Exact(i) <= Exact(j) => Lower(i) <= Lower(j) /\ Trend(i) <= Trend(j)
    <2> SUFFICES ASSUME NEW i \in I, NEW j \in I, Exact(i) <= Exact(j)
                 PROVE  Lower(i) <= Lower(j) /\ Trend(i) <= Trend(j)
      OBVIOUS
    <2>1. f[i] \in Nat /\ f[j] \in Nat /\ f[i] <= f[j]
      BY <1>1
    <2>2. t[i] <= t[j] /\ t[i] \in Nat /\ t[j] \in Nat
      BY <2>1, <1>1, <1>2, LowestRises
    <2>3. PICK x \in Nat, y \in Nat : x = Highest(t[i]) /\ y = Highest(t[j])
      BY <2>2, HighestIs
    <2>4. x <= y
      BY <2>2, <2>3, HighestIs
    <2>5. Lower(i) = 2 * t[i] /\ Lower(j) = 2 * t[j] /\ Trend(i) = 2 * x /\ Trend(j) = 2 * y
      BY <1>2, <2>3
    <2> QED
      BY <2>2, <2>4, <2>5
  <1>7. Min(E) \in E /\ (\A y \in E : Min(E) <= y) /\ Max(E) \in E /\ \A y \in E : y <= Max(E)
    BY <1>4, <1>5, LeastOfFinite, GreatestOfFinite
  <1>8. PICK a \in I : Exact(a) = Min(E)
    BY <1>7
  <1>9. PICK z \in I : Exact(z) = Max(E)
    BY <1>7
  <1>10. Min(S) = Lower(a)
    <2>1. Lower(a) \in S
      OBVIOUS
    <2>2. \A y \in S : Lower(a) <= y
      BY <1>6, <1>7, <1>8
    <2> HIDE DEF S
    <2> QED
      BY <2>1, <2>2, <1>5, MinIs
  <1>11. Max(T) = Trend(z)
    <2>1. Trend(z) \in T
      OBVIOUS
    <2>2. \A y \in T : y <= Trend(z)
      BY <1>6, <1>7, <1>9
    <2> HIDE DEF T
    <2> QED
      BY <2>1, <2>2, <1>5, MaxIs
  <1>12. \A x, y \in Nat : Close(x, y) => Near(<<x, 1>>, <<y, 1>>)
    BY DEF Close, Near
  <1>13. Near(<<Lower(a), 1>>, <<Exact(a), 1>>) /\ Near(<<Trend(z), 1>>, <<Exact(z), 1>>)
    BY <1>1, <1>12
  <1> QED
    BY <1>8, <1>9, <1>10, <1>11, <1>13

(* The mean of the buckets, and that of the samples.                        *)
LEMMA MeanNear ==
  ASSUME NEW I, NEW v, Logged(v, I), native
  PROVE  Near(<<SumFunction([i \in I |-> Mean(i)]), Cardinality(I)>>,
              <<SumFunction([i \in I |-> Exact(i)]), Cardinality(I)>>)
  <1> DEFINE g == [i \in I |-> Mean(i)]
             e == [i \in I |-> Exact(i)]
             n == Cardinality(I)
  <1>1. \A i \in I : Mean(i) \in Nat /\ Exact(i) \in Nat /\ Close(Mean(i), Exact(i))
    BY SampleNear
  <1>2. IsFiniteSet(I) /\ n \in Nat
    BY LoggedIs
  <1>3. IntOn(g, I) /\ IntOn(e, I) /\ \A i \in I : Close(g[i], e[i])
    BY <1>1 DEF IntOn
  <1>4. SumFunction(g) = Sum(g, I) /\ SumFunction(e) = Sum(e, I)
    BY DEF SumFunction, Sum
  <1> HIDE DEF g, e, n
  <1>5. PICK x \in Int, y \in Int : x = Sum(g, I) /\ y = Sum(e, I)
    BY <1>2, <1>3, SumInt
  <1>6. Close(x, y)
    BY <1>2, <1>3, <1>5, SumNear
  <1>7. 1000 * (x * n - y * n) <= y * n /\ 1000 * (y * n - x * n) <= y * n
    <2>1. \A a, b \in Int, m \in Nat : a <= b => a * m <= b * m
      OBVIOUS
    <2>2. (1000 * (x - y)) * n <= y * n /\ (1000 * (y - x)) * n <= y * n
      BY <1>2, <1>6, <2>1 DEF Close
    <2>3. (1000 * (x - y)) * n = 1000 * (x * n - y * n) /\ (1000 * (y - x)) * n = 1000 * (y * n - x * n)
      BY <1>2
    <2> QED
      BY <2>2, <2>3
  <1>8. Near(<<x, n>>, <<y, n>>)
    BY <1>7 DEF Near
  <1> QED
    BY <1>4, <1>5, <1>8 DEF g, e, n

(* In a state of the invariant no statistic of a native trend is further    *)
(* off than three significant digits allow.                                 *)
THEOREM SinksInvPrecision ==
  SinksInv => WithinPrecision
  <1> SUFFICES ASSUME SinksInv, NEW key \in DOMAIN sinks, native, metrics[key[1]] = "trend", Fed(key, Len(log)) # {}
               PROVE  LET I     == Fed(key, Len(log))
                          format == Format(sinks[key], 0)
                      IN  /\ Near(format["avg"], <<SumFunction([i \in I |-> Exact(i)]), Cardinality(I)>>)
                          /\ Near(format["min"], <<Min({Exact(i) : i \in I}), 1>>)
                          /\ Near(format["max"], <<Max({Exact(i) : i \in I}), 1>>)
                          /\ \A agg \in DOMAIN Percentiles :
                               \E i \in I : Near(format[agg], <<Exact(i), 1>>) /\ Ranked(i, I, Percentiles[agg])
    BY DEF WithinPrecision
  <1>1. SinksHold(native, sinks, metrics, log)
    BY DEF SinksInv
  <1>2. log \in Seq(Entry) /\ Holds(sinks[key], metrics[key[1]], native, log, key)
    BY <1>1 DEF SinksHold
  <1>3. PICK I : I = FedOf(log, key, Len(log))
    OBVIOUS
  <1>4. PICK v : v = ValuesOf(log, I)
    OBVIOUS
  <1>5. Fed(key, Len(log)) = I /\ I # {}
    BY <1>3 DEF Fed, FedOf
  <1>6. Values(v, I) /\ I \subseteq 1 .. Len(log)
    BY <1>2, <1>3, <1>4, FedIs
  <1>7. Logged(v, I)
    BY <1>4, <1>6 DEF Logged, ValuesOf
  <1>8. PICK sink : sink = sinks[key]
    OBVIOUS
  <1>9. IsHistogram(sink, v, I)
    BY <1>2, <1>3, <1>4, <1>8 DEF Holds, Represents
  <1>10. sink.type = "hdr" /\ sink.hdr = Counts(v, I)
    BY <1>9 DEF IsHistogram
  <1>11. PICK format : format = Format(sink, 0)
    OBVIOUS
  <1>12. TrendShown(format, I, 0)
    <2>1. 0 \in Nat
      OBVIOUS
    <2> QED
      BY <2>1, <1>7, <1>9, <1>11, HistogramShown
  <1>13. \A agg \in {"count", "avg", "min", "max"} : format[agg] = Statistic(agg, "trend", I, 0)
    BY <1>5, <1>12 DEF TrendShown
  <1>14. /\ format["avg"] = <<SumFunction([i \in I |-> Mean(i)]), Cardinality(I)>>
         /\ format["min"] = <<Min({Lower(i) : i \in I}), 1>>
         /\ format["max"] = <<Max({Trend(i) : i \in I}), 1>>
    BY <1>13 DEF Statistic
  <1>15. ASSUME NEW agg \in DOMAIN Percentiles
         PROVE  \E i \in I : Near(format[agg], <<Exact(i), 1>>) /\ Ranked(i, I, Percentiles[agg])
    <2>1. format = FormatHistogram(sink)
      BY <1>10, <1>11 DEF Format
    <2>2. PICK n : n = Recorded(sink)
      OBVIOUS
    <2>3. n \in Nat /\ n > 0 /\ n # 0
      <3>1. SumFunction(Counts(v, I)) = Cardinality(I)
        BY <1>7, HistogramCounts
      <3>2. Cardinality(I) \in Nat /\ (Cardinality(I) = 0 <=> I = {})
        BY <1>7, LoggedIs
      <3>3. n = Cardinality(I)
        BY <3>1, <2>2, <1>10 DEF Recorded
      <3> QED
        BY <3>2, <3>3, <1>5
    <2>4. agg \in TrendKeys /\ agg # "count" /\ agg # "avg" /\ agg # "min" /\ agg # "max"
      BY PercentilesAre
    <2>5. format[agg] = <<2 * Highest(AtQuantile(sink, Percentiles[agg])), 1>>
      BY <2>1, <2>2, <2>3, <2>4 DEF FormatHistogram
    <2>6. Percentiles[agg] \in 1 .. 99
      BY PercentilesAre
    <2> QED
      BY <2>5, <2>6, <1>5, <1>7, <1>10, QuantileNear, Zenon
  <1>16. Near(format["avg"], <<SumFunction([i \in I |-> Exact(i)]), Cardinality(I)>>)
    BY <1>7, <1>14, MeanNear
  <1>17. /\ Near(format["min"], <<Min({Exact(i) : i \in I}), 1>>)
         /\ Near(format["max"], <<Max({Exact(i) : i \in I}), 1>>)
    BY <1>5, <1>7, <1>14, EndsNear
  <1> QED
    BY <1>5, <1>8, <1>11, <1>15, <1>16, <1>17

(* The verdict on threshold i, where its sink exists and has samples.       *)
Judged(i) ==
  LET th   == Thresholds[i]
      I    == Fed(<<th.metric, th.tag>>, judged.upto)
      n    == Cardinality(I)
      lower == (Percentiles[th.agg] * (n - 1)) \div 100
      Under(j) == Compare(<<Trend(j), 1>>, "<", th.rhs)
  IN  IF th.agg \in DOMAIN Percentiles
        THEN th.op = "<" =>
               IF results[i] THEN Cardinality({j \in I : Under(j)}) >= lower + 1
               ELSE Cardinality({j \in I : ~Under(j)}) >= n - lower - 1
        ELSE results[i] <=> Compare(Statistic(th.agg, metrics[th.metric], I, judged.lasted), th.op, th.rhs)

(* The threshold found its sink, with samples and with its aggregation.     *)
HasVerdict(i) ==
  LET th == Thresholds[i]
  IN  /\ Fed(<<th.metric, th.tag>>, judged.upto) # {}
      /\ Sought(th) \in DOMAIN sinks /\ th.agg \in DOMAIN Format(sinks[Sought(th)], 0)

(* VerdictsFollowSamples, threshold by threshold.                           *)
LEMMA VerdictsAre ==
  VerdictsFollowSamples <=> \A i \in DOMAIN results : HasVerdict(i) => Judged(i)
  BY DEF VerdictsFollowSamples, HasVerdict, Judged

(* The arithmetic of a bound that a percentile is under.                    *)
LEMMA UnderBound ==
  ASSUME NEW t \in Int, NEW x \in Int, NEW y \in {1, 100}, NEW r \in Int, NEW e \in Nat \ {0}
  PROVE  /\ t * y <= x /\ x * e < r * y => t * e < r * 1
         /\ t * y >= x /\ ~(x * e < r * y) => ~(t * e < r * 1)
  <1>1. \A a, b \in Int, c \in Nat \ {0} : a * c \in Int /\ b * c \in Int /\ (a <= b => a * c <= b * c)
    OBVIOUS
  <1>2. PICK m \in Int : m = t * e
    BY <1>1
  <1>3. PICK z \in Int : z = x * e
    BY <1>1
  <1>4. (t * y) * e = y * m
    BY <1>2
  <1>5. t * y \in Int
    OBVIOUS
  <1>6. (t * y <= x => y * m <= z) /\ (t * y >= x => y * m >= z)
    <2>1. t * y <= x => (t * y) * e <= x * e
      BY <1>1, <1>5
    <2>2. x <= t * y => x * e <= (t * y) * e
      BY <1>1, <1>5
    <2>3. y * m \in Int
      OBVIOUS
    <2> QED
      BY <1>3, <1>4, <1>5, <2>1, <2>2, <2>3
  <1>7. /\ y * m <= z /\ z < r * y => m < r
        /\ y * m >= z /\ ~(z < r * y) => ~(m < r)
    OBVIOUS
  <1> QED
    BY <1>2, <1>3, <1>5, <1>6, <1>7

(* A larger set has no fewer elements.                                      *)
LEMMA LargerCount ==
  ASSUME NEW I, IsFiniteSet(I), NEW A, NEW B, A \subseteq B, B \subseteq I, NEW k \in Int, Cardinality(A) >= k
  PROVE  Cardinality(B) >= k
  <1>1. IsFiniteSet(B)
    BY FS_Subset
  <1>2. IsFiniteSet(A) /\ Cardinality(A) <= Cardinality(B)
    BY <1>1, FS_Subset
  <1>3. Cardinality(A) \in Nat /\ Cardinality(B) \in Nat
    BY <1>1, <1>2, FS_CardinalityType
  <1> QED
    BY <1>2, <1>3

(* A percentile of the values kept is under the bound r, or is not.         *)
BoundKept(under, kept, I, p, r) ==
  LET lower == (p * (Cardinality(I) - 1)) \div 100
      Under(j) == Compare(<<kept[j], 1>>, "<", r)
  IN  IF under THEN Cardinality({j \in I : Under(j)}) >= lower + 1
      ELSE Cardinality({j \in I : ~Under(j)}) >= Cardinality(I) - lower - 1

(* A percentile that splits the samples is under a bound with enough of     *)
(* them, and is not under it with enough of the others.                     *)
LEMMA PercentileJudged ==
  ASSUME NEW I, IsFiniteSet(I), NEW kept, \A i \in I : kept[i] = Trend(i) /\ kept[i] \in Int,
         NEW p \in 1 .. 99, NEW x, Fraction(x), Splits(x, I, p),
         NEW r, r[1] \in Int, r[2] \in Nat \ {0}
  PROVE  BoundKept(Compare(x, "<", r), kept, I, p, r)
  <1> DEFINE lower == (p * (Cardinality(I) - 1)) \div 100
             Under(j) == Compare(<<kept[j], 1>>, "<", r)
             below == {i \in I : kept[i] * x[2] <= x[1]}
             above == {i \in I : kept[i] * x[2] >= x[1]}
  <1>1. Cardinality(below) >= lower + 1 /\ Cardinality(above) >= Cardinality(I) - lower - 1
    <2>1. /\ {i \in I : Trend(i) * x[2] <= x[1]} = below
          /\ {i \in I : Trend(i) * x[2] >= x[1]} = above
      OBVIOUS
    <2> QED
      BY <2>1 DEF Splits
  <1>2. Cardinality(I) \in Nat /\ lower \in Int
    <2>1. Cardinality(I) \in Nat
      BY FS_CardinalityType
    <2>2. p * (Cardinality(I) - 1) \in Int
      BY <2>1
    <2> QED
      BY <2>1, <2>2
  <1>3. x[1] \in Int /\ x[2] \in {1, 100}
    BY DEF Fraction
  <1>4. Compare(x, "<", r) <=> x[1] * r[2] < r[1] * x[2]
    BY DEF Compare
  <1>5. \A j : Under(j) <=> kept[j] * r[2] < r[1] * 1
    BY DEF Compare
  <1> HIDE DEF lower, Under
  <1>6. CASE Compare(x, "<", r)
    <2>1. \A i \in I : kept[i] * x[2] <= x[1] => Under(i)
      BY <1>3, <1>4, <1>5, <1>6, UnderBound
    <2>2. below \subseteq {j \in I : Under(j)}
      BY <2>1
    <2> DEFINE B == {j \in I : Under(j)}
    <2>3. B \subseteq I
      OBVIOUS
    <2> HIDE DEF below, B
    <2>4. lower + 1 \in Int
      BY <1>2
    <2>5. Cardinality(B) >= lower + 1
      BY <1>1, <2>2, <2>3, <2>4, LargerCount DEF B
    <2> QED
      BY <1>6, <2>5 DEF B, lower, Under, BoundKept
  <1>7. CASE ~Compare(x, "<", r)
    <2>1. \A i \in I : kept[i] * x[2] >= x[1] => ~Under(i)
      BY <1>3, <1>4, <1>5, <1>7, UnderBound
    <2>2. above \subseteq {j \in I : ~Under(j)}
      BY <2>1
    <2> DEFINE B == {j \in I : ~Under(j)}
    <2>3. B \subseteq I
      OBVIOUS
    <2> HIDE DEF above, B
    <2>4. Cardinality(I) - lower - 1 \in Int
      BY <1>2
    <2>5. Cardinality(B) >= Cardinality(I) - lower - 1
      BY <1>1, <2>2, <2>3, <2>4, LargerCount DEF B
    <2> QED
      BY <1>7, <2>5 DEF B, lower, Under, BoundKept
  <1> QED
    BY <1>6, <1>7

(* The samples a verdict is about are in the log.                           *)
LEMMA FedValues ==
  ASSUME SinksInv, NEW key, NEW upto \in Nat, upto <= Len(log)
  PROVE  /\ IsFiniteSet(Fed(key, upto)) /\ Fed(key, upto) \subseteq 1 .. upto
         /\ 1 .. upto \subseteq 1 .. Len(log)
         /\ \A i \in Fed(key, upto) : Raw(i) \in Int /\ Trend(i) \in Int
  <1>1. log \in Seq(Entry) /\ Len(log) \in Nat
    BY LenProperties DEF SinksInv, SinksHold
  <1>2. Fed(key, upto) \in SUBSET (1 .. upto) /\ IsFiniteSet(1 .. upto)
    BY FS_Interval DEF Fed
  <1>3. IsFiniteSet(Fed(key, upto))
    BY <1>2, FS_Subset
  <1>4. 1 .. upto \subseteq 1 .. Len(log)
    BY <1>1
  <1>5. ASSUME NEW i \in Fed(key, upto)
        PROVE  Raw(i) \in Int /\ Trend(i) \in Int
    <2>1. log[i] \in Entry
      BY <1>1, <1>2, <1>4, ElementOfSeq
    <2>2. log[i].value \in Int
      BY <2>1, EntryIs
    <2>3. Bucket(log[i].value) \in Nat
      BY <2>2, BucketNat
    <2>4. Highest(Bucket(log[i].value)) \in Nat
      BY <2>3, HighestIs
    <2> QED
      BY <2>2, <2>4 DEF Raw, Trend
  <1> QED
    BY <1>2, <1>3, <1>4, <1>5

(* The statistic and the verdict, of values that are given.                 *)
KeptOf(nat, lg, I) == [i \in I |-> IF nat THEN 2 * Highest(Bucket(lg[i].value)) ELSE lg[i].value]
LowersOf(nat, lg, I) == [i \in I |-> IF nat THEN 2 * Bucket(lg[i].value) ELSE lg[i].value]
MeansOf(nat, lg, I) == [i \in I |-> IF nat THEN 2 * Middle(Bucket(lg[i].value)) ELSE lg[i].value]

StatisticOf(raw, kept, lows, means, agg, type, I, d) ==
  LET n == Cardinality(I)
      trues == Cardinality({i \in I : raw[i] # 0})
  IN  CASE agg = "min" -> <<Min(IF type = "trend" THEN Image(lows, I) ELSE Image(raw, I)), 1>>
        [] agg = "max" -> <<Max(IF type = "trend" THEN Image(kept, I) ELSE Image(raw, I)), 1>>
        [] agg = "avg" -> <<SumFunction(means), n>>
        [] agg = "value"  -> <<raw[Max(I)], 1>>
        [] agg = "passes" -> <<trues, 1>>
        [] agg = "fails"  -> <<n - trues, 1>>
        [] agg = "count" -> IF type = "counter" THEN <<SumFunction(raw), 1>> ELSE <<n, 1>>
        [] agg = "rate" /\ type = "rate" -> <<trues, n>>
        [] agg = "rate" /\ type = "counter" -> IF d > 0 THEN <<SumFunction(raw), d>> ELSE Zero

(* The verdict on th, passed, is that of the values of the samples I.       *)
JudgedOf(passed, th, type, raw, kept, lows, means, I, d) ==
  IF th.agg \in DOMAIN Percentiles
    THEN th.op = "<" => BoundKept(passed, kept, I, Percentiles[th.agg], th.rhs)
    ELSE passed <=> Compare(StatisticOf(raw, kept, lows, means, th.agg, type, I, d), th.op, th.rhs)

(* A statistic is one of the values alone.                                  *)
LEMMA StatisticIs ==
  ASSUME NEW I, IsFiniteSet(I), I \subseteq Int, I # {}, NEW agg, NEW type, NEW d
  PROVE  Statistic(agg, type, I, d)
         = StatisticOf(ValuesOf(log, I), KeptOf(native, log, I), LowersOf(native, log, I), MeansOf(native, log, I),
                       agg, type, I, d)
  <1> DEFINE raw == ValuesOf(log, I)
             kept == KeptOf(native, log, I)
             lows == LowersOf(native, log, I)
             means == MeansOf(native, log, I)
  <1>1. /\ raw = [i \in I |-> Raw(i)] /\ kept = [i \in I |-> Trend(i)]
        /\ lows = [i \in I |-> Lower(i)] /\ means = [i \in I |-> Mean(i)]
    BY DEF ValuesOf, KeptOf, LowersOf, MeansOf, Raw, Trend, Lower, Mean
  <1> HIDE DEF raw, kept, lows, means
  <1>2. /\ {Raw(i) : i \in I} = Image(raw, I) /\ {Trend(i) : i \in I} = Image(kept, I)
        /\ {Lower(i) : i \in I} = Image(lows, I)
    BY <1>1 DEF Image
  <1>3. {i \in I : Raw(i) # 0} = {i \in I : raw[i] # 0}
    BY <1>1
  <1>4. Raw(Max(I)) = raw[Max(I)]
    BY <1>1, GreatestOfFinite
  <1>5. Statistic(agg, type, I, d) = StatisticOf(raw, kept, lows, means, agg, type, I, d)
    BY <1>1, <1>2, <1>3, <1>4 DEF Statistic, StatisticOf
  <1> QED
    BY <1>5 DEF raw, kept, lows, means

(* The verdict on threshold i is about these samples.                       *)
About(i) == FedOf(log, Sought(Thresholds[i]), judged.upto)
(* Judged, in every state of the invariant, is JudgedOf of the values.      *)
JudgedAs ==
  \A i \in DOMAIN results : SinksInv /\ HasVerdict(i) =>
    /\ About(i) # {} /\ About(i) \subseteq 1 .. judged.upto
    /\ Judged(i) <=> JudgedOf(results[i], Thresholds[i], metrics[Thresholds[i].metric],
                              ValuesOf(log, About(i)), KeptOf(native, log, About(i)), LowersOf(native, log, About(i)),
                              MeansOf(native, log, About(i)), About(i), judged.lasted)

(* A verdict is about the values that were there when it was found, and not *)
(* about the state it is looked at in.                                      *)
LEMMA JudgedIs ==
  JudgedAs
  <1> SUFFICES ASSUME NEW i \in DOMAIN results, SinksInv, HasVerdict(i)
               PROVE  /\ About(i) # {} /\ About(i) \subseteq 1 .. judged.upto
                      /\ Judged(i) <=> JudgedOf(results[i], Thresholds[i], metrics[Thresholds[i].metric],
                              ValuesOf(log, About(i)), KeptOf(native, log, About(i)), LowersOf(native, log, About(i)),
                              MeansOf(native, log, About(i)), About(i), judged.lasted)
    BY DEF JudgedAs
  <1> DEFINE th == Thresholds[i]
             I == About(i)
             raw == ValuesOf(log, I)
             kept == KeptOf(native, log, I)
             lows == LowersOf(native, log, I)
             means == MeansOf(native, log, I)
             Under(j) == Compare(<<Trend(j), 1>>, "<", th.rhs)
             KeptUnder(j) == Compare(<<kept[j], 1>>, "<", th.rhs)
  <1>1. Fed(<<th.metric, th.tag>>, judged.upto) = I
    BY DEF About, Fed, FedOf, Sought
  <1>2. I # {}
    BY <1>1 DEF HasVerdict
  <1>3. judged.upto \in Nat /\ judged.upto <= Len(log)
    BY DEF SinksInv
  <1>4. IsFiniteSet(I) /\ I \subseteq 1 .. judged.upto
    BY <1>1, <1>3, FedValues
  <1>5. I \subseteq Int
    BY <1>3, <1>4
  <1> HIDE DEF I
  <1>6. Statistic(th.agg, metrics[th.metric], I, judged.lasted)
        = StatisticOf(raw, kept, lows, means, th.agg, metrics[th.metric], I, judged.lasted)
    BY <1>2, <1>4, <1>5, StatisticIs
  <1>7. \A j \in I : kept[j] = Trend(j)
    BY DEF KeptOf, Trend, Raw
  <1>8. {j \in I : Under(j)} = {j \in I : KeptUnder(j)} /\ {j \in I : ~Under(j)} = {j \in I : ~KeptUnder(j)}
    <2> HIDE DEF kept
    <2> QED
      BY <1>7
  <1> HIDE DEF raw, kept, lows, means
  <1>9. Judged(i) <=> JudgedOf(results[i], th, metrics[th.metric], raw, kept, lows, means, I, judged.lasted)
    <2>1. CASE th.agg \in DOMAIN Percentiles
      BY <1>1, <1>8, <2>1 DEF Judged, JudgedOf, BoundKept
    <2>2. CASE th.agg \notin DOMAIN Percentiles
      BY <1>1, <1>6, <2>2 DEF Judged, JudgedOf
    <2> QED
      BY <2>1, <2>2
  <1> QED
    BY <1>2, <1>4, <1>9 DEF I, raw, kept, lows, means

(* The aggregations that each sink of a state shows.                        *)
KeysKnown ==
  SinksInv => \A key \in DOMAIN sinks :
    /\ key[1] \in DOMAIN metrics /\ metrics[key[1]] \in Types
    /\ DOMAIN Format(sinks[key], 0) = Keys(metrics[key[1]])

(* A sink has the aggregations of the type of its metric.                   *)
LEMMA KeysAre ==
  KeysKnown
  <1> SUFFICES ASSUME SinksInv, NEW key \in DOMAIN sinks
               PROVE  /\ key[1] \in DOMAIN metrics /\ metrics[key[1]] \in Types
                      /\ DOMAIN Format(sinks[key], 0) = Keys(metrics[key[1]])
    BY DEF KeysKnown
  <1>1. native \in BOOLEAN /\ SinksHold(native, sinks, metrics, log)
    BY DEF SinksInv
  <1>2. /\ metrics \in [DOMAIN metrics -> Types]
        /\ key[1] \in DOMAIN metrics /\ Holds(sinks[key], metrics[key[1]], native, log, key)
    BY <1>1 DEF SinksHold
  <1>3. PICK type \in Types : type = metrics[key[1]]
    BY <1>2
  <1>4. PICK I, v : Represents(sinks[key], type, native, v, I)
    BY <1>2, <1>3 DEF Holds
  <1>5. DOMAIN Format(sinks[key], 0) = Keys(type)
    BY <1>1, <1>4, KeysShown
  <1> QED
    BY <1>2, <1>3, <1>5

(* A step that adds samples, metrics or sinks leaves a verdict as it is: it *)
(* is about the samples that were there when it was found.                  *)
LEMMA GrowsKeeps ==
  ASSUME SinksInv, SinksInv', Grows, NEW i \in DOMAIN results, HasVerdict(i)', HasVerdict(i) => Judged(i)
  PROVE  Judged(i)'
  <1> DEFINE th == Thresholds[i]
             key == Sought(th)
  <1>1. /\ native' = native /\ judged' = judged /\ results' = results
        /\ \A j \in 1 .. Len(log) : log'[j] = log[j]
        /\ \A m \in DOMAIN metrics : m \in DOMAIN metrics' /\ metrics'[m] = metrics[m]
        /\ \A k \in DOMAIN sinks' : k \in DOMAIN sinks \/ \A j \in 1 .. Len(log) : log[j].metric # k[1]
    BY DEF Grows
  <1>2. /\ KeysKnown /\ KeysKnown'
    <2>1. KeysKnown
      BY KeysAre
    <2>2. KeysKnown'
      BY KeysAre, PTL
    <2> QED
      BY <2>1, <2>2
  <1>3. JudgedAs /\ JudgedAs'
    <2>1. JudgedAs
      BY JudgedIs
    <2>2. JudgedAs'
      BY JudgedIs, PTL
    <2> QED
      BY <2>1, <2>2
  <1>4. judged.upto \in Nat /\ judged.upto <= Len(log) /\ Len(log) \in Nat
    BY LenProperties DEF SinksInv, SinksHold
  <1>5. \A j \in 1 .. judged.upto : j \in 1 .. Len(log)
    BY <1>4
  <1>6. key[1] = th.metric /\ key = <<th.metric, th.tag>>
    BY DEF Sought
  <1> DEFINE I == FedOf(log, key, judged.upto)
  <1>7. FedOf(log', key, judged.upto) = I
    BY <1>1, <1>5 DEF FedOf
  <1>8. About(i) = I /\ About(i)' = I
    BY <1>1, <1>7 DEF About
  <1>9. /\ I # {} /\ I \subseteq 1 .. judged.upto
        /\ Judged(i)' <=> JudgedOf(results[i], th, metrics'[th.metric], ValuesOf(log', I), KeptOf(native, log', I),
                                     LowersOf(native, log', I), MeansOf(native, log', I), I, judged.lasted)
    BY <1>1, <1>3, <1>8 DEF JudgedAs
  <1>10. /\ ValuesOf(log', I) = ValuesOf(log, I) /\ KeptOf(native, log', I) = KeptOf(native, log, I)
         /\ LowersOf(native, log', I) = LowersOf(native, log, I) /\ MeansOf(native, log', I) = MeansOf(native, log, I)
    <2>1. \A j \in I : log'[j] = log[j]
      BY <1>1, <1>5, <1>9
    <2> HIDE DEF I
    <2> QED
      BY <2>1 DEF ValuesOf, KeptOf, LowersOf, MeansOf
  <1>11. key \in DOMAIN sinks' /\ th.agg \in DOMAIN Format(sinks'[key], 0)
    BY DEF HasVerdict
  <1>12. key \in DOMAIN sinks
    <2>1. PICK j \in I : TRUE
      BY <1>9
    <2>2. j \in 1 .. Len(log) /\ log[j].metric = key[1]
      BY <1>5, <1>9, <2>1 DEF FedOf
    <2> QED
      BY <1>1, <1>11, <2>2
  <1>13. key[1] \in DOMAIN metrics /\ DOMAIN Format(sinks[key], 0) = Keys(metrics[key[1]])
    BY <1>2, <1>12 DEF KeysKnown
  <1>14. DOMAIN Format(sinks'[key], 0) = Keys(metrics'[key[1]])
    BY <1>2, <1>11 DEF KeysKnown
  <1>15. metrics'[key[1]] = metrics[key[1]]
    BY <1>1, <1>13
  <1>16. HasVerdict(i)
    <2>1. Fed(<<th.metric, th.tag>>, judged.upto) = I
      BY <1>6 DEF Fed, FedOf
    <2>2. th.agg \in DOMAIN Format(sinks[key], 0)
      BY <1>11, <1>13, <1>14, <1>15
    <2> QED
      BY <1>9, <1>12, <2>1, <2>2 DEF HasVerdict
  <1>17. Judged(i) <=> JudgedOf(results[i], th, metrics[th.metric], ValuesOf(log, I), KeptOf(native, log, I),
                                 LowersOf(native, log, I), MeansOf(native, log, I), I, judged.lasted)
    BY <1>3, <1>8, <1>16 DEF JudgedAs
  <1>18. Judged(i)
    BY <1>16
  <1> QED
    BY <1>6, <1>9, <1>10, <1>15, <1>17, <1>18

(* Every verdict that an evaluation finds is that of the samples            *)
(* (evaluate_threshold()).                                                  *)
LEMMA EvaluateJudges ==
  ASSUME SinksInv, NEW d \in Durations, Evaluate(d), NEW i \in DOMAIN Thresholds, HasVerdict(i)'
  PROVE  Judged(i)'
  <1> DEFINE th == Thresholds[i]
             key == Sought(th)
             I == FedOf(log, key, Len(log))
             type == metrics[th.metric]
             stats == Format(EnsureSorted(sinks[key]), d)
             raw == ValuesOf(log, I)
             kept == KeptOf(native, log, I)
             lows == LowersOf(native, log, I)
             means == MeansOf(native, log, I)
  <1>1. /\ native' = native /\ metrics' = metrics /\ log' = log
        /\ judged'.upto = Len(log) /\ judged'.lasted = d
        /\ DOMAIN results' = DOMAIN Thresholds /\ results'[i] = Passed(th, d)
    BY DEF Evaluate
  <1>2. SinksInv' /\ DOMAIN sinks' = DOMAIN sinks
    BY EvaluateStep
  <1>3. key = <<th.metric, th.tag>> /\ key[1] = th.metric
    BY DEF Sought
  <1>4. About(i)' = I
    BY <1>1 DEF About
  <1>5. JudgedAs'
    BY JudgedIs, PTL
  <1>6. /\ I # {} /\ I \subseteq 1 .. Len(log)
        /\ Judged(i)' <=> JudgedOf(results'[i], th, type, raw, kept, lows, means, I, d)
    BY <1>1, <1>2, <1>4, <1>5 DEF JudgedAs
  <1>7. key \in DOMAIN sinks
    BY <1>2 DEF HasVerdict
  <1>8. Shows(stats, type, I, d)
    <2>1. Fed(key, Len(log)) = I
      BY DEF Fed, FedOf
    <2> QED
      BY <1>3, <1>7, <2>1, FedHolds
  <1>9. th.agg \in Keys(type)
    <2>1. KeysKnown'
      BY KeysAre, PTL
    <2>2. th.agg \in DOMAIN Format(sinks'[key], 0) /\ key \in DOMAIN sinks'
      BY DEF HasVerdict
    <2>3. DOMAIN Format(sinks'[key], 0) = Keys(metrics'[key[1]])
      BY <1>2, <2>1, <2>2 DEF KeysKnown
    <2> QED
      BY <1>1, <1>3, <2>2, <2>3
  <1>10. results'[i] <=> Compare(stats[th.agg], th.op, th.rhs)
    <2>1. th.agg \in DOMAIN stats
      BY <1>8, <1>9 DEF Shows
    <2>2. Lhs(th, d) = stats[th.agg]
      BY <2>1 DEF Lhs
    <2> HIDE DEF stats, key
    <2>3. Passed(th, d) = (key \in DOMAIN sinks => Compare(stats[th.agg], th.op, th.rhs))
      BY <2>2 DEF Passed, key
    <2> QED
      BY <2>3, <1>1, <1>7
  <1>11. /\ IsFiniteSet(I) /\ I \subseteq Int
         /\ \A j \in I : Trend(j) \in Int
    <2>1. Fed(key, Len(log)) = I
      BY DEF Fed, FedOf
    <2>2. Len(log) \in Nat /\ Len(log) <= Len(log)
      BY LenProperties DEF SinksInv, SinksHold
    <2> QED
      BY <1>6, <2>1, <2>2, FedValues
  <1> HIDE DEF I
  <1>12. CASE th.agg \notin DOMAIN Percentiles
    <2>1. stats[th.agg] = Statistic(th.agg, type, I, d)
      BY <1>6, <1>8, <1>9, <1>12 DEF Shows
    <2>2. Statistic(th.agg, type, I, d) = StatisticOf(raw, kept, lows, means, th.agg, type, I, d)
      BY <1>6, <1>11, StatisticIs
    <2>3. results'[i] <=> Compare(StatisticOf(raw, kept, lows, means, th.agg, type, I, d), th.op, th.rhs)
      BY <1>10, <2>1, <2>2
    <2> HIDE DEF stats, raw, kept, lows, means, type
    <2>4. JudgedOf(results'[i], th, type, raw, kept, lows, means, I, d)
      BY <1>12, <2>3 DEF JudgedOf
    <2> QED
      BY <1>6, <2>4 DEF raw, kept, lows, means, type
  <1>13. CASE th.agg \in DOMAIN Percentiles
    <2> DEFINE p == Percentiles[th.agg]
    <2>1. Splits(stats[th.agg], I, p) /\ Fraction(stats[th.agg])
      BY <1>6, <1>8, <1>9, <1>13 DEF Shows
    <2>2. \A j \in I : kept[j] = Trend(j) /\ kept[j] \in Int
      BY <1>11 DEF KeptOf, Trend, Raw
    <2>3. p \in 1 .. 99
      BY <1>13, PercentilesAre
    <2>4. PICK r : r = th.rhs
      OBVIOUS
    <2>5. r[1] \in Int /\ r[2] \in Nat \ {0}
      BY <2>4, SinksAssumption
    <2> HIDE DEF stats, p, kept
    <2>6. PICK x : x = stats[th.agg]
      OBVIOUS
    <2>7. Splits(x, I, p) /\ Fraction(x)
      BY <2>1, <2>6
    <2>8. PICK k : k = kept
      OBVIOUS
    <2>9. \A j \in I : k[j] = Trend(j) /\ k[j] \in Int
      BY <2>2, <2>8
    <2>10. BoundKept(Compare(x, "<", r), k, I, p, r)
      BY <1>11, <2>3, <2>5, <2>7, <2>9, PercentileJudged
    <2>11. th.op = "<" => (results'[i] <=> Compare(x, "<", r))
      BY <1>10, <2>4, <2>6
    <2>12. th.op = "<" =>
             BoundKept(results'[i], kept, I, p, th.rhs)
      BY <2>4, <2>8, <2>10, <2>11 DEF BoundKept
    <2>13. JudgedOf(results'[i], th, type, raw, kept, lows, means, I, d)
      BY <1>13, <2>12 DEF JudgedOf, p
    <2> QED
      BY <1>6, <2>13 DEF kept
  <1> QED
    BY <1>12, <1>13

(* Every sink is at any time the sink of its samples, and every verdict that*)
(* of the samples it was found on: the inductive invariant, which is the    *)
(* representation of the samples by each of the five sinks.                 *)
THEOREM SinksInvariant ==
  SinksSpec => [](SinksInv /\ VerdictsFollowSamples)
  <1>1. SinksInit => SinksInv /\ VerdictsFollowSamples
    <2>1. SinksInit => DOMAIN results = {}
      BY DEF SinksInit
    <2> QED
      BY <2>1, SinksInvInit, VerdictsAre
  <1>2. SinksInv /\ VerdictsFollowSamples /\ [SinksNext]_sinksVars => (SinksInv /\ VerdictsFollowSamples)'
    <2> SUFFICES ASSUME SinksInv, VerdictsFollowSamples, [SinksNext]_sinksVars
                 PROVE  SinksInv' /\ VerdictsFollowSamples'
      OBVIOUS
    <2>0. VerdictsFollowSamples' <=> (\A i \in DOMAIN results : HasVerdict(i) => Judged(i))'
      BY VerdictsAre, PTL
    <2>1. ASSUME SinksInv', Grows PROVE VerdictsFollowSamples'
      <3>1. DOMAIN results' = DOMAIN results
        BY <2>1 DEF Grows
      <3>2. ASSUME NEW i \in DOMAIN results, HasVerdict(i)'
            PROVE  Judged(i)'
        <4>1. HasVerdict(i) => Judged(i)
          BY VerdictsAre
        <4> QED
          BY <2>1, <3>2, <4>1, GrowsKeeps
      <3>3. (\A i \in DOMAIN results : HasVerdict(i) => Judged(i))'
        BY <3>1, <3>2
      <3> QED
        BY <2>0, <3>3
    <2>2. CASE \E s \in Sample : Record(s)
      BY <2>1, <2>2, RecordStep
    <2>3. CASE \E verdicts \in Checked : Check(verdicts)
      BY <2>1, <2>3, CheckStep
    <2>4. CASE Snapshot
      BY <2>1, <2>4, SnapshotStep
    <2>5. CASE \E d \in Durations : Evaluate(d)
      <3>1. PICK d \in Durations : Evaluate(d)
        BY <2>5
      <3>2. SinksInv'
        BY <3>1, EvaluateStep
      <3>3. DOMAIN results' = DOMAIN Thresholds
        BY <3>1 DEF Evaluate
      <3>4. ASSUME NEW i \in DOMAIN Thresholds, HasVerdict(i)'
            PROVE  Judged(i)'
        BY <3>1, <3>4, EvaluateJudges
      <3>5. (\A i \in DOMAIN results : HasVerdict(i) => Judged(i))'
        BY <3>3, <3>4
      <3> QED
        BY <2>0, <3>2, <3>5
    <2>6. CASE UNCHANGED sinksVars
      <3>1. /\ native' = native /\ metrics' = metrics /\ sinks' = sinks /\ results' = results
            /\ log' = log /\ judged' = judged
        BY <2>6 DEF sinksVars
      <3>2. Grows
        BY <3>1 DEF Grows
      <3>3. SinksInv'
        BY <3>1 DEF SinksInv
      <3> QED
        BY <2>1, <3>2, <3>3
    <2> QED
      BY <2>2, <2>3, <2>4, <2>5, <2>6 DEF SinksNext
  <1> QED
    BY <1>1, <1>2, PTL DEF SinksSpec

(* For any samples, checks, thresholds, buckets and bounds, every statistic *)
(* shown is that of exactly the samples recorded so far (add(), format(),   *)
(* percentile(), value_at_quantile(), _ensure_sorted(), _ingest()).         *)
THEOREM StatisticsAlwaysFollowSamples ==
  SinksSpec => []StatisticsFollowSamples
  BY SinksInvariant, SinksInvStatistics, PTL

(* Whatever the samples and the widths of the buckets, no statistic of a    *)
(* native trend is more than 0.1% off that of its samples, and a percentile *)
(* is as near to a sample of its rank (native.py:62-74, histogram.rs).      *)
THEOREM StaysWithinPrecision == SinksSpec => []WithinPrecision
  BY SinksInvariant, SinksInvPrecision, PTL

(* For any samples, checks, thresholds and bounds, a threshold that finds a *)
(* sink with samples and the aggregation it names is passed or failed by the*)
(* samples with its tag, then and ever after (evaluate_thresholds(),        *)
(* evaluate_threshold()).                                                   *)
THEOREM VerdictsAlwaysFollowSamples ==
  SinksSpec => []VerdictsFollowSamples
  BY SinksInvariant, PTL
=============================================================================
