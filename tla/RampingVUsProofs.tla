-------------------------- MODULE RampingVUsProofs --------------------------
(***************************************************************************)
(* Proofs about RampingVUs, for any stages and any set of VUs: types, and   *)
(* that run() leaves no VU behind when it returns, and *)
(* that the ramp never goes beyond its targets.                            *)
(***************************************************************************)
EXTENDS RampingVUs, FiniteSetTheorems, TLAPS

Place == {"none", "new", "gate", "woken", "iter"}

UserStep == Stop \/ Pause \/ Resume \/ Cancel

LEMMA NextCases ==
  ASSUME [Next]_vars
  PROVE  Scheduler \/ (\E v \in VU : VuStep(v)) \/ UserStep \/ UNCHANGED vars
  BY DEF Next, UserStep

-----------------------------------------------------------------------------
(* The VUs.  Only a step of a stage creates any.                           *)

LEMMA VuPlaces ==
  ASSUME vu \in [VU -> Place], [Next]_vars
  PROVE  vu' \in [VU -> Place]
  <1>1. CASE Scheduler
    <2>1. CASE Step
      BY <2>1 DEF Step, Place
    <2>2. CASE ~Step
      <3>1. vu' = vu
        BY <1>1, <2>2 DEF Scheduler, Wake, SchedulerCut, StagesEnd, Reap, Reaped, ReapEnd
      <3> QED BY <3>1
    <2> QED BY <2>1, <2>2
  <1>2. CASE \E v \in VU : VuStep(v)
    <2> PICK v \in VU : VuStep(v) BY <1>2
    <2>1. \E place \in Place : vu' = [vu EXCEPT ![v] = place]
      <3>1. CASE VuStarts(v) \/ IterationEnds(v)
        BY <3>1 DEF VuStarts, IterationEnds, Around, Place
      <3>2. CASE PassesGate(v) \/ CleanupRaises(v) \/ VuCancelled(v)
        BY <3>2 DEF PassesGate, CleanupRaises, VuCancelled, Place
      <3> QED BY <3>1, <3>2 DEF VuStep
    <2> QED BY <2>1
  <1>3. CASE UserStep
    <2>1. CASE Resume
      BY <2>1 DEF Resume, Place
    <2>2. CASE ~Resume
      BY <1>3, <2>2 DEF UserStep, Stop, Pause, Cancel
    <2> QED BY <2>1, <2>2
  <1>4. CASE UNCHANGED vars
    BY <1>4 DEF vars
  <1> QED BY <1>1, <1>2, <1>3, <1>4, NextCases

LEMMA NobodyNew ==
  ASSUME vu \in [VU -> Place], [Next]_vars, ~Step
  PROVE  Live' \subseteq Live
  <1>1. CASE Scheduler
    BY <1>1 DEF Scheduler, Wake, SchedulerCut, StagesEnd, Reap, Reaped, ReapEnd, Live
  <1>2. CASE \E v \in VU : VuStep(v)
    <2> PICK v \in VU : VuStep(v) BY <1>2
    <2>1. vu[v] # "none"
      <3>1. CASE VuStarts(v) \/ IterationEnds(v) BY <3>1 DEF VuStarts, IterationEnds
      <3>2. CASE PassesGate(v) \/ CleanupRaises(v) \/ VuCancelled(v)
        BY <3>2 DEF PassesGate, CleanupRaises, VuCancelled
      <3> QED BY <3>1, <3>2 DEF VuStep
    <2>2. \A w \in VU \ {v} : vu'[w] = vu[w]
      <3>1. CASE VuStarts(v) \/ IterationEnds(v)
        BY <3>1 DEF VuStarts, IterationEnds, Around
      <3>2. CASE PassesGate(v) \/ CleanupRaises(v) \/ VuCancelled(v)
        BY <3>2 DEF PassesGate, CleanupRaises, VuCancelled
      <3> QED BY <3>1, <3>2 DEF VuStep
    <2> QED BY <2>1, <2>2 DEF Live
  <1>3. CASE UserStep
    <2>1. CASE Resume
      BY <2>1 DEF Resume, Live
    <2>2. CASE ~Resume
      BY <1>3, <2>2 DEF UserStep, Stop, Pause, Cancel, Live
    <2> QED BY <2>1, <2>2
  <1>4. CASE UNCHANGED vars
    BY <1>4 DEF vars, Live
  <1> QED BY <1>1, <1>2, <1>3, <1>4, NextCases

-----------------------------------------------------------------------------
(* Types.                                                                  *)

Progress ==
  /\ pc \in {"step", "sleep", "reap", "await", "done", "raised", "cut"}
  /\ stage \in 1 .. Len(Stages) + 1 /\ step \in Nat
  /\ stage <= Len(Stages) => step < Stages[stage].steps
  /\ pc = "sleep" => stage <= Len(Stages)

LEMMA StagesShape ==
  /\ Len(Stages) \in Nat
  /\ \A s \in 1 .. Len(Stages) : Stages[s].steps \in Nat \ {0}
  <1> DEFINE Stage == [steps : Nat \ {0}, target : 0 .. Cardinality(VU)]
  <1>1. Stages \in Seq(Stage)
    BY RampingVUsAssumption
  <1>2. \A r \in Stage : r.steps \in Nat \ {0}
    OBVIOUS
  <1> HIDE DEF Stage
  <1>3. Len(Stages) \in Nat /\ \A s \in 1 .. Len(Stages) : Stages[s] \in Stage
    BY <1>1
  <1> QED BY <1>2, <1>3

LEMMA ProgressStep == ASSUME Progress, [Next]_vars PROVE Progress'
  <1> USE StagesShape DEF Progress
  <1>1. CASE Scheduler
    <2>1. CASE Wake
      BY <2>1 DEF Wake
    <2>2. CASE Step \/ SchedulerCut
      BY <2>2 DEF Step, SchedulerCut
    <2>3. CASE StagesEnd \/ (\E v \in VU : Reap(v)) \/ Reaped \/ ReapEnd
      BY <2>3 DEF StagesEnd, Reap, Reaped, ReapEnd
    <2> QED BY <1>1, <2>1, <2>2, <2>3 DEF Scheduler
  <1>2. CASE (\E v \in VU : VuStep(v)) \/ UserStep \/ UNCHANGED vars
    <2>1. UNCHANGED <<pc, stage, step>>
      BY <1>2 DEF VuStep, VuStarts, PassesGate, IterationEnds, CleanupRaises, VuCancelled,
                  UserStep, Stop, Pause, Resume, Cancel, schedulerVars, vars
    <2> QED BY <2>1
  <1> QED BY <1>1, <1>2, NextCases

Reaping == todo \subseteq VU /\ awaited \in VU \cup {NoVU}

LEMMA ReapingStep == ASSUME Reaping, [Next]_vars PROVE Reaping'
  <1> USE DEF Reaping
  <1>1. CASE Scheduler
    BY <1>1 DEF Scheduler, Step, Wake, SchedulerCut, StagesEnd, Reap, Reaped, ReapEnd, Live
  <1>2. CASE (\E v \in VU : VuStep(v)) \/ UserStep \/ UNCHANGED vars
    BY <1>2 DEF VuStep, VuStarts, PassesGate, IterationEnds, CleanupRaises, VuCancelled,
                UserStep, Stop, Pause, Resume, Cancel, schedulerVars, vars
  <1> QED BY <1>1, <1>2, NextCases

Flags == {broken, crashed, abort, paused, cut} \subseteq BOOLEAN

LEMMA FlagsStep == ASSUME Flags, [Next]_vars PROVE Flags'
  <1> USE DEF Flags, userVars
  <1>1. CASE Scheduler
    BY <1>1 DEF Scheduler, Step, Wake, SchedulerCut, StagesEnd, Reap, Reaped, ReapEnd
  <1>2. CASE \E v \in VU : VuStep(v)
    BY <1>2 DEF VuStep, VuStarts, PassesGate, IterationEnds, CleanupRaises, VuCancelled
  <1>3. CASE UserStep \/ UNCHANGED vars
    BY <1>3 DEF UserStep, Stop, Pause, Resume, Cancel, vars
  <1> QED BY <1>1, <1>2, <1>3, NextCases

Typed == vu \in [VU -> Place] /\ Progress /\ Reaping /\ Flags

LEMMA TypedInductive == Spec => []Typed
  <1>1. Init => Typed
    <2> SUFFICES ASSUME Init PROVE Typed OBVIOUS
    <2>1. Progress
      BY StagesShape DEF Init, Progress
    <2>2. vu \in [VU -> Place] /\ Reaping
      BY DEF Init, Place, Reaping
    <2>3. Flags
      BY DEF Init, Flags
    <2> QED BY <2>1, <2>2, <2>3 DEF Typed
  <1>2. Typed /\ [Next]_vars => Typed'
    BY VuPlaces, ProgressStep, ReapingStep, FlagsStep DEF Typed
  <1> QED BY <1>1, <1>2, PTL DEF Spec

(* Every variable keeps its type, for any stages and any VUs; in particular *)
(* the scheduler never looks for a step its stage does not have.           *)
THEOREM TypeCorrect == Spec => []TypeOK
  <1>1. Typed => TypeOK
    BY DEF Typed, TypeOK, Progress, Reaping, Flags, Place
  <1> QED BY <1>1, TypedInductive, PTL

-----------------------------------------------------------------------------
(* The final loop.                                                         *)

(* Whoever is alive is still to be reaped.                                 *)
Reapable ==
  /\ pc = "reap"  => Live \subseteq todo
  /\ pc = "await" => Live \subseteq todo \cup {awaited}
  /\ CleanExit

LEMMA ReapableInductive == Spec => []Reapable
  <1>1. Init => Reapable
    BY DEF Init, Reapable, CleanExit
  <1>2. Typed /\ Reapable /\ [Next]_vars => Reapable'
    <2> SUFFICES ASSUME Typed, Reapable, [Next]_vars PROVE Reapable' OBVIOUS
    <2> USE DEF Reapable, CleanExit
    <2>1. CASE Step
      BY <2>1 DEF Step
    <2>2. CASE Wake \/ SchedulerCut
      BY <2>2 DEF Wake, SchedulerCut
    <2>3. CASE StagesEnd
      BY <2>3 DEF StagesEnd, Live
    <2>4. CASE \E v \in VU : Reap(v)
      BY <2>4 DEF Reap, Live
    <2>5. CASE Reaped
      <3>1. Live \subseteq todo /\ Live' = Live /\ todo' = todo
        BY <2>5 DEF Reaped, Live
      <3> QED BY <2>5, <3>1 DEF Reaped
    <2>6. CASE ReapEnd
      <3>1. Live = {} /\ Live' = Live
        BY <2>6 DEF ReapEnd, Live
      <3> QED BY <2>6, <3>1 DEF ReapEnd
    <2>7. CASE (\E v \in VU : VuStep(v)) \/ UserStep \/ UNCHANGED vars
      <3>1. UNCHANGED <<pc, todo, awaited>>
        BY <2>7 DEF VuStep, VuStarts, PassesGate, IterationEnds, CleanupRaises, VuCancelled,
                    UserStep, Stop, Pause, Resume, Cancel, schedulerVars, vars
      <3>2. CASE Step
        BY <2>1, <3>2
      <3>3. CASE ~Step
        <4>1. Live' \subseteq Live
          BY <3>3, NobodyNew DEF Typed
        <4> QED BY <3>1, <4>1
      <3> QED BY <3>2, <3>3
    <2> QED BY <2>1, <2>2, <2>3, <2>4, <2>5, <2>6, <2>7, NextCases DEF Scheduler
  <1> QED BY <1>1, <1>2, TypedInductive, PTL DEF Spec

(* When run() returns, every VU it ever created is done, although VUs go on *)
(* iterating, end and die while others are cancelled and awaited.          *)
THEOREM ExitIsClean == Spec => []CleanExit
  BY ReapableInductive, PTL DEF Reapable


-----------------------------------------------------------------------------
(* The number of VUs.                                                      *)

LEMMA Targets ==
  ASSUME NEW s \in 1 .. Len(Stages)
  PROVE  /\ Stages[s].steps \in Nat \ {0}
         /\ Stages[s].target \in Nat
         /\ From(s) \in Nat
  <1> DEFINE Stage == [steps : Nat \ {0}, target : 0 .. Cardinality(VU)]
  <1>0. Cardinality(VU) \in Nat
    BY RampingVUsAssumption, FS_CardinalityType
  <1>1. Stages \in Seq(Stage)
    BY RampingVUsAssumption
  <1>2. \A r \in Stage : r.steps \in Nat \ {0} /\ r.target \in Nat
    BY <1>0
  <1> HIDE DEF Stage
  <1>3. Len(Stages) \in Nat /\ \A i \in 1 .. Len(Stages) : Stages[i] \in Stage
    BY <1>1
  <1>4. StartVUs \in Nat
    BY <1>0, RampingVUsAssumption
  <1>5. ASSUME s # 1 PROVE s - 1 \in 1 .. Len(Stages)
    BY <1>3, <1>5
  <1> QED BY <1>2, <1>3, <1>4, <1>5 DEF From

(* The division rounds down: a quotient is at most the bound of its        *)
(* dividend.                                                               *)
LEMMA QuotientBound ==
  ASSUME NEW a \in Int, NEW n \in Nat \ {0}, NEW m \in Int, a <= m * n
  PROVE  a \div n <= m /\ a \div n \in Int
  <1> DEFINE q == a \div n
  <1>1. q \in Int /\ n * q <= a
    OBVIOUS
  <1> HIDE DEF q
  <1>2. ASSUME q >= m + 1 PROVE FALSE
    <2>1. n * q >= n * (m + 1)
      BY <1>1, <1>2
    <2>2. n * (m + 1) = m * n + n
      OBVIOUS
    <2> QED BY <1>1, <2>1, <2>2
  <1> QED BY <1>1, <1>2 DEF q

(* What a step asks for lies between the two ends of its stage.            *)
LEMMA DesiredBounded ==
  ASSUME NEW s \in 1 .. Len(Stages), NEW k \in Nat, k < Stages[s].steps
  PROVE  /\ Desired(s, k) \in Int
         /\ \E n \in {Stages[s].target, From(s)} : Desired(s, k) <= n
  <1> DEFINE f == From(s)
             t == Stages[s].target
             n == Stages[s].steps
             a == f * n + (t - f) * (k + 1)
  <1>1. f \in Nat /\ t \in Nat /\ n \in Nat \ {0}
    BY Targets
  <1>2. Desired(s, k) = a \div n
    BY DEF Desired
  <1>3. k + 1 \in Nat /\ n - (k + 1) \in Nat
    BY <1>1
  <1> HIDE DEF f, t, n
  <1>4. a \in Int
    BY <1>1
  <1>5. CASE f <= t
    <2>1. (t - f) * (k + 1) <= (t - f) * n
      BY <1>1, <1>3, <1>5
    <2>2. f * n + (t - f) * n = t * n
      BY <1>1
    <2>3. a <= t * n
      BY <1>1, <2>1, <2>2
    <2>4. a \div n <= t /\ a \div n \in Int
      BY <1>1, <1>4, <2>3, QuotientBound
    <2> QED BY <1>2, <2>4 DEF f, t
  <1>6. CASE t < f
    <2>1. (t - f) * (k + 1) <= 0
      BY <1>1, <1>3, <1>6
    <2>2. a <= f * n
      BY <1>1, <2>1
    <2>3. a \div n <= f /\ a \div n \in Int
      BY <1>1, <1>4, <2>2, QuotientBound
    <2> QED BY <1>2, <2>3 DEF f, t
  <1> QED BY <1>1, <1>5, <1>6

LEMMA LiveFinite == IsFiniteSet(Live) /\ Cardinality(Live) \in Nat
  <1>1. Live \in SUBSET VU
    BY DEF Live
  <1> QED BY <1>1, RampingVUsAssumption, FS_Subset, FS_CardinalityType

LEMMA FewerLive ==
  ASSUME NEW S, NEW T, T \subseteq S, IsFiniteSet(S)
  PROVE  Cardinality(T) <= Cardinality(S) /\ Cardinality(T) \in Nat
  BY FS_Subset, FS_CardinalityType

LEMMA MaxWithZero ==
  ASSUME NEW d \in Int
  PROVE  Max({0, d}) = IF d > 0 THEN d ELSE 0
  BY DEF Max

(* After a step there are as many as before or as many as it asked for.    *)
LEMMA StepLive ==
  ASSUME Typed, Step
  PROVE  Cardinality(Live') \in {Cardinality(Live), Desired(stage, step)}
  <1>1. PICK new \in SUBSET (VU \ Live) :
          /\ Cardinality(new) = Max({0, Desired(stage, step) - Cardinality(Live)})
          /\ vu' = [v \in VU |-> IF v \in new THEN "new" ELSE vu[v]]
    BY DEF Step
  <1>2. stage \in 1 .. Len(Stages) /\ step \in Nat /\ step < Stages[stage].steps
    BY StagesShape DEF Step, Typed, Progress
  <1>3. Desired(stage, step) \in Int
    BY <1>2, DesiredBounded
  <1>4. Live' = Live \cup new /\ Live \cap new = {}
    BY <1>1 DEF Live
  <1>5. IsFiniteSet(new)
    <2>1. new \in SUBSET VU
      BY <1>1
    <2> QED BY <2>1, RampingVUsAssumption, FS_Subset
  <1>6. Cardinality(Live \cup new) = Cardinality(Live) + Cardinality(new)
    <2>1. Cardinality(Live \cup new) = Cardinality(Live) + Cardinality(new) - Cardinality(Live \cap new)
      BY <1>5, LiveFinite, FS_Union
    <2>2. Cardinality(Live \cap new) = 0
      BY <1>4, FS_EmptySet
    <2>3. Cardinality(new) \in Nat
      BY <1>5, FS_CardinalityType
    <2> QED BY <2>1, <2>2, <2>3, LiveFinite
  <1>7. Cardinality(new) = IF Desired(stage, step) - Cardinality(Live) > 0
                             THEN Desired(stage, step) - Cardinality(Live) ELSE 0
    BY <1>1, <1>3, LiveFinite, MaxWithZero
  <1> QED BY <1>3, <1>4, <1>6, <1>7, LiveFinite

LEMMA OvershootStep ==
  ASSUME Typed, NeverOvershoots, [Next]_vars
  PROVE  NeverOvershoots'
  <1> DEFINE Bounded(c, last) ==
        \E s \in 1 .. last : /\ s <= Len(Stages)
                             /\ \E n \in {Stages[s].target, From(s)} : c <= n
  <1>0. stage \in Nat /\ stage >= 1 /\ stage \in 1 .. Len(Stages) + 1 /\ Len(Stages) \in Nat
    BY StagesShape DEF Typed, Progress
  <1>1. CASE Step
    <2>1. stage' = stage
      BY <1>1 DEF Step
    <2>2. CASE Cardinality(Live') = Cardinality(Live)
      <3>1. IsFiniteSet(Live')
        <4>1. Live' \in SUBSET VU
          BY DEF Live
        <4> QED BY <4>1, RampingVUsAssumption, FS_Subset
      <3>2. Live' # {} => Live # {}
        BY <2>2, <3>1, LiveFinite, FS_EmptySet
      <3> QED BY <2>1, <2>2, <3>2 DEF NeverOvershoots
    <2>3. CASE Cardinality(Live') = Desired(stage, step)
      <3>1. stage \in 1 .. Len(Stages) /\ step \in Nat /\ step < Stages[stage].steps
        BY <1>1, StagesShape DEF Step, Typed, Progress
      <3>2. \E n \in {Stages[stage].target, From(stage)} : Desired(stage, step) <= n
        BY <3>1, DesiredBounded
      <3>3. stage \in 1 .. stage /\ stage <= Len(Stages)
        BY <1>0, <3>1
      <3> QED BY <2>1, <2>3, <3>2, <3>3 DEF NeverOvershoots
    <2> QED BY <1>1, <2>2, <2>3, StepLive
  <1>2. CASE ~Step
    <2>1. Live' \subseteq Live
      BY <1>2, NobodyNew DEF Typed
    <2>2. Cardinality(Live') <= Cardinality(Live) /\ Cardinality(Live') \in Nat /\ Cardinality(Live) \in Nat
      BY <2>1, LiveFinite, FewerLive
    <2>3. stage' \in Nat /\ stage <= stage'
      <3>1. stage' = stage \/ stage' = stage + 1
        BY <1>2, NextCases DEF Scheduler, Wake, SchedulerCut, StagesEnd, Reap, Reaped, ReapEnd,
           VuStep, VuStarts, PassesGate, IterationEnds, CleanupRaises, VuCancelled,
           UserStep, Stop, Pause, Resume, Cancel, schedulerVars, vars
      <3> QED BY <1>0, <3>1
    <2>4. SUFFICES ASSUME Live' # {} PROVE Bounded(Cardinality(Live'), stage')
      BY DEF NeverOvershoots
    <2>5. PICK s \in 1 .. stage : /\ s <= Len(Stages)
                                  /\ \E n \in {Stages[s].target, From(s)} : Cardinality(Live) <= n
      BY <2>1, <2>4 DEF NeverOvershoots
    <2>6. PICK n \in {Stages[s].target, From(s)} : Cardinality(Live) <= n
      BY <2>5
    <2>7. s \in 1 .. stage' /\ s \in 1 .. Len(Stages)
      BY <1>0, <2>3, <2>5
    <2>8. n \in Nat
      BY <2>7, Targets
    <2>9. Cardinality(Live') <= n
      BY <2>2, <2>6, <2>8
    <2> QED BY <2>5, <2>7, <2>9
  <1> QED BY <1>1, <1>2

(* For any stages, up and down, and whoever dies meanwhile and is replaced: *)
(* never more VUs than a stage that has begun asks for at one of its ends.  *)
THEOREM RampNeverOvershoots == Spec => []NeverOvershoots
  <1>1. Init => NeverOvershoots
    BY DEF Init, NeverOvershoots, Live
  <1>2. Typed /\ NeverOvershoots /\ [Next]_vars => NeverOvershoots'
    BY OvershootStep
  <1> QED BY <1>1, <1>2, TypedInductive, PTL DEF Spec
=============================================================================
