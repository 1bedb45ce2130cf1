------------------------- MODULE ArrivalRateProofs -------------------------
(***************************************************************************)
(* Proofs about ArrivalRate, for any interval, duration and number of VUs:  *)
(* types, the semaphore, the account of the ticks, the schedule, and how    *)
(* many ticks a stopped scheduler still takes; and about RampingArrivalRate, *)
(* for any stages, rates and number of VUs: the accounts of ArrivalRate are *)
(* kept by this scheduler too, and no stage offers more load than its       *)
(* higher rate.                                                            *)
(***************************************************************************)
EXTENDS RampingArrivalRate, SequenceTheorems, TLAPS

UserStep == Stop \/ Pause \/ Resume \/ Cancel \/ Tick

LEMMA NextCases ==
  ASSUME [Next]_vars
  PROVE  Scheduler \/ Iteration \/ UserStep \/ UNCHANGED vars
  BY DEF Next, UserStep

-----------------------------------------------------------------------------
(* Types.                                                                  *)

(* TypeOK, one variable at a time.                                         *)
Numbers ==
  /\ clock \in Nat /\ tick \in Nat /\ sem \in Nat
  /\ fresh \in Nat /\ gate \in Nat /\ woken \in Nat /\ running \in Nat /\ ended \in Nat
  /\ dropped \in Nat /\ late \in Nat

Flags ==
  /\ pc \in {"loop", "sleep", "arrive", "yield", "left"}
  /\ abort \in BOOLEAN /\ paused \in BOOLEAN /\ cut \in BOOLEAN

LEMMA TypeParts == (TypeOK <=> Numbers /\ Flags) /\ (TypeOK' <=> Numbers' /\ Flags')
  BY DEF TypeOK, Numbers, Flags

LEMMA NumbersStep == ASSUME Numbers, Scheduler \/ Iteration \/ UserStep PROVE Numbers'
  <1> USE DEF Numbers, schedulerVars, taskVars, userVars
  <1>1. CASE Scheduler
    BY <1>1 DEF Scheduler, Leave, NextTick, Wake, Drop, AfterYield, Spawn, SchedulerCut, CountLate
  <1>2. CASE Iteration
    <2>1. CASE IterationStarts BY <2>1 DEF IterationStarts
    <2>2. CASE PassesGate BY <2>2 DEF PassesGate
    <2>3. CASE IterationEnds \/ CleanupRaises
      BY <2>3 DEF IterationEnds, CleanupRaises
    <2>4. CASE FreshCut \/ WaiterCut \/ IterationCut
      BY <2>4 DEF FreshCut, WaiterCut, IterationCut
    <2> QED BY <1>2, <2>1, <2>2, <2>3, <2>4 DEF Iteration
  <1>3. CASE UserStep
    BY <1>3 DEF UserStep, Stop, Pause, Resume, Cancel, Tick
  <1> QED BY <1>1, <1>2, <1>3

LEMMA FlagsStep == ASSUME Flags, Scheduler \/ Iteration \/ UserStep PROVE Flags'
  <1> USE DEF Flags, schedulerVars, userVars
  <1>1. CASE Scheduler
    BY <1>1 DEF Scheduler, Leave, NextTick, Wake, Drop, AfterYield, Spawn, SchedulerCut
  <1>2. CASE Iteration
    BY <1>2 DEF Iteration, IterationStarts, PassesGate, IterationEnds, CleanupRaises,
                FreshCut, WaiterCut, IterationCut
  <1>3. CASE UserStep
    BY <1>3 DEF UserStep, Stop, Pause, Resume, Cancel, Tick
  <1> QED BY <1>1, <1>2, <1>3

(* Every variable keeps its type, for any constants: the value of the      *)
(* semaphore and the numbers of iterations never fall below zero.          *)
THEOREM TypeCorrect == Spec => []TypeOK
  <1>1. Init => TypeOK
    <2>1. MaxVUs \in Nat
      BY ArrivalRateAssumption
    <2>2. Init => Numbers
      BY <2>1 DEF Init, Numbers
    <2>3. Init => Flags
      BY DEF Init, Flags
    <2> QED BY <2>2, <2>3, TypeParts
  <1>2. TypeOK /\ [Next]_vars => TypeOK'
    <2> SUFFICES ASSUME TypeOK, [Next]_vars PROVE TypeOK' OBVIOUS
    <2>1. CASE UNCHANGED vars
      BY <2>1 DEF TypeOK, vars, taskVars, userVars
    <2> QED BY <2>1, NextCases, NumbersStep, FlagsStep, TypeParts
  <1> QED BY <1>1, <1>2, PTL DEF Spec

-----------------------------------------------------------------------------
(* The semaphore and the ticks.                                            *)

(* The numbers the two accounts add up.                                    *)
Counts == {sem, fresh, gate, woken, running, ended, dropped, tick, MaxVUs} \subseteq Int

LEMMA AreCounts == ASSUME Numbers PROVE Counts
  BY ArrivalRateAssumption DEF Numbers, Counts

Account == SemaphoreExact /\ TicksAccounted

LEMMA AccountScheduler ==
  ASSUME Numbers, Account, Scheduler PROVE Account'
  <1> USE AreCounts
      DEF Counts, Account, SemaphoreExact, TicksAccounted, InFlight, taskVars, userVars
  <1>1. CASE Leave \/ NextTick \/ Wake \/ SchedulerCut
    BY <1>1 DEF Leave, NextTick, Wake, SchedulerCut
  <1>2. CASE Drop
    BY <1>2 DEF Drop
  <1>3. CASE AfterYield
    BY <1>3 DEF AfterYield
  <1>4. CASE Spawn
    BY <1>4 DEF Spawn
  <1> QED BY <1>1, <1>2, <1>3, <1>4 DEF Scheduler

LEMMA AccountIteration ==
  ASSUME Numbers, Account, Iteration PROVE Account'
  <1> USE AreCounts
      DEF Counts, Account, SemaphoreExact, TicksAccounted, InFlight, schedulerVars, userVars
  <1>1. CASE IterationStarts \/ PassesGate
    BY <1>1 DEF IterationStarts, PassesGate
  <1>2. CASE IterationEnds \/ CleanupRaises
    BY <1>2 DEF IterationEnds, CleanupRaises
  <1>3. CASE FreshCut \/ WaiterCut \/ IterationCut
    BY <1>3 DEF FreshCut, WaiterCut, IterationCut
  <1> QED BY <1>1, <1>2, <1>3 DEF Iteration

LEMMA AccountUser ==
  ASSUME Numbers, Account, UserStep PROVE Account'
  <1> USE AreCounts
      DEF Counts, Account, SemaphoreExact, TicksAccounted, InFlight, schedulerVars, taskVars, userVars
  <1>1. CASE Stop \/ Pause \/ Cancel \/ Tick
    BY <1>1 DEF Stop, Pause, Cancel, Tick
  <1>2. CASE Resume
    BY <1>2 DEF Resume
  <1> QED BY <1>1, <1>2 DEF UserStep

LEMMA AccountInductive == Spec => []Account
  <1>1. Init => Account
    BY ArrivalRateAssumption DEF Init, Account, SemaphoreExact, TicksAccounted, InFlight
  <1>2. TypeOK /\ Account /\ [Next]_vars => Account'
    <2> SUFFICES ASSUME TypeOK, Account, [Next]_vars PROVE Account' OBVIOUS
    <2>1. CASE UNCHANGED vars
      BY <2>1 DEF Account, SemaphoreExact, TicksAccounted, InFlight, vars, taskVars, userVars
    <2> QED BY <2>1, NextCases, TypeParts, AccountScheduler, AccountIteration, AccountUser
  <1> QED BY <1>1, <1>2, TypeCorrect, PTL DEF Spec

(* At most max_vus iterations are in flight, and unless the TaskGroup was   *)
(* aborted the semaphore holds exactly what they leave of max_vus, whatever *)
(* the order of starts, pauses, ends and failures.                         *)
THEOREM SemaphoreIsExact == Spec => []SemaphoreExact
  BY AccountInductive, PTL DEF Account

(* Each tick taken is an iteration in flight, one that ended or one counted *)
(* as dropped, until the TaskGroup is aborted.                             *)
THEOREM EveryTickAccounted == Spec => []TicksAccounted
  BY AccountInductive, PTL DEF Account

-----------------------------------------------------------------------------
(* The schedule.                                                           *)

(* When the scheduler is at a tick, the tick is due; and it only gets there *)
(* for ticks that begin before the end, or one interval after.             *)
Timely ==
  /\ OnSchedule
  /\ pc \in {"arrive", "yield"} => target <= clock
  /\ pc \in {"sleep", "arrive", "yield"} => target < Duration + Interval

LEMMA OneTickLess ==
  /\ \A n \in Nat : n * Interval \in Nat
  /\ \A n \in Nat : (n - 1) * Interval = n * Interval - Interval
  /\ \A n \in Nat : ((n + 1) - 1) * Interval = n * Interval
  BY ArrivalRateAssumption

LEMMA TimelyScheduler ==
  ASSUME TypeOK, Timely, Scheduler PROVE Timely'
  <1> USE ArrivalRateAssumption, OneTickLess DEF TypeOK, Timely, OnSchedule, target
  <1>1. CASE Leave \/ Wake \/ SchedulerCut
    BY <1>1 DEF Leave, Wake, SchedulerCut
  <1>2. CASE NextTick
    <2>1. tick * Interval < Duration + Interval
      <3>1. CASE tick = 0
        BY <3>1
      <3>2. CASE tick > 0
        BY <1>2, <3>2 DEF NextTick
      <3> QED BY <3>1, <3>2
    <2> QED BY <1>2, <2>1 DEF NextTick
  <1>3. CASE Drop
    BY <1>3 DEF Drop
  <1>4. CASE AfterYield
    BY <1>4 DEF AfterYield
  <1>5. CASE Spawn
    BY <1>5 DEF Spawn
  <1> QED BY <1>1, <1>2, <1>3, <1>4, <1>5 DEF Scheduler

LEMMA TimelyOther ==
  ASSUME TypeOK, Timely, Iteration \/ UserStep \/ UNCHANGED vars PROVE Timely'
  <1>1. /\ pc' = pc /\ tick' = tick
        /\ clock' \in Nat /\ clock' >= clock
    <2>1. CASE Iteration
      BY <2>1 DEF TypeOK, Iteration, IterationStarts, PassesGate, IterationEnds, CleanupRaises,
                  FreshCut, WaiterCut, IterationCut, schedulerVars
    <2>2. CASE UserStep
      BY <2>2 DEF TypeOK, UserStep, Stop, Pause, Resume, Cancel, Tick, schedulerVars
    <2>3. CASE UNCHANGED vars
      BY <2>3 DEF TypeOK, vars
    <2> QED BY <2>1, <2>2, <2>3
  <1> QED BY <1>1, OneTickLess, ArrivalRateAssumption DEF TypeOK, Timely, OnSchedule, target

LEMMA TimelyInductive == Spec => []Timely
  <1>1. Init => Timely
    BY DEF Init, Timely, OnSchedule
  <1>2. TypeOK /\ Timely /\ [Next]_vars => Timely'
    BY NextCases, TimelyScheduler, TimelyOther
  <1> QED BY <1>1, <1>2, TypeCorrect, PTL DEF Spec

(* No iteration starts ahead of its tick, and at most one tick is taken     *)
(* after the duration is over, however the loop stalls.                    *)
THEOREM AlwaysOnSchedule == Spec => []OnSchedule
  BY TimelyInductive, PTL DEF Timely

-----------------------------------------------------------------------------
(* stop().                                                                 *)

Prompt ==
  /\ ~abort => late = 0
  /\ pc \in {"sleep", "arrive"} => late = 0
  /\ StopIsPrompt

LEMMA PromptInductive == Spec => []Prompt
  <1>1. Init => Prompt
    BY DEF Init, Prompt, StopIsPrompt
  <1>2. TypeOK /\ Prompt /\ [Next]_vars => Prompt'
    <2> SUFFICES ASSUME TypeOK, Prompt, [Next]_vars PROVE Prompt' OBVIOUS
    <2> USE DEF TypeOK, Prompt, StopIsPrompt
    <2>1. CASE Scheduler
      BY <2>1 DEF Scheduler, Leave, NextTick, Wake, Drop, AfterYield, Spawn, SchedulerCut,
                  CountLate, userVars
    <2>2. CASE Iteration
      BY <2>2 DEF Iteration, IterationStarts, PassesGate, IterationEnds, CleanupRaises,
                  FreshCut, WaiterCut, IterationCut, schedulerVars, userVars
    <2>3. CASE UserStep
      BY <2>3 DEF UserStep, Stop, Pause, Resume, Cancel, Tick, schedulerVars, userVars
    <2>4. CASE UNCHANGED vars
      BY <2>4 DEF vars, userVars
    <2> QED BY <2>1, <2>2, <2>3, <2>4, NextCases
  <1> QED BY <1>1, <1>2, TypeCorrect, PTL DEF Spec

(* After stop() the scheduler takes at most the one tick it was waiting     *)
(* for.                                                                    *)
THEOREM StopTakesOneTick == Spec => []StopIsPrompt
  BY PromptInductive, PTL DEF Prompt

-----------------------------------------------------------------------------
(* The scheduler of stages.                                                *)

Scheduling == LeaveStages \/ BeginStage \/ EndStage \/ ScheduleTick \/ AwaitTick \/ WakeAtTick
Arriving   == Drop \/ AfterYield \/ Spawn \/ SchedulerCut
Holding    == Stop \/ Pause \/ Resume \/ Cancel

LEMMA RampCases ==
  ASSUME [RampNext]_rampVars
  PROVE  \/ Scheduling
         \/ Arriving /\ UNCHANGED stageVars
         \/ RampTick
         \/ (Iteration \/ Holding) /\ UNCHANGED stageVars
         \/ UNCHANGED rampVars
  BY DEF RampNext, RampScheduler, Scheduling, Arriving, Holding

-----------------------------------------------------------------------------
(* The accounts.                                                           *)

(* What the steps of the schedule and of the clock leave alone.            *)
LEMMA SchedulingLeaves ==
  ASSUME Scheduling
  PROVE  /\ UNCHANGED <<clock, tick, sem, taskVars, dropped, userVars, late>>
         /\ pc # "yield" /\ pc' # "yield"
  BY DEF Scheduling, LeaveStages, BeginStage, EndStage, ScheduleTick, AwaitTick, WakeAtTick, stageVars

Sums == Numbers /\ Account

LEMMA SumsStep == ASSUME Sums, [RampNext]_rampVars PROVE Sums'
  <1> USE DEF Sums
  <1>1. CASE Scheduling
    <2>1. UNCHANGED <<clock, tick, sem, fresh, gate, woken, running, ended, dropped, late, cut>>
      BY <1>1, SchedulingLeaves DEF taskVars, userVars
    <2> QED BY <1>1, <2>1, SchedulingLeaves
            DEF Numbers, Account, SemaphoreExact, TicksAccounted, InFlight
  <1>2. CASE Arriving
    BY <1>2, NumbersStep, AccountScheduler DEF Arriving, Scheduler
  <1>3. CASE RampTick
    BY <1>3 DEF RampTick, Numbers, Account, SemaphoreExact, TicksAccounted, InFlight, taskVars, userVars
  <1>4. CASE Iteration \/ Holding
    BY <1>4, NumbersStep, AccountIteration, AccountUser DEF Holding, UserStep
  <1>5. CASE UNCHANGED rampVars
    BY <1>5 DEF rampVars, vars, taskVars, userVars, Numbers, Account, SemaphoreExact, TicksAccounted, InFlight
  <1> QED BY <1>1, <1>2, <1>3, <1>4, <1>5, RampCases

LEMMA SumsInductive == RampSpec => []Sums
  <1>1. RampInit => Sums
    BY ArrivalRateAssumption
       DEF RampInit, Sums, Numbers, Account, SemaphoreExact, TicksAccounted, InFlight
  <1> QED BY <1>1, SumsStep, PTL DEF RampSpec

(* Of a ramping scenario too, at most max_vus iterations are in flight, and *)
(* the semaphore holds exactly what they leave of max_vus.                 *)
THEOREM RampSemaphoreIsExact == RampSpec => []SemaphoreExact
  BY SumsInductive, PTL DEF Sums, Account

(* Of a ramping scenario too, each tick taken is an iteration in flight, one *)
(* that ended or one counted as dropped.                                   *)
THEOREM RampTicksAccounted == RampSpec => []TicksAccounted
  BY SumsInductive, PTL DEF Sums, Account

-----------------------------------------------------------------------------
(* Intervals.                                                              *)

(* A larger divisor gives no larger quotient.                              *)
LEMMA QuotientAntitone ==
  ASSUME NEW a \in Nat, NEW x \in Nat \ {0}, NEW y \in Nat \ {0}, x <= y
  PROVE  a \div x \in Nat /\ a \div y \in Nat /\ a \div y <= a \div x
  <1> DEFINE p == a \div x
             q == a \div y
  <1>1. p \in Nat /\ x * p <= a /\ a < x * p + x
    OBVIOUS
  <1>2. q \in Nat /\ y * q <= a
    OBVIOUS
  <1> HIDE DEF p, q
  <1>3. x * q <= y * q
    BY <1>2
  <1>4. ASSUME ~(q <= p) PROVE FALSE
    <2>1. q >= p + 1
      BY <1>1, <1>2, <1>4
    <2>2. x * q >= x * (p + 1)
      BY <2>1, <1>1, <1>2
    <2>3. x * (p + 1) = x * p + x
      BY <1>1
    <2>4. x * q \in Nat /\ y * q \in Nat /\ x * p \in Nat
      BY <1>1, <1>2
    <2> QED BY <1>1, <1>2, <1>3, <2>2, <2>3, <2>4
  <1> QED BY <1>1, <1>2, <1>4 DEF p, q

(* A line takes its largest value at one of its ends.                      *)
LEMMA LineBelowAnEnd ==
  ASSUME NEW r \in Int, NEW t \in Int, NEW d \in Nat, NEW e \in 0 .. d
  PROVE  LET line(x) == r * d + (t - r) * x
         IN  line(e) <= line(0) \/ line(e) <= line(d)
  <1>1. CASE t >= r
    <2>1. (t - r) * e <= (t - r) * d
      BY <1>1
    <2> QED BY <2>1
  <1>2. CASE t < r
    <2>1. (t - r) * e <= 0
      BY <1>2
    <2> QED BY <2>1
  <1> QED BY <1>1, <1>2

StageIndex == 1 .. Len(Stages)

LEMMA StageTypes ==
  /\ Len(Stages) \in Nat
  /\ DOMAIN Stages = StageIndex
  /\ \A i \in StageIndex :
       /\ Stages[i].duration \in Nat /\ Stages[i].target \in Nat
       /\ RateBefore(i) \in Nat
  <1>1. /\ Len(Stages) \in Nat /\ DOMAIN Stages = StageIndex
        /\ \A i \in StageIndex : Stages[i] \in [duration : Nat, target : Nat]
    <2>1. Stages \in Seq([duration : Nat, target : Nat])
      BY RampingArrivalRateAssumption
    <2>2. Len(Stages) \in Nat /\ DOMAIN Stages = 1 .. Len(Stages)
      BY <2>1
    <2>3. \A i \in 1 .. Len(Stages) : Stages[i] \in [duration : Nat, target : Nat]
      BY <2>1, ElementOfSeq
    <2> QED BY <2>2, <2>3 DEF StageIndex
  <1>2. ASSUME NEW i \in StageIndex
        PROVE  Stages[i].duration \in Nat /\ Stages[i].target \in Nat /\ RateBefore(i) \in Nat
    <2>1. CASE i = 1
      BY <1>1, <2>1, RampingArrivalRateAssumption DEF RateBefore
    <2>2. CASE i # 1
      <3>1. i - 1 \in StageIndex
        BY <2>2, <1>1 DEF StageIndex
      <3> QED BY <1>1, <2>2, <3>1 DEF RateBefore
    <2> QED BY <2>1, <2>2
  <1> QED BY <1>1, <1>2

(* While a stage lasts no interval is shorter than the shorter one of its   *)
(* ends.                                                                   *)
LEMMA NoIntervalShorter ==
  ASSUME NEW i \in StageIndex, Stages[i].duration > 0,
         NEW e \in 0 .. Stages[i].duration
  PROVE  /\ IntervalAt(i, e) \in Nat /\ Fastest(i) \in Nat
         /\ Fastest(i) <= IntervalAt(i, e)
  <1> DEFINE d == Stages[i].duration
             t == Stages[i].target
             r == RateBefore(i)
             line(x) == r * d + (t - r) * x
             Work(x) == IF line(x) < d THEN d ELSE line(x)
             a == 10 * TimeUnit * d
  <1>1. d \in Nat \ {0} /\ t \in Nat /\ r \in Nat /\ e \in 0 .. d
    BY StageTypes
  <1>2. a \in Nat
    <2>1. TimeUnit \in Nat
      BY RampingArrivalRateAssumption
    <2> HIDE DEF d
    <2> QED BY <1>1, <2>1
  <1>3. IntervalAt(i, e) = a \div Work(e) /\ IntervalAt(i, 0) = a \div Work(0)
        /\ IntervalAt(i, Stages[i].duration) = a \div Work(d)
    BY DEF IntervalAt
  <1>4. line(e) <= line(0) \/ line(e) <= line(d)
    <2> HIDE DEF d, t, r
    <2> QED BY <1>1, LineBelowAnEnd
  <1>5. line(e) \in Int /\ line(0) \in Int /\ line(d) \in Int
    <2> HIDE DEF d, t, r
    <2> QED BY <1>1
  <1> HIDE DEF d, t, r, a, line
  <1>6. Work(e) \in Nat \ {0} /\ Work(0) \in Nat \ {0} /\ Work(d) \in Nat \ {0}
    BY <1>1, <1>5
  <1>7. Work(e) <= Work(0) \/ Work(e) <= Work(d)
    BY <1>1, <1>4, <1>5
  <1> HIDE DEF Work
  <1>8. /\ a \div Work(e) \in Nat /\ a \div Work(0) \in Nat /\ a \div Work(d) \in Nat
        /\ a \div Work(0) <= a \div Work(e) \/ a \div Work(d) <= a \div Work(e)
    <2>1. CASE Work(e) <= Work(0)
      <3>1. a \div Work(e) \in Nat /\ a \div Work(0) \in Nat /\ a \div Work(0) <= a \div Work(e)
        BY <1>2, <1>6, <2>1, QuotientAntitone
      <3>2. a \div Work(d) \in Nat
        BY <1>2, <1>6
      <3> QED BY <3>1, <3>2
    <2>2. CASE Work(e) <= Work(d)
      <3>1. a \div Work(e) \in Nat /\ a \div Work(d) \in Nat /\ a \div Work(d) <= a \div Work(e)
        BY <1>2, <1>6, <2>2, QuotientAntitone
      <3>2. a \div Work(0) \in Nat
        BY <1>2, <1>6
      <3> QED BY <3>1, <3>2
    <2> QED BY <1>7, <2>1, <2>2
  <1> QED BY <1>3, <1>8 DEF Fastest

-----------------------------------------------------------------------------
(* The pace of a stage.                                                    *)

InStage == tick - stageTick

RampTypes ==
  /\ Numbers
  /\ stage \in 0 .. Len(Stages) /\ stageStart \in Nat /\ due \in Nat /\ stageTick \in Nat
  /\ stageTick <= tick /\ stageStart <= clock
  /\ pc \in {"stage", "loop", "scheduled", "sleep", "arrive", "yield", "left"}
  /\ pc \notin {"stage", "left"} => stage > 0

(* Ticks are due no closer to each other than the shortest interval, one    *)
(* that is scheduled was scheduled in time, and the one the scheduler is at *)
(* is due.                                                                 *)
OnPace ==
  /\ stage \in StageIndex =>
       /\ InStage > 0 => Stages[stage].duration > 0
       /\ (Stages[stage].duration > 0 /\ pc = "loop") =>
            InStage * Fastest(stage) <= due - stageStart
       /\ pc \in {"scheduled", "sleep", "arrive", "yield"} =>
            /\ Stages[stage].duration > 0
            /\ (InStage + 1) * Fastest(stage) <= due - stageStart
            /\ InStage * Fastest(stage) < Stages[stage].duration
  /\ pc \in {"arrive", "yield"} => due <= clock

Pace == RampTypes /\ OnPace /\ RampOnSchedule

LEMMA FastestTypes ==
  ASSUME NEW i \in StageIndex, Stages[i].duration > 0 PROVE Fastest(i) \in Nat
  <1>1. 0 \in 0 .. Stages[i].duration
    BY StageTypes
  <1> QED BY <1>1, NoIntervalShorter

LEMMA RampTypesStep == ASSUME RampTypes, OnPace, [RampNext]_rampVars PROVE RampTypes'
  <1>1. Numbers'
    <2>1. CASE Scheduling
      BY <2>1, SchedulingLeaves DEF RampTypes, Numbers, taskVars, userVars
    <2>2. CASE Arriving
      BY <2>2, NumbersStep DEF RampTypes, Arriving, Scheduler
    <2>3. CASE RampTick
      BY <2>3 DEF RampTypes, RampTick, Numbers, taskVars, userVars
    <2>4. CASE Iteration \/ Holding
      BY <2>4, NumbersStep DEF RampTypes, Holding, UserStep
    <2>5. CASE UNCHANGED rampVars
      BY <2>5 DEF RampTypes, rampVars, vars, taskVars, userVars, Numbers
    <2> QED BY <2>1, <2>2, <2>3, <2>4, <2>5, RampCases
  <1> USE StageTypes DEF RampTypes
  <1>2. CASE Scheduling
    <2> USE DEF Numbers, stageVars
    <2>1. CASE LeaveStages BY <1>1, <2>1 DEF LeaveStages
    <2>2. CASE BeginStage BY <1>1, <2>2, SMTT(40) DEF BeginStage
    <2>3. CASE EndStage BY <1>1, <2>3 DEF EndStage
    <2>4. CASE ScheduleTick
      <3>1. stage \in StageIndex /\ Stages[stage].duration > 0
            /\ clock - stageStart \in 0 .. Stages[stage].duration
        BY <2>4 DEF ScheduleTick, StageIndex
      <3>2. IntervalAt(stage, clock - stageStart) \in Nat
        BY <3>1, NoIntervalShorter
      <3> QED BY <1>1, <2>4, <3>2, SMTT(40) DEF ScheduleTick
    <2>5. CASE AwaitTick BY <1>1, <2>5 DEF AwaitTick
    <2>6. CASE WakeAtTick BY <1>1, <2>6 DEF WakeAtTick
    <2> QED BY <1>2, <2>1, <2>2, <2>3, <2>4, <2>5, <2>6 DEF Scheduling
  <1>3. CASE Arriving /\ UNCHANGED stageVars
    <2>1. /\ UNCHANGED <<clock, stage, stageStart, due, stageTick>>
          /\ pc \in {"sleep", "arrive", "yield"} /\ pc' \in {"loop", "yield", "left"}
      BY <1>3 DEF Arriving, Drop, AfterYield, Spawn, SchedulerCut, stageVars
    <2>2. tick' = tick \/ tick' = tick + 1
      BY <1>3 DEF Arriving, Drop, AfterYield, Spawn, SchedulerCut
    <2> QED BY <1>1, <2>1, <2>2, SMTT(40) DEF Numbers
  <1>4. CASE RampTick
    BY <1>1, <1>4 DEF RampTick, Numbers, stageVars
  <1>5. CASE (Iteration \/ Holding) /\ UNCHANGED stageVars
    <2>1. UNCHANGED <<pc, clock, tick>>
      BY <1>5 DEF Iteration, IterationStarts, PassesGate, IterationEnds, CleanupRaises, FreshCut,
                  WaiterCut, IterationCut, Holding, Stop, Pause, Resume, Cancel, schedulerVars
    <2> QED BY <1>1, <1>5, <2>1 DEF stageVars
  <1>6. CASE UNCHANGED rampVars
    BY <1>1, <1>6 DEF rampVars, stageVars, vars
  <1> QED BY <1>2, <1>3, <1>4, <1>5, <1>6, RampCases

(* A step that changes neither the stage nor the schedule keeps the pace.   *)
LEMMA OtherStepsKeepPace ==
  ASSUME Pace, RampTypes', clock' >= clock,
         UNCHANGED <<tick, stage, stageStart, due, stageTick>>,
         \/ pc' = pc
         \/ pc' \in {"stage", "left"}
         \/ pc = "scheduled" /\ pc' = "sleep"
         \/ pc \in {"scheduled", "sleep"} /\ pc' = "arrive" /\ due <= clock
         \/ pc = "arrive" /\ pc' = "yield"
  PROVE  Pace'
  <1> USE DEF Pace, RampTypes, Numbers
  <1>1. InStage' = InStage
    BY DEF InStage
  <1>2. OnPace'
    BY <1>1, SMTT(40) DEF OnPace
  <1>3. RampOnSchedule'
    <2> SUFFICES ASSUME stage \in StageIndex, InStage > 0
                 PROVE  /\ InStage * Fastest(stage) <= clock' - stageStart
                        /\ (InStage - 1) * Fastest(stage) < Stages[stage].duration
      BY <1>1, StageTypes DEF RampOnSchedule, InStage, Fastest
    <2>1. /\ InStage * Fastest(stage) <= clock - stageStart
          /\ (InStage - 1) * Fastest(stage) < Stages[stage].duration
      BY StageTypes DEF RampOnSchedule, InStage
    <2>2. Fastest(stage) \in Nat
      BY FastestTypes DEF OnPace
    <2>3. InStage * Fastest(stage) \in Nat
      BY <2>2, SMTT(40) DEF InStage
    <2> QED BY <2>1, <2>3, SMTT(40)
  <1> QED BY <1>2, <1>3

(* A tick is taken: the one after it may be scheduled.                     *)
LEMMA TakingATickKeepsPace ==
  ASSUME Pace, RampTypes', pc \in {"arrive", "yield"}, pc' = "loop", tick' = tick + 1,
         UNCHANGED <<clock, stage, stageStart, due, stageTick>>
  PROVE  Pace'
  <1> DEFINE f == Fastest(stage)
             d == Stages[stage].duration
             n == InStage
  <1>1. /\ stage \in StageIndex /\ n \in Nat /\ InStage' = n + 1
        /\ due \in Nat /\ clock \in Nat /\ stageStart \in Nat
    <2>1. /\ tick \in Nat /\ stageTick \in Nat /\ stageTick <= tick
          /\ stage \in 0 .. Len(Stages) /\ stage > 0
          /\ due \in Nat /\ clock \in Nat /\ stageStart \in Nat
      BY DEF Pace, RampTypes, Numbers
    <2>2. stage \in StageIndex
      BY <2>1, StageTypes DEF StageIndex
    <2> QED BY <2>1, <2>2 DEF InStage
  <1>2. d > 0 /\ due <= clock /\ (n + 1) * f <= due - stageStart /\ n * f < d
    BY <1>1 DEF Pace, OnPace
  <1>3. f \in Nat
    BY <1>1, <1>2, FastestTypes
  <1> HIDE DEF f, d, n
  <1>4. (n + 1) * f \in Nat /\ (n + 1) - 1 = n
    BY <1>1, <1>3
  <1>5. (n + 1) * f <= clock - stageStart
    BY <1>1, <1>2, <1>4
  <1>6. OnPace'
    BY <1>1, <1>2 DEF OnPace, f, d
  <1>7. RampOnSchedule'
    <2>1. /\ InStage' * f <= clock - stageStart
          /\ (InStage' - 1) * f < d
      BY <1>1, <1>2, <1>4, <1>5
    <2> QED BY <2>1 DEF RampOnSchedule, InStage, f, d
  <1> QED BY <1>6, <1>7 DEF Pace

LEMMA ZeroTimes == \A f \in Nat : 0 * f = 0
  OBVIOUS

LEMMA BeginStageOnPace == ASSUME Pace, RampTypes', BeginStage PROVE Pace'
  <1>1. tick' - stageTick' = 0 /\ due' - stageStart' = 0 /\ pc' = "loop"
    BY DEF BeginStage, Pace, RampTypes, Numbers
  <1>2. InStage' = 0
    BY <1>1 DEF InStage
  <1>3. ASSUME stage' \in StageIndex, Stages[stage'].duration > 0
        PROVE  InStage' * Fastest(stage') <= due' - stageStart'
    <2>1. Fastest(stage') \in Nat
      BY <1>3, FastestTypes
    <2>2. 0 * Fastest(stage') = 0
      BY <2>1, ZeroTimes
    <2> QED BY <1>1, <1>2, <2>2
  <1>4. OnPace'
    BY <1>1, <1>2, <1>3 DEF OnPace
  <1>5. RampOnSchedule'
    BY <1>1 DEF RampOnSchedule
  <1> QED BY <1>4, <1>5 DEF Pace

LEMMA ScheduleTickOnPace == ASSUME Pace, RampTypes', ScheduleTick PROVE Pace'
  <1> DEFINE e == clock - stageStart
             d == Stages[stage].duration
             f == Fastest(stage)
             n == InStage
  <1>1. /\ stage \in StageIndex /\ n \in Nat /\ InStage' = n
        /\ e \in Nat /\ e < d
        /\ due' = due + IntervalAt(stage, e) /\ pc = "loop" /\ pc' = "scheduled"
        /\ UNCHANGED <<clock, tick, stage, stageStart, stageTick>>
        /\ due \in Nat /\ stageStart \in Nat
    BY StageTypes DEF ScheduleTick, StageIndex, InStage, Pace, RampTypes, Numbers
  <1>2. d \in Nat
    BY <1>1, StageTypes
  <1>3. (n > 0 => n * f <= e) /\ (d > 0 => n * f <= due - stageStart)
    BY <1>1, StageTypes DEF RampOnSchedule, InStage, Pace, OnPace
  <1>4. d > 0 /\ e \in 0 .. d
    <2> HIDE DEF e, d
    <2> QED BY <1>1, <1>2
  <1>5. f \in Nat /\ IntervalAt(stage, e) \in Nat /\ f <= IntervalAt(stage, e)
    BY <1>1, <1>4, NoIntervalShorter
  <1> HIDE DEF e, d, f, n
  <1>6. (n + 1) * f = n * f + f /\ n * f \in Nat
    BY <1>1, <1>5
  <1>7. (n + 1) * f <= due' - stageStart
    BY <1>1, <1>3, <1>4, <1>5, <1>6
  <1>8. n * f < d
    <2>1. CASE n > 0
      BY <1>1, <1>2, <1>3, <1>6, <2>1
    <2>2. CASE n = 0
      BY <1>4, <1>5, <2>2, ZeroTimes
    <2> QED BY <1>1, <2>1, <2>2
  <1>9. OnPace'
    BY <1>1, <1>4, <1>7, <1>8 DEF OnPace, f, d, n
  <1>10. RampOnSchedule'
    BY <1>1 DEF RampOnSchedule, Pace
  <1> QED BY <1>9, <1>10 DEF Pace

LEMMA PaceStep == ASSUME Pace, [RampNext]_rampVars PROVE Pace'
  <1>1. RampTypes'
    BY RampTypesStep DEF Pace
  <1> USE DEF Numbers, RampTypes, Pace, stageVars
  <1>2. CASE Scheduling
    <2>1. CASE BeginStage
      BY <1>1, <2>1, BeginStageOnPace
    <2>2. CASE ScheduleTick
      BY <1>1, <2>2, ScheduleTickOnPace
    <2>3. CASE LeaveStages \/ EndStage \/ AwaitTick \/ WakeAtTick
      <3>1. UNCHANGED <<clock, tick, stage, stageStart, due, stageTick>>
        BY <2>3 DEF LeaveStages, EndStage, AwaitTick, WakeAtTick
      <3>2. \/ pc' \in {"stage", "left"}
            \/ pc = "scheduled" /\ pc' = "sleep"
            \/ pc \in {"scheduled", "sleep"} /\ pc' = "arrive" /\ due <= clock
        BY <2>3 DEF LeaveStages, EndStage, AwaitTick, WakeAtTick
      <3> QED BY <1>1, <3>1, <3>2, OtherStepsKeepPace
    <2> QED BY <1>2, <2>1, <2>2, <2>3 DEF Scheduling
  <1>3. CASE Arriving /\ UNCHANGED stageVars
    <2>1. CASE Drop \/ SchedulerCut
      BY <1>1, <1>3, <2>1, OtherStepsKeepPace DEF Drop, SchedulerCut
    <2>2. CASE AfterYield \/ Spawn
      BY <1>1, <1>3, <2>2, TakingATickKeepsPace DEF AfterYield, Spawn
    <2> QED BY <1>3, <2>1, <2>2 DEF Arriving
  <1>4. CASE RampTick
    BY <1>1, <1>4, OtherStepsKeepPace DEF RampTick
  <1>5. CASE (Iteration \/ Holding) /\ UNCHANGED stageVars
    <2>1. UNCHANGED <<pc, clock, tick>>
      BY <1>5 DEF Iteration, IterationStarts, PassesGate, IterationEnds, CleanupRaises, FreshCut,
                  WaiterCut, IterationCut, Holding, Stop, Pause, Resume, Cancel, schedulerVars
    <2> QED BY <1>1, <1>5, <2>1, OtherStepsKeepPace
  <1>6. CASE UNCHANGED rampVars
    BY <1>1, <1>6, OtherStepsKeepPace DEF rampVars, vars
  <1> QED BY <1>2, <1>3, <1>4, <1>5, <1>6, RampCases

(* No stage of a ramping-arrival-rate scenario offers more load than its    *)
(* higher rate, whatever is late and whatever the stages before it were.    *)
THEOREM RampAlwaysOnSchedule == RampSpec => []RampOnSchedule
  <1>1. RampInit => Pace
    <2> SUFFICES ASSUME RampInit PROVE Pace OBVIOUS
    <2>1. stage \notin StageIndex /\ pc = "stage"
      BY DEF RampInit, StageIndex
    <2>2. RampTypes
      BY StageTypes, ArrivalRateAssumption DEF RampInit, RampTypes, Numbers
    <2>3. OnPace
      BY <2>1 DEF OnPace
    <2>4. RampOnSchedule
      BY <2>1, StageTypes DEF RampOnSchedule
    <2> QED BY <2>2, <2>3, <2>4 DEF Pace
  <1> QED BY <1>1, PaceStep, PTL DEF RampSpec, Pace
=============================================================================
