------------------------- MODULE MetricEngineProofs -------------------------
(***************************************************************************)
(* Proofs about MetricEngine: its types, the completeness of the final      *)
(* snapshot, that it implements SamplePipe, and the grace periods, for any  *)
(* set of samples, any thresholds, limits and intervals, and any number of  *)
(* samples.                                                                *)
(***************************************************************************)
EXTENDS MetricEngine, TLAPS

-----------------------------------------------------------------------------
(* Types.                                                                  *)

LEMMA EmptySinkType ==
  ASSUME NEW kind \in {"rate", "trend"}
  PROVE  EmptySink(kind) \in Sink
  BY DEF EmptySink, Sink

LEMMA IngestedType ==
  ASSUME TypeOK, NEW s \in Sample
  PROVE  /\ DOMAIN Ingested(s) \subseteq Key
         /\ \A key \in DOMAIN Ingested(s) : Ingested(s)[key] \in Sink
  <1>1. <<s.metric, AnyTag>> \in Key
    BY DEF Key, Metric
  <1>2. DOMAIN Ingested(s) = DOMAIN sinks \cup {<<s.metric, AnyTag>>}
    BY DEF Ingested
  <1>3. ASSUME NEW key \in DOMAIN Ingested(s)
        PROVE  Ingested(s)[key] \in Sink
    <2> DEFINE sink == IF key \in DOMAIN sinks THEN sinks[key] ELSE EmptySink("trend")
    <2>1. sink \in Sink
      BY EmptySinkType DEF TypeOK
    <2>2. AddTo(sink, s) \in Sink
      <3> HIDE DEF sink
      <3> QED BY <2>1 DEF AddTo, Sink
    <2>3. Ingested(s)[key] = IF Feeds(s, key) THEN AddTo(sink, s) ELSE sink
      BY <1>2, <1>3 DEF Ingested
    <2> HIDE DEF sink
    <2> QED BY <2>1, <2>2, <2>3
  <1> QED BY <1>1, <1>2, <1>3 DEF TypeOK

LEMMA HeadIsSample ==
  ASSUME TypeOK, queue # <<>>, Head(queue) # None
  PROVE  Head(queue) \in Sample /\ Tail(queue) \in Seq(Message)
  BY DEF TypeOK, Message

LEMMA TypeInit == Init => TypeOK
  <1> SUFFICES ASSUME Init PROVE TypeOK OBVIOUS
  <1>1. \A key \in DOMAIN sinks : sinks[key] \in Sink
    BY EmptySinkType DEF Init
  <1>2. DOMAIN sinks \subseteq Key
    BY MetricEngineAssumption DEF Init, Key, Metric
  <1>3. queue \in Seq(Message) /\ log \in Seq(Sample)
    BY DEF Init
  <1>4. {clock, lastFlush, lastCheck, joinStart, aborts, taken, judged, atStop} \subseteq Nat
    BY MetricEngineAssumption DEF Init
  <1>5. drained \in 0 .. DrainLimit
    BY MetricEngineAssumption DEF Init
  <1> QED BY <1>1, <1>2, <1>3, <1>4, <1>5 DEF Init, TypeOK

LEMMA TypeTakeHead ==
  ASSUME TypeOK, TakeHead
  PROVE  /\ queue' \in Seq(Message)
         /\ DOMAIN sinks' \subseteq Key
         /\ \A key \in DOMAIN sinks' : sinks'[key] \in Sink
         /\ taken' \in Nat
  <1>1. queue # <<>> /\ Head(queue) # None
    BY DEF TakeHead, HeadIsNone, Empty
  <1>2. Head(queue) \in Sample /\ Tail(queue) \in Seq(Message)
    BY <1>1, HeadIsSample
  <1>3. queue' = Tail(queue) /\ sinks' = Ingested(Head(queue)) /\ taken' = taken + 1
    BY DEF TakeHead
  <1>4. taken \in Nat BY DEF TypeOK
  <1> QED BY <1>2, <1>3, <1>4, IngestedType

LEMMA TypeCaller ==
  ASSUME TypeOK, CallerStep \/ Tick \/ \E s \in Sample : Put(s)
  PROVE  TypeOK'
  <1>1. CASE \E s \in Sample : Put(s)
    BY <1>1 DEF TypeOK, Put, Message, threadVars
  <1>2. CASE StopClear
    <2>1. Len(log) \in Nat
      BY DEF TypeOK
    <2>2. running' \in BOOLEAN /\ atStop' \in Nat
      BY <1>2, <2>1 DEF StopClear
    <2> QED BY <1>2, <2>2 DEF TypeOK, StopClear, threadVars
  <1>3. CASE StopPut
    BY <1>3 DEF TypeOK, StopPut, Message, threadVars
  <1>4. CASE StopJoin
    BY <1>4 DEF TypeOK, StopJoin, threadVars
  <1>5. CASE Tick
    BY <1>5 DEF TypeOK, Tick, threadVars
  <1> QED BY <1>1, <1>2, <1>3, <1>4, <1>5 DEF CallerStep

LEMMA TypeLoop ==
  ASSUME TypeOK,
         Loop \/ GetSample \/ GetNothing \/ DrainSample \/ DrainEnd \/ Flush
           \/ EmitSnapshot \/ SkipCheck
  PROVE  TypeOK'
  <1> USE DEF callerVars, checkVars
  <1>1. CASE Loop
    <2>1. drained' \in 0 .. DrainLimit
      BY <1>1, MetricEngineAssumption, SMTT(40) DEF TypeOK, Loop
    <2>2. thread' \in {"get", "drain"} /\ closing' \in BOOLEAN
      BY <1>1 DEF TypeOK, Loop
    <2> QED BY <1>1, <2>1, <2>2 DEF TypeOK, Loop
  <1>2. CASE GetSample
    BY <1>2, TypeTakeHead, MetricEngineAssumption DEF TypeOK, GetSample
  <1>3. CASE GetNothing
    <2>1. queue' \in Seq(Message)
      BY <1>3 DEF TypeOK, GetNothing, Empty, HeadIsNone
    <2> QED BY <1>3, <2>1 DEF TypeOK, GetNothing
  <1>4. CASE DrainSample
    <2>1. drained' \in 0 .. DrainLimit
      BY <1>4, MetricEngineAssumption, SMTT(40) DEF TypeOK, DrainSample, AtLimit
    <2> QED BY <1>4, <2>1, TypeTakeHead DEF TypeOK, DrainSample
  <1>5. CASE DrainEnd
    <2>1. queue' \in Seq(Message)
      BY <1>5 DEF TypeOK, DrainEnd, Empty, HeadIsNone
    <2> QED BY <1>5, <2>1 DEF TypeOK, DrainEnd
  <1>6. CASE Flush
    BY <1>6 DEF TypeOK, Flush
  <1>7. CASE EmitSnapshot
    BY <1>7 DEF TypeOK, EmitSnapshot
  <1>8. CASE SkipCheck
    BY <1>8 DEF TypeOK, SkipCheck, AfterEmit
  <1> QED BY <1>1, <1>2, <1>3, <1>4, <1>5, <1>6, <1>7, <1>8

LEMMA TypeCheck ==
  ASSUME TypeOK, Evaluate \/ Judge \/ JudgeDone
  PROVE  TypeOK'
  <1> USE DEF callerVars, judgeFrame
  <1>1. judged \in Nat /\ i0 \in Nat /\ aborts + 1 \in Nat /\ Len(Thresholds) \in Nat
    BY MetricEngineAssumption, SMTT(40) DEF TypeOK, i0
  <1>2. CASE Evaluate
    BY <1>2 DEF TypeOK, Evaluate
  <1>3. CASE Judge
    <2>1. judged' \in Nat /\ aborts' \in Nat /\ thread' = thread
      BY <1>1, <1>3 DEF TypeOK, Judge, JudgePassed, JudgeNoAbort, JudgeStartGrace,
                        JudgeInGrace, JudgeAbort
    <2>2. UNCHANGED judgeFrame
      BY <1>3 DEF Judge, JudgePassed, JudgeNoAbort, JudgeStartGrace, JudgeInGrace, JudgeAbort
    <2> QED BY <2>1, <2>2 DEF TypeOK
  <1>4. CASE JudgeDone
    BY <1>4 DEF TypeOK, JudgeDone, AfterEmit
  <1> QED BY <1>2, <1>3, <1>4

(* Every variable keeps its type, in particular every sink is a pair of     *)
(* counters under a key of the registry, whatever samples arrive.          *)
THEOREM TypeCorrect == Spec => []TypeOK
  <1>1. TypeOK /\ [Next]_vars => TypeOK'
    <2> SUFFICES ASSUME TypeOK, [Next]_vars PROVE TypeOK' OBVIOUS
    <2>1. CASE UNCHANGED vars
      BY <2>1 DEF TypeOK, vars, threadVars
    <2> QED BY <2>1, TypeCaller, TypeLoop, TypeCheck DEF Next, ThreadStep
  <1> QED BY <1>1, TypeInit, PTL DEF Spec

-----------------------------------------------------------------------------
(* Where the sentinel is.  As long as it is not on the queue the queue holds *)
(* the samples that are still to be ingested; once stop() has put it there, *)
(* the samples in front of it are those that were put before stop() and are *)
(* still missing; and when it is gone, none of those is missing.           *)
SentinelAt(p) ==
  /\ caller \in {"join", "joined"}
  /\ p \in 1 .. Len(queue) /\ queue[p] = None
  /\ \A i \in 1 .. Len(queue) : i # p => queue[i] # None
  /\ taken + Len(queue) = Len(log) + 1
  /\ taken + p = atStop + 1

NoSentinel ==
  /\ \A i \in 1 .. Len(queue) : queue[i] # None
  /\ taken + Len(queue) = Len(log)
  /\ caller = "stop" => atStop = Len(log)
  /\ caller \in {"join", "joined"} => taken >= atStop

(* The flag is cleared by stop() only, the shutdown drain starts when the   *)
(* thread has seen that, and ends when nothing is missing.                 *)
Shutdown ==
  /\ running = (caller = "run")
  /\ closing => ~running
  /\ thread = "done" => closing
  /\ thread \in {"loop", "get", "flush"} => ~closing
  /\ (closing /\ thread \in {"emit", "check", "judge", "done"}) => taken >= atStop
  /\ (closing /\ thread \in {"check", "judge", "done"}) => latest >= atStop

Queued == NoSentinel \/ \E p \in 1 .. Len(queue) : SentinelAt(p)

Delivery == TypeOK /\ Queued /\ Shutdown

LEMMA DeliveryInit == Init => Delivery
  <1> SUFFICES ASSUME Init PROVE Delivery OBVIOUS
  <1>1. Len(queue) = 0 /\ Len(log) = 0
    BY DEF Init
  <1>2. NoSentinel
    BY <1>1 DEF Init, NoSentinel
  <1>3. Shutdown
    BY DEF Init, Shutdown
  <1> QED BY <1>2, <1>3, TypeInit DEF Delivery, Queued

(* Ingesting the sample at the head moves the sentinel up by one.          *)
LEMMA QueuedTakeHead ==
  ASSUME TypeOK, Queued, TakeHead, UNCHANGED <<caller, log, atStop>>
  PROVE  /\ Queued'
         /\ taken < Len(log) /\ taken' = taken + 1
         /\ taken >= atStop => taken' >= atStop'
  <1>1. /\ queue \in Seq(Message) /\ queue # <<>> /\ queue[1] # None
        /\ queue' = Tail(queue) /\ taken' = taken + 1
    BY DEF TakeHead, Empty, HeadIsNone, TypeOK
  <1>2. /\ Len(queue) \in Nat /\ Len(queue) >= 1 /\ Len(queue') = Len(queue) - 1
        /\ \A i \in 1 .. Len(queue') : queue'[i] = queue[i + 1]
    BY <1>1
  <1>3. taken \in Nat /\ atStop \in Nat /\ Len(log) \in Nat
    BY DEF TypeOK
  <1>4. CASE NoSentinel
    <2>1. NoSentinel'
      BY <1>1, <1>2, <1>3, <1>4 DEF NoSentinel
    <2> QED BY <1>1, <1>2, <1>3, <1>4, <2>1 DEF NoSentinel, Queued
  <1>5. CASE \E p \in 1 .. Len(queue) : SentinelAt(p)
    <2>1. PICK p \in 1 .. Len(queue) : SentinelAt(p)
      BY <1>5
    <2>2. p >= 2
      BY <1>1, <2>1 DEF SentinelAt
    <2>3. p - 1 \in 1 .. Len(queue')
      BY <1>2, <2>1, <2>2
    <2>4. SentinelAt(p - 1)'
      BY <1>1, <1>2, <1>3, <2>1, <2>2, <2>3, SMTT(40) DEF SentinelAt
    <2>5. taken < Len(log)
      BY <1>2, <1>3, <2>1, <2>2 DEF SentinelAt
    <2> QED BY <1>1, <1>3, <2>3, <2>4, <2>5 DEF Queued
  <1> QED BY <1>4, <1>5 DEF Queued

(* The sentinel leaves the queue when nothing is missing any more.         *)
LEMMA QueuedDropNone ==
  ASSUME TypeOK, Queued, HeadIsNone, queue' = Tail(queue),
         UNCHANGED <<caller, log, atStop, taken>>
  PROVE  Queued' /\ taken >= atStop
  <1>1. /\ queue \in Seq(Message) /\ queue # <<>> /\ queue[1] = None
    BY DEF HeadIsNone, Empty, TypeOK
  <1>2. /\ Len(queue) \in Nat /\ Len(queue) >= 1 /\ Len(queue') = Len(queue) - 1
        /\ \A i \in 1 .. Len(queue') : queue'[i] = queue[i + 1]
    BY <1>1
  <1>3. taken \in Nat /\ atStop \in Nat /\ Len(log) \in Nat
    BY DEF TypeOK
  <1>4. ~NoSentinel
    BY <1>1, <1>2 DEF NoSentinel
  <1>5. PICK p \in 1 .. Len(queue) : SentinelAt(p)
    BY <1>4 DEF Queued
  <1>6. p = 1
    BY <1>1, <1>2, <1>5 DEF SentinelAt
  <1>7. taken = atStop /\ taken + Len(queue') = Len(log) /\ caller \in {"join", "joined"}
    BY <1>2, <1>3, <1>5, <1>6 DEF SentinelAt
  <1>8. \A i \in 1 .. Len(queue') : queue'[i] # None
    BY <1>2, <1>5, <1>6 DEF SentinelAt
  <1>9. NoSentinel'
    BY <1>3, <1>7, <1>8 DEF NoSentinel
  <1> QED BY <1>3, <1>7, <1>9 DEF Queued

(* An empty queue after stop() began: nothing is missing.                  *)
LEMMA EmptyIsEnough ==
  ASSUME TypeOK, Queued, Empty, caller # "run"
  PROVE  taken >= atStop
  <1>1. Len(queue) = 0 BY DEF Empty
  <1>2. NoSentinel BY <1>1 DEF Queued
  <1>3. taken \in Nat /\ atStop \in Nat /\ Len(log) \in Nat /\ taken = Len(log)
    BY <1>1, <1>2 DEF TypeOK, NoSentinel
  <1> QED BY <1>2, <1>3 DEF NoSentinel, TypeOK

LEMMA SentinelIsQueued ==
  ASSUME NEW p \in Nat, SentinelAt(p)'
  PROVE  Queued'
  BY DEF Queued, SentinelAt

LEMMA QueuedCaller ==
  ASSUME Delivery, CallerStep \/ Tick \/ \E s \in Sample : Put(s)
  PROVE  Queued' /\ Shutdown'
  <1> USE DEF threadVars
  <1>0. Len(queue) \in Nat /\ Len(log) \in Nat /\ taken \in Nat /\ atStop \in Nat
    BY DEF Delivery, TypeOK
  <1>1. /\ queue \in Seq(Message) /\ log \in Seq(Sample)
        /\ Len(queue) \in Nat /\ Len(log) \in Nat /\ taken \in Nat /\ atStop \in Nat
    BY DEF Delivery, TypeOK
  <1>2. CASE \E s \in Sample : Put(s)
    <2>1. PICK s \in Sample : Put(s)
      BY <1>2
    <2>2. s # None /\ queue' = Append(queue, s) /\ log' = Append(log, s)
      BY <2>1, MetricEngineAssumption DEF Put
    <2>3. /\ caller \in {"run", "joined"}
          /\ running' = running /\ caller' = caller /\ atStop' = atStop
          /\ thread' = thread /\ closing' = closing /\ taken' = taken /\ latest' = latest
      BY <2>1 DEF Put
    <2>4. Len(queue') = Len(queue) + 1 /\ Len(log') = Len(log) + 1
      BY <1>1, <2>2
    <2>5. /\ queue'[Len(queue) + 1] # None
          /\ \A i \in 1 .. Len(queue) : queue'[i] = queue[i]
      BY <1>1, <2>2
    <2>6. Shutdown'
      BY <2>3 DEF Delivery, Shutdown
    <2>7. CASE NoSentinel
      <3>1. \A i \in 1 .. Len(queue') : queue'[i] # None
        BY <1>1, <2>4, <2>5, <2>7 DEF NoSentinel
      <3>2. taken + Len(queue') = Len(log')
        BY <1>0, <2>4, <2>7 DEF NoSentinel
      <3>3. NoSentinel'
        BY <2>3, <2>7, <3>1, <3>2 DEF NoSentinel
      <3> QED BY <2>6, <3>3 DEF Queued
    <2>8. CASE \E p \in 1 .. Len(queue) : SentinelAt(p)
      <3>1. PICK p \in 1 .. Len(queue) : SentinelAt(p)
        BY <2>8
      <3>2. p \in 1 .. Len(queue') /\ queue'[p] = None
        BY <1>0, <2>4, <2>5, <3>1 DEF SentinelAt
      <3>3. \A i \in 1 .. Len(queue') : i # p => queue'[i] # None
        BY <1>0, <2>4, <2>5, <3>1 DEF SentinelAt
      <3>4. taken + Len(queue') = Len(log') + 1
        BY <1>0, <2>4, <3>1 DEF SentinelAt
      <3>5. SentinelAt(p)'
        BY <2>3, <3>1, <3>2, <3>3, <3>4 DEF SentinelAt
      <3>6. p \in Nat
        BY <1>0
      <3> QED BY <2>6, <3>5, <3>6, SentinelIsQueued
    <2> QED BY <2>7, <2>8 DEF Delivery, Queued
  <1>3. CASE StopClear
    <2>1. NoSentinel
      BY <1>3 DEF Delivery, Queued, SentinelAt, StopClear
    <2>2. NoSentinel'
      BY <1>3, <2>1 DEF NoSentinel, StopClear
    <2>3. Shutdown'
      BY <1>3 DEF Delivery, Shutdown, StopClear
    <2> QED BY <2>2, <2>3 DEF Queued
  <1>4. CASE StopPut
    <2>1. NoSentinel
      BY <1>4 DEF Delivery, Queued, SentinelAt, StopPut
    <2>2. /\ Len(queue') = Len(queue) + 1 /\ queue'[Len(queue) + 1] = None
          /\ \A i \in 1 .. Len(queue) : queue'[i] = queue[i]
      BY <1>1, <1>4 DEF StopPut
    <2>3. PICK p \in Nat : p = Len(queue) + 1
      BY <1>1
    <2>4. SentinelAt(p)'
      BY <1>1, <1>4, <2>1, <2>2, <2>3 DEF SentinelAt, NoSentinel, StopPut, threadVars
    <2>5. Shutdown'
      BY <1>4 DEF Delivery, Shutdown, StopPut
    <2> QED BY <2>4, <2>5, SentinelIsQueued
  <1>5. CASE StopJoin
    BY <1>5 DEF Delivery, Queued, NoSentinel, SentinelAt, Shutdown, StopJoin
  <1>6. CASE Tick
    BY <1>6 DEF Delivery, Queued, NoSentinel, SentinelAt, Shutdown, Tick
  <1> QED BY <1>2, <1>3, <1>4, <1>5, <1>6 DEF CallerStep

(* A step that leaves queue, log and caller alone leaves Queued alone.     *)
LEMMA QueuedSame ==
  ASSUME Queued, UNCHANGED <<queue, caller, log, atStop, taken>>
  PROVE  Queued'
  BY DEF Queued, NoSentinel, SentinelAt

LEMMA QueuedThread ==
  ASSUME Delivery, ThreadStep
  PROVE  Queued' /\ Shutdown'
  <1> USE DEF callerVars, checkVars, judgeFrame
  <1>0. TypeOK /\ Queued /\ Shutdown /\ taken \in Nat /\ atStop \in Nat
    BY DEF Delivery, TypeOK
  <1>1. CASE Loop
    <2>1. Shutdown' BY <1>0, <1>1 DEF Loop, Shutdown
    <2> QED BY <1>0, <1>1, <2>1, QueuedSame DEF Loop
  <1>2. CASE GetSample
    <2>1. Queued' BY <1>0, <1>2, QueuedTakeHead DEF GetSample
    <2>2. Shutdown' BY <1>0, <1>2 DEF GetSample, Shutdown
    <2> QED BY <2>1, <2>2
  <1>3. CASE GetNothing
    <2>1. Shutdown' BY <1>0, <1>3 DEF GetNothing, Shutdown
    <2>2. CASE Empty
      BY <1>0, <1>3, <2>1, <2>2, QueuedSame DEF GetNothing
    <2>3. CASE ~Empty
      BY <1>0, <1>3, <2>1, <2>3, QueuedDropNone DEF GetNothing
    <2> QED BY <2>2, <2>3
  <1>4. CASE DrainSample
    <2>1. Queued' BY <1>0, <1>4, QueuedTakeHead DEF DrainSample
    <2>2. Shutdown' BY <1>0, <1>4 DEF DrainSample, Shutdown
    <2> QED BY <2>1, <2>2
  <1>5. CASE DrainEnd
    <2>1. UNCHANGED <<running, closing, caller, log, atStop, taken, latest>>
      BY <1>5 DEF DrainEnd
    <2>2. CASE AtLimit \/ Empty
      <3>1. Queued' BY <1>0, <1>5, <2>1, <2>2, QueuedSame DEF DrainEnd
      <3>2. closing => taken >= atStop
        BY <1>0, <2>2, EmptyIsEnough DEF AtLimit, Shutdown
      <3>3. Shutdown' BY <1>0, <1>5, <2>1, <3>2 DEF DrainEnd, Shutdown
      <3> QED BY <3>1, <3>3
    <2>3. CASE ~(AtLimit \/ Empty)
      <3>1. Queued' /\ taken >= atStop
        BY <1>0, <1>5, <2>1, <2>3, QueuedDropNone DEF DrainEnd
      <3>2. Shutdown' BY <1>0, <1>5, <2>1, <3>1 DEF DrainEnd, Shutdown
      <3> QED BY <3>1, <3>2
    <2> QED BY <2>2, <2>3
  <1>6. CASE Flush
    <2>1. Shutdown' BY <1>0, <1>6 DEF Flush, Shutdown
    <2> QED BY <1>0, <1>6, <2>1, QueuedSame DEF Flush
  <1>7. CASE EmitSnapshot
    <2>1. Shutdown' BY <1>0, <1>7 DEF EmitSnapshot, Shutdown
    <2> QED BY <1>0, <1>7, <2>1, QueuedSame DEF EmitSnapshot
  <1>8. CASE SkipCheck
    <2>1. Shutdown' BY <1>0, <1>8 DEF SkipCheck, AfterEmit, Shutdown
    <2> QED BY <1>0, <1>8, <2>1, QueuedSame DEF SkipCheck
  <1>9. CASE Evaluate
    <2>1. Shutdown' BY <1>0, <1>9 DEF Evaluate, Shutdown
    <2> QED BY <1>0, <1>9, <2>1, QueuedSame DEF Evaluate
  <1>10. CASE Judge
    <2>1. UNCHANGED <<thread, judgeFrame>>
      BY <1>10 DEF Judge, JudgePassed, JudgeNoAbort, JudgeStartGrace, JudgeInGrace, JudgeAbort
    <2>2. Shutdown' BY <1>0, <2>1 DEF Shutdown
    <2> QED BY <1>0, <2>1, <2>2, QueuedSame
  <1>11. CASE JudgeDone
    <2>1. Shutdown' BY <1>0, <1>11 DEF JudgeDone, AfterEmit, Shutdown
    <2> QED BY <1>0, <1>11, <2>1, QueuedSame DEF JudgeDone
  <1> QED BY <1>1, <1>2, <1>3, <1>4, <1>5, <1>6, <1>7, <1>8, <1>9, <1>10, <1>11
          DEF ThreadStep

LEMMA DeliveryInductive == Spec => []Delivery
  <1>1. Delivery /\ [Next]_vars => Queued' /\ Shutdown'
    <2> SUFFICES ASSUME Delivery, [Next]_vars PROVE Queued' /\ Shutdown' OBVIOUS
    <2>1. CASE UNCHANGED vars
      <3>1. Queued' BY <2>1, QueuedSame DEF Delivery, vars, threadVars
      <3>2. Shutdown' BY <2>1 DEF Delivery, Shutdown, vars, threadVars
      <3> QED BY <3>1, <3>2
    <2> QED BY <2>1, QueuedCaller, QueuedThread DEF Next
  <1>2. Delivery /\ [Next]_vars /\ TypeOK' => Delivery'
    BY <1>1 DEF Delivery
  <1> QED BY <1>2, DeliveryInit, TypeCorrect, PTL DEF Spec

(* No sample put before stop() is missing from the last snapshot.          *)
THEOREM FinalSnapshotIsComplete == Spec => []FinalSnapshotComplete
  <1>1. Delivery => FinalSnapshotComplete
    BY DEF Delivery, Shutdown, FinalSnapshotComplete
  <1> QED BY <1>1, DeliveryInductive, PTL

-----------------------------------------------------------------------------
(* The refinement.  "pipe" is the phase the thread is in.                  *)
Phase ==
  IF closing /\ thread \in {"check", "judge", "done"} THEN "closed"
  ELSE IF running THEN "open" ELSE "stopping"

LEMMA PipeStartsOpen == Init => Pipe!PipeInit
  <1> SUFFICES ASSUME Init PROVE Pipe!PipeInit OBVIOUS
  <1>1. Len(log) = 0 BY DEF Init
  <1> QED BY <1>1 DEF Init, Pipe!PipeInit

LEMMA PipeStutters ==
  ASSUME UNCHANGED <<log, taken, latest, atStop>>, Phase' = Phase
  PROVE  UNCHANGED Pipe!pipeVars
  BY DEF Pipe!pipeVars, Phase

LEMMA CallerRefines ==
  ASSUME Delivery, CallerStep \/ Tick \/ \E s \in Sample : Put(s)
  PROVE  [Pipe!PipeNext]_(Pipe!pipeVars)
  <1> USE DEF threadVars
  <1>1. CASE \E s \in Sample : Put(s)
    <2>1. Len(log') = Len(log) + 1
      BY <1>1 DEF Put, Delivery, TypeOK
    <2>2. UNCHANGED <<taken, latest, atStop>> /\ Phase' = Phase
      BY <1>1 DEF Put, Phase
    <2>3. Pipe!PutSample
      BY <2>1, <2>2 DEF Pipe!PutSample, Phase
    <2> QED BY <2>3 DEF Pipe!PipeNext
  <1>2. CASE StopClear
    <2>1. running /\ ~running' /\ ~closing /\ closing' = closing
      BY <1>2 DEF StopClear, Delivery, Shutdown, TypeOK
    <2>2. Phase = "open" /\ Phase' = "stopping"
      BY <2>1 DEF Phase
    <2>3. atStop' = Len(log) /\ UNCHANGED <<log, taken, latest>>
      BY <1>2 DEF StopClear
    <2>4. Pipe!StopPipe
      BY <2>2, <2>3 DEF Pipe!StopPipe, Phase
    <2> QED BY <2>4 DEF Pipe!PipeNext
  <1>3. CASE StopPut
    BY <1>3, PipeStutters DEF StopPut, Phase
  <1>4. CASE StopJoin
    BY <1>4, PipeStutters DEF StopJoin, Phase
  <1>5. CASE Tick
    BY <1>5, PipeStutters DEF Tick, Phase
  <1> QED BY <1>1, <1>2, <1>3, <1>4, <1>5 DEF CallerStep

LEMMA IngestRefines ==
  ASSUME Delivery, GetSample \/ DrainSample
  PROVE  Pipe!IngestSample
  <1> USE DEF callerVars, checkVars
  <1>1. TakeHead /\ UNCHANGED <<caller, log, atStop, running, closing, latest>>
    BY DEF GetSample, DrainSample
  <1>2. taken < Len(log) /\ taken' = taken + 1
    BY <1>1, QueuedTakeHead DEF Delivery
  <1>3. thread \in {"get", "drain"} /\ thread' = "drain"
    BY DEF GetSample, DrainSample
  <1>4. Phase # "closed" /\ Phase' = Phase
    BY <1>1, <1>3 DEF Phase
  <1> QED BY <1>1, <1>2, <1>4 DEF Pipe!IngestSample, Phase

LEMMA EmitRefines ==
  ASSUME Delivery, EmitSnapshot
  PROVE  Pipe!Snapshot \/ Pipe!ClosePipe
  <1> USE DEF callerVars, checkVars
  <1>1. /\ thread = "emit" /\ thread' = "check" /\ latest' = taken
        /\ UNCHANGED <<log, taken, atStop, running, closing>>
    BY DEF EmitSnapshot
  <1>2. CASE closing
    <2>1. ~running /\ taken >= atStop
      BY <1>1, <1>2 DEF Delivery, Shutdown
    <2>2. Phase = "stopping" /\ Phase' = "closed"
      BY <1>1, <1>2, <2>1 DEF Phase
    <2>3. Pipe!ClosePipe
      BY <1>1, <2>1, <2>2 DEF Pipe!ClosePipe, Phase
    <2> QED BY <2>3
  <1>3. CASE ~closing
    <2>1. Phase # "closed" /\ Phase' = Phase
      BY <1>1, <1>3 DEF Phase
    <2>2. Pipe!Snapshot
      BY <1>1, <2>1 DEF Pipe!Snapshot, Phase
    <2> QED BY <2>2
  <1> QED BY <1>2, <1>3

LEMMA ThreadRefines ==
  ASSUME Delivery, ThreadStep
  PROVE  [Pipe!PipeNext]_(Pipe!pipeVars)
  <1> USE DEF callerVars, checkVars, judgeFrame
  <1>1. CASE GetSample \/ DrainSample
    BY <1>1, IngestRefines DEF Pipe!PipeNext
  <1>2. CASE EmitSnapshot
    BY <1>2, EmitRefines DEF Pipe!PipeNext
  <1>3. CASE Loop
    BY <1>3, PipeStutters DEF Loop, Phase
  <1>4. CASE GetNothing
    BY <1>4, PipeStutters DEF GetNothing, Phase
  <1>5. CASE DrainEnd
    BY <1>5, PipeStutters DEF DrainEnd, Phase
  <1>6. CASE Flush
    BY <1>6, PipeStutters DEF Flush, Phase
  <1>7. CASE SkipCheck
    BY <1>7, PipeStutters DEF SkipCheck, AfterEmit, Phase
  <1>8. CASE Evaluate
    BY <1>8, PipeStutters DEF Evaluate, Phase
  <1>9. CASE Judge
    <2>1. UNCHANGED <<thread, judgeFrame>>
      BY <1>9 DEF Judge, JudgePassed, JudgeNoAbort, JudgeStartGrace, JudgeInGrace, JudgeAbort
    <2> QED BY <2>1, PipeStutters DEF Phase
  <1>10. CASE JudgeDone
    BY <1>10, PipeStutters DEF JudgeDone, AfterEmit, Phase
  <1> QED BY <1>1, <1>2, <1>3, <1>4, <1>5, <1>6, <1>7, <1>8, <1>9, <1>10 DEF ThreadStep

(* The thread, its queue and its sentinel implement the abstract pipeline   *)
(* that Engine is built on.                                                *)
THEOREM ImplementsSamplePipe == Spec => ImplementsPipe
  <1>1. Delivery /\ [Next]_vars => [Pipe!PipeNext]_(Pipe!pipeVars)
    <2> SUFFICES ASSUME Delivery, [Next]_vars PROVE [Pipe!PipeNext]_(Pipe!pipeVars) OBVIOUS
    <2>1. CASE UNCHANGED vars
      BY <2>1, PipeStutters DEF vars, threadVars, Phase
    <2> QED BY <2>1, CallerRefines, ThreadRefines DEF Next
  <1> QED BY <1>1, PipeStartsOpen, DeliveryInductive, PTL
          DEF Spec, ImplementsPipe, Pipe!PipeSpec
-----------------------------------------------------------------------------
(* The grace periods.  Deadlines are kept by the text of the expression, so  *)
(* what follows is about thresholds of different texts.                     *)

TextsDiffer ==
  \A i, j \in DOMAIN Thresholds : i # j => Thresholds[i].atLeast # Thresholds[j].atLeast

(* An abort-on-fail threshold with a grace period has a deadline as long as  *)
(* it is failing, that far from when it began to fail.                     *)
Graced(i) == Thresholds[i].abortOnFail /\ Thresholds[i].grace > 0

Timely(i) ==
  LET text == Thresholds[i].atLeast
  IN  /\ text \in DOMAIN deadlines <=> failSince[i] # -1
      /\ failSince[i] # -1 => deadlines[text] = failSince[i] + Thresholds[i].grace

Graces ==
  /\ failSince \in [DOMAIN Thresholds -> Int]
  /\ \A i \in DOMAIN Thresholds : Graced(i) => Timely(i)

LEMMA ThresholdIsTyped ==
  ASSUME NEW i \in DOMAIN Thresholds
  PROVE  /\ Thresholds[i].grace \in Nat /\ Thresholds[i].atLeast \in Nat
         /\ Thresholds[i].abortOnFail \in BOOLEAN
  <1> DEFINE R == [key : Key, atLeast : Nat, abortOnFail : BOOLEAN, grace : Nat]
  <1>1. Thresholds[i] \in R
    <2> HIDE DEF R
    <2>1. Thresholds \in Seq(R)
      BY MetricEngineAssumption DEF R
    <2> QED BY <2>1
  <1> QED BY <1>1

(* _find_threshold() finds the threshold whose result is being judged.      *)
LEMMA FoundIsJudged ==
  ASSUME TextsDiffer, NEW i \in DOMAIN Thresholds
  PROVE  Found(Thresholds[i].atLeast) = Thresholds[i]
  <1> DEFINE Fits(k) == /\ Thresholds[k].atLeast = Thresholds[i].atLeast
                        /\ \A j \in 1 .. k - 1 : Thresholds[j].atLeast # Thresholds[i].atLeast
  <1>1. DOMAIN Thresholds = 1 .. Len(Thresholds) /\ Len(Thresholds) \in Nat
    BY MetricEngineAssumption
  <1>2. Fits(i)
    BY <1>1 DEF TextsDiffer
  <1>3. \A k \in DOMAIN Thresholds : Fits(k) => k = i
    BY DEF TextsDiffer
  <1> PICK k : k = CHOOSE x \in DOMAIN Thresholds : Fits(x) OBVIOUS
  <1> HIDE DEF Fits
  <1>4. k = i
    BY <1>2, <1>3
  <1> QED BY <1>4 DEF Found, Fits

LEMMA JudgedIsThreshold ==
  ASSUME TypeOK, Judging
  PROVE  i0 \in DOMAIN Thresholds /\ judged \in Nat
  <1>1. DOMAIN Thresholds = 1 .. Len(Thresholds) /\ Len(Thresholds) \in Nat
    BY MetricEngineAssumption
  <1> QED BY <1>1 DEF TypeOK, Judging, i0

LEMMA GracesInit == Init => Graces
  <1> SUFFICES ASSUME Init PROVE Graces OBVIOUS
  <1>1. DOMAIN deadlines = {}
    BY DEF Init
  <1>2. failSince \in [DOMAIN Thresholds -> Int] /\ \A i \in DOMAIN Thresholds : failSince[i] = -1
    BY DEF Init
  <1> QED BY <1>1, <1>2 DEF Graces, Timely

LEMMA OthersKeepGraces ==
  ASSUME Graces, UNCHANGED <<deadlines, failSince>> PROVE Graces'
  BY DEF Graces, Timely

LEMMA JudgeKeepsGraces ==
  ASSUME TypeOK, TextsDiffer, Graces, Judge
  PROVE  Graces'
  <1>1. Judging
    BY DEF Judge, JudgePassed, JudgeNoAbort, JudgeStartGrace, JudgeInGrace, JudgeAbort
  <1> PICK n : n = i0 OBVIOUS
  <1>2. n \in DOMAIN Thresholds
    BY <1>1, JudgedIsThreshold
  <1> PICK th : th = Thresholds[n] OBVIOUS
  <1>3. th.grace \in Nat /\ clock \in Nat
    BY <1>2, ThresholdIsTyped DEF TypeOK
  <1>4. Found(Text) = th /\ Text = th.atLeast
    BY <1>2, FoundIsJudged DEF Text
  <1> PICK text : text = th.atLeast OBVIOUS
  <1>5. \A i \in DOMAIN Thresholds : i # n => Thresholds[i].atLeast # text
    BY <1>2 DEF TextsDiffer
  <1>6. ASSUME Failing
        PROVE  /\ failSince' \in [DOMAIN Thresholds -> Int] /\ failSince'[n] # -1
               /\ failSince[n] # -1 => failSince'[n] = failSince[n]
               /\ failSince[n] = -1 => failSince'[n] = clock
               /\ \A i \in DOMAIN Thresholds : i # n => failSince'[i] = failSince[i]
    BY <1>2, <1>3, <1>6 DEF Failing, Graces
  <1>7. CASE JudgePassed
    <2>1. failSince' = [failSince EXCEPT ![n] = -1] /\ deadlines' = Without(deadlines, text)
      BY <1>4, <1>7 DEF JudgePassed
    <2>2. /\ failSince' \in [DOMAIN Thresholds -> Int] /\ failSince'[n] = -1
          /\ \A i \in DOMAIN Thresholds : i # n => failSince'[i] = failSince[i]
      BY <1>2, <2>1 DEF Graces
    <2>3. /\ text \notin DOMAIN deadlines'
          /\ \A x : x # text => /\ x \in DOMAIN deadlines' <=> x \in DOMAIN deadlines
                                /\ x \in DOMAIN deadlines => deadlines'[x] = deadlines[x]
      BY <2>1 DEF Without
    <2>4. Timely(n)'
      BY <2>2, <2>3 DEF Timely
    <2>5. ASSUME NEW i \in DOMAIN Thresholds, i # n, Timely(i) PROVE Timely(i)'
      <3> PICK other : other = Thresholds[i].atLeast OBVIOUS
      <3>1. other # text /\ failSince'[i] = failSince[i]
        BY <1>5, <2>2, <2>5
      <3>2. /\ other \in DOMAIN deadlines' <=> other \in DOMAIN deadlines
            /\ other \in DOMAIN deadlines => deadlines'[other] = deadlines[other]
        BY <2>3, <3>1
      <3> QED BY <2>5, <3>1, <3>2 DEF Timely
    <2> QED BY <2>2, <2>4, <2>5 DEF Graces
  <1>8. CASE JudgeNoAbort
    <2>1. Failing /\ deadlines' = deadlines /\ ~Graced(n)
      BY <1>4, <1>8 DEF JudgeNoAbort, Graced
    <2>2. ASSUME NEW i \in DOMAIN Thresholds, i # n, Timely(i) PROVE Timely(i)'
      BY <1>6, <2>1, <2>2 DEF Timely
    <2> QED BY <1>6, <2>1, <2>2 DEF Graces
  <1>9. CASE JudgeStartGrace
    <2>1. /\ Failing /\ deadlines' = With(deadlines, text, clock + th.grace)
          /\ text \notin DOMAIN deadlines /\ Graced(n)
      BY <1>4, <1>9 DEF JudgeStartGrace, Graced
    <2>2. /\ text \in DOMAIN deadlines' /\ deadlines'[text] = clock + th.grace
          /\ \A x : x # text => /\ x \in DOMAIN deadlines' <=> x \in DOMAIN deadlines
                                /\ x \in DOMAIN deadlines => deadlines'[x] = deadlines[x]
      BY <2>1 DEF With
    <2>3. failSince[n] = -1
      BY <1>2, <2>1 DEF Graces, Timely
    <2>4. Timely(n)'
      BY <1>6, <2>1, <2>2, <2>3 DEF Timely
    <2>5. ASSUME NEW i \in DOMAIN Thresholds, i # n, Timely(i) PROVE Timely(i)'
      <3> PICK other : other = Thresholds[i].atLeast OBVIOUS
      <3>1. other # text /\ failSince'[i] = failSince[i]
        BY <1>5, <1>6, <2>1, <2>5
      <3>2. /\ other \in DOMAIN deadlines' <=> other \in DOMAIN deadlines
            /\ other \in DOMAIN deadlines => deadlines'[other] = deadlines[other]
        BY <2>2, <3>1
      <3> QED BY <2>5, <3>1, <3>2 DEF Timely
    <2> QED BY <1>6, <2>1, <2>4, <2>5 DEF Graces
  <1>10. CASE JudgeInGrace \/ JudgeAbort
    <2>1. Failing /\ deadlines' = deadlines /\ (Graced(n) => text \in DOMAIN deadlines)
      BY <1>4, <1>10 DEF JudgeInGrace, JudgeAbort, Graced
    <2>2. ASSUME Graced(n) PROVE Timely(n)'
      <3>1. Timely(n) /\ failSince[n] # -1
        BY <1>2, <2>1, <2>2 DEF Graces, Timely
      <3> QED BY <1>6, <2>1, <3>1 DEF Timely
    <2>3. ASSUME NEW i \in DOMAIN Thresholds, i # n, Timely(i) PROVE Timely(i)'
      BY <1>6, <2>1, <2>3 DEF Timely
    <2> QED BY <1>6, <2>1, <2>2, <2>3 DEF Graces
  <1> QED BY <1>7, <1>8, <1>9, <1>10 DEF Judge

(* What the judging of a result does, given the deadlines are right.        *)
Honoured ==
  (thread = "judge" /\ judged' > judged) =>
    LET th == Thresholds[i0]
    IN  (aborts' > aborts) <=>
          /\ ~verdicts[i0] /\ th.abortOnFail
          /\ th.grace > 0 => /\ failSince[i0] # -1
                             /\ clock - failSince[i0] >= th.grace

LEMMA JudgeHonours ==
  ASSUME TypeOK, TextsDiffer, Graces, Judge
  PROVE  Honoured
  <1>1. Judging
    BY DEF Judge, JudgePassed, JudgeNoAbort, JudgeStartGrace, JudgeInGrace, JudgeAbort
  <1> PICK n : n = i0 OBVIOUS
  <1>2. n \in DOMAIN Thresholds
    BY <1>1, JudgedIsThreshold
  <1> PICK th : th = Thresholds[n] OBVIOUS
  <1>3. th.grace \in Nat /\ clock \in Nat /\ aborts \in Nat /\ failSince[n] \in Int
    BY <1>2, ThresholdIsTyped DEF TypeOK, Graces
  <1>4. Found(Text) = th /\ Text = th.atLeast
    BY <1>2, FoundIsJudged DEF Text
  <1> PICK text : text = th.atLeast OBVIOUS
  <1>5. Graced(n) => Timely(n)
    BY <1>2 DEF Graces
  <1>6. CASE JudgePassed \/ JudgeNoAbort
    <2>1. aborts' = aborts /\ (verdicts[n] \/ ~th.abortOnFail)
      BY <1>4, <1>6 DEF JudgePassed, JudgeNoAbort
    <2> QED BY <1>3, <2>1 DEF Honoured
  <1>7. CASE JudgeStartGrace
    <2>1. aborts' = aborts /\ Graced(n) /\ text \notin DOMAIN deadlines
      BY <1>4, <1>7 DEF JudgeStartGrace, Graced
    <2>2. failSince[n] = -1
      BY <1>5, <2>1 DEF Timely
    <2> QED BY <1>3, <2>1, <2>2 DEF Honoured, Graced
  <1>8. CASE JudgeInGrace
    <2>1. /\ aborts' = aborts /\ Graced(n) /\ text \in DOMAIN deadlines
          /\ clock < deadlines[text]
      BY <1>4, <1>8 DEF JudgeInGrace, Graced
    <2>2. clock < failSince[n] + th.grace
      BY <1>5, <2>1 DEF Timely
    <2>3. ~(clock - failSince[n] >= th.grace)
      BY <1>3, <2>2
    <2> QED BY <1>3, <2>1, <2>3 DEF Honoured, Graced
  <1>9. CASE JudgeAbort
    <2>1. /\ aborts' = aborts + 1 /\ th.abortOnFail /\ ~verdicts[n]
          /\ th.grace > 0 => text \in DOMAIN deadlines /\ clock >= deadlines[text]
      BY <1>4, <1>9 DEF JudgeAbort
    <2>2. th.grace > 0 => failSince[n] # -1 /\ clock >= failSince[n] + th.grace
      BY <1>5, <2>1 DEF Timely, Graced
    <2>3. th.grace > 0 => failSince[n] # -1 /\ clock - failSince[n] >= th.grace
      BY <1>3, <2>2
    <2> QED BY <1>3, <2>1, <2>3 DEF Honoured
  <1> QED BY <1>6, <1>7, <1>8, <1>9 DEF Judge

(* A step that judges nothing keeps the deadlines and honours them.         *)
LEMMA NothingJudged ==
  ASSUME TypeOK, Graces, UNCHANGED <<deadlines, failSince>>, thread # "judge" \/ judged' = judged
  PROVE  Graces' /\ Honoured
  <1>1. Graces'
    BY OthersKeepGraces
  <1>2. judged \in Nat
    BY DEF TypeOK
  <1> QED BY <1>1, <1>2 DEF Honoured

LEMMA GracesStep ==
  ASSUME TypeOK, TextsDiffer, Graces, [Next]_vars
  PROVE  Graces' /\ Honoured
  <1> USE DEF callerVars, checkVars, judgeFrame, threadVars
  <1>1. CASE UNCHANGED vars
    BY <1>1, NothingJudged DEF vars
  <1>2. CASE CallerStep \/ Tick \/ \E s \in Sample : Put(s)
    <2>1. UNCHANGED <<deadlines, failSince, judged>>
      BY <1>2 DEF CallerStep, StopClear, StopPut, StopJoin, Tick, Put
    <2> QED BY <2>1, NothingJudged
  <1>3. CASE Loop \/ GetSample \/ GetNothing \/ DrainSample \/ DrainEnd \/ Flush
               \/ EmitSnapshot \/ SkipCheck
    <2>1. UNCHANGED <<deadlines, failSince, judged>>
      BY <1>3 DEF Loop, GetSample, GetNothing, DrainSample, DrainEnd, Flush, EmitSnapshot, SkipCheck
    <2> QED BY <2>1, NothingJudged
  <1>4. CASE Evaluate
    <2>1. UNCHANGED <<deadlines, failSince>> /\ thread # "judge"
      BY <1>4 DEF Evaluate
    <2> QED BY <2>1, NothingJudged
  <1>5. CASE JudgeDone
    <2>1. UNCHANGED <<deadlines, failSince, judged>>
      BY <1>5 DEF JudgeDone
    <2> QED BY <2>1, NothingJudged
  <1> QED BY <1>1, <1>2, <1>3, <1>4, <1>5, JudgeKeepsGraces, JudgeHonours DEF Next, ThreadStep

(* Of thresholds whose expressions differ in their text, a judged one aborts *)
(* the run exactly if it is an abort-on-fail threshold, fails, and has been  *)
(* failing for its grace period, whatever came in between.                  *)
THEOREM GraceAlwaysHonoured ==
  ASSUME TextsDiffer PROVE Spec => GraceHonoured
  <1>1. TypeOK /\ Graces /\ [Next]_vars => Graces'
    BY GracesStep
  <1>2. TypeOK /\ Graces /\ [Next]_vars =>
          [(thread = "judge" /\ judged' > judged) =>
             LET th == Thresholds[i0]
             IN  (aborts' > aborts) <=>
                   /\ ~verdicts[i0] /\ th.abortOnFail
                   /\ th.grace > 0 => /\ failSince[i0] # -1
                                      /\ clock - failSince[i0] >= th.grace]_vars
    BY GracesStep DEF Honoured
  <1> QED BY <1>1, <1>2, GracesInit, TypeCorrect, PTL DEF Spec, GraceHonoured
=============================================================================
