---------------------------- MODULE MetricEngine ----------------------------
(***************************************************************************)
(* The aggregation thread of rampa (class MetricEngine of metrics.py).     *)
(*                                                                         *)
(* Tasks on the event loop put samples on an unbounded thread-safe queue.  *)
(* One background thread drains the queue into the sinks of the registry,  *)
(* emits a snapshot every FlushInterval and, every ThresholdInterval,      *)
(* evaluates the live thresholds, aborting the run when an abort-on-fail   *)
(* threshold has kept failing for its grace period.  stop() clears a flag, *)
(* puts the sentinel None on the queue and joins the thread for at most    *)
(* JoinTimeout.                                                            *)
(*                                                                         *)
(* Data.  A sample is a metric, one tag and a truth value; a sink is the   *)
(* pair of counters of RateSink, or the sample count of the TrendSink that *)
(* the thread creates for a metric nobody registered.  The live            *)
(* thresholds are of the form "rate>=N%": N is the text of the expression  *)
(* (Threshold.source) and its right-hand side at once.                     *)
(***************************************************************************)
EXTENDS Integers, Sequences, FiniteSets

CONSTANTS
  Sample,            \* the samples the workload may emit: [metric, tag, ok]
  Builtin,           \* metrics registered before the thread starts (rates)
  SubSinks,          \* <<metric, tag>> sinks registered for tagged thresholds
  AnyTag,            \* stands for "no tag filter" in the key of a base sink
  None,              \* the shutdown sentinel
  Thresholds,        \* sequence of [key, atLeast, abortOnFail, grace]
  FlushInterval,     \* flush_interval
  ThresholdInterval, \* threshold_interval
  DrainLimit,        \* samples one _drain_available() call takes at most
  JoinTimeout,       \* the timeout of Thread.join() in stop()
  Uptime,            \* readings of the monotonic clock when start() is called
  MaxSamples,        \* bound: samples put in one behaviour
  MaxTime            \* bound: ticks of the clock after start()

Metric == Builtin \cup {s.metric : s \in Sample}
Tag    == {s.tag : s \in Sample}
Key    == Metric \X (Tag \cup {AnyTag})

ASSUME MetricEngineAssumption ==
  /\ None \notin Sample
  /\ AnyTag \notin Tag
  /\ SubSinks \subseteq Builtin \X Tag
  /\ Thresholds \in Seq([key : Key, atLeast : Nat, abortOnFail : BOOLEAN, grace : Nat])
  /\ FlushInterval \in Nat /\ ThresholdInterval \in Nat
  /\ DrainLimit \in Nat \ {0} /\ JoinTimeout \in Nat
  /\ Uptime \subseteq Nat /\ MaxSamples \in Nat /\ MaxTime \in Nat

VARIABLES
  queue,      \* sample_queue
  running,    \* _running
  thread,     \* where the thread is in _run()
  closing,    \* the thread has left the while loop of _run()
  drained,    \* count of the current _drain_available() call
  sinks,      \* the sinks of the registry, base sinks and sub-sinks by key
  lastFlush,  \* last_flush
  lastCheck,  \* _last_threshold_check
  verdicts,   \* passed, for each result of the evaluation being judged
  judged,     \* how many of those results _check_thresholds() has looked at
  deadlines,  \* _grace_deadlines: expression text -> time
  aborts,     \* number of calls of abort_callback
  latest,     \* samples covered by the newest of _snapshots, -1 before it
  clock,      \* time.monotonic()
  caller,     \* where the event-loop thread is in stop()
  joinStart,  \* when the caller entered join()
  log,        \* history: every sample put, in order
  atStop,     \* history: Len(log) when stop() was called, 0 before
  taken,      \* history: how many samples were ingested
  failSince   \* history: when a threshold was first judged failing, or -1

threadVars == <<thread, closing, drained, sinks, lastFlush, lastCheck, verdicts,
                judged, deadlines, aborts, latest, taken, failSince>>
vars == <<queue, running, clock, caller, joinStart, log, atStop, threadVars>>

-----------------------------------------------------------------------------
(* The sinks.                                                              *)

EmptySink(kind) == [kind |-> kind, trues |-> 0, total |-> 0]

(* A sample feeds its metric's sink and the sub-sinks whose tags it matches. *)
Feeds(s, key) == key[1] = s.metric /\ key[2] \in {AnyTag, s.tag}

AddTo(sink, s) ==
  [kind  |-> sink.kind,
   trues |-> IF s.ok THEN sink.trues + 1 ELSE sink.trues,
   total |-> sink.total + 1]

(* sinks after _ingest(s): a metric without a sink gets a TREND sink first. *)
Ingested(s) ==
  [key \in DOMAIN sinks \cup {<<s.metric, AnyTag>>} |->
     LET sink == IF key \in DOMAIN sinks THEN sinks[key] ELSE EmptySink("trend")
     IN  IF Feeds(s, key) THEN AddTo(sink, s) ELSE sink]

(* evaluate_threshold() of "rate>=N%".  A missing sink passes; a rate over  *)
(* no observation, and the rate of a sink that has none, read as 0.0.       *)
Passes(th) ==
  \/ th.key \notin DOMAIN sinks
  \/ th.atLeast = 0
  \/ /\ sinks[th.key].kind = "rate"
     /\ sinks[th.key].total > 0
     /\ 100 * sinks[th.key].trues >= th.atLeast * sinks[th.key].total

(* _find_threshold(): the first threshold, in configuration order, whose    *)
(* expression is the given text.                                            *)
Found(text) ==
  Thresholds[CHOOSE i \in DOMAIN Thresholds :
               /\ Thresholds[i].atLeast = text
               /\ \A j \in 1 .. i - 1 : Thresholds[j].atLeast # text]

-----------------------------------------------------------------------------
Init ==
  /\ queue = <<>> /\ running = TRUE
  /\ thread = "loop" /\ closing = FALSE /\ drained = 0
  /\ sinks = [key \in (Builtin \X {AnyTag}) \cup SubSinks |-> EmptySink("rate")]
  /\ clock \in Uptime
  /\ lastFlush = clock /\ lastCheck = 0
  /\ verdicts = <<>> /\ judged = 0
  /\ deadlines = <<>> /\ aborts = 0 /\ latest = -1
  /\ caller = "run" /\ joinStart = 0
  /\ log = <<>> /\ atStop = 0 /\ taken = 0
  /\ failSince = [i \in DOMAIN Thresholds |-> -1]

-----------------------------------------------------------------------------
(* The event-loop thread.                                                  *)

(* A task emits a sample.  Tasks that outlive the executors can still do so *)
(* after stop() has returned.                                               *)
Put(s) ==
  /\ caller \in {"run", "joined"}
  /\ Len(log) < MaxSamples
  /\ queue' = Append(queue, s)
  /\ log' = Append(log, s)
  /\ UNCHANGED <<running, clock, caller, joinStart, atStop, threadVars>>

(* stop(): _running = False ... *)
StopClear ==
  /\ caller = "run"
  /\ running' = FALSE
  /\ caller' = "stop"
  /\ atStop' = Len(log)
  /\ UNCHANGED <<queue, clock, joinStart, log, threadVars>>

(* ... sample_queue.put(None) ... *)
StopPut ==
  /\ caller = "stop"
  /\ queue' = Append(queue, None)
  /\ caller' = "join"
  /\ joinStart' = clock
  /\ UNCHANGED <<running, clock, log, atStop, threadVars>>

(* ... _thread.join(timeout=5.0), which gives up silently when it expires. *)
StopJoin ==
  /\ caller = "join"
  /\ thread = "done" \/ clock >= joinStart + JoinTimeout
  /\ caller' = "joined"
  /\ UNCHANGED <<queue, running, clock, joinStart, log, atStop, threadVars>>

Tick ==
  /\ \E origin \in Uptime : clock < origin + MaxTime /\ \A o \in Uptime : o <= origin
  /\ clock' = clock + 1
  /\ UNCHANGED <<queue, running, caller, joinStart, log, atStop, threadVars>>

-----------------------------------------------------------------------------
(* The aggregation thread.                                                 *)

callerVars == <<running, clock, caller, joinStart, log, atStop>>
checkVars  == <<lastCheck, verdicts, judged, deadlines, aborts, failSince>>

(* Wrong: the thread stops without a last drain.                            *)
LoopWithoutDrain ==
  /\ thread = "loop"
  /\ IF running
       THEN thread' = "get" /\ UNCHANGED <<closing, drained>>
       ELSE thread' = "emit" /\ closing' = TRUE /\ drained' = 0
  /\ UNCHANGED <<queue, sinks, lastFlush, latest, taken, checkVars, callerVars>>

(* Wrong: the thread does not look at the flag.                             *)
LoopForever ==
  /\ thread = "loop"
  /\ thread' = "get"
  /\ UNCHANGED <<queue, closing, drained, sinks, lastFlush, latest, taken, checkVars, callerVars>>

(* while self._running: ... and, once it is false, the final drain. *)
Loop ==
  /\ thread = "loop"
  /\ IF running
       THEN thread' = "get" /\ UNCHANGED <<closing, drained>>
       ELSE thread' = "drain" /\ closing' = TRUE /\ drained' = 0
  /\ UNCHANGED <<queue, sinks, lastFlush, latest, taken, checkVars, callerVars>>

Empty       == queue = <<>>
HeadIsNone  == ~Empty /\ Head(queue) = None

TakeHead ==
  /\ ~Empty /\ ~HeadIsNone
  /\ queue' = Tail(queue)
  /\ sinks' = Ingested(Head(queue))
  /\ taken' = taken + 1

(* sample_queue.get(timeout=flush_interval) returns a sample. *)
GetSample ==
  /\ thread = "get"
  /\ TakeHead
  /\ thread' = "drain"
  /\ drained' = 0
  /\ UNCHANGED <<closing, lastFlush, latest, checkVars, callerVars>>

(* It returns the sentinel, which is dropped, or times out on an empty      *)
(* queue.  (The timeout may fire as soon as the queue is empty: how long    *)
(* the thread sat in get() is not part of the state.)                       *)
GetNothing ==
  /\ thread = "get"
  /\ Empty \/ HeadIsNone
  /\ queue' = IF Empty THEN queue ELSE Tail(queue)
  /\ thread' = "flush"
  /\ UNCHANGED <<closing, drained, sinks, lastFlush, latest, taken, checkVars, callerVars>>

(* _drain_available(limit): the shutdown drain has no limit. *)
AtLimit == ~closing /\ drained = DrainLimit

DrainSample ==
  /\ thread = "drain"
  /\ ~AtLimit
  /\ TakeHead
  /\ drained' = IF closing THEN drained ELSE drained + 1
  /\ UNCHANGED <<thread, closing, lastFlush, latest, checkVars, callerVars>>

(* It ends at the limit, at an empty queue, or at the sentinel it consumes. *)
DrainEnd ==
  /\ thread = "drain"
  /\ AtLimit \/ Empty \/ HeadIsNone
  /\ queue' = IF AtLimit \/ Empty THEN queue ELSE Tail(queue)
  /\ thread' = IF closing THEN "emit" ELSE "flush"
  /\ UNCHANGED <<closing, drained, sinks, lastFlush, latest, taken, checkVars, callerVars>>

(* The loop emits a snapshot when the last one is FlushInterval old. *)
Flush ==
  /\ thread = "flush"
  /\ IF clock - lastFlush >= FlushInterval
       THEN thread' = "emit" /\ lastFlush' = clock
       ELSE thread' = "loop" /\ UNCHANGED lastFlush
  /\ UNCHANGED <<queue, closing, drained, sinks, latest, taken, checkVars, callerVars>>

(* _emit_snapshot() appends the snapshot - the sinks as they are, that is,  *)
(* all that was ingested so far - and hands it to on_snapshot.              *)
EmitSnapshot ==
  /\ thread = "emit"
  /\ latest' = taken
  /\ thread' = "check"
  /\ UNCHANGED <<queue, closing, drained, sinks, lastFlush, taken, checkVars, callerVars>>

AfterEmit == IF closing THEN "done" ELSE "loop"

(* ... and returns, the thresholds not being due. *)
SkipCheck ==
  /\ thread = "check"
  /\ Thresholds = <<>> \/ clock - lastCheck < ThresholdInterval
  /\ thread' = AfterEmit
  /\ UNCHANGED <<queue, closing, drained, sinks, lastFlush, latest, taken, checkVars, callerVars>>

(* _check_thresholds(): evaluate all of them, call on_threshold. *)
Evaluate ==
  /\ thread = "check"
  /\ Thresholds # <<>> /\ clock - lastCheck >= ThresholdInterval
  /\ lastCheck' = clock
  /\ verdicts' = [i \in DOMAIN Thresholds |-> Passes(Thresholds[i])]
  /\ judged' = 0
  /\ thread' = "judge"
  /\ UNCHANGED <<queue, closing, drained, sinks, lastFlush, latest, taken,
                 deadlines, aborts, failSince, callerVars>>

-----------------------------------------------------------------------------
(* The loop over the results in _check_thresholds().                       *)

i0   == judged + 1
Text == Thresholds[i0].atLeast

Without(f, x) == [y \in DOMAIN f \ {x} |-> f[y]]
With(f, x, v) == [y \in DOMAIN f \cup {x} |-> IF y = x THEN v ELSE f[y]]

Judging == thread = "judge" /\ judged < Len(Thresholds)

judgeFrame == <<queue, closing, drained, sinks, lastFlush, latest, taken,
                lastCheck, verdicts, callerVars>>

Failing == failSince' = [failSince EXCEPT ![i0] = IF @ = -1 THEN clock ELSE @]

(* Wrong: the deadline of a threshold that recovers is kept.                *)
JudgePassedKeepsDeadline ==
  /\ Judging /\ verdicts[i0]
  /\ failSince' = [failSince EXCEPT ![i0] = -1]
  /\ judged' = i0
  /\ UNCHANGED <<thread, deadlines, aborts, judgeFrame>>

(* if result.passed: self._grace_deadlines.pop(result.source, None) *)
JudgePassed ==
  /\ Judging /\ verdicts[i0]
  /\ deadlines' = Without(deadlines, Text)
  /\ failSince' = [failSince EXCEPT ![i0] = -1]
  /\ judged' = i0
  /\ UNCHANGED <<thread, aborts, judgeFrame>>

(* if threshold is None or not threshold.abort_on_fail: continue *)
JudgeNoAbort ==
  /\ Judging /\ ~verdicts[i0]
  /\ ~Found(Text).abortOnFail
  /\ Failing
  /\ judged' = i0
  /\ UNCHANGED <<thread, deadlines, aborts, judgeFrame>>

(* The first failure of a threshold with a grace period sets its deadline. *)
JudgeStartGrace ==
  /\ Judging /\ ~verdicts[i0]
  /\ Found(Text).abortOnFail
  /\ Found(Text).grace > 0 /\ Text \notin DOMAIN deadlines
  /\ deadlines' = With(deadlines, Text, clock + Found(Text).grace)
  /\ Failing
  /\ judged' = i0
  /\ UNCHANGED <<thread, aborts, judgeFrame>>

JudgeInGrace ==
  /\ Judging /\ ~verdicts[i0]
  /\ Found(Text).abortOnFail
  /\ Found(Text).grace > 0 /\ Text \in DOMAIN deadlines
  /\ clock < deadlines[Text]
  /\ Failing
  /\ judged' = i0
  /\ UNCHANGED <<thread, deadlines, aborts, judgeFrame>>

(* self.abort_callback(); return - the remaining results are not judged. *)
JudgeAbort ==
  /\ Judging /\ ~verdicts[i0]
  /\ Found(Text).abortOnFail
  /\ Found(Text).grace > 0 => Text \in DOMAIN deadlines /\ clock >= deadlines[Text]
  /\ aborts' = aborts + 1
  /\ Failing
  /\ judged' = Len(Thresholds)
  /\ UNCHANGED <<thread, deadlines, judgeFrame>>

JudgeDone ==
  /\ thread = "judge" /\ judged = Len(Thresholds)
  /\ thread' = AfterEmit
  /\ UNCHANGED <<judged, deadlines, aborts, failSince, judgeFrame>>

Judge == JudgePassed \/ JudgeNoAbort \/ JudgeStartGrace \/ JudgeInGrace \/ JudgeAbort

ThreadStep ==
  \/ Loop \/ GetSample \/ GetNothing \/ DrainSample \/ DrainEnd \/ Flush
  \/ EmitSnapshot \/ SkipCheck \/ Evaluate \/ Judge \/ JudgeDone

CallerStep == StopClear \/ StopPut \/ StopJoin

Next == ThreadStep \/ CallerStep \/ Tick \/ (\E s \in Sample : Put(s))

(* The operating system keeps scheduling the thread.  Nobody has to emit a *)
(* sample, or to call stop(); a caller inside stop() goes on.               *)
Fairness == WF_vars(ThreadStep) /\ WF_vars(StopPut)

Spec == Init /\ [][Next]_vars /\ Fairness

-----------------------------------------------------------------------------
(* Properties.                                                             *)

Message == Sample \cup {None}
Sink    == [kind : {"rate", "trend"}, trues : Nat, total : Nat]

TypeOK ==
  /\ queue \in Seq(Message)
  /\ running \in BOOLEAN
  /\ thread \in {"loop", "get", "drain", "flush", "emit", "check", "judge", "done"}
  /\ closing \in BOOLEAN
  /\ drained \in 0 .. DrainLimit
  /\ DOMAIN sinks \subseteq Key
  /\ \A key \in DOMAIN sinks : sinks[key] \in Sink
  /\ {clock, lastFlush, lastCheck, joinStart, aborts, taken, judged, atStop} \subseteq Nat
  /\ latest \in Nat \cup {-1}
  /\ caller \in {"run", "stop", "join", "joined"}
  /\ log \in Seq(Sample)

(* No sample emitted before stop() was called is missing from the last     *)
(* snapshot the thread takes, whatever the moment the flag and the         *)
(* sentinel reach it (metrics.py, stop(), _run() and _drain_available()).  *)
FinalSnapshotComplete ==
  thread = "done" => latest >= atStop

(* A judged threshold aborts the run if and only if it is an abort-on-fail *)
(* threshold, fails now, and was failing at every evaluation for at least  *)
(* its grace period (_check_thresholds() and _grace_deadlines).  The call  *)
(* of abort_callback is repeated at every such evaluation, where the       *)
(* docstring of the engine has it called once.                             *)
GraceHonoured ==
  [][(thread = "judge" /\ judged' > judged) =>
       LET th == Thresholds[i0]
       IN  (aborts' > aborts) <=>
             /\ ~verdicts[i0] /\ th.abortOnFail
             /\ th.grace > 0 => /\ failSince[i0] # -1
                                /\ clock - failSince[i0] >= th.grace]_vars

(* The thread, its queue and its sentinel implement the abstract pipeline: *)
(* samples are ingested in order, none twice, and the pipeline closes only *)
(* with a snapshot that covers everything put before stop().               *)
Pipe == INSTANCE SamplePipe WITH
  put    <- Len(log),
  need   <- atStop,
  pipe   <- IF closing /\ thread \in {"check", "judge", "done"} THEN "closed"
            ELSE IF running THEN "open" ELSE "stopping"

ImplementsPipe == Pipe!PipeSpec

(* Once the flag is cleared the thread ends, however many samples are      *)
(* queued: the caller's join() is not waiting for nothing.                 *)
ThreadEnds == (caller = "stop") ~> (thread = "done")
=============================================================================
