------------------------------- MODULE Runner -------------------------------
(***************************************************************************)
(* A run without a user interface: run_test() (runner.py) starts the        *)
(* engine, an optional event log and an optional progress line, both        *)
(* streams of the event bus (EventBus), waits for the run, and then hands   *)
(* its samples to the outputs (output.py, outputs/) one after the other.    *)
(* An output may raise at any of its calls; the run is then left where it   *)
(* is, and the process exits with a traceback.                             *)
(*                                                                         *)
(* Of the engine there is left that it publishes events, emits samples,     *)
(* and ends with a status.                                                 *)
(***************************************************************************)
EXTENDS EventBus, SequencesExt

CONSTANTS
  Log, Progress, \* the consumers that are drain_task and progress_task
  Outputs,       \* the outputs in the order they are added: a sequence of kinds
  BatchSize,     \* batch_size of those that post
  MaxSamples     \* bound: samples emitted in a run

(* What the outputs make of samples: nothing, a file written in stop(), or   *)
(* posts of a batch and of the rest in stop().                             *)
Ignores == "console"
InFile  == "file"
Posts   == "post"

ASSUME RunnerAssumption ==
  /\ {Log, Progress} \subseteq Consumer
  /\ Outputs \in Seq({Ignores, InFile, Posts})
  /\ BatchSize \in Nat \ {0} /\ MaxSamples \in Nat

VARIABLES
  logging, showing, \* event_log_path, progress
  run,      \* where run_test() is, "none" in a program that does without it
  at,       \* the output its loop has come to
  task,     \* drain_task and progress_task: "none", "new", "open", "done", "failed"
  emitted,  \* output_samples: how many samples the engine has emitted
  ending,   \* events published before the None
  samples,  \* _samples of the OutputManager
  batch,    \* the batch flush() is delivering
  phase,    \* of each output: "new", "started", "stopped"
  buffer,   \* _buffer or _samples of each output
  written,  \* what each output has written to its file or posted
  refused,  \* what it has posted in vain: the error is logged
  status,   \* of the RunResult
  exit      \* exit code of the process, -1 before it ends

rvars == <<logging, showing, run, at, task, emitted, ending, samples, batch,
           phase, buffer, written, refused, status, exit>>
allvars == <<vars, rvars>>

Each == DOMAIN Outputs
Statuses == {"passed", "threshold_failed", "setup_failed", "execution_failed",
             "teardown_failed", "stopped"}

RInit ==
  /\ Init
  /\ logging \in BOOLEAN /\ showing \in BOOLEAN
  /\ run \in IF logging \/ showing THEN {"starting"} ELSE {"starting", "none"}
  /\ at = 1
  /\ task = [c \in {Log, Progress} |-> IF c = Log /\ logging THEN "new" ELSE "none"]
  /\ emitted = 0 /\ ending = 0
  /\ samples = <<>> /\ batch = <<>>
  /\ phase = [i \in Each |-> "new"]
  /\ buffer = [i \in Each |-> <<>>]
  /\ written = [i \in Each |-> <<>>]
  /\ refused = [i \in Each |-> <<>>]
  /\ status = "running" /\ exit = -1

----------------------------------------------------------------------------
(* The run ends: by then every sample has been passed to on_sample, that is  *)
(* output_samples.append, and nothing has read that list.                  *)
Complete ==
  /\ PublishEnd
  /\ ending' = published
  /\ emitted' \in 0 .. MaxSamples
  /\ UNCHANGED <<logging, showing, run, at, task, samples, batch, phase, buffer, written, refused, status, exit>>

Engine == (Publish \/ PublishThreadsafe \/ RunPending) /\ UNCHANGED rvars

----------------------------------------------------------------------------
(* The streams.  The tasks run in the order they are created: the log       *)
(* before the progress line.                                               *)
Opens(c) == OpenPrimary(c) \/ OpenOwn(c)

OpensNext(c) == c = Progress => task[Log] # "new"

TaskOpens(c) ==
  /\ task[c] = "new" /\ OpensNext(c)
  /\ Opens(c)
  /\ task' = [task EXCEPT ![c] = "open"]
  /\ UNCHANGED <<logging, showing, run, at, emitted, ending, samples, batch, phase, buffer, written, refused, status, exit>>

(* The log file cannot be opened, or written to.                           *)
LogFails ==
  /\ task[Log] \in {"new", "open"}
  /\ \/ task[Log] = "new" /\ UNCHANGED vars
     \/ task[Log] = "open" /\ CloseStream(Log)
  /\ task' = [task EXCEPT ![Log] = "failed"]
  /\ UNCHANGED <<logging, showing, run, at, emitted, ending, samples, batch, phase, buffer, written, refused, status, exit>>

TaskReads(c) ==
  /\ task[c] = "open"
  /\ \/ Yield(c) /\ UNCHANGED task
     \/ EndStream(c) /\ task' = [task EXCEPT ![c] = "done"]
  /\ UNCHANGED <<logging, showing, run, at, emitted, ending, samples, batch, phase, buffer, written, refused, status, exit>>

Cancelled(c) ==
  /\ run = "raised" /\ task[c] \in {"new", "open"}
  /\ \/ task[c] = "new" /\ UNCHANGED vars
     \/ task[c] = "open" /\ CloseStream(c)
  /\ task' = [task EXCEPT ![c] = "done"]
  /\ UNCHANGED <<logging, showing, run, at, emitted, ending, samples, batch, phase, buffer, written, refused, status, exit>>

(* Without run_test(), a program reads the events itself, as it likes.      *)
OtherReader(c) ==
  /\ run = "none"
  /\ Opens(c) \/ Read(c) \/ CloseStream(c)
  /\ UNCHANGED rvars

----------------------------------------------------------------------------
(* run_test().                                                             *)
Stays == UNCHANGED <<vars, logging, showing, emitted, ending, status>>

(* An exception leaves run_test(), and the interpreter exits with 1 once    *)
(* asyncio.run() has cancelled what still runs.                            *)
Raises ==
  /\ run' = "raised" /\ exit' = 1
  /\ UNCHANGED <<at, task, samples, batch, phase, buffer, written, refused>>

(* start_all(): the next output, or the wait for the run after the last.    *)
StartOutput ==
  /\ run = "starting" /\ at <= Len(Outputs)
  /\ \/ /\ phase' = [phase EXCEPT ![at] = "started"]
        /\ at' = at + 1
        /\ UNCHANGED <<run, task, samples, batch, buffer, written, refused, exit>>
     \/ Raises
  /\ Stays

AllStarted ==
  /\ run = "starting" /\ at > Len(Outputs)
  /\ run' = "waiting"
  /\ task' = IF showing THEN [task EXCEPT ![Progress] = "new"] ELSE task
  /\ UNCHANGED <<at, samples, batch, phase, buffer, written, refused, exit>>
  /\ Stays

(* wait() returns; the progress line is cancelled.                         *)
RunDone ==
  /\ run = "waiting" /\ over
  /\ run' = "draining"
  /\ \/ /\ task[Progress] = "open"
        /\ CloseStream(Progress)
        /\ task' = [task EXCEPT ![Progress] = "done"]
     \/ /\ task[Progress] = "new"
        /\ task' = [task EXCEPT ![Progress] = "done"]
        /\ UNCHANGED vars
     \/ /\ task[Progress] \in {"none", "done"}
        /\ UNCHANGED <<vars, task>>
  /\ UNCHANGED <<logging, showing, at, emitted, ending, samples, batch, phase, buffer, written, refused, status, exit>>

(* await drain_task, then buffer_samples().                                *)
Drained ==
  /\ run = "draining"
  /\ \/ /\ task[Log] \in {"none", "done"}
        /\ run' = "flushing" /\ samples' = samples \o [i \in 1 .. emitted |-> i]
        /\ UNCHANGED <<at, task, batch, phase, buffer, written, refused, exit>>
     \/ task[Log] = "failed" /\ Raises
  /\ Stays

(* Wrong: the batch is delivered, and kept.                                 *)
FlushKeeps(adding, next) ==
  IF samples = <<>> THEN run' = next /\ at' = 1 /\ UNCHANGED <<samples, batch>>
  ELSE run' = adding /\ at' = 1 /\ batch' = samples /\ UNCHANGED samples

(* flush(): the samples become the batch.                                  *)
Flush(adding, next) ==
  IF samples = <<>> THEN run' = next /\ at' = 1 /\ UNCHANGED <<samples, batch>>
  ELSE run' = adding /\ at' = 1 /\ batch' = samples /\ samples' = <<>>

(* flush(), or the same again in stop_all().                               *)
BeginFlush ==
  /\ \/ run = "flushing" /\ Flush("adding", "stopall")
     \/ run = "stopall" /\ Flush("adding again", "stopping")
  /\ UNCHANGED <<task, phase, buffer, written, refused, exit>>
  /\ Stays

(* _flush() of an output takes the buffer, and forgets it if the post fails. *)
Post(i, all) ==
  /\ buffer' = [buffer EXCEPT ![i] = <<>>]
  /\ \/ written' = [written EXCEPT ![i] = @ \o all] /\ UNCHANGED refused
     \/ refused' = [refused EXCEPT ![i] = @ \o all] /\ UNCHANGED written

(* add_samples().                                                          *)
Keep(i) ==
  /\ buffer' = [buffer EXCEPT ![i] = @ \o batch]
  /\ UNCHANGED <<written, refused>>

PostBatch(i) ==
  IF Len(buffer[i] \o batch) >= BatchSize THEN Post(i, buffer[i] \o batch) ELSE Keep(i)

Add(i) ==
  \/ Outputs[i] = Ignores /\ UNCHANGED <<buffer, written, refused>>
  \/ Outputs[i] = InFile /\ Keep(i)
  \/ Outputs[i] = Posts /\ PostBatch(i)

AddSamples ==
  /\ run \in {"adding", "adding again"} /\ at <= Len(Outputs)
  /\ \/ /\ at' = at + 1 /\ Add(at)
        /\ UNCHANGED <<run, task, samples, batch, phase, exit>>
     \/ Raises
  /\ Stays

AllAdded ==
  /\ run \in {"adding", "adding again"} /\ at > Len(Outputs)
  /\ run' = IF run = "adding" THEN "stopall" ELSE "stopping"
  /\ at' = 1
  /\ UNCHANGED <<task, samples, batch, phase, buffer, written, refused, exit>>
  /\ Stays

(* stop().                                                                 *)
WriteFile(i) ==
  /\ written' = [written EXCEPT ![i] = buffer[i]]
  /\ UNCHANGED <<buffer, refused>>

PostRest(i) ==
  IF buffer[i] = <<>> THEN UNCHANGED <<buffer, written, refused>> ELSE Post(i, buffer[i])

Stop(i) ==
  \/ Outputs[i] = Ignores /\ UNCHANGED <<buffer, written, refused>>
  \/ Outputs[i] = InFile /\ WriteFile(i)
  \/ Outputs[i] = Posts /\ PostRest(i)

StopOutput ==
  /\ run = "stopping" /\ at <= Len(Outputs)
  /\ \/ /\ at' = at + 1 /\ Stop(at)
        /\ phase' = [phase EXCEPT ![at] = "stopped"]
        /\ UNCHANGED <<run, task, samples, batch, exit>>
     \/ Raises
  /\ Stays

(* status_to_exit_code().                                                  *)
ExitCode(s) ==
  CASE s = "passed" -> 0
    [] s = "threshold_failed" -> 1
    [] s = "execution_failed" -> 2
    [] s = "stopped" -> 4
    [] s = "setup_failed" -> 5
    [] s = "teardown_failed" -> 7

(* The summary, where an output may raise too; command_run() exits with     *)
(* what the engine has made of the run, any status here.                   *)
Finish ==
  /\ run = "stopping" /\ at > Len(Outputs)
  /\ \/ /\ run' = "done"
        /\ status' \in Statuses /\ exit' = ExitCode(status')
        /\ UNCHANGED <<at, task, samples, batch, phase, buffer, written, refused>>
     \/ Raises /\ UNCHANGED status
  /\ UNCHANGED <<vars, logging, showing, emitted, ending>>

RunTest == StartOutput \/ AllStarted \/ RunDone \/ Drained \/ BeginFlush
           \/ AddSamples \/ AllAdded \/ StopOutput \/ Finish

RNext ==
  \/ Complete \/ Engine
  \/ \E c \in {Log, Progress} : TaskOpens(c) \/ TaskReads(c) \/ Cancelled(c)
  \/ LogFails
  \/ \E c \in Consumer : OtherReader(c)
  \/ RunTest

(* The loop runs its tasks and callbacks, and the run comes to its end      *)
(* unless it is cancelled with the rest.                                   *)
RSpec ==
  /\ RInit /\ [][RNext]_allvars
  /\ WF_allvars(run # "raised" /\ Complete) /\ WF_allvars(RunPending /\ UNCHANGED rvars) /\ WF_allvars(RunTest)
  /\ \A c \in {Log, Progress} : WF_allvars(TaskOpens(c) \/ TaskReads(c) \/ Cancelled(c))
  /\ \A c \in Consumer : WF_allvars(run = "none" /\ Read(c) /\ UNCHANGED rvars)

----------------------------------------------------------------------------
(* Exit code 0 of a run with outputs: the run has passed, every output was   *)
(* stopped, every file holds all samples in their order, and every output    *)
(* that posts has posted each of them once, whatever the batch size, and     *)
(* though flush() runs twice; only a post that was refused, which is logged  *)
(* and goes without an exit code, is missing (run_test(), OutputManager,     *)
(* outputs/).                                                              *)
SuccessMeansDelivered == exit = 0 =>
  /\ status = "passed"
  /\ \A i \in Each : phase[i] = "stopped"
  /\ \A i \in Each :
       /\ Outputs[i] = InFile => written[i] = [n \in 1 .. emitted |-> n]
       /\ Outputs[i] = Posts =>
            /\ Range(written[i]) \cup Range(refused[i]) = 1 .. emitted
            /\ Len(written[i]) + Len(refused[i]) = emitted

(* run_test() comes to its end, unless the end of the stream was lost to a  *)
(* full queue of the event log.                                            *)
RunnerReturns == (run = "starting") ~>
  \/ run \in {"done", "raised"}
  \/ reads[Log] \in Queue /\ lost[reads[Log]] > 0
=============================================================================
