----------------------------- MODULE SamplePipe -----------------------------
(***************************************************************************)
(* What the metric pipeline promises to the rest of rampa, without its     *)
(* queue, its sentinel and its thread: samples are taken in the order they *)
(* were put, a snapshot covers a prefix of them, and once it is stopped the *)
(* pipeline closes with a snapshot that covers every sample put before.    *)
(* MetricEngine implements this specification; Engine is built on it.      *)
(***************************************************************************)
EXTENDS Integers

VARIABLES
  put,     \* samples put on sample_queue so far
  taken,   \* samples ingested so far
  latest,  \* samples covered by the newest snapshot, -1 before the first one
  need,    \* samples the closing snapshot has to cover, 0 before stop()
  pipe     \* "open", "stopping" once stop() is called, "closed" at the end

pipeVars == <<put, taken, latest, need, pipe>>

PipeTypeOK ==
  /\ put \in Nat /\ taken \in Nat /\ need \in Nat
  /\ latest \in Nat \cup {-1}
  /\ pipe \in {"open", "stopping", "closed"}

PipeInit == put = 0 /\ taken = 0 /\ latest = -1 /\ need = 0 /\ pipe = "open"

PutSample == put' = put + 1 /\ UNCHANGED <<taken, latest, need, pipe>>

IngestSample ==
  /\ pipe # "closed"
  /\ taken < put
  /\ taken' = taken + 1
  /\ UNCHANGED <<put, latest, need, pipe>>

Snapshot ==
  /\ pipe # "closed"
  /\ latest' = taken
  /\ UNCHANGED <<put, taken, need, pipe>>

StopPipe ==
  /\ pipe = "open"
  /\ pipe' = "stopping"
  /\ need' = put
  /\ UNCHANGED <<put, taken, latest>>

ClosePipe ==
  /\ pipe = "stopping"
  /\ taken >= need
  /\ latest' = taken
  /\ pipe' = "closed"
  /\ UNCHANGED <<put, taken, need>>

PipeNext == PutSample \/ IngestSample \/ Snapshot \/ StopPipe \/ ClosePipe

PipeSpec == PipeInit /\ [][PipeNext]_pipeVars
=============================================================================
