---------------------------- MODULE Distributed ----------------------------
(***************************************************************************)
(* A distributed run: every worker computes its share of the iterations     *)
(* (Segments), runs it, and streams its samples in batches over a           *)
(* connection to the coordinator, which puts them into its own queue and    *)
(* broadcasts commands to the workers (distributed/coordinator.py,          *)
(* worker_client.py, protocol.py).                                         *)
(*                                                                         *)
(* The server between the two, which accepts connections, decodes messages  *)
(* and calls CoordinatorState, is not part of the repository: it is         *)
(* external, one task per connection.  Connections are TCP: in order, and   *)
(* what is in flight when one breaks is lost from some point on.            *)
(***************************************************************************)
EXTENDS Segments, Sequences, SequencesExt, FiniteSets, FiniteSetsExt

CONSTANTS
  BatchSize,  \* batch_size
  MaxStreams, \* bound: workers of a run whose samples are streamed
  MaxSamples, \* bound: workers times iterations of such a run; a sample for each
  MaxConns,   \* bound: connections a worker opens
  MaxBreaks,  \* bound: connections that break
  MaxCasts,   \* bound: broadcasts
  MaxReports  \* bound: heartbeats and phases a worker reports

ASSUME DistributedAssumption ==
  /\ BatchSize \in Nat \ {0}
  /\ {MaxStreams, MaxSamples, MaxConns, MaxBreaks, MaxCasts, MaxReports} \subseteq Nat

VARIABLES
  put,     \* samples its VUs have put into the queue of a worker
  taken,   \* samples stream_samples() has taken from it
  ended,   \* whether None, the end marker, is in the queue of a worker
  buffer,  \* buffer, of stream_samples()
  stream,  \* where stream_samples() is
  cur,     \* the connection in use by a worker, 0: none
  seq,     \* _seq of the worker, or rather of its client
  reports, \* history: heartbeats and phases sent
  up,      \* whether a connection is alive
  wire,    \* what is on its way to the coordinator, per connection
  inbox,   \* what a connection has received from the coordinator
  closed,  \* connections whose end the server has handled
  workers, \* _workers: worker_id -> connection
  cseq,    \* _seq of the coordinator
  casts,   \* broadcasts: sequence number, connections still to be served, all of them
  got      \* the queue of the coordinator: samples per worker, in order

links == <<up, wire, inbox, closed>>
client == <<put, taken, ended, buffer, stream, cur, seq, reports>>
coordinator == <<workers, cseq, casts, got>>
dvars == <<vars, client, links, coordinator>>

Conns == Index \X (1 .. MaxConns)

DInit ==
  /\ Init
  /\ put = [w \in Index |-> 0] /\ taken = put
  /\ ended = [w \in Index |-> FALSE]
  /\ buffer = [w \in Index |-> <<>>]
  /\ stream = [w \in Index |-> "off"]
  /\ cur = put /\ seq = put /\ reports = 0
  /\ up = [x \in Conns |-> FALSE]
  /\ wire = [x \in Conns |-> <<>>]
  /\ inbox = [x \in Conns |-> {}]
  /\ closed = {}
  /\ workers = <<>>
  /\ cseq = 0 /\ casts = {}
  /\ got = [w \in Index |-> <<>>]

Streamed == total <= MaxStreams /\ total * amount <= MaxSamples /\ computed = Index
Link(w) == <<w, cur[w]>>
Broken(x) == x[2] <= cur[x[1]] /\ ~up[x]

----------------------------------------------------------------------------
(* The worker: its VUs, and WorkerClient.                                  *)

(* A VU ends an iteration, all the share of the worker in the end.         *)
Produce(w) ==
  /\ Streamed /\ ~ended[w]
  /\ IF put[w] < Cardinality(owned[w])
     THEN put' = [put EXCEPT ![w] = @ + 1] /\ UNCHANGED ended
     ELSE ended' = [ended EXCEPT ![w] = TRUE] /\ UNCHANGED put
  /\ UNCHANGED <<vars, links, coordinator, taken, buffer, stream, cur, seq, reports>>

Message(kind, n, samples) == [kind |-> kind, seq |-> n, samples |-> samples]

(* _send(): the number and the message, without an await in between.  On a  *)
(* connection that has broken the message goes nowhere.                    *)
Sent(w, kind, samples) ==
  /\ seq' = [seq EXCEPT ![w] = @ + 1]
  /\ IF up[Link(w)]
     THEN wire' = [wire EXCEPT ![Link(w)] = Append(@, Message(kind, seq[w] + 1, samples))]
     ELSE UNCHANGED wire

(* On one known to be broken send_bytes() raises, after the number is taken. *)
SendRaises(w) ==
  /\ ~up[Link(w)]
  /\ seq' = [seq EXCEPT ![w] = @ + 1]
  /\ UNCHANGED wire

(* connect(), by a worker that has no connection or lost it; its caller     *)
(* then starts stream_samples(), whose buffer is its own.                  *)
Connect(w) ==
  /\ Streamed /\ cur[w] < MaxConns /\ stream[w] \in {"off", "raised"}
  /\ LET x == <<w, cur[w] + 1>> IN
       /\ cur' = [cur EXCEPT ![w] = @ + 1]
       /\ seq' = [seq EXCEPT ![w] = @ + 1]
       /\ up' = [up EXCEPT ![x] = TRUE]
       /\ wire' = [wire EXCEPT ![x] = <<Message("register", seq[w] + 1, <<>>)>>]
  /\ stream' = [stream EXCEPT ![w] = "get"]
  /\ buffer' = [buffer EXCEPT ![w] = <<>>]
  /\ UNCHANGED <<vars, coordinator, put, taken, ended, reports, inbox, closed>>

(* _flush_samples(): the batch is on its way, or the call raises and with   *)
(* it stream_samples().                                                    *)
Flush(w, label) ==
  \/ /\ Sent(w, "samples", buffer'[w])
     /\ stream' = [stream EXCEPT ![w] = label]
  \/ /\ SendRaises(w)
     /\ stream' = [stream EXCEPT ![w] = "raised"]

(* Wrong: the sample that fills the batch is taken, and the batch sent      *)
(* without it.                                                             *)
GetLate(w) ==
  /\ stream[w] = "get" /\ taken[w] < put[w]
  /\ taken' = [taken EXCEPT ![w] = @ + 1]
  /\ IF Len(buffer[w]) >= BatchSize
     THEN buffer' = buffer /\ Flush(w, "sent")
     ELSE buffer' = [buffer EXCEPT ![w] = Append(@, taken'[w])] /\ UNCHANGED <<seq, wire, stream>>
  /\ UNCHANGED <<vars, coordinator, put, ended, cur, reports, up, inbox, closed>>

(* A sample is taken from the queue; a full batch is sent.                 *)
Get(w) ==
  /\ stream[w] = "get" /\ taken[w] < put[w]
  /\ taken' = [taken EXCEPT ![w] = @ + 1]
  /\ buffer' = [buffer EXCEPT ![w] = Append(@, taken'[w])]
  /\ IF Len(buffer'[w]) >= BatchSize THEN Flush(w, "sent") ELSE UNCHANGED <<seq, wire, stream>>
  /\ UNCHANGED <<vars, coordinator, put, ended, cur, reports, up, inbox, closed>>

(* Wrong: the timeout forgets to clear what it sent.                        *)
TimeoutKeeps(w) ==
  /\ stream[w] = "get" /\ taken[w] = put[w] /\ ~ended[w]
  /\ buffer[w] # <<>>
  /\ UNCHANGED buffer
  /\ Flush(w, "get")
  /\ UNCHANGED <<vars, coordinator, put, taken, ended, cur, reports, up, inbox, closed>>

(* queue.Empty after 0.1 s: a batch that is not full is sent as well.      *)
GetTimesOut(w) ==
  /\ stream[w] = "get" /\ taken[w] = put[w] /\ ~ended[w]
  /\ buffer[w] # <<>>
  /\ UNCHANGED buffer
  /\ Flush(w, "sent")
  /\ UNCHANGED <<vars, coordinator, put, taken, ended, cur, reports, up, inbox, closed>>

(* The end marker: what is left is sent, and stream_samples() returns.     *)
GetEnd(w) ==
  /\ stream[w] = "get" /\ taken[w] = put[w] /\ ended[w]
  /\ UNCHANGED buffer
  /\ IF buffer[w] = <<>> THEN /\ stream' = [stream EXCEPT ![w] = "done"]
                              /\ UNCHANGED <<seq, wire>>
     ELSE Flush(w, "last")
  /\ UNCHANGED <<vars, coordinator, put, taken, ended, cur, reports, up, inbox, closed>>

(* Wrong: the batch is not cleared after it was sent.                       *)
FlushedTwice(w) ==
  /\ stream[w] \in {"sent", "last"}
  /\ stream' = [stream EXCEPT ![w] = IF @ = "sent" THEN "get" ELSE "done"]
  /\ UNCHANGED <<vars, links, coordinator, put, taken, ended, buffer, cur, seq, reports>>

(* send_bytes() returns: the buffer is cleared.                            *)
Flushed(w) ==
  /\ stream[w] \in {"sent", "last"}
  /\ buffer' = [buffer EXCEPT ![w] = <<>>]
  /\ stream' = [stream EXCEPT ![w] = IF @ = "sent" THEN "get" ELSE "done"]
  /\ UNCHANGED <<vars, links, coordinator, put, taken, ended, cur, seq, reports>>

(* send_heartbeat(), send_phase(), by tasks beside stream_samples().       *)
Report(w) ==
  /\ cur[w] > 0 /\ reports < MaxReports
  /\ reports' = reports + 1
  /\ Sent(w, "report", <<>>) \/ SendRaises(w)
  /\ UNCHANGED <<vars, coordinator, put, taken, ended, buffer, stream, cur, up, inbox, closed>>

----------------------------------------------------------------------------
(* The network, and the server that calls CoordinatorState.                *)

(* A connection breaks: some of what is in flight still arrives.           *)
Break(x) ==
  /\ up[x] /\ Cardinality({y \in Conns : Broken(y)}) < MaxBreaks
  /\ up' = [up EXCEPT ![x] = FALSE]
  /\ \E n \in 0 .. Len(wire[x]) : wire' = [wire EXCEPT ![x] = SubSeq(@, 1, n)]
  /\ UNCHANGED <<vars, client, coordinator, inbox, closed>>

(* register_worker(): the latest connection of a worker is the one known.  *)
Register(w, x) ==
  workers' = [v \in DOMAIN workers \cup {w} |-> IF v = w THEN x ELSE workers[v]]

(* ingest_remote_samples(): one by one into the queue.                     *)
Ingest(w, samples) == got' = [got EXCEPT ![w] = @ \o samples]

(* The server decodes a message.                                           *)
Receive(x) ==
  /\ wire[x] # <<>>
  /\ wire' = [wire EXCEPT ![x] = Tail(@)]
  /\ LET msg == Head(wire[x]) IN
       CASE msg.kind = "register" -> Register(x[1], x) /\ UNCHANGED got
         [] msg.kind = "samples" -> Ingest(x[1], msg.samples) /\ UNCHANGED workers
         [] OTHER -> UNCHANGED <<workers, got>>
  /\ UNCHANGED <<vars, client, up, inbox, closed, cseq, casts>>

(* The server sees the end of a connection: remove_worker(), by name.      *)
RemoveWorker(x) ==
  /\ Broken(x) /\ wire[x] = <<>> /\ x \notin closed
  /\ closed' = closed \cup {x}
  /\ workers' = [v \in DOMAIN workers \ {x[1]} |-> workers[v]]
  /\ UNCHANGED <<vars, client, up, wire, inbox, cseq, casts, got>>

(* broadcast(): the connections of this moment.                            *)
Broadcast ==
  /\ Streamed /\ cseq < MaxCasts
  /\ cseq' = cseq + 1
  /\ LET all == {workers[w] : w \in DOMAIN workers} IN
       casts' = casts \cup {[seq |-> cseq + 1, todo |-> all, all |-> all, ended |-> all = {}]}
  /\ UNCHANGED <<vars, client, links, workers, got>>

(* Wrong: an exception ends the broadcast.                                  *)
CastStops(c, x) ==
  /\ ~c.ended /\ x \in c.todo
  /\ inbox' = IF up[x] THEN [inbox EXCEPT ![x] = @ \cup {c.seq}] ELSE inbox
  /\ casts' = (casts \ {c}) \cup {[c EXCEPT !.todo = @ \ {x}, !.ended = ~up[x] \/ c.todo = {x}]}
  /\ UNCHANGED <<vars, client, up, wire, closed, workers, cseq, got>>

(* One send of a broadcast; an exception is logged and the next one tried. *)
CastSend(c, x) ==
  /\ ~c.ended /\ x \in c.todo
  /\ inbox' = IF up[x] THEN [inbox EXCEPT ![x] = @ \cup {c.seq}] ELSE inbox
  /\ casts' = (casts \ {c}) \cup {[c EXCEPT !.todo = @ \ {x}, !.ended = c.todo = {x}]}
  /\ UNCHANGED <<vars, client, up, wire, closed, workers, cseq, got>>

WorkerStep(w) == Get(w) \/ GetTimesOut(w) \/ GetEnd(w) \/ Flushed(w)

DNext ==
  \/ Next /\ UNCHANGED <<client, links, coordinator>>
  \/ \E w \in Index : Produce(w) \/ Connect(w) \/ WorkerStep(w) \/ Report(w)
  \/ \E x \in Conns : Break(x) \/ Receive(x) \/ RemoveWorker(x)
  \/ Broadcast
  \/ \E c \in casts, x \in Conns : CastSend(c, x)

(* The tasks of the event loops run; nobody has to report or to reconnect. *)
DSpec == DInit /\ [][DNext]_dvars
  /\ \A w \in {n - 1 : n \in 1 .. MaxStreams} :
       WF_dvars(w \in Index /\ (Produce(w) \/ WorkerStep(w)))
  /\ \A x \in {n - 1 : n \in 1 .. MaxStreams} \X (1 .. MaxConns) :
       WF_dvars(x \in Conns /\ (Receive(x) \/ RemoveWorker(x)))

----------------------------------------------------------------------------
(* What of the buffer is not on the wire yet.                              *)
Unsent(w) == IF stream[w] \in {"sent", "last"} THEN <<>> ELSE buffer[w]

Unbroken(w) == cur[w] = 1 /\ up[<<w, 1>>]

(* The samples that are on their way, message by message.                  *)
OnWire(w) == [m \in DOMAIN wire[<<w, 1>>] |-> wire[<<w, 1>>][m].samples]

Rises(s) == \A i, j \in DOMAIN s : i < j => s[i] < s[j]
Precedes(s, t) == \A i \in DOMAIN s, j \in DOMAIN t : s[i] < t[j]

(* No sample of a worker whose connection holds is lost, doubled or         *)
(* reordered: what the coordinator has, what is in flight, message after    *)
(* message, and what is buffered are the samples taken from the queue, each *)
(* in one of these places and in that order, whatever the timeouts and the  *)
(* other senders do (stream_samples()).                                    *)
SamplesConserved == \A w \in Index : Unbroken(w) =>
  /\ \A s \in {got[w], Unsent(w)} \cup Range(OnWire(w)) : Rises(s)
  /\ \A m, n \in DOMAIN OnWire(w) : m < n => Precedes(OnWire(w)[m], OnWire(w)[n])
  /\ \A s \in Range(OnWire(w)) : Precedes(got[w], s) /\ Precedes(s, Unsent(w))
  /\ Precedes(got[w], Unsent(w))
  /\ 1 .. taken[w] = Range(got[w]) \cup Range(Unsent(w)) \cup UNION {Range(s) : s \in Range(OnWire(w))}

(* Nor is any counted twice at the coordinator when connections break, are  *)
(* opened again and overlap: a failed batch is dropped, never sent again.   *)
NeverTwice == \A w \in Index : \A i, j \in DOMAIN got[w] : i # j => got[w][i] # got[w][j]

(* A broadcast reaches every live worker that was registered when it began, *)
(* no matter that others cannot be reached (broadcast()).                  *)
BroadcastReaches == \A c \in casts : \A x \in c.all :
  (c.ended \/ x \notin c.todo) /\ up[x] => c.seq \in inbox[x]

(* When no connection breaks, the coordinator gets a sample for every       *)
(* iteration of the run: the shares of all the workers, completely.        *)
EverythingArrives ==
  (Streamed /\ \A w \in Index : cur[w] = 1)
  ~> \/ \E x \in Conns : Broken(x)
     \/ MapThenSumSet(LAMBDA w : Len(got[w]), Index) = amount
=============================================================================
