------------------------------- MODULE Clients -------------------------------
(***************************************************************************)
(* The protocol clients of one iteration: Worker of worker.py with its     *)
(* HttpClient (http.py), WebSocketClient and GrpcClient (protocols/), and  *)
(* the clean-up of run_iteration() that closes them.                       *)
(*                                                                         *)
(* The user function runs tasks of its own, so calls of one worker overlap *)
(* at every await.  The HTTP client keeps the timings of "the" request in  *)
(* one attribute, sessions are made on first use and made again once they  *)
(* are closed, and a task may outlive the function that started it, and    *)
(* go on calling while the worker's clients are being closed.              *)
(*                                                                         *)
(* aiohttp and grpc are external: the order in which aiohttp calls the     *)
(* trace hooks, and that anything in flight may fail, is all that is       *)
(* assumed of them.                                                        *)
(***************************************************************************)
EXTENDS Naturals, FiniteSets, FiniteSetsExt

CONSTANTS
  Task,      \* tasks of the user function
  Target,    \* addresses of gRPC servers
  MaxCalls   \* bound: calls in one iteration

ASSUME ClientsAssumption == MaxCalls \in Nat

VARIABLES
  where,    \* where run_iteration() is: in the user function, or in its clean-up
  http,     \* HttpClient._session, 0 for None
  ws,       \* WebSocketClient._session, 0 for None
  channel,  \* GrpcClient._channels
  open,     \* the sessions and channels that are open
  made,     \* how many were made
  toClose,  \* in GrpcClient.close(): the channels the loop has still to close
  size,     \* ... and the length of _channels when the loop began
  task,     \* what each task does: [call, at]
  calls,    \* how many calls were made
  ctx,      \* the _TraceTimings of each call
  current,  \* HttpClient._current_timings: of which call, 0 for None
  clock,    \* time.monotonic_ns(): in nanoseconds, no two readings are equal
  count,    \* the samples put on the queue, by metric
  report,   \* history: [began, took, phases, crowded, how] of each call
  late      \* history: a call began, or a client was closed, during the clean-up

resources == <<http, ws, channel, open, made>>
cleanup   == <<where, toClose, size>>
timing    == <<ctx, current>>
clientsVars == <<resources, cleanup, timing, task, calls, clock, count, report, late>>

Call == 1 .. MaxCalls
Metrics == {"http_reqs", "http_req_duration", "http_req_failed", "http_phases",
            "data_sent", "data_received",
            "ws_connecting", "ws_sessions", "ws_errors", "ws_session_duration",
            "grpc_reqs", "grpc_req_failed", "grpc_req_duration", "grpc_streams_opened"}

(* _TraceTimings(): 0 is a hook that was not called.                        *)
Unset == [start |-> 0, connStart |-> 0, connEnd |-> 0, sent |-> 0, chunk |-> 0, end |-> 0]
NoReport == [began |-> 0, took |-> 0, phases |-> <<>>, crowded |-> FALSE, how |-> "none"]
Idle == [call |-> 0, at |-> "idle"]

InFlight == {"queued", "connecting", "sending", "waiting", "reading"}
Calling(t, places) == task[t].at \in places
HttpTasks == {t \in Task : Calling(t, InFlight)}

Or(a, b) == IF a = 0 THEN b ELSE a
Ms(from, to) == IF from = 0 \/ to = 0 \/ to < from THEN 0 ELSE to - from

(* Wrong: the body is not part of any phase.                                *)
PhasesWithoutBody(t) ==
  <<Ms(t.start, Or(t.connStart, t.sent)), Ms(t.connStart, t.connEnd),
    Ms(Or(t.connEnd, t.start), t.sent), Ms(t.sent, Or(t.end, t.chunk)), Ms(t.chunk, t.end)>>

(* _emit_phase_timings(): blocked, connecting, sending, waiting, receiving. *)
Phases(t) ==
  <<Ms(t.start, Or(t.connStart, t.sent)), Ms(t.connStart, t.connEnd),
    Ms(Or(t.connEnd, t.start), t.sent), Ms(t.sent, Or(t.chunk, t.end)), Ms(t.chunk, t.end)>>

Reads == clock' = clock + 1

(* Samples of the given metrics are put on the queue.                       *)
Emitted(ms) == [m \in Metrics |-> IF m \in ms THEN count[m] + 1 ELSE count[m]]

ClientsInit ==
  /\ where = "user" /\ toClose = {} /\ size = 0
  /\ http = 0 /\ ws = 0 /\ channel = <<>> /\ open = {} /\ made = 0
  /\ task = [t \in Task |-> Idle] /\ calls = 0
  /\ ctx = [c \in Call |-> Unset] /\ current = 0 /\ clock = 1
  /\ count = [m \in Metrics |-> 0]
  /\ report = [c \in Call |-> NoReport] /\ late = FALSE

(* The tasks of the user function may call until the iteration is over,     *)
(* also when the function has returned.  (What they call after that is not  *)
(* followed.)                                                               *)
MayCall(t) == Calling(t, {"idle"}) /\ calls < MaxCalls /\ where \notin {"done", "left"}

NewCall(t, at) ==
  /\ MayCall(t)
  /\ calls' = calls + 1
  /\ task' = [task EXCEPT ![t] = [call |-> calls + 1, at |-> at]]
  /\ late' = (late \/ where # "user")

Opened == open' = open \cup {made + 1} /\ made' = made + 1

-----------------------------------------------------------------------------
(* HttpClient.                                                              *)

(* Wrong: every request makes a session.                                    *)
EnsureSessionAlways == Opened /\ http' = made + 1

(* _ensure_session(): also makes a new one when the session was closed.     *)
EnsureSession ==
  IF http \notin open THEN Opened /\ http' = made + 1 ELSE UNCHANGED <<http, open, made>>

(* Wrong: only the first request of a client is traced.                     *)
OnRequestStartOnce(c) ==
  /\ ctx' = [ctx EXCEPT ![c].start = clock]
  /\ current' = Or(current, c)

(* _on_request_start()                                                      *)
OnRequestStart(c) ==
  /\ ctx' = [ctx EXCEPT ![c].start = clock]
  /\ current' = c

(* request(): nothing is awaited before aiohttp calls the first hook.       *)
Request(t) ==
  /\ NewCall(t, "queued")
  /\ EnsureSession
  /\ OnRequestStart(calls + 1)
  /\ report' = [c \in Call |->
       IF c = calls + 1 THEN [NoReport EXCEPT !.began = clock, !.crowded = HttpTasks # {}]
       ELSE IF \E u \in HttpTasks : task[u].call = c THEN [report[c] EXCEPT !.crowded = TRUE]
       ELSE report[c]]
  /\ Reads
  /\ UNCHANGED <<ws, channel, cleanup, count>>

(* The samples at the end of a request: the timings are those in            *)
(* _current_timings, whoever started last, or nobody's.                     *)
Told(c, metrics, how) ==
  /\ Reads
  /\ count' = Emitted(metrics \cup IF current' = 0 THEN {} ELSE {"http_phases"})
  /\ report' = [report EXCEPT
       ![c].took = clock - Or(report[c].began, clock), ![c].how = how,
       ![c].phases = IF current' = 0 THEN <<>> ELSE Phases(ctx'[current'])]

ErrorMetrics  == {"http_reqs", "http_req_duration", "http_req_failed", "data_sent"}
AnswerMetrics == {"http_reqs", "http_req_duration", "data_sent", "data_received"}

(* aiohttp refuses the request (a malformed URL) before the first hook.     *)
RequestRefused(t) ==
  /\ MayCall(t)
  /\ calls' = calls + 1
  /\ late' = (late \/ where # "user")
  /\ EnsureSession
  /\ UNCHANGED timing
  /\ Told(calls + 1, ErrorMetrics, "refused")
  /\ UNCHANGED <<task, ws, channel, cleanup>>

httpFrame == <<resources, cleanup, calls, late>>
Moves(t, at) == task' = [task EXCEPT ![t].at = at]
Stamped(t, stamp) == ctx' = [ctx EXCEPT ![task[t].call] = [@ EXCEPT ![stamp] = clock]]
Hook(t, stamp) == Stamped(t, stamp) /\ Reads

ConnectionCreateStart(t) ==
  /\ Calling(t, {"queued"})
  /\ Moves(t, "connecting") /\ Hook(t, "connStart")
  /\ UNCHANGED <<current, count, report, httpFrame>>

ConnectionCreateEnd(t) ==
  /\ Calling(t, {"connecting"})
  /\ Moves(t, "sending") /\ Hook(t, "connEnd")
  /\ UNCHANGED <<current, count, report, httpFrame>>

(* A connection of the pool is used without either of these.                *)
RequestHeadersSent(t) ==
  /\ Calling(t, {"queued", "sending"})
  /\ Moves(t, "waiting") /\ Hook(t, "sent")
  /\ UNCHANGED <<current, count, report, httpFrame>>

(* The head of the answer has arrived: for aiohttp the request is over.     *)
RequestEnd(t) ==
  /\ Calling(t, {"waiting"})
  /\ Moves(t, "reading") /\ Hook(t, "end")
  /\ UNCHANGED <<current, count, report, httpFrame>>

(* resp.read() returns, its hook called last; the samples, and the answer.  *)
Answered(t) ==
  \E accepted \in BOOLEAN :   \* 200 <= resp.status < 400
    /\ Calling(t, {"reading"})
    /\ Stamped(t, "chunk") /\ UNCHANGED current
    /\ Told(task[t].call, AnswerMetrics \cup IF accepted THEN {} ELSE {"http_req_failed"}, "answered")
    /\ task' = [task EXCEPT ![t] = Idle]
    /\ UNCHANGED httpFrame

(* except Exception: anywhere on the way, a session that is closed included. *)
RequestFails(t) ==
  /\ Calling(t, InFlight)
  /\ UNCHANGED timing
  /\ Told(task[t].call, ErrorMetrics, "failed")
  /\ task' = [task EXCEPT ![t] = Idle]
  /\ UNCHANGED httpFrame

(* A task of the user closes the client, as "async with worker.http" does.  *)
UserClosesHttp(t) ==
  /\ Calling(t, {"idle"}) /\ http \in open
  /\ open' = open \ {http}
  /\ UNCHANGED <<http, ws, channel, made, cleanup, timing, task, calls, clock, count, report, late>>

-----------------------------------------------------------------------------
(* WebSocketClient and WebSocketSession.                                    *)

wsFrame == <<cleanup, timing, clock, report>>

Connect(t) ==
  /\ NewCall(t, "wsConnect")
  /\ IF ws = 0 THEN Opened /\ ws' = made + 1 ELSE UNCHANGED <<ws, open, made>>
  /\ UNCHANGED <<http, channel, count, wsFrame>>

Connected(t) ==
  /\ Calling(t, {"wsConnect"})
  /\ ws \in open
  /\ Moves(t, "wsOpen")
  /\ count' = Emitted({"ws_connecting", "ws_sessions"})
  /\ UNCHANGED <<resources, calls, late, wsFrame>>

ConnectFails(t) ==
  /\ Calling(t, {"wsConnect"})
  /\ task' = [task EXCEPT ![t] = Idle]
  /\ count' = Emitted({"ws_errors"})
  /\ UNCHANGED <<resources, calls, late, wsFrame>>

(* WebSocketSession.close(); one that is never closed emits no duration.    *)
CloseWs(t) ==
  /\ Calling(t, {"wsOpen"})
  /\ task' = [task EXCEPT ![t] = Idle]
  /\ \/ count' = Emitted({"ws_session_duration"})
     \/ UNCHANGED count
  /\ UNCHANGED <<resources, calls, late, wsFrame>>

-----------------------------------------------------------------------------
(* GrpcClient.                                                              *)

HasChannel(target) == target \in DOMAIN channel

(* _get_channel(), which both kinds of call start with.                     *)
GetChannel(target) ==
  IF HasChannel(target) THEN UNCHANGED <<channel, open, made>>
  ELSE /\ Opened
       /\ channel' = [x \in DOMAIN channel \cup {target} |-> IF x = target THEN made + 1 ELSE channel[x]]

Unary(t, target) ==
  /\ NewCall(t, "unary")
  /\ GetChannel(target)
  /\ UNCHANGED <<http, ws, count, wsFrame>>

ServerStream(t, target) ==
  /\ NewCall(t, "stream")
  /\ GetChannel(target)
  /\ count' = Emitted({"grpc_streams_opened"})
  /\ UNCHANGED <<http, ws, wsFrame>>

(* A response, an AioRpcError, or another exception that leaves unary();    *)
(* the duration is emitted in each case.                                    *)
UnaryEnds(t) ==
  /\ Calling(t, {"unary"})
  /\ \E samples \in {{"grpc_reqs"}, {"grpc_reqs", "grpc_req_failed"}, {}} :
       count' = Emitted({"grpc_req_duration"} \cup samples)
  /\ task' = [task EXCEPT ![t] = Idle]
  /\ UNCHANGED <<resources, calls, late, wsFrame>>

StreamEnds(t) ==
  /\ Calling(t, {"stream"})
  /\ count' = Emitted({"grpc_req_duration"})
  /\ task' = [task EXCEPT ![t] = Idle]
  /\ UNCHANGED <<resources, calls, late, wsFrame>>

(* The task is cancelled: CancelledError is no Exception, so that only the  *)
(* finally clauses of gRPC emit anything.                                   *)
CancelCall(t) ==
  /\ ~Calling(t, {"idle"})
  /\ task' = [task EXCEPT ![t] = Idle]
  /\ count' = IF Calling(t, {"unary", "stream"}) THEN Emitted({"grpc_req_duration"}) ELSE count
  /\ report' = IF Calling(t, InFlight) THEN [report EXCEPT ![task[t].call].how = "cancelled"] ELSE report
  /\ UNCHANGED <<resources, cleanup, timing, calls, clock, late>>

-----------------------------------------------------------------------------
(* run_iteration(): the finally clause around the user function.            *)

closeFrame == <<task, timing, calls, clock, count, report, late>>

(* The user function returns, raises, or is cancelled.                      *)
UserFunctionEnds ==
  /\ where = "user"
  /\ where' = "http"
  /\ UNCHANGED <<resources, toClose, size, closeFrame>>

(* await worker._http.close(), which returns at once if there is nothing to *)
(* close.                                                                   *)
CloseHttp ==
  /\ where = "http"
  /\ where' = IF http \in open THEN "httpClosing" ELSE "ws"
  /\ open' = open \ {http}
  /\ UNCHANGED <<http, ws, channel, made, toClose, size, closeFrame>>

HttpClosed ==
  /\ where = "httpClosing"
  /\ where' = "ws"
  /\ UNCHANGED <<resources, toClose, size, closeFrame>>

(* await worker._ws.close()                                                 *)
CloseWsClient ==
  /\ where = "ws"
  /\ where' = IF ws # 0 THEN "wsClosing" ELSE "grpc"
  /\ open' = open \ {ws}
  /\ UNCHANGED <<http, ws, channel, made, toClose, size, closeFrame>>

WsClosed ==
  /\ where = "wsClosing"
  /\ where' = "grpc"
  /\ ws' = 0
  /\ UNCHANGED <<http, channel, open, made, toClose, size, closeFrame>>

Channels == {channel[x] : x \in DOMAIN channel}

(* await worker._grpc.close(): begin the loop over the channels.            *)
CloseGrpc ==
  /\ where = "grpc"
  /\ where' = "grpcClosing"
  /\ toClose' = Channels
  /\ size' = Cardinality(DOMAIN channel)
  /\ UNCHANGED <<resources, closeFrame>>

Grown == Cardinality(DOMAIN channel) # size

(* The channels are closed in the order they were made, an await each.      *)
CloseChannel ==
  /\ where = "grpcClosing" /\ ~Grown /\ toClose # {}
  /\ open' = open \ {Min(toClose)}
  /\ toClose' = toClose \ {Min(toClose)}
  /\ UNCHANGED <<where, http, ws, channel, made, size, closeFrame>>

(* _channels.clear(), and the samples of the iteration.                     *)
GrpcClosed ==
  /\ where = "grpcClosing" /\ ~Grown /\ toClose = {}
  /\ where' = "done"
  /\ channel' = <<>>
  /\ UNCHANGED <<http, ws, open, made, toClose, size, closeFrame>>

(* A channel was added since the loop began: RuntimeError.                  *)
ChannelsChanged ==
  /\ where = "grpcClosing" /\ Grown
  /\ where' = "left"
  /\ UNCHANGED <<resources, toClose, size, closeFrame>>

(* An awaited close() raises, or the iteration is cancelled in it: what     *)
(* follows is skipped, the samples of the iteration too.                    *)
CleanupFails ==
  /\ \/ where \in {"httpClosing", "wsClosing"}
     \/ where = "grpcClosing" /\ toClose # Channels
  /\ where' = "left"
  /\ UNCHANGED <<resources, toClose, size, closeFrame>>

Cleanup ==
  \/ UserFunctionEnds \/ CloseHttp \/ HttpClosed \/ CloseWsClient \/ WsClosed
  \/ CloseGrpc \/ CloseChannel \/ GrpcClosed \/ ChannelsChanged \/ CleanupFails

HttpStep(t) ==
  \/ Request(t) \/ RequestRefused(t) \/ ConnectionCreateStart(t) \/ ConnectionCreateEnd(t)
  \/ RequestHeadersSent(t) \/ RequestEnd(t) \/ Answered(t) \/ RequestFails(t)
  \/ UserClosesHttp(t) \/ CancelCall(t)

WsStep(t) == Connect(t) \/ Connected(t) \/ ConnectFails(t) \/ CloseWs(t)

GrpcStep(t) ==
  \/ \E target \in Target : Unary(t, target) \/ ServerStream(t, target)
  \/ UnaryEnds(t) \/ StreamEnds(t)

ClientsNext == Cleanup \/ \E t \in Task : HttpStep(t) \/ WsStep(t) \/ GrpcStep(t)

ClientsSpec == ClientsInit /\ [][ClientsNext]_clientsVars

-----------------------------------------------------------------------------
(* Properties.                                                              *)

Sum5(s) == s[1] + s[2] + s[3] + s[4] + s[5]

(* The five phases of a request that overlapped no other one of its worker  *)
(* and made its own connection add up to its http_req_duration when it is   *)
(* answered, and to no more when it fails, whatever ended before it         *)
(* (HttpClient.request(), the trace hooks and _emit_phase_timings()).  The  *)
(* three exceptions are real: of overlapping requests each reports the      *)
(* timings of the one that started last, a connection of the pool counts    *)
(* the sending as blocked as well, and a request refused before the first   *)
(* hook repeats the phases of an earlier one.                               *)
PhasesAddUp ==
  \A c \in Call :
    LET r == report[c]
    IN  (~r.crowded /\ r.how \in {"answered", "failed"}) =>
          /\ r.phases # <<>>
          /\ ctx[c].connStart # 0 =>
               IF r.how = "answered" THEN Sum5(r.phases) = r.took ELSE Sum5(r.phases) <= r.took

(* Once the clean-up of an iteration is done no session and no channel is   *)
(* open, clients that were closed and used again before included, unless a  *)
(* task of the user made a call during the clean-up or after it             *)
(* (run_iteration(), _ensure_session() and the close() of each client).     *)
NothingLeftOpen == where = "done" /\ ~late => open = {}
=============================================================================
