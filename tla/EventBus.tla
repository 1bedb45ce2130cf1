------------------------------ MODULE EventBus ------------------------------
(***************************************************************************)
(* The event bus of a run (bus.py) with the streams of                     *)
(* RunController.events() (engine.py).                                     *)
(*                                                                         *)
(* Every subscriber has a bounded asyncio.Queue.  publish() puts an event  *)
(* on all of them and skips those that are full; publish_threadsafe() asks *)
(* the event loop to do that later.  The first stream drains the queue     *)
(* subscribed before the run started, each later one a queue of its own;   *)
(* a stream ends at the None that follows the last event of the run.       *)
(*                                                                         *)
(* Events are numbered in the order they are published, so that a number   *)
(* is a position in the history; None is 0.                                *)
(***************************************************************************)
EXTENDS Integers, Sequences, FiniteSets

CONSTANTS
  Consumer,  \* the calls of RunController.events(), each with its own stream
  Primary,   \* the queue subscribed by Engine.start()
  NoQueue,   \* no queue
  MaxSize,   \* maxsize of the subscribers' queues
  MaxEvents  \* bound: events published or queued for publication

ASSUME EventBusAssumption ==
  /\ Primary \notin Consumer /\ NoQueue \notin Consumer \cup {Primary}
  /\ MaxSize \in Nat \ {0} /\ MaxEvents \in Nat

VARIABLES
  queues,     \* contents of the queue of each consumer, and of Primary
  subscribed, \* _subscribers
  pending,    \* publish() calls queued by publish_threadsafe()
  primary,    \* _primary_queue: Primary, or NoQueue once a stream took it
  reads,      \* the queue each stream drains, NoQueue before events()
  stream,     \* "idle", "open", "ended" at the None, "closed" by its reader
  published,  \* history: number of events published
  over,       \* the None was published
  got,        \* history: the events each stream has yielded
  since,      \* history: published when a queue was subscribed
  lost        \* history: events and None dropped from a queue

vars == <<queues, subscribed, pending, primary, reads, stream, published, over,
          got, since, lost>>
streamVars == <<primary, reads, stream, got, since>>

Queue == Consumer \cup {Primary}
End   == 0

Init ==
  /\ queues = [q \in Queue |-> <<>>]
  /\ subscribed = {Primary}
  /\ pending = 0
  /\ primary = Primary
  /\ reads = [c \in Consumer |-> NoQueue]
  /\ stream = [c \in Consumer |-> "idle"]
  /\ published = 0 /\ over = FALSE
  /\ got = [c \in Consumer |-> <<>>]
  /\ since = [q \in Queue |-> 0]
  /\ lost = [q \in Queue |-> 0]

(* publish(): put_nowait() on every subscriber, suppressing QueueFull.     *)
Full(q) == Len(queues[q]) >= MaxSize

(* Wrong: QueueFull is suppressed around the loop over the subscribers.     *)
FanOutAllOrNone(event) ==
  /\ queues' = [q \in Queue |-> IF q \in subscribed /\ \A r \in subscribed : ~Full(r)
                                  THEN Append(queues[q], event) ELSE queues[q]]
  /\ lost' = [q \in Queue |-> IF q \in subscribed /\ Full(q)
                                THEN lost[q] + 1 ELSE lost[q]]

FanOut(event) ==
  /\ queues' = [q \in Queue |-> IF q \in subscribed /\ ~Full(q)
                                  THEN Append(queues[q], event) ELSE queues[q]]
  /\ lost' = [q \in Queue |-> IF q \in subscribed /\ Full(q)
                                THEN lost[q] + 1 ELSE lost[q]]

Publish ==
  /\ published + pending < MaxEvents
  /\ published' = published + 1
  /\ FanOut(published')
  /\ UNCHANGED <<subscribed, pending, over, streamVars>>

(* The metric thread calls publish_threadsafe(), the loop publishes later. *)
PublishThreadsafe ==
  /\ published + pending < MaxEvents
  /\ pending' = pending + 1
  /\ UNCHANGED <<queues, subscribed, published, over, lost, streamVars>>

RunPending ==
  /\ pending > 0
  /\ pending' = pending - 1
  /\ published' = published + 1
  /\ FanOut(published')
  /\ UNCHANGED <<subscribed, over, streamVars>>

(* Wrong: the run ends without the None.                                    *)
PublishNoEnd ==
  /\ ~over
  /\ over' = TRUE
  /\ UNCHANGED <<queues, lost, subscribed, pending, published, streamVars>>

(* bus.publish(None) at the end of Engine._run().  Pausing a finished run, *)
(* for one, still publishes events after it.                               *)
PublishEnd ==
  /\ ~over
  /\ over' = TRUE
  /\ FanOut(End)
  /\ UNCHANGED <<subscribed, pending, published, streamVars>>

(* The first events() takes the primary queue ...                          *)
OpenPrimary(c) ==
  /\ stream[c] = "idle" /\ primary = Primary
  /\ primary' = NoQueue
  /\ reads' = [reads EXCEPT ![c] = Primary]
  /\ stream' = [stream EXCEPT ![c] = "open"]
  /\ UNCHANGED <<queues, subscribed, pending, published, over, got, since, lost>>

(* ... the others subscribe to the bus.                                    *)
OpenOwn(c) ==
  /\ stream[c] = "idle" /\ primary = NoQueue
  /\ reads' = [reads EXCEPT ![c] = c]
  /\ subscribed' = subscribed \cup {c}
  /\ since' = [since EXCEPT ![c] = published]
  /\ stream' = [stream EXCEPT ![c] = "open"]
  /\ UNCHANGED <<queues, pending, primary, published, over, got, lost>>

(* await q.get(); yield event.                                             *)
Yield(c) ==
  /\ stream[c] = "open" /\ queues[reads[c]] # <<>>
  /\ Head(queues[reads[c]]) # End
  /\ got' = [got EXCEPT ![c] = Append(@, Head(queues[reads[c]]))]
  /\ queues' = [queues EXCEPT ![reads[c]] = Tail(@)]
  /\ UNCHANGED <<subscribed, pending, primary, reads, stream, published, over, since, lost>>

(* The None: break, and unsubscribe in the finally clause.                 *)
EndStream(c) ==
  /\ stream[c] = "open" /\ queues[reads[c]] # <<>>
  /\ Head(queues[reads[c]]) = End
  /\ queues' = [queues EXCEPT ![reads[c]] = Tail(@)]
  /\ stream' = [stream EXCEPT ![c] = "ended"]
  /\ subscribed' = subscribed \ {reads[c]}
  /\ UNCHANGED <<pending, primary, reads, published, over, got, since, lost>>

(* The reader abandons its stream: the finally clause unsubscribes.        *)
CloseStream(c) ==
  /\ stream[c] = "open"
  /\ stream' = [stream EXCEPT ![c] = "closed"]
  /\ subscribed' = subscribed \ {reads[c]}
  /\ UNCHANGED <<queues, pending, primary, reads, published, over, got, since, lost>>

Read(c) == Yield(c) \/ EndStream(c)

Next ==
  \/ Publish \/ PublishThreadsafe \/ RunPending \/ PublishEnd
  \/ \E c \in Consumer : OpenPrimary(c) \/ OpenOwn(c) \/ Read(c) \/ CloseStream(c)

(* The loop runs its callbacks, the run comes to its end, and a reader     *)
(* keeps asking for the next event.                                        *)
Fairness ==
  /\ WF_vars(RunPending) /\ WF_vars(PublishEnd)
  /\ \A c \in Consumer : WF_vars(Read(c))

Spec == Init /\ [][Next]_vars /\ Fairness

-----------------------------------------------------------------------------
(* Properties.                                                             *)

(* What is queued for the reader of q, behind what it has already yielded. *)
Trail(c) == got[c] \o queues[reads[c]]

Events(s) == {s[i] : i \in DOMAIN s} \ {End}

(* In the order of publication, none twice; nor does the stream end twice.  *)
Increasing(s) == \A i, j \in DOMAIN s :
  /\ i < j /\ s[i] # End /\ s[j] # End => s[i] < s[j]
  /\ s[i] = End /\ s[j] = End => i = j

(* A stream yields events in the order of publication, none twice, and not *)
(* one from before its subscription: with what is queued for it, exactly   *)
(* the events since then unless its own queue was full - the first stream  *)
(* misses nothing of the run (bus.py, publish(); engine.py, events()).     *)
StreamsAreFaithful ==
  \A c \in Consumer : stream[c] = "open" =>
    /\ Increasing(Trail(c))
    /\ Events(Trail(c)) \subseteq since[reads[c]] + 1 .. published
    /\ lost[reads[c]] = 0 => since[reads[c]] + 1 .. published \subseteq Events(Trail(c))

(* A stream opened before the run is over comes to its end, whatever is     *)
(* published after the None, unless its queue was full at some time.        *)
StreamEndsUnlessFull ==
  \A c \in Consumer : (stream[c] = "open" /\ ~over) ~>
    \/ stream[c] \in {"ended", "closed"}
    \/ reads[c] \in Queue /\ lost[reads[c]] > 0
=============================================================================
