-------------------------- MODULE DistributedProofs --------------------------
(***************************************************************************)
(* Proofs about Segments, for any number of workers and items, and about    *)
(* Distributed, for any number of them, any size of a batch, and any number *)
(* of connections, broken ones among them, of broadcasts and of reports.   *)
(***************************************************************************)
EXTENDS Distributed, SequenceTheorems, TLAPS

(* What integer division means, without the operator.                      *)
LEMMA DivisionBounds ==
  ASSUME NEW a \in Nat, NEW n \in Nat \ {0}
  PROVE  /\ a \div n \in Nat
         /\ n * (a \div n) <= a
         /\ a < n * (a \div n) + n
  OBVIOUS

(* A quotient is at most q when the dividend is below the next multiple,   *)
(* and at least q from the multiple on.                                    *)
LEMMA QuotientBelow ==
  ASSUME NEW a \in Nat, NEW n \in Nat \ {0}, NEW q \in Nat
  PROVE  (n * q <= a) <=> (q <= a \div n)
  <1> DEFINE d == a \div n
  <1>1. d \in Nat /\ n * d <= a /\ a < n * d + n
    BY DivisionBounds
  <1> HIDE DEF d
  <1>2. ASSUME n * q <= a, ~(q <= d) PROVE FALSE
    <2>1. q >= d + 1 BY <1>1, <1>2
    <2>2. n * q >= n * (d + 1) BY <2>1, <1>1
    <2>3. n * (d + 1) = n * d + n BY <1>1
    <2> QED BY <1>1, <1>2, <2>2, <2>3
  <1>3. ASSUME q <= d PROVE n * q <= a
    <2>1. n * q <= n * d BY <1>1, <1>3
    <2> QED BY <2>1, <1>1
  <1> QED BY <1>2, <1>3 DEF d

(* An item belongs to a range exactly when it lies between the two         *)
(* multiples the range is computed from.                                   *)
LEMMA InRange ==
  ASSUME NEW n \in Nat \ {0}, NEW k \in Nat, NEW i \in Nat, NEW x \in Nat
  PROVE  x \in RangeOf(i, n, k) <=> (i * k < n * (x + 1) /\ n * (x + 1) <= (i + 1) * k)
  <1>1. i * k \in Nat /\ (i + 1) * k \in Nat OBVIOUS
  <1>2. Bound(i, n, k) \in Nat /\ Bound(i + 1, n, k) \in Nat
    BY <1>1, DivisionBounds DEF Bound
  <1>3. n * (x + 1) <= i * k <=> x + 1 <= Bound(i, n, k)
    BY <1>1, QuotientBelow DEF Bound
  <1>4. n * (x + 1) <= (i + 1) * k <=> x + 1 <= Bound(i + 1, n, k)
    BY <1>1, QuotientBelow DEF Bound
  <1>5. n * (x + 1) \in Nat OBVIOUS
  <1> HIDE DEF Bound
  <1>6. x \in RangeOf(i, n, k) <=> Bound(i, n, k) <= x /\ x + 1 <= Bound(i + 1, n, k)
    BY <1>2 DEF RangeOf
  <1> QED BY <1>1, <1>2, <1>3, <1>4, <1>5, <1>6

LEMMA RangesDisjoint ==
  ASSUME NEW n \in Nat \ {0}, NEW k \in Nat, NEW i \in Nat, NEW j \in Nat, i < j
  PROVE  RangeOf(i, n, k) \cap RangeOf(j, n, k) = {}
  <1> SUFFICES ASSUME NEW x \in RangeOf(i, n, k), x \in RangeOf(j, n, k) PROVE FALSE
    OBVIOUS
  <1>1. x \in Nat
    <2>1. i * k \in Nat OBVIOUS
    <2>2. Bound(i, n, k) \in Nat BY <2>1, DivisionBounds DEF Bound
    <2>3. (i + 1) * k \in Nat OBVIOUS
    <2>4. Bound(i + 1, n, k) \in Nat BY <2>3, DivisionBounds DEF Bound
    <2> HIDE DEF Bound
    <2> QED BY <2>2, <2>4 DEF RangeOf
  <1>2. n * (x + 1) <= (i + 1) * k BY <1>1, InRange
  <1>3. j * k < n * (x + 1) BY <1>1, InRange
  <1>4. (i + 1) * k <= j * k
    <2>1. i + 1 <= j OBVIOUS
    <2> QED BY <2>1
  <1>5. /\ n * (x + 1) \in Nat /\ j * k \in Nat /\ (i + 1) * k \in Nat BY <1>1
  <1> QED BY <1>2, <1>3, <1>4, <1>5

(* The worker of item x is the last index whose range starts at or before  *)
(* it.                                                                     *)
LEMMA RangesCover ==
  ASSUME NEW n \in Nat \ {0}, NEW k \in Nat, NEW x \in 0 .. k - 1
  PROVE  \E i \in 0 .. n - 1 : x \in RangeOf(i, n, k)
  <1> DEFINE a == n * (x + 1) - 1
             i == a \div k
  <1>1. k \in Nat \ {0} /\ x \in Nat OBVIOUS
  <1>2. a \in Nat
    <2>1. n * (x + 1) >= 1 * (x + 1) BY <1>1
    <2> QED BY <2>1, <1>1
  <1>3. i \in Nat /\ k * i <= a /\ a < k * i + k
    BY <1>1, <1>2, DivisionBounds
  <1>4. i * k < n * (x + 1) /\ n * (x + 1) <= (i + 1) * k
    <2> HIDE DEF i
    <2>1. i * k = k * i /\ (i + 1) * k = k * i + k BY <1>1, <1>3
    <2>2. n * (x + 1) = a + 1 BY <1>1, <1>2
    <2>3. k * i \in Nat BY <1>1, <1>3
    <2> HIDE DEF a
    <2> QED BY <2>1, <2>2, <2>3, <1>1, <1>2, <1>3
  <1>5. x \in RangeOf(i, n, k)
    BY <1>1, <1>3, <1>4, InRange
  <1>6. i < n
    <2> HIDE DEF i
    <2>1. SUFFICES ASSUME n <= i PROVE FALSE BY <1>3
    <2>2. k * n <= k * i BY <2>1, <1>1, <1>3
    <2>3. n * (x + 1) <= n * k
      <3>1. x + 1 <= k OBVIOUS
      <3> QED BY <3>1, <1>1
    <2>4. k * n = n * k OBVIOUS
    <2>5. k * i \in Nat /\ n * k \in Nat /\ i * k = k * i BY <1>1, <1>3
    <2> QED BY <2>2, <2>3, <2>4, <2>5, <1>1, <1>4
  <1> QED BY <1>3, <1>5, <1>6

LEMMA RangeInItems ==
  ASSUME NEW n \in Nat \ {0}, NEW k \in Nat, NEW i \in 0 .. n - 1
  PROVE  RangeOf(i, n, k) \subseteq 0 .. k - 1
  <1>1. i * k \in Nat /\ (i + 1) * k \in Nat OBVIOUS
  <1>2. Bound(i, n, k) \in Nat BY <1>1, DivisionBounds DEF Bound
  <1>3. Bound(i + 1, n, k) <= k
    <2> DEFINE q == ((i + 1) * k) \div n
    <2>1. q \in Nat /\ n * q <= (i + 1) * k
      BY <1>1, DivisionBounds
    <2> HIDE DEF q
    <2>2. (i + 1) * k <= n * k
      <3>1. i + 1 <= n OBVIOUS
      <3> QED BY <3>1
    <2>3. SUFFICES ASSUME q >= k + 1 PROVE FALSE
      BY <2>1 DEF Bound, q
    <2>4. n * q >= n * (k + 1) BY <2>1, <2>3
    <2>5. n * (k + 1) = n * k + n OBVIOUS
    <2>6. n * k \in Nat /\ n * q \in Nat BY <2>1
    <2> QED BY <2>1, <2>2, <2>4, <2>5, <2>6, <1>1
  <1>4. Bound(i + 1, n, k) \in Nat BY <1>1, DivisionBounds DEF Bound
  <1> HIDE DEF Bound
  <1> QED BY <1>2, <1>3, <1>4 DEF RangeOf

-----------------------------------------------------------------------------
(* What a worker has computed is its range, and nobody else's.             *)
Shares ==
  /\ TypeOK
  /\ \A i \in Index : owned[i] = IF i \in computed THEN RangeOf(i, total, amount) ELSE {}

LEMMA SharesInductive == Spec => []Shares
  <1>1. Init => Shares
    BY DEF Init, Shares, TypeOK, Index, Items
  <1>2. Shares /\ [Next]_vars => Shares'
    <2> SUFFICES ASSUME Shares, [Next]_vars PROVE Shares' OBVIOUS
    <2>1. ASSUME NEW i \in Index, Compute(i) PROVE Shares'
      <3> DEFINE r == RangeOf(i, total, amount)
      <3>1. total \in Nat \ {0} /\ amount \in Nat /\ i \in 0 .. total - 1
        BY <2>1, SegmentsAssumption DEF Shares, TypeOK, Index
      <3>2. r \subseteq Items
        BY <3>1, RangeInItems DEF Items
      <3>3. /\ total' = total /\ amount' = amount
            /\ computed' = computed \cup {i} /\ owned' = [owned EXCEPT ![i] = r]
        BY <2>1 DEF Compute
      <3> HIDE DEF r
      <3>4. TypeOK'
        BY <2>1, <3>2, <3>3 DEF Shares, TypeOK, Index, Items
      <3>5. (\A j \in Index : owned[j] = IF j \in computed THEN RangeOf(j, total, amount) ELSE {})'
        BY <2>1, <3>3 DEF Shares, TypeOK, Index, r
      <3> QED BY <3>4, <3>5 DEF Shares
    <2>2. CASE UNCHANGED vars
      BY <2>2 DEF Shares, TypeOK, Index, Items, vars
    <2> QED BY <2>1, <2>2 DEF Next
  <1> QED BY <1>1, <1>2, PTL DEF Spec

(* No item has two owners, and every item gets one, for any number of       *)
(* workers, any amount, and any order of computation (vu_range() and       *)
(* iteration_range()).                                                     *)
THEOREM SharesPartition == Spec => []Partitioned
  <1>1. Shares => NoOverlap
    <2> SUFFICES ASSUME Shares, NEW i \in Index, NEW j \in Index, i # j
                 PROVE  owned[i] \cap owned[j] = {}
      BY DEF NoOverlap
    <2>1. total \in Nat \ {0} /\ amount \in Nat /\ i \in Nat /\ j \in Nat
      BY SegmentsAssumption DEF Shares, TypeOK, Index
    <2>2. RangeOf(i, total, amount) \cap RangeOf(j, total, amount) = {}
      <3>1. CASE i < j BY <3>1, <2>1, RangesDisjoint
      <3>2. CASE j < i
        <4>1. RangeOf(j, total, amount) \cap RangeOf(i, total, amount) = {}
          BY <3>2, <2>1, RangesDisjoint
        <4> QED BY <4>1
      <3> QED BY <3>1, <3>2, <2>1
    <2> QED BY <2>2 DEF Shares
  <1>2. Shares => AllOwned
    <2> SUFFICES ASSUME Shares, computed = Index, NEW k \in Items
                 PROVE  \E i \in Index : k \in owned[i]
      BY DEF AllOwned
    <2>1. total \in Nat \ {0} /\ amount \in Nat
      BY SegmentsAssumption DEF Shares, TypeOK
    <2>2. PICK i \in 0 .. total - 1 : k \in RangeOf(i, total, amount)
      BY <2>1, RangesCover DEF Items
    <2> QED BY <2>2 DEF Shares, Index
  <1>3. Shares => Partitioned
    BY <1>1, <1>2 DEF Partitioned
  <1> QED BY <1>3, SharesInductive, PTL

-----------------------------------------------------------------------------
(* Types.                                                                  *)

Streams == {"off", "get", "sent", "last", "done", "raised"}

(* Only a batch carries samples.                                           *)
Messages ==
  {m \in [kind : {"register", "samples", "report"}, seq : Nat, samples : Seq(Nat)] :
     m.kind # "samples" => m.samples = <<>>}

Casts == [seq : Nat, todo : SUBSET Conns, all : SUBSET Conns, ended : BOOLEAN]

(* A connection that was opened.                                           *)
Opened(x) == x \in Conns /\ x[2] <= cur[x[1]]

ClientTypes ==
  /\ put \in [Index -> Nat] /\ taken \in [Index -> Nat]
  /\ cur \in [Index -> 0 .. MaxConns] /\ seq \in [Index -> Nat]
  /\ ended \in [Index -> BOOLEAN]
  /\ buffer \in [Index -> Seq(Nat)]
  /\ stream \in [Index -> Streams]
  /\ \A w \in Index : cur[w] = 0 <=> stream[w] = "off"

LinkTypes ==
  /\ up \in [Conns -> BOOLEAN]
  /\ wire \in [Conns -> Seq(Messages)]
  /\ inbox \in [Conns -> SUBSET Nat]

CoordinatorTypes ==
  /\ DOMAIN workers \subseteq Index
  /\ \A w \in DOMAIN workers : workers[w] \in Conns
  /\ cseq \in Nat
  /\ casts \subseteq Casts
  /\ got \in [Index -> Seq(Nat)]

DTypeOK == ClientTypes /\ LinkTypes /\ CoordinatorTypes

(* The shares are those of Segments, whatever the rest does, and the number *)
(* of workers stays.                                                       *)
LEMMA SameIndex == ASSUME [DNext]_dvars PROVE Index' = Index /\ Conns' = Conns /\ [Next]_vars
  <1>1. [Next]_vars
    BY DEF DNext, dvars, Produce, Connect, WorkerStep, Get, GetTimesOut, GetEnd, Flushed,
           Report, Break, Receive, RemoveWorker, Broadcast, CastSend
  <1>2. total' = total
    BY <1>1 DEF Next, Compute, vars
  <1> QED BY <1>1, <1>2, SMTT(40) DEF Index, Conns

LEMMA ClientInit == DInit => DTypeOK
  BY DistributedAssumption DEF DInit, DTypeOK, ClientTypes, LinkTypes, CoordinatorTypes, Streams

LEMMA SentTypes ==
  ASSUME DTypeOK, Conns' = Conns, NEW w \in Index, NEW samples \in Seq(Nat), NEW kind,
         kind = "samples" \/ (kind = "report" /\ samples = <<>>), cur[w] \in 1 .. MaxConns,
         Sent(w, kind, samples) \/ SendRaises(w)
  PROVE  seq' \in [Index -> Nat] /\ wire' \in [Conns' -> Seq(Messages)]
  <1>1. seq' \in [Index -> Nat]
    <2>1. seq' = [seq EXCEPT ![w] = @ + 1] BY DEF Sent, SendRaises
    <2> QED BY <2>1 DEF DTypeOK, ClientTypes
  <1>2. CASE wire' = wire
    BY <1>1, <1>2 DEF DTypeOK, LinkTypes
  <1>3. CASE wire' # wire
    <2> DEFINE m == Message(kind, seq[w] + 1, samples)
    <2>1. wire' = [wire EXCEPT ![Link(w)] = Append(@, m)]
      BY <1>3 DEF Sent, SendRaises
    <2>2. m \in Messages
      BY DEF Message, Messages, DTypeOK, ClientTypes
    <2> HIDE DEF m
    <2>3. Link(w) \in Conns
      BY DEF Link, Conns
    <2>4. Append(wire[Link(w)], m) \in Seq(Messages)
      BY <2>2, <2>3 DEF DTypeOK, LinkTypes
    <2> QED BY <1>1, <2>1, <2>4 DEF DTypeOK, LinkTypes
  <1> QED BY <1>2, <1>3
LEMMA FlushTypes ==
  ASSUME DTypeOK, Index' = Index, Conns' = Conns, NEW w \in Index, NEW label \in {"sent", "last"},
         Flush(w, label), stream[w] = "get", buffer' \in [Index' -> Seq(Nat)], UNCHANGED cur
  PROVE  /\ seq' \in [Index -> Nat] /\ wire' \in [Conns' -> Seq(Messages)]
         /\ stream' \in [Index -> Streams]
         /\ \A v \in Index : cur[v] = 0 <=> stream'[v] = "off"
  <1>1. cur[w] \in 1 .. MaxConns
    BY DistributedAssumption DEF DTypeOK, ClientTypes
  <1>2. buffer'[w] \in Seq(Nat)
    OBVIOUS
  <1>3. Sent(w, "samples", buffer'[w]) \/ SendRaises(w)
    BY DEF Flush
  <1>4. seq' \in [Index -> Nat] /\ wire' \in [Conns' -> Seq(Messages)]
    BY <1>1, <1>2, <1>3, SentTypes
  <1>5. PICK l \in Streams \ {"off"} : stream' = [stream EXCEPT ![w] = l]
    BY DEF Flush, Streams
  <1> QED BY <1>1, <1>4, <1>5 DEF DTypeOK, ClientTypes

LEMMA WorkerTypes ==
  ASSUME DTypeOK, Index' = Index, Conns' = Conns, NEW w \in Index,
         Produce(w) \/ Connect(w) \/ WorkerStep(w) \/ Report(w)
  PROVE  DTypeOK'
  <1>1. CASE Produce(w)
    <2>1. put' \in [Index -> Nat] /\ ended' \in [Index -> BOOLEAN]
      <3>1. \/ put' = [put EXCEPT ![w] = @ + 1] /\ ended' = ended
            \/ ended' = [ended EXCEPT ![w] = TRUE] /\ put' = put
        BY <1>1 DEF Produce
      <3>2. put' \in [Index -> Nat]
        <4>1. put' = put \/ put' = [put EXCEPT ![w] = @ + 1] BY <3>1
        <4>2. put \in [Index -> Nat] BY DEF DTypeOK, ClientTypes
        <4> QED BY <4>1, <4>2
      <3>3. [ended EXCEPT ![w] = TRUE] \in [Index -> BOOLEAN] /\ ended \in [Index -> BOOLEAN]
        BY Zenon DEF DTypeOK, ClientTypes
      <3> QED BY <3>1, <3>2, <3>3
    <2>2. UNCHANGED <<links, coordinator, taken, buffer, stream, cur, seq>>
      BY <1>1 DEF Produce
    <2> QED BY <2>1, <2>2
         DEF DTypeOK, ClientTypes, LinkTypes, CoordinatorTypes, Casts, links, coordinator
  <1>2. CASE Connect(w)
    <2> DEFINE x == <<w, cur[w] + 1>>
               m == Message("register", seq[w] + 1, <<>>)
    <2>1. x \in Conns /\ m \in Messages
      BY <1>2, DistributedAssumption
      DEF Connect, Conns, Message, Messages, DTypeOK, ClientTypes
    <2>2. /\ cur' = [cur EXCEPT ![w] = @ + 1]
          /\ seq' = [seq EXCEPT ![w] = @ + 1]
          /\ up' = [up EXCEPT ![x] = TRUE]
          /\ wire' = [wire EXCEPT ![x] = <<m>>]
          /\ stream' = [stream EXCEPT ![w] = "get"]
          /\ buffer' = [buffer EXCEPT ![w] = <<>>]
          /\ cur[w] < MaxConns
          /\ UNCHANGED <<coordinator, put, taken, ended, inbox>>
      BY <1>2 DEF Connect
    <2> HIDE DEF x, m
    <2>3. LinkTypes'
      BY <2>1, <2>2 DEF DTypeOK, LinkTypes
    <2>4. ClientTypes'
      BY <2>2, DistributedAssumption, SMTT(40) DEF DTypeOK, ClientTypes, Streams
    <2> QED BY <2>2, <2>3, <2>4 DEF DTypeOK, CoordinatorTypes, coordinator, Casts
  <1>3. CASE Get(w)
    <2>1. /\ stream[w] = "get" /\ taken[w] < put[w]
          /\ taken' = [taken EXCEPT ![w] = @ + 1]
          /\ buffer' = [buffer EXCEPT ![w] = Append(@, taken'[w])]
          /\ Flush(w, "sent") \/ UNCHANGED <<seq, wire, stream>>
          /\ UNCHANGED <<coordinator, put, ended, cur, up, inbox>>
      BY <1>3 DEF Get
    <2>2. taken' \in [Index -> Nat] /\ buffer' \in [Index' -> Seq(Nat)]
      BY <2>1 DEF DTypeOK, ClientTypes
    <2>3. /\ seq' \in [Index -> Nat] /\ wire' \in [Conns' -> Seq(Messages)]
          /\ stream' \in [Index -> Streams]
          /\ \A v \in Index : cur[v] = 0 <=> stream'[v] = "off"
      <3>1. CASE Flush(w, "sent") BY <3>1, <2>1, <2>2, FlushTypes
      <3>2. CASE UNCHANGED <<seq, wire, stream>> BY <3>2 DEF DTypeOK, ClientTypes, LinkTypes
      <3> QED BY <3>1, <3>2, <2>1
    <2> QED BY <2>1, <2>2, <2>3
         DEF DTypeOK, ClientTypes, LinkTypes, CoordinatorTypes, coordinator, Casts
  <1>4. CASE GetTimesOut(w)
    <2>1. /\ stream[w] = "get" /\ Flush(w, "sent")
          /\ UNCHANGED <<coordinator, put, taken, ended, buffer, cur, up, inbox>>
      BY <1>4 DEF GetTimesOut
    <2>2. buffer' \in [Index' -> Seq(Nat)]
      BY <2>1 DEF DTypeOK, ClientTypes
    <2>3. /\ seq' \in [Index -> Nat] /\ wire' \in [Conns' -> Seq(Messages)]
          /\ stream' \in [Index -> Streams]
          /\ \A v \in Index : cur[v] = 0 <=> stream'[v] = "off"
      BY <2>1, <2>2, FlushTypes
    <2> QED BY <2>1, <2>2, <2>3
         DEF DTypeOK, ClientTypes, LinkTypes, CoordinatorTypes, coordinator, Casts
  <1>5. CASE GetEnd(w)
    <2>1. /\ stream[w] = "get"
          /\ \/ Flush(w, "last")
             \/ stream' = [stream EXCEPT ![w] = "done"] /\ UNCHANGED <<seq, wire>>
          /\ UNCHANGED <<coordinator, put, taken, ended, buffer, cur, up, inbox>>
      BY <1>5 DEF GetEnd
    <2>2. buffer' \in [Index' -> Seq(Nat)]
      BY <2>1 DEF DTypeOK, ClientTypes
    <2>3. /\ seq' \in [Index -> Nat] /\ wire' \in [Conns' -> Seq(Messages)]
          /\ stream' \in [Index -> Streams]
          /\ \A v \in Index : cur[v] = 0 <=> stream'[v] = "off"
      <3>1. CASE Flush(w, "last") BY <3>1, <2>1, <2>2, FlushTypes
      <3>2. CASE stream' = [stream EXCEPT ![w] = "done"] /\ UNCHANGED <<seq, wire>>
        BY <3>2, <2>1 DEF DTypeOK, ClientTypes, LinkTypes, Streams
      <3> QED BY <3>1, <3>2, <2>1
    <2> QED BY <2>1, <2>2, <2>3
         DEF DTypeOK, ClientTypes, LinkTypes, CoordinatorTypes, coordinator, Casts
  <1>6. CASE Flushed(w)
    BY <1>6 DEF Flushed, DTypeOK, ClientTypes, LinkTypes, CoordinatorTypes, Casts, Streams,
                links, coordinator
  <1>7. CASE Report(w)
    <2>1. /\ cur[w] > 0
          /\ Sent(w, "report", <<>>) \/ SendRaises(w)
          /\ UNCHANGED <<coordinator, put, taken, ended, buffer, stream, cur, up, inbox>>
      BY <1>7 DEF Report
    <2>2. seq' \in [Index -> Nat] /\ wire' \in [Conns' -> Seq(Messages)]
      <3>1. cur[w] \in 1 .. MaxConns
        BY <2>1, DistributedAssumption DEF DTypeOK, ClientTypes
      <3>2. <<>> \in Seq(Nat)
        OBVIOUS
      <3> QED BY <2>1, <3>1, <3>2, SentTypes
    <2> QED BY <2>1, <2>2
         DEF DTypeOK, ClientTypes, LinkTypes, CoordinatorTypes, coordinator, Casts
  <1> QED BY <1>1, <1>2, <1>3, <1>4, <1>5, <1>6, <1>7 DEF WorkerStep
LEMMA NetworkTypes ==
  ASSUME DTypeOK, Index' = Index, Conns' = Conns, NEW x \in Conns,
         Break(x) \/ Receive(x) \/ RemoveWorker(x)
  PROVE  DTypeOK'
  <1>1. CASE Break(x)
    <2>1. PICK n \in 0 .. Len(wire[x]) : wire' = [wire EXCEPT ![x] = SubSeq(@, 1, n)]
      BY <1>1 DEF Break
    <2>2. wire[x] \in Seq(Messages)
      BY DEF DTypeOK, LinkTypes
    <2>3. SubSeq(wire[x], 1, n) \in Seq(Messages)
      BY <2>2
    <2>4. wire' \in [Conns -> Seq(Messages)]
      BY <2>1, <2>3 DEF DTypeOK, LinkTypes
    <2>5. up' \in [Conns -> BOOLEAN] /\ UNCHANGED <<client, coordinator, inbox>>
      BY <1>1 DEF Break, DTypeOK, LinkTypes
    <2> QED BY <2>4, <2>5
         DEF DTypeOK, ClientTypes, LinkTypes, CoordinatorTypes, Casts, client, coordinator
  <1>2. CASE Receive(x)
    <2> DEFINE msg == Head(wire[x])
    <2>1. wire[x] \in Seq(Messages) /\ wire[x] # <<>> /\ wire' = [wire EXCEPT ![x] = Tail(@)]
      BY <1>2 DEF Receive, DTypeOK, LinkTypes
    <2>2. msg \in Messages /\ Tail(wire[x]) \in Seq(Messages)
      BY <2>1
    <2>3. \/ Register(x[1], x) /\ UNCHANGED got
          \/ Ingest(x[1], msg.samples) /\ UNCHANGED workers
          \/ UNCHANGED <<workers, got>>
      BY <1>2 DEF Receive
    <2>4. UNCHANGED <<client, up, inbox, cseq, casts>>
      BY <1>2 DEF Receive
    <2>5. x[1] \in Index
      BY DEF Conns
    <2>6. got' \in [Index -> Seq(Nat)]
      <3>1. msg.samples \in Seq(Nat)
        BY <2>2 DEF Messages
      <3>2. got[x[1]] \o msg.samples \in Seq(Nat)
        BY <2>5, <3>1 DEF DTypeOK, CoordinatorTypes
      <3> HIDE DEF msg
      <3> QED BY <2>3, <3>2 DEF Ingest, DTypeOK, CoordinatorTypes
    <2>7. DOMAIN workers' \subseteq Index /\ \A w \in DOMAIN workers' : workers'[w] \in Conns
      BY <2>3, <2>5 DEF Register, DTypeOK, CoordinatorTypes
    <2>8. wire' \in [Conns -> Seq(Messages)]
      BY <2>1, <2>2 DEF DTypeOK, LinkTypes
    <2> QED BY <2>4, <2>6, <2>7, <2>8
         DEF DTypeOK, ClientTypes, LinkTypes, CoordinatorTypes, Casts, client
  <1>3. CASE RemoveWorker(x)
    BY <1>3 DEF RemoveWorker, DTypeOK, ClientTypes, LinkTypes, CoordinatorTypes, Casts, client
  <1> QED BY <1>1, <1>2, <1>3

LEMMA CastTypes ==
  ASSUME DTypeOK, Index' = Index, Conns' = Conns,
         Broadcast \/ \E c \in casts, x \in Conns : CastSend(c, x)
  PROVE  DTypeOK'
  <1>1. CASE Broadcast
    <2> DEFINE all == {workers[w] : w \in DOMAIN workers}
               c == [seq |-> cseq + 1, todo |-> all, all |-> all, ended |-> all = {}]
    <2>1. cseq' = cseq + 1 /\ casts' = casts \cup {c} /\ UNCHANGED <<client, links, workers, got>>
      BY <1>1 DEF Broadcast
    <2>2. all \subseteq Conns
      BY DEF DTypeOK, CoordinatorTypes
    <2> HIDE DEF all
    <2>3. c \in Casts
      BY <2>2 DEF Casts, DTypeOK, CoordinatorTypes
    <2>4. Casts' = Casts
      BY DEF Casts
    <2> HIDE DEF c
    <2>5. CoordinatorTypes'
      BY <2>1, <2>3, <2>4 DEF DTypeOK, CoordinatorTypes
    <2> QED BY <2>1, <2>5 DEF DTypeOK, ClientTypes, LinkTypes, client, links
  <1>2. ASSUME NEW c \in casts, NEW x \in Conns, CastSend(c, x) PROVE DTypeOK'
    <2> DEFINE d == [c EXCEPT !.todo = @ \ {x}, !.ended = c.todo = {x}]
    <2>1. c \in Casts /\ Casts' = Casts
      BY DEF DTypeOK, CoordinatorTypes, Casts
    <2>2. d \in Casts
      BY <2>1 DEF Casts
    <2>3. casts' = (casts \ {c}) \cup {d}
      BY <1>2 DEF CastSend
    <2> HIDE DEF d
    <2>4. casts' \subseteq Casts'
      BY <2>1, <2>2, <2>3 DEF DTypeOK, CoordinatorTypes
    <2>5. inbox' \in [Conns -> SUBSET Nat]
      <3>1. c.seq \in Nat
        BY <2>1 DEF Casts
      <3>2. inbox' = inbox \/ inbox' = [inbox EXCEPT ![x] = @ \cup {c.seq}]
        BY <1>2 DEF CastSend
      <3> QED BY <3>1, <3>2 DEF DTypeOK, LinkTypes
    <2>6. UNCHANGED <<client, up, wire, workers, cseq, got>>
      BY <1>2 DEF CastSend
    <2> QED BY <2>4, <2>5, <2>6 DEF DTypeOK, ClientTypes, LinkTypes, CoordinatorTypes, client
  <1> QED BY <1>1, <1>2

LEMMA TypeStep == ASSUME DTypeOK, [DNext]_dvars PROVE DTypeOK'
  <1>1. Index' = Index /\ Conns' = Conns
    BY SameIndex
  <1>2. CASE UNCHANGED <<client, links, coordinator>>
    BY <1>1, <1>2 DEF DTypeOK, ClientTypes, LinkTypes, CoordinatorTypes, Casts,
                      client, links, coordinator
  <1> QED BY <1>1, <1>2, WorkerTypes, NetworkTypes, CastTypes DEF DNext, dvars
LEMMA DTypes == DSpec => []DTypeOK
  BY ClientInit, TypeStep, PTL DEF DSpec

(* The rest of the system leaves the shares alone.                         *)
THEOREM DistributedShares == DSpec => []Partitioned
  <1>1. DInit => Init
    BY DEF DInit
  <1>2. [DNext]_dvars => [Next]_vars
    BY SameIndex
  <1>3. DSpec => Spec
    BY <1>1, <1>2, PTL DEF DSpec, Spec
  <1> QED BY <1>3, SharesPartition, PTL
-----------------------------------------------------------------------------
(* Broadcasts.                                                             *)

(* Nothing happens on a connection before it is opened, only such are known *)
(* to the coordinator, and a broadcast has nothing left to do at its end.   *)
Reached ==
  /\ \A x \in Conns : Opened(x) \/ (wire[x] = <<>> /\ ~up[x])
  /\ \A w \in DOMAIN workers : Opened(workers[w])
  /\ \A c \in casts :
       /\ c.ended => c.todo = {}
       /\ \A x \in c.all : Opened(x) /\ (x \in c.todo \/ ~up[x] \/ c.seq \in inbox[x])

(* The steps of a worker that has its connection.                          *)
LEMMA OnlySends ==
  ASSUME DTypeOK, NEW w \in Index, WorkerStep(w) \/ Report(w)
  PROVE  /\ UNCHANGED <<cur, up, inbox, coordinator>>
         /\ cur[w] \in 1 .. MaxConns
         /\ \/ wire' = wire
            \/ \E m : wire' = [wire EXCEPT ![<<w, cur[w]>>] = Append(@, m)]
  <1>1. UNCHANGED <<cur, up, inbox, coordinator>>
    BY DEF WorkerStep, Report, Get, GetTimesOut, GetEnd, Flushed, links
  <1>2. cur[w] \in 1 .. MaxConns
    <2>1. cur[w] > 0 \/ stream[w] # "off"
      BY DEF WorkerStep, Report, Get, GetTimesOut, GetEnd, Flushed
    <2> QED BY <2>1, DistributedAssumption DEF DTypeOK, ClientTypes
  <1>3. ASSUME NEW kind, NEW samples, Sent(w, kind, samples)
        PROVE  wire' = wire \/ \E m : wire' = [wire EXCEPT ![<<w, cur[w]>>] = Append(@, m)]
    <2> DEFINE m == Message(kind, seq[w] + 1, samples)
    <2>1. wire' = wire \/ wire' = [wire EXCEPT ![<<w, cur[w]>>] = Append(@, m)]
      BY <1>3 DEF Sent, Link
    <2> HIDE DEF m
    <2> QED BY <2>1
  <1>4. \/ wire' = wire
        \/ \E kind, samples : Sent(w, kind, samples)
    BY DEF WorkerStep, Report, Get, GetTimesOut, GetEnd, Flushed, Flush, SendRaises, links
  <1> QED BY <1>1, <1>2, <1>3, <1>4

LEMMA ReachedStep == ASSUME DTypeOK, Reached, [DNext]_dvars PROVE Reached'
  <1>0. Index' = Index /\ Conns' = Conns
    BY SameIndex
  <1>1. CASE UNCHANGED <<client, links, coordinator>>
    BY <1>0, <1>1 DEF Reached, Opened, client, links, coordinator
  <1>2. ASSUME NEW w \in Index, Produce(w) PROVE Reached'
    BY <1>0, <1>2 DEF Produce, Reached, Opened, links, coordinator
  <1>3. ASSUME NEW w \in Index, Connect(w) PROVE Reached'
    <2> DEFINE x == <<w, cur[w] + 1>>
    <2>1. /\ cur' = [cur EXCEPT ![w] = @ + 1]
          /\ up' = [up EXCEPT ![x] = TRUE]
          /\ \E m : wire' = [wire EXCEPT ![x] = m]
          /\ UNCHANGED <<workers, casts, inbox>>
      BY <1>3 DEF Connect, coordinator
    <2>2. ~Opened(x)
      BY DEF Opened, Conns, DTypeOK, ClientTypes
    <2>3. \A y \in Conns : Opened(y) => Opened(y)'
      BY <1>0, <2>1 DEF Opened, Conns, DTypeOK, ClientTypes
    <2>4. \A y \in Conns : y = x => Opened(y)'
      BY <1>0, <2>1 DEF Opened, Conns, DTypeOK, ClientTypes
    <2>5. \A y \in Conns : y # x => up'[y] = up[y] /\ wire'[y] = wire[y]
      BY <2>1 DEF DTypeOK, LinkTypes
    <2> HIDE DEF x, Opened
    <2>6. \A c \in casts : c.all \subseteq Conns
      BY DEF DTypeOK, CoordinatorTypes, Casts
    <2>7. \A v \in DOMAIN workers : workers[v] \in Conns
      BY DEF DTypeOK, CoordinatorTypes
    <2> QED BY <1>0, <2>1, <2>2, <2>3, <2>4, <2>5, <2>6, <2>7 DEF Reached
  <1>4. ASSUME NEW w \in Index, WorkerStep(w) \/ Report(w) PROVE Reached'
    <2>1. /\ UNCHANGED <<cur, up, inbox, workers, casts>>
          /\ cur[w] \in 1 .. MaxConns
          /\ \/ wire' = wire
             \/ \E m : wire' = [wire EXCEPT ![<<w, cur[w]>>] = Append(@, m)]
      BY <1>4, OnlySends DEF coordinator
    <2>2. <<w, cur[w]>> \in Conns /\ Opened(<<w, cur[w]>>)
      BY <2>1 DEF Opened, Conns
    <2>3. \A y \in Conns : y # <<w, cur[w]>> => wire'[y] = wire[y]
      BY <2>1 DEF DTypeOK, LinkTypes
    <2>4. \A y : Opened(y)' <=> Opened(y)
      BY <1>0, <2>1 DEF Opened
    <2> HIDE DEF Opened
    <2> QED BY <1>0, <2>1, <2>2, <2>3, <2>4 DEF Reached
  <1>5. ASSUME NEW x \in Conns, Break(x) PROVE Reached'
    <2>1. /\ UNCHANGED <<cur, workers, casts, inbox>>
          /\ up' = [up EXCEPT ![x] = FALSE] /\ up[x]
          /\ \E m : wire' = [wire EXCEPT ![x] = m]
      BY <1>5 DEF Break, client, coordinator
    <2>2. Opened(x)
      BY <2>1 DEF Reached
    <2>3. \A y : Opened(y)' <=> Opened(y)
      BY <1>0, <2>1 DEF Opened
    <2>4. \A y \in Conns : y # x => up'[y] = up[y] /\ wire'[y] = wire[y]
      BY <2>1 DEF DTypeOK, LinkTypes
    <2>5. ~up'[x]
      BY <2>1 DEF DTypeOK, LinkTypes
    <2>6. \A c \in casts : c.all \subseteq Conns
      BY DEF DTypeOK, CoordinatorTypes, Casts
    <2> HIDE DEF Opened
    <2> QED BY <1>0, <2>1, <2>2, <2>3, <2>4, <2>5, <2>6 DEF Reached
  <1>6. ASSUME NEW x \in Conns, Receive(x) PROVE Reached'
    <2>1. /\ UNCHANGED <<cur, up, casts, inbox>>
          /\ wire[x] # <<>> /\ \E m : wire' = [wire EXCEPT ![x] = m]
          /\ workers' = workers \/ Register(x[1], x)
      BY <1>6 DEF Receive, client
    <2>2. Opened(x)
      BY <2>1 DEF Reached
    <2>3. \A y : Opened(y)' <=> Opened(y)
      BY <1>0, <2>1 DEF Opened
    <2>4. \A y \in Conns : y # x => wire'[y] = wire[y]
      BY <2>1 DEF DTypeOK, LinkTypes
    <2> HIDE DEF Opened
    <2>5. \A w \in DOMAIN workers' : Opened(workers'[w])
      BY <2>1, <2>2 DEF Reached, Register
    <2> QED BY <1>0, <2>1, <2>2, <2>3, <2>4, <2>5 DEF Reached
  <1>7. ASSUME NEW x \in Conns, RemoveWorker(x) PROVE Reached'
    BY <1>0, <1>7 DEF RemoveWorker, Reached, Opened, client
  <1>8. CASE Broadcast
    <2> DEFINE all == {workers[w] : w \in DOMAIN workers}
               c == [seq |-> cseq + 1, todo |-> all, all |-> all, ended |-> all = {}]
    <2>1. casts' = casts \cup {c} /\ UNCHANGED <<client, links, workers>>
      BY <1>8 DEF Broadcast
    <2>2. \A y : Opened(y)' <=> Opened(y)
      BY <1>0, <2>1 DEF Opened, client
    <2> HIDE DEF Opened
    <2>3. /\ c.ended => c.todo = {}
          /\ \A x \in c.all : Opened(x) /\ x \in c.todo
      BY DEF Reached
    <2> HIDE DEF c
    <2> QED BY <1>0, <2>1, <2>2, <2>3 DEF Reached, links
  <1>9. ASSUME NEW c \in casts, NEW x \in Conns, CastSend(c, x) PROVE Reached'
    <2> DEFINE d == [c EXCEPT !.todo = @ \ {x}, !.ended = c.todo = {x}]
    <2>1. /\ casts' = (casts \ {c}) \cup {d}
          /\ inbox' = IF up[x] THEN [inbox EXCEPT ![x] = @ \cup {c.seq}] ELSE inbox
          /\ UNCHANGED <<client, up, wire, workers>>
      BY <1>9 DEF CastSend
    <2>2. \A y : Opened(y)' <=> Opened(y)
      BY <1>0, <2>1 DEF Opened, client
    <2>3. c \in Casts
      BY DEF DTypeOK, CoordinatorTypes
    <2>4. /\ d.all = c.all /\ d.seq = c.seq /\ d.todo = c.todo \ {x}
          /\ d.ended => d.todo = {}
      BY <2>3 DEF Casts
    <2>5. /\ \A y \in Conns : inbox[y] \subseteq inbox'[y]
          /\ up[x] => c.seq \in inbox'[x]
      BY <2>1 DEF DTypeOK, LinkTypes
    <2>6. \A b \in casts : b.all \subseteq Conns
      BY DEF DTypeOK, CoordinatorTypes, Casts
    <2> HIDE DEF d, Opened
    <2>7. \A y \in d.all : Opened(y) /\ (y \in d.todo \/ ~up[y] \/ d.seq \in inbox'[y])
      BY <2>4, <2>5, <2>6 DEF Reached
    <2> QED BY <1>0, <2>1, <2>2, <2>4, <2>5, <2>6, <2>7 DEF Reached
  <1> QED BY <1>1, <1>2, <1>3, <1>4, <1>5, <1>6, <1>7, <1>8, <1>9 DEF DNext, dvars

(* A broadcast is not ended, or cut short, by a worker that cannot be       *)
(* reached, nor does one registered meanwhile take the place of another     *)
(* (broadcast() of the coordinator).                                       *)
THEOREM BroadcastReachesAll == DSpec => []BroadcastReaches
  <1>1. DInit => Reached
    BY DEF DInit, Reached, Opened
  <1>2. Reached => BroadcastReaches
    BY DEF Reached, BroadcastReaches
  <1> QED BY <1>1, <1>2, DTypes, ReachedStep, PTL DEF DSpec
-----------------------------------------------------------------------------
(* Samples.                                                                *)

(* The messages on the connections of a worker, by connection and position, *)
(* and which of two was sent before the other.                             *)
Places(w) == {p \in (1 .. MaxConns) \X (Nat \ {0}) : p[2] <= Len(wire[<<w, p[1]>>])}
Batch(w, p) == wire[<<w, p[1]>>][p[2]].samples
Earlier(p, q) == p[1] < q[1] \/ (p[1] = q[1] /\ p[2] < q[2])

OneToOne(s) == \A i, j \in DOMAIN s : i # j => s[i] # s[j]
Shows(s, n) == \E i \in DOMAIN s : s[i] = n
Apart(s, t) == \A i \in DOMAIN s, j \in DOMAIN t : s[i] # t[j]
Within(s, n) == \A i \in DOMAIN s : s[i] \in 1 .. n

(* On any number of connections, what was sent later was taken later; what  *)
(* has arrived is nowhere else.                                            *)
Sorted(w) ==
  /\ \A p \in Places(w) :
       /\ Rises(Batch(w, p)) /\ Within(Batch(w, p), taken[w])
       /\ Precedes(Batch(w, p), Unsent(w)) /\ Apart(got[w], Batch(w, p))
  /\ \A p, q \in Places(w) : Earlier(p, q) => Precedes(Batch(w, p), Batch(w, q))
  /\ Rises(Unsent(w)) /\ Within(Unsent(w), taken[w])
  /\ OneToOne(got[w]) /\ Precedes(got[w], Unsent(w)) /\ Within(got[w], taken[w])

(* On the first connection, as long as it holds, what has arrived was taken *)
(* before all the rest, and all that was taken is somewhere.               *)
Whole(w) == Unbroken(w) =>
  /\ Rises(got[w])
  /\ \A p \in Places(w) : Precedes(got[w], Batch(w, p))
  /\ \A n \in 1 .. taken[w] :
       \/ \E i \in DOMAIN got[w] : got[w][i] = n
       \/ \E i \in DOMAIN Unsent(w) : Unsent(w)[i] = n
       \/ \E p \in Places(w) : \E i \in DOMAIN Batch(w, p) : Batch(w, p)[i] = n

(* A worker that has not connected has nothing under way.                  *)
Fresh(w) == cur[w] = 0 => taken[w] = 0 /\ got[w] = <<>>

Flowing == \A w \in Index : Sorted(w) /\ Whole(w) /\ Fresh(w)

LEMMA OneMore ==
  ASSUME NEW s \in Seq(Nat), NEW n \in Nat, Rises(s), Within(s, n)
  PROVE  /\ Append(s, n + 1) \in Seq(Nat)
         /\ Rises(Append(s, n + 1)) /\ Within(Append(s, n + 1), n + 1)
         /\ \A t \in Seq(Nat) : Precedes(t, s) /\ Within(t, n) => Precedes(t, Append(s, n + 1))
         /\ \A i \in DOMAIN s : Append(s, n + 1)[i] = s[i] /\ i \in DOMAIN Append(s, n + 1)
         /\ \E i \in DOMAIN Append(s, n + 1) : Append(s, n + 1)[i] = n + 1
  <1> DEFINE t == Append(s, n + 1)
  <1>1. /\ t \in Seq(Nat) /\ Len(t) = Len(s) + 1 /\ t[Len(s) + 1] = n + 1
        /\ \A i \in 1 .. Len(s) : t[i] = s[i]
    OBVIOUS
  <1>2. DOMAIN s = 1 .. Len(s) /\ DOMAIN t = 1 .. Len(s) + 1 /\ Len(s) \in Nat
    BY <1>1
  <1>3. \A i \in DOMAIN s : s[i] \in 1 .. n
    BY DEF Within
  <1> HIDE DEF t
  <1>4. Rises(t)
    <2> SUFFICES ASSUME NEW i \in DOMAIN t, NEW j \in DOMAIN t, i < j PROVE t[i] < t[j]
      BY DEF Rises
    <2>1. i \in 1 .. Len(s)
      BY <1>2
    <2>2. t[i] = s[i] /\ s[i] \in 1 .. n
      BY <1>1, <1>2, <1>3, <2>1
    <2>3. CASE j = Len(s) + 1
      BY <1>1, <2>2, <2>3, SMTT(40)
    <2>4. CASE j # Len(s) + 1
      <3>1. j \in 1 .. Len(s) BY <1>2, <2>4
      <3> QED BY <1>1, <1>2, <2>1, <2>2, <3>1 DEF Rises
    <2> QED BY <2>3, <2>4
  <1>5. Within(t, n + 1)
    BY <1>1, <1>2, <1>3, SMTT(40) DEF Within
  <1>6. ASSUME NEW r \in Seq(Nat), Precedes(r, s), Within(r, n) PROVE Precedes(r, t)
    <2> SUFFICES ASSUME NEW i \in DOMAIN r, NEW j \in DOMAIN t PROVE r[i] < t[j]
      BY DEF Precedes
    <2>1. r[i] \in 1 .. n
      BY <1>6 DEF Within
    <2>2. CASE j = Len(s) + 1
      BY <1>1, <2>1, <2>2
    <2>3. CASE j # Len(s) + 1
      <3>1. j \in 1 .. Len(s) BY <1>2, <2>3
      <3> QED BY <1>1, <1>2, <1>6, <3>1 DEF Precedes
    <2> QED BY <2>2, <2>3
  <1> QED BY <1>1, <1>2, <1>4, <1>5, <1>6 DEF t

LEMMA Joined ==
  ASSUME NEW s \in Seq(Nat), NEW t \in Seq(Nat), NEW r, r = s \o t
  PROVE  /\ Rises(s) /\ Rises(t) /\ Precedes(s, t) => Rises(r)
         /\ \A n : Within(s, n) /\ Within(t, n) => Within(r, n)
         /\ \A u : Precedes(s, u) /\ Precedes(t, u) => Precedes(r, u)
         /\ \A u : Apart(s, u) /\ Apart(t, u) => Apart(r, u)
         /\ OneToOne(s) /\ Rises(t) /\ Apart(s, t) => OneToOne(r)
         /\ \A n : Shows(s, n) \/ Shows(t, n) => Shows(r, n)
  <1>1. /\ r \in Seq(Nat) /\ Len(r) = Len(s) + Len(t)
        /\ \A i \in 1 .. Len(s) : r[i] = s[i]
        /\ \A i \in 1 .. Len(t) : r[Len(s) + i] = t[i]
    <2>1. r \in Seq(Nat) /\ Len(r) = Len(s) + Len(t)
      OBVIOUS
    <2>2. \A i \in 1 .. Len(r) : r[i] = IF i <= Len(s) THEN s[i] ELSE t[i - Len(s)]
      BY ConcatProperties
    <2>3. Len(s) \in Nat /\ Len(t) \in Nat
      OBVIOUS
    <2>4. \A i \in 1 .. Len(s) : i \in 1 .. Len(r) /\ r[i] = s[i]
      BY <2>1, <2>2, <2>3
    <2>5. ASSUME NEW i \in 1 .. Len(t) PROVE r[Len(s) + i] = t[i]
      <3>1. /\ Len(s) + i \in 1 .. Len(r) /\ ~(Len(s) + i <= Len(s)) /\ (Len(s) + i) - Len(s) = i
        BY <2>1, <2>3
      <3> QED BY <3>1, <2>2
    <2> QED BY <2>1, <2>4, <2>5
  <1>2. /\ DOMAIN s = 1 .. Len(s) /\ DOMAIN t = 1 .. Len(t) /\ DOMAIN r = 1 .. Len(s) + Len(t)
        /\ Len(s) \in Nat /\ Len(t) \in Nat
    BY <1>1
  <1>3. \A i \in DOMAIN r :
          \/ i \in DOMAIN s /\ r[i] = s[i]
          \/ i - Len(s) \in DOMAIN t /\ r[i] = t[i - Len(s)]
    <2> SUFFICES ASSUME NEW i \in DOMAIN r
                 PROVE  \/ i \in DOMAIN s /\ r[i] = s[i]
                        \/ i - Len(s) \in DOMAIN t /\ r[i] = t[i - Len(s)]
      OBVIOUS
    <2>1. CASE i <= Len(s) BY <2>1, <1>1, <1>2
    <2>2. CASE i > Len(s)
      <3>1. i - Len(s) \in 1 .. Len(t) /\ Len(s) + (i - Len(s)) = i BY <2>2, <1>2
      <3> QED BY <3>1, <1>1, <1>2
    <2> QED BY <2>1, <2>2, <1>2
  <1>4. Rises(s) /\ Rises(t) /\ Precedes(s, t) => Rises(r)
    BY <1>2, <1>3 DEF Rises, Precedes
  <1>5. \A n : Within(s, n) /\ Within(t, n) => Within(r, n)
    BY <1>2, <1>3 DEF Within
  <1>6. \A u : Precedes(s, u) /\ Precedes(t, u) => Precedes(r, u)
    BY <1>3 DEF Precedes
  <1>7. \A u : Apart(s, u) /\ Apart(t, u) => Apart(r, u)
    BY <1>3 DEF Apart
  <1>8. ASSUME OneToOne(s), Rises(t), Apart(s, t), NEW i \in DOMAIN r, NEW j \in DOMAIN r, i # j
        PROVE  r[i] # r[j]
    <2>1. \A k, l \in DOMAIN t : k # l => t[k] # t[l]
      <3>1. \A k, l \in DOMAIN t : k \in Int /\ l \in Int /\ t[k] \in Nat /\ t[l] \in Nat
        BY <1>2
      <3>2. \A k, l \in DOMAIN t : k < l => t[k] < t[l]
        BY <1>8 DEF Rises
      <3> SUFFICES ASSUME NEW k \in DOMAIN t, NEW l \in DOMAIN t, k # l PROVE t[k] # t[l]
        OBVIOUS
      <3>3. k < l \/ l < k
        BY <3>1
      <3>4. t[k] \in Nat /\ t[l] \in Nat
        BY <3>1
      <3> QED BY <3>2, <3>3, <3>4
    <2>2. i \in Int /\ j \in Int
      BY <1>2
    <2> QED BY <1>3, <1>8, <1>2, <2>1, <2>2 DEF Apart, OneToOne
  <1>9. \A i \in DOMAIN t : Len(s) + i \in DOMAIN r /\ r[Len(s) + i] = t[i]
    BY <1>1, <1>2
  <1>10. \A i \in DOMAIN s : i \in DOMAIN r /\ r[i] = s[i]
    BY <1>1, <1>2
  <1>11. \A n : Shows(s, n) \/ Shows(t, n) => Shows(r, n)
    BY <1>9, <1>10 DEF Shows
  <1>12. OneToOne(s) /\ Rises(t) /\ Apart(s, t) => OneToOne(r)
    BY <1>8 DEF OneToOne
  <1> QED BY <1>4, <1>5, <1>6, <1>7, <1>11, <1>12

LEMMA PlacesAfter ==
  ASSUME NEW w
  PROVE  /\ Places(w)' = {p \in (1 .. MaxConns) \X (Nat \ {0}) : p[2] <= Len(wire'[<<w, p[1]>>])}
         /\ Places(w) = {p \in (1 .. MaxConns) \X (Nat \ {0}) : p[2] <= Len(wire[<<w, p[1]>>])}
  BY DEF Places

LEMMA PlaceParts ==
  ASSUME NEW w
  PROVE  \A p \in Places(w) :
           p[1] \in 1 .. MaxConns /\ p[2] \in Nat \ {0} /\ p[2] <= Len(wire[<<w, p[1]>>])
  BY DEF Places

LEMMA BatchAfter ==
  ASSUME NEW w, NEW p
  PROVE  /\ Batch(w, p)' = wire'[<<w, p[1]>>][p[2]].samples
         /\ Batch(w, p) = wire[<<w, p[1]>>][p[2]].samples
  BY DEF Batch

LEMMA PlaceTypes ==
  ASSUME DTypeOK, NEW w \in Index
  PROVE  /\ Unsent(w) \in Seq(Nat) /\ got[w] \in Seq(Nat) /\ taken[w] \in Nat
         /\ \A c \in 1 .. MaxConns : <<w, c>> \in Conns /\ wire[<<w, c>>] \in Seq(Messages)
         /\ \A p \in Places(w) : Batch(w, p) \in Seq(Nat)
  <1>1. Unsent(w) \in Seq(Nat) /\ got[w] \in Seq(Nat) /\ taken[w] \in Nat
    BY DEF Unsent, DTypeOK, ClientTypes, CoordinatorTypes
  <1>2. \A c \in 1 .. MaxConns : <<w, c>> \in Conns /\ wire[<<w, c>>] \in Seq(Messages)
    BY DEF DTypeOK, LinkTypes, Conns
  <1>3. ASSUME NEW p \in Places(w) PROVE Batch(w, p) \in Seq(Nat)
    <2>1. p[1] \in 1 .. MaxConns /\ p[2] \in 1 .. Len(wire[<<w, p[1]>>])
      BY <1>2 DEF Places
    <2>2. wire[<<w, p[1]>>][p[2]] \in Messages
      BY <1>2, <2>1
    <2> QED BY <2>2 DEF Batch, Messages
  <1> QED BY <1>1, <1>2, <1>3

(* Nothing happens to the samples of a worker, but for its connection that  *)
(* may break.                                                              *)
LEMMA NothingFlows ==
  ASSUME DTypeOK, NEW w \in Index, Sorted(w), Whole(w), Fresh(w),
         got'[w] = got[w], taken'[w] = taken[w], Unsent(w)' = Unsent(w), cur'[w] = cur[w],
         \A c \in 1 .. MaxConns : wire'[<<w, c>>] = wire[<<w, c>>],
         Unbroken(w)' => Unbroken(w)
  PROVE  Sorted(w)' /\ Whole(w)' /\ Fresh(w)'
  <1>1. Places(w)' = Places(w)
    BY DEF Places
  <1>2. \A p \in Places(w) : Batch(w, p)' = Batch(w, p)
    BY DEF Batch, Places
  <1>3. Sorted(w)'
    BY <1>1, <1>2 DEF Sorted
  <1>4. Whole(w)'
    BY <1>1, <1>2 DEF Whole
  <1> QED BY <1>3, <1>4 DEF Fresh

(* What may follow all that a worker has under way but has not buffered.   *)
Follows(w, s) ==
  /\ s \in Seq(Nat) /\ Rises(s) /\ Within(s, taken'[w]) /\ Precedes(got[w], s)
  /\ \A p \in Places(w) : Precedes(Batch(w, p), s)

(* A step that puts s on a connection, or nothing, and leaves t unsent.    *)
Puts(w, s, t) ==
  /\ Unsent(w)' = t
  /\ \A p \in Places(w) : Batch(w, p)' = Batch(w, p)
  /\ \/ Places(w)' = Places(w) /\ s = <<>>
     \/ \E q :
          /\ Places(w)' = Places(w) \cup {q} /\ Batch(w, q)' = s /\ ~Earlier(q, q)
          /\ \A p \in Places(w) : Earlier(p, q) /\ ~Earlier(q, p)

(* A message added to a connection of which there is no later one in use.  *)
LEMMA PlaceAdded ==
  ASSUME DTypeOK, NEW w \in Index, NEW c \in 1 .. MaxConns, NEW m \in Messages,
         \A d \in 1 .. MaxConns : d > c => wire[<<w, d>>] = <<>>,
         wire' = [wire EXCEPT ![<<w, c>>] = Append(@, m)]
  PROVE  Puts(w, m.samples, Unsent(w)')
  <1> PICK q : q = <<c, Len(wire[<<w, c>>]) + 1>>
    OBVIOUS
  <1> DEFINE n == Len(wire[<<w, c>>])
  <1>1. /\ <<w, c>> \in Conns /\ n \in Nat /\ wire[<<w, c>>] \in Seq(Messages)
        /\ wire \in [Conns -> Seq(Messages)]
    BY PlaceTypes DEF DTypeOK, LinkTypes
  <1>2. wire'[<<w, c>>] = Append(wire[<<w, c>>], m)
    BY <1>1
  <1>3. /\ Len(wire'[<<w, c>>]) = n + 1
        /\ wire'[<<w, c>>][n + 1] = m
        /\ \A i \in 1 .. n : wire'[<<w, c>>][i] = wire[<<w, c>>][i]
    BY <1>1, <1>2
  <1>4. \A d \in 1 .. MaxConns : d # c => wire'[<<w, d>>] = wire[<<w, d>>]
    BY <1>1, PlaceTypes
  <1>5. \A p \in Places(w) :
          /\ p[1] \in 1 .. MaxConns /\ p[2] \in 1 .. Len(wire[<<w, p[1]>>])
          /\ p[1] <= c /\ (p[1] = c => p[2] \in 1 .. n)
    <2>1. ASSUME NEW p \in Places(w)
          PROVE  p[1] \in 1 .. MaxConns /\ p[2] \in 1 .. Len(wire[<<w, p[1]>>])
      BY PlaceTypes DEF Places
    <2>2. ASSUME NEW p \in Places(w), p[1] > c PROVE FALSE
      <3>1. wire[<<w, p[1]>>] = <<>> BY <2>1, <2>2
      <3>2. 1 .. Len(<<>>) = {} OBVIOUS
      <3> QED BY <2>1, <3>1, <3>2
    <2> QED BY <2>1, <2>2
  <1>6. q[1] = c /\ q[2] = n + 1
    OBVIOUS
  <1> HIDE DEF n
  <1>7. \A p \in Places(w) : Batch(w, p)' = Batch(w, p) /\ Earlier(p, q) /\ ~Earlier(q, p)
    <2> SUFFICES ASSUME NEW p \in Places(w)
                 PROVE  Batch(w, p)' = Batch(w, p) /\ Earlier(p, q) /\ ~Earlier(q, p)
      OBVIOUS
    <2>1. Earlier(p, q) /\ ~Earlier(q, p)
      <3>0. p[1] \in 1 .. MaxConns /\ p[1] <= c /\ (p[1] = c => p[2] \in 1 .. n)
        BY <1>5
      <3>1. /\ p[1] \in Int /\ c \in Int /\ p[1] <= c
            /\ p[1] = c => p[2] \in Int /\ p[2] <= n
        BY <1>1, <3>0
      <3>2. q[1] = c /\ q[2] = n + 1 /\ n \in Int
        BY <1>1, <1>6
      <3> HIDE DEF n
      <3> QED BY <3>1, <3>2 DEF Earlier
    <2>2. wire'[<<w, p[1]>>][p[2]] = wire[<<w, p[1]>>][p[2]]
      <3>1. CASE p[1] = c BY <1>3, <1>5, <3>1
      <3>2. CASE p[1] # c BY <1>4, <1>5, <3>2
      <3> QED BY <3>1, <3>2
    <2> QED BY <2>1, <2>2 DEF Batch
  <1>8. Batch(w, q)' = m.samples /\ ~Earlier(q, q)
    BY <1>1, <1>3, <1>6 DEF Batch, Earlier
  <1>9. q \in (1 .. MaxConns) \X (Nat \ {0}) /\ q = <<c, n + 1>>
    BY <1>1 DEF n
  <1>10. ASSUME NEW p \in (1 .. MaxConns) \X (Nat \ {0})
         PROVE  p[2] <= Len(wire'[<<w, p[1]>>]) <=> p[2] <= Len(wire[<<w, p[1]>>]) \/ p = q
    <2>1. p = <<p[1], p[2]>> /\ p[1] \in 1 .. MaxConns /\ p[2] \in Nat \ {0}
      OBVIOUS
    <2>2. CASE p[1] # c
      BY <1>4, <1>6, <2>1, <2>2
    <2>3. CASE p[1] = c
      <3>1. p = q <=> p[2] = n + 1
        BY <1>9, <2>1, <2>3
      <3>2. Len(wire'[<<w, p[1]>>]) = n + 1 /\ Len(wire[<<w, p[1]>>]) = n
        BY <1>3, <2>3 DEF n
      <3> QED BY <1>1, <2>1, <3>1, <3>2
    <2> QED BY <2>2, <2>3
  <1>11. Places(w)' = Places(w) \cup {q}
    <2>1. Places(w) = {p \in (1 .. MaxConns) \X (Nat \ {0}) : p[2] <= Len(wire[<<w, p[1]>>])}
      BY DEF Places
    <2>2. Places(w)' = {p \in (1 .. MaxConns) \X (Nat \ {0}) : p[2] <= Len(wire'[<<w, p[1]>>])}
      BY DEF Places
    <2>3. \A p : p \in Places(w)' <=> p \in Places(w) \cup {q}
      BY <1>9, <1>10, <2>1, <2>2
    <2> QED BY <2>3
  <1> QED BY <1>7, <1>8, <1>11 DEF Puts
LEMMA SortedPut ==
  ASSUME DTypeOK, NEW w \in Index, Sorted(w), got'[w] = got[w],
         taken'[w] \in Nat, taken[w] <= taken'[w],
         NEW s, NEW t, Follows(w, s), Follows(w, t), Precedes(s, t), Puts(w, s, t)
  PROVE  Sorted(w)'
  <1>1. PICK q :
          \/ Places(w)' = Places(w)
          \/ /\ Places(w)' = Places(w) \cup {q} /\ Batch(w, q)' = s /\ ~Earlier(q, q)
             /\ \A p \in Places(w) : Earlier(p, q) /\ ~Earlier(q, p)
    BY DEF Puts
  <1>2. /\ Unsent(w)' = t
        /\ \A p \in Places(w) : Batch(w, p)' = Batch(w, p)
    BY DEF Puts
  <1>3. \A r : Within(r, taken[w]) => Within(r, taken'[w])
    <2>1. \A i \in 1 .. taken[w] : i \in 1 .. taken'[w]
      BY PlaceTypes
    <2> QED BY <2>1 DEF Within
  <1>4. Apart(got[w], s)
    BY PlaceTypes DEF Follows, Precedes, Apart
  <1>5. ASSUME NEW p \in Places(w)'
        PROVE  /\ Rises(Batch(w, p)') /\ Within(Batch(w, p)', taken'[w])
               /\ Precedes(Batch(w, p)', t) /\ Apart(got[w], Batch(w, p)')
    <2>1. CASE p \in Places(w)
      BY <1>2, <1>3, <2>1 DEF Sorted, Follows
    <2>2. CASE p \notin Places(w)
      <3>1. Batch(w, p)' = s BY <1>1, <2>2
      <3> QED BY <1>4, <3>1 DEF Follows
    <2> QED BY <2>1, <2>2
  <1>6. ASSUME NEW p \in Places(w)', NEW r \in Places(w)', Earlier(p, r)
        PROVE  Precedes(Batch(w, p)', Batch(w, r)')
    <2>1. CASE p \in Places(w) /\ r \in Places(w)
      BY <1>2, <1>6, <2>1 DEF Sorted
    <2>2. CASE p \in Places(w) /\ r \notin Places(w)
      <3>1. Batch(w, r)' = s BY <1>1, <2>2
      <3> QED BY <1>2, <2>2, <3>1 DEF Follows
    <2>3. CASE p \notin Places(w)
      <3>1. p = q /\ (r = q \/ r \in Places(w)) BY <1>1, <2>3
      <3> QED BY <1>1, <1>6, <2>3, <3>1
    <2> QED BY <2>1, <2>2, <2>3
  <1>7. /\ Rises(t) /\ Within(t, taken'[w]) /\ Precedes(got[w], t)
        /\ Within(got[w], taken'[w])
        /\ OneToOne(got[w])
    BY <1>3 DEF Follows, Sorted
  <1> QED BY <1>2, <1>5, <1>6, <1>7 DEF Sorted

(* Nothing is left out of what is put on the connection and what is unsent. *)
LEMMA WholePut ==
  ASSUME DTypeOK, NEW w \in Index, Whole(w), got'[w] = got[w],
         taken'[w] \in Nat, taken[w] <= taken'[w],
         NEW s, NEW t, Follows(w, s), Follows(w, t), Puts(w, s, t),
         Unbroken(w)' =>
           /\ Unbroken(w)
           /\ \A n \in 1 .. taken'[w] :
                n > taken[w] \/ Shows(Unsent(w), n) => Shows(s, n) \/ Shows(t, n)
  PROVE  Whole(w)'
  <1> SUFFICES ASSUME Unbroken(w)'
               PROVE  /\ Rises(got[w])
                      /\ \A p \in Places(w)' : Precedes(got[w], Batch(w, p)')
                      /\ \A n \in 1 .. taken'[w] :
                           \/ Shows(got[w], n)
                           \/ Shows(t, n)
                           \/ \E p \in Places(w)' : Shows(Batch(w, p)', n)
    BY DEF Whole, Shows, Puts
  <1>1. /\ \A p \in Places(w) : p \in Places(w)' /\ Batch(w, p)' = Batch(w, p)
        /\ \A p \in Places(w)' \ Places(w) : Batch(w, p)' = s
        /\ s = <<>> \/ \E p \in Places(w)' : Batch(w, p)' = s
    BY DEF Puts
  <1>2. ASSUME NEW p \in Places(w)' PROVE Precedes(got[w], Batch(w, p)')
    BY <1>1 DEF Whole, Follows
  <1>3. ASSUME NEW n \in 1 .. taken'[w]
        PROVE  \/ Shows(got[w], n)
               \/ Shows(t, n)
               \/ \E p \in Places(w)' : Shows(Batch(w, p)', n)
    <2>1. CASE Shows(s, n)
      <3>1. s # <<>> BY <2>1 DEF Shows
      <3> QED BY <1>1, <2>1, <3>1
    <2>2. CASE ~Shows(s, n) /\ (n > taken[w] \/ Shows(Unsent(w), n))
      BY <2>2
    <2>3. CASE ~(n > taken[w]) /\ ~Shows(Unsent(w), n)
      <3>1. n \in 1 .. taken[w] BY <2>3, PlaceTypes
      <3>2. Shows(got[w], n) \/ \E p \in Places(w) : Shows(Batch(w, p), n)
        BY <2>3, <3>1 DEF Whole, Shows
      <3> QED BY <1>1, <3>2
    <2> QED BY <2>1, <2>2, <2>3
  <1> QED BY <1>2, <1>3 DEF Whole
LEMMA SentPuts ==
  ASSUME DTypeOK, Reached, NEW w \in Index, cur[w] \in 1 .. MaxConns, NEW m \in Messages,
         wire' = [wire EXCEPT ![<<w, cur[w]>>] = Append(@, m)]
  PROVE  Puts(w, m.samples, Unsent(w)')
  <1> PICK c \in 1 .. MaxConns : c = cur[w]
    OBVIOUS
  <1>1. \A d \in 1 .. MaxConns : d > c => wire[<<w, d>>] = <<>>
    BY DEF Reached, Opened, Conns
  <1>2. wire' = [wire EXCEPT ![<<w, c>>] = Append(@, m)]
    OBVIOUS
  <1> QED BY <1>1, <1>2, PlaceAdded

(* _flush_samples(), with a batch b that follows the rest.                 *)
LEMMA FlushFlows ==
  ASSUME DTypeOK, Reached, Conns' = Conns, NEW w \in Index, Sorted(w), Whole(w),
         NEW label \in {"sent", "last"}, Flush(w, label), cur[w] \in 1 .. MaxConns,
         UNCHANGED <<got, cur, up>>, taken'[w] \in Nat, taken[w] <= taken'[w],
         NEW b, b = buffer'[w], Follows(w, b),
         \A n \in 1 .. taken'[w] : n > taken[w] \/ Shows(Unsent(w), n) => Shows(b, n)
  PROVE  Sorted(w)' /\ Whole(w)'
  <1>1. Follows(w, <<>>) /\ Precedes(b, <<>>) /\ Precedes(<<>>, b) /\ ~\E n : Shows(<<>>, n)
    BY DEF Follows, Rises, Within, Precedes, Shows
  <1>2. stream \in [Index -> Streams]
    BY DEF DTypeOK, ClientTypes
  <1>3. CASE SendRaises(w) /\ stream' = [stream EXCEPT ![w] = "raised"]
    <2>1. stream'[w] = "raised" /\ wire' = wire
      BY <1>2, <1>3 DEF SendRaises
    <2>2. Unsent(w)' = b
      BY <2>1 DEF Unsent
    <2>3. Puts(w, <<>>, b)
      BY <2>1, <2>2 DEF Puts, Places, Batch
    <2>4. Unbroken(w)' => Unbroken(w)
      BY DEF Unbroken
    <2> QED BY <1>1, <2>3, <2>4, SortedPut, WholePut
  <1>4. CASE Sent(w, "samples", b) /\ stream' = [stream EXCEPT ![w] = label]
    <2>1. Unsent(w)' = <<>>
      BY <1>2, <1>4 DEF Unsent
    <2>2. CASE ~up[Link(w)]
      <3>1. wire' = wire
        BY <1>4, <2>2 DEF Sent
      <3>2. Puts(w, <<>>, <<>>)
        BY <2>1, <3>1 DEF Puts, Places, Batch
      <3>3. ~Unbroken(w)'
        BY <2>2 DEF Unbroken, Link
      <3> QED BY <1>1, <3>2, <3>3, SortedPut, WholePut DEF Precedes
    <2>3. CASE up[Link(w)]
      <3> DEFINE m == Message("samples", seq[w] + 1, b)
      <3>1. wire' = [wire EXCEPT ![<<w, cur[w]>>] = Append(@, m)]
        BY <1>4, <2>3 DEF Sent, Link
      <3>2. m \in Messages /\ m.samples = b
        BY DEF Message, Messages, Follows, DTypeOK, ClientTypes
      <3> HIDE DEF m
      <3>3. Puts(w, b, <<>>)
        BY <2>1, <3>1, <3>2, SentPuts
      <3>4. Unbroken(w)' => Unbroken(w)
        BY DEF Unbroken
      <3> QED BY <1>1, <3>3, <3>4, SortedPut, WholePut
    <2> QED BY <2>2, <2>3
  <1> QED BY <1>3, <1>4 DEF Flush

LEMMA WorkerFlows ==
  ASSUME DTypeOK, DTypeOK', Reached, Index' = Index, Conns' = Conns, NEW w \in Index,
         Sorted(w), Whole(w), WorkerStep(w) \/ Report(w)
  PROVE  Sorted(w)' /\ Whole(w)'
  <1>0. /\ UNCHANGED <<cur, up, inbox, coordinator>>
        /\ cur[w] \in 1 .. MaxConns
    BY OnlySends
  <1>1. UNCHANGED <<got, cur, up>>
    BY <1>0 DEF coordinator
  <1>2. Unbroken(w)' => Unbroken(w)
    BY <1>1 DEF Unbroken
  <1>3. /\ Unsent(w) \in Seq(Nat) /\ got[w] \in Seq(Nat) /\ taken[w] \in Nat /\ taken'[w] \in Nat
        /\ \A p \in Places(w) : Batch(w, p) \in Seq(Nat)
    BY PlaceTypes DEF DTypeOK, ClientTypes
  <1>4. /\ Rises(Unsent(w)) /\ Within(Unsent(w), taken[w])
        /\ Precedes(got[w], Unsent(w)) /\ Within(got[w], taken[w])
        /\ \A p \in Places(w) : Precedes(Batch(w, p), Unsent(w)) /\ Within(Batch(w, p), taken[w])
    BY DEF Sorted
  <1>5. CASE Get(w)
    <2> DEFINE b == Append(Unsent(w), taken[w] + 1)
    <2>1. /\ stream[w] = "get"
          /\ taken' = [taken EXCEPT ![w] = @ + 1]
          /\ buffer' = [buffer EXCEPT ![w] = Append(@, taken'[w])]
          /\ Flush(w, "sent") \/ UNCHANGED <<seq, wire, stream>>
      BY <1>5 DEF Get
    <2>2. /\ taken'[w] = taken[w] + 1 /\ buffer'[w] = b
          /\ Unsent(w) = buffer[w]
      BY <2>1 DEF Unsent, DTypeOK, ClientTypes
    <2>3. Follows(w, b)
      BY <1>3, <1>4, <2>2, OneMore DEF Follows
    <2>4. \A n \in 1 .. taken'[w] : n > taken[w] \/ Shows(Unsent(w), n) => Shows(b, n)
      <3>1. \A n \in 1 .. taken'[w] : n > taken[w] => n = taken[w] + 1
        BY <1>3, <2>2
      <3>2. /\ \A i \in DOMAIN Unsent(w) : b[i] = Unsent(w)[i] /\ i \in DOMAIN b
            /\ \E i \in DOMAIN b : b[i] = taken[w] + 1
        BY <1>3, <1>4, OneMore
      <3> HIDE DEF b
      <3> QED BY <3>1, <3>2 DEF Shows
    <2> HIDE DEF b
    <2>5. CASE Flush(w, "sent")
      BY <1>0, <1>1, <1>3, <2>2, <2>3, <2>4, <2>5, FlushFlows
    <2>6. CASE UNCHANGED <<seq, wire, stream>>
      <3>1. Unsent(w)' = b
        BY <2>1, <2>2, <2>6 DEF Unsent
      <3>2. Puts(w, <<>>, b)
        BY <2>6, <3>1 DEF Puts, Places, Batch
      <3>3. Follows(w, <<>>) /\ Precedes(<<>>, b)
        BY DEF Follows, Rises, Within, Precedes
      <3> QED BY <1>1, <1>2, <1>3, <2>2, <2>3, <2>4, <3>2, <3>3, SortedPut, WholePut, SMTT(40)
    <2> QED BY <2>1, <2>5, <2>6
  <1>6. CASE GetTimesOut(w) \/ GetEnd(w)
    <2>1. /\ stream[w] = "get" /\ UNCHANGED <<taken, buffer>>
          /\ \/ Flush(w, "sent") \/ Flush(w, "last")
             \/ stream' = [stream EXCEPT ![w] = "done"] /\ wire' = wire
      BY <1>6 DEF GetTimesOut, GetEnd
    <2>2. Unsent(w) = buffer[w]
      BY <2>1 DEF Unsent
    <2>3. Follows(w, buffer[w])
      BY <1>3, <1>4, <2>1, <2>2 DEF Follows
    <2>4. CASE Flush(w, "sent") \/ Flush(w, "last")
      BY <1>0, <1>1, <1>3, <2>1, <2>2, <2>3, <2>4, FlushFlows
    <2>5. CASE stream' = [stream EXCEPT ![w] = "done"] /\ wire' = wire
      <3>1. Unsent(w)' = buffer[w]
        BY <2>1, <2>5 DEF Unsent, DTypeOK, ClientTypes
      <3>2. Puts(w, <<>>, buffer[w])
        BY <2>5, <3>1 DEF Puts, Places, Batch
      <3>3. Follows(w, <<>>) /\ Precedes(<<>>, buffer[w])
        BY DEF Follows, Rises, Within, Precedes
      <3> QED BY <1>1, <1>2, <1>3, <2>1, <2>2, <2>3, <3>2, <3>3, SortedPut, WholePut
    <2> QED BY <2>1, <2>4, <2>5
  <1>7. CASE Flushed(w)
    <2>1. Unsent(w) = <<>> /\ Unsent(w)' = <<>> /\ UNCHANGED <<wire, taken>>
      BY <1>7 DEF Flushed, Unsent, links, DTypeOK, ClientTypes
    <2>2. Puts(w, <<>>, <<>>)
      BY <2>1 DEF Puts, Places, Batch
    <2>3. Follows(w, <<>>) /\ Precedes(<<>>, <<>>)
      BY DEF Follows, Rises, Within, Precedes
    <2> QED BY <1>1, <1>2, <1>3, <2>1, <2>2, <2>3, SortedPut, WholePut
  <1>8. CASE Report(w)
    <2>1. /\ Sent(w, "report", <<>>) \/ SendRaises(w)
          /\ UNCHANGED <<taken, buffer, stream>>
      BY <1>8 DEF Report
    <2>2. Unsent(w)' = Unsent(w)
      BY <2>1 DEF Unsent
    <2>3. Puts(w, <<>>, Unsent(w))
      <3>1. CASE wire' = wire
        BY <2>2, <3>1 DEF Puts, Places, Batch
      <3>2. CASE wire' # wire
        <4> DEFINE m == Message("report", seq[w] + 1, <<>>)
        <4>1. wire' = [wire EXCEPT ![<<w, cur[w]>>] = Append(@, m)]
          BY <2>1, <3>2 DEF Sent, SendRaises, Link
        <4>2. m \in Messages /\ m.samples = <<>>
          BY DEF Message, Messages, DTypeOK, ClientTypes
        <4> HIDE DEF m
        <4> QED BY <1>0, <2>2, <4>1, <4>2, SentPuts
      <3> QED BY <3>1, <3>2
    <2>4. Follows(w, <<>>) /\ Precedes(<<>>, Unsent(w)) /\ Follows(w, Unsent(w))
      BY <1>3, <1>4, <2>1 DEF Follows, Rises, Within, Precedes
    <2> QED BY <1>1, <1>2, <1>3, <2>1, <2>3, <2>4, SortedPut, WholePut
  <1> QED BY <1>5, <1>6, <1>7, <1>8 DEF WorkerStep
LEMMA ConnectFlows ==
  ASSUME DTypeOK, DTypeOK', Reached, Conns' = Conns, NEW w \in Index,
         Sorted(w), Fresh(w), Connect(w)
  PROVE  Sorted(w)' /\ Whole(w)' /\ Fresh(w)'
  <1> PICK c \in Nat : c = cur[w] + 1
    BY DistributedAssumption DEF DTypeOK, ClientTypes
  <1>1. /\ c \in 1 .. MaxConns /\ cur'[w] = c
        /\ stream'[w] = "get" /\ buffer'[w] = <<>>
        /\ UNCHANGED <<got, taken>>
    BY DistributedAssumption DEF Connect, DTypeOK, ClientTypes, coordinator
  <1>2. \A d \in 1 .. MaxConns : d >= c => wire[<<w, d>>] = <<>>
    <2>1. ASSUME NEW d \in 1 .. MaxConns, d >= c PROVE ~Opened(<<w, d>>)
      BY <2>1, DistributedAssumption, SMTT(40) DEF Opened, DTypeOK, ClientTypes
    <2> QED BY <2>1, PlaceTypes DEF Reached
  <1>3. Puts(w, <<>>, Unsent(w)')
    <2> PICK m : m = Message("register", seq[w] + 1, <<>>)
      OBVIOUS
    <2>1. m \in Messages /\ m.samples = <<>>
      BY DEF Message, Messages, DTypeOK, ClientTypes
    <2>2. wire' = [wire EXCEPT ![<<w, c>>] = <<m>>]
      BY DEF Connect
    <2>3. wire[<<w, c>>] = <<>> /\ Append(<<>>, m) = <<m>>
      BY <1>1, <1>2
    <2>4. wire' = [wire EXCEPT ![<<w, c>>] = Append(@, m)]
      BY <2>2, <2>3
    <2>5. Puts(w, m.samples, Unsent(w)')
      <3>1. \A d \in 1 .. MaxConns : d > c => wire[<<w, d>>] = <<>>
        BY <1>2
      <3> QED BY <1>1, <2>1, <2>4, <3>1, PlaceAdded
    <2> QED BY <2>1, <2>5
  <1>4. Unsent(w)' = <<>> /\ Follows(w, <<>>) /\ Precedes(<<>>, <<>>)
    BY <1>1 DEF Unsent, Follows, Rises, Within, Precedes
  <1>5. Sorted(w)'
    BY <1>1, <1>3, <1>4, PlaceTypes, SortedPut
  <1>6. Whole(w)'
    <2>1. Unbroken(w)' => got'[w] = <<>> /\ taken'[w] = 0
      <3>1. cur[w] \in Nat BY DistributedAssumption DEF DTypeOK, ClientTypes
      <3>2. c = 1 => cur[w] = 0 BY <3>1
      <3> QED BY <1>1, <3>2 DEF Unbroken, Fresh
    <2>2. 1 .. 0 = {}
      OBVIOUS
    <2> QED BY <2>1, <2>2 DEF Whole, Rises, Precedes
  <1> QED BY <1>1, <1>5, <1>6 DEF Fresh

LEMMA BreakFlows ==
  ASSUME DTypeOK, DTypeOK', Reached, Conns' = Conns, NEW x \in Conns, NEW w \in Index, w = x[1],
         Sorted(w), Fresh(w), Break(x)
  PROVE  Sorted(w)' /\ Whole(w)' /\ Fresh(w)'
  <1>1. PICK n \in 0 .. Len(wire[x]) : wire' = [wire EXCEPT ![x] = SubSeq(@, 1, n)]
    BY DEF Break
  <1>2. /\ UNCHANGED <<got, taken, cur>> /\ Unsent(w)' = Unsent(w)
        /\ up[x] /\ up' = [up EXCEPT ![x] = FALSE]
    BY DEF Break, client, coordinator, Unsent
  <1>3. x \in Index \X (1 .. MaxConns) /\ x = <<w, x[2]>> /\ x[2] \in 1 .. MaxConns
    BY DEF Conns
  <1>4. \A c \in 1 .. MaxConns :
          /\ Len(wire'[<<w, c>>]) <= Len(wire[<<w, c>>])
          /\ \A i \in 1 .. Len(wire'[<<w, c>>]) : wire'[<<w, c>>][i] = wire[<<w, c>>][i]
    <2> SUFFICES ASSUME NEW c \in 1 .. MaxConns
                 PROVE  /\ Len(wire'[<<w, c>>]) <= Len(wire[<<w, c>>])
                        /\ \A i \in 1 .. Len(wire'[<<w, c>>]) : wire'[<<w, c>>][i] = wire[<<w, c>>][i]
      OBVIOUS
    <2>1. wire[<<w, c>>] \in Seq(Messages) /\ <<w, c>> \in Conns /\ wire \in [Conns -> Seq(Messages)]
      BY PlaceTypes DEF DTypeOK, LinkTypes
    <2>2. CASE <<w, c>> = x
      <3> DEFINE r == wire[<<w, c>>]
      <3>1. wire'[<<w, c>>] = SubSeq(r, 1, n)
        BY <1>1, <2>1, <2>2
      <3>2. n \in 0 .. Len(r)
        BY <2>2
      <3>3. r \in Seq(Messages)
        BY <2>1
      <3> HIDE DEF r
      <3>4. n \in Nat /\ n <= Len(r) /\ Len(r) \in Nat /\ \A i \in 1 .. n : r[i] \in Messages
        BY <3>2, <3>3
      <3>5. Len(SubSeq(r, 1, n)) = n /\ \A i \in 1 .. n : SubSeq(r, 1, n)[i] = r[i]
        BY <3>4, SubSeqProperties
      <3> QED BY <3>1, <3>4, <3>5 DEF r
    <2>3. CASE <<w, c>> # x
      <3>1. wire'[<<w, c>>] = wire[<<w, c>>]
        BY <1>1, <2>1, <2>3
      <3>2. Len(wire[<<w, c>>]) \in Nat
        BY <2>1
      <3> QED BY <3>1, <3>2
    <2> QED BY <2>2, <2>3
  <1>5. \A p \in Places(w)' : p \in Places(w) /\ Batch(w, p)' = Batch(w, p)
    <2> SUFFICES ASSUME NEW p, p \in Places(w)'
                 PROVE  p \in Places(w) /\ Batch(w, p)' = Batch(w, p)
      OBVIOUS
    <2>1. /\ p \in (1 .. MaxConns) \X (Nat \ {0}) /\ p[1] \in 1 .. MaxConns /\ p[2] \in Nat \ {0}
          /\ p[2] <= Len(wire'[<<w, p[1]>>])
      BY PlacesAfter
    <2>2. /\ Len(wire[<<w, p[1]>>]) \in Nat /\ Len(wire'[<<w, p[1]>>]) \in Nat
      BY <2>1, PlaceTypes DEF DTypeOK, LinkTypes
    <2>3. p[2] <= Len(wire[<<w, p[1]>>]) /\ wire'[<<w, p[1]>>][p[2]] = wire[<<w, p[1]>>][p[2]]
      BY <1>4, <2>1, <2>2
    <2> QED BY <2>1, <2>3, PlacesAfter, BatchAfter, SMTT(40)
  <1>6. Sorted(w)'
    BY <1>2, <1>5 DEF Sorted
  <1>7. ~Unbroken(w)'
    <2>1. Opened(x)
      BY <1>2 DEF Reached
    <2>2. cur[w] = 1 => x[2] = 1
      BY <1>3, <2>1 DEF Opened
    <2>3. ~up'[x]
      BY <1>2 DEF DTypeOK, LinkTypes
    <2> QED BY <1>2, <1>3, <2>2, <2>3 DEF Unbroken
  <1> QED BY <1>2, <1>6, <1>7 DEF Whole, Fresh
(* The first message of a connection arrives: the others move up by one.   *)
Moved(x, p) == IF p[1] = x[2] THEN <<p[1], p[2] + 1>> ELSE p

LEMMA MovedUp ==
  ASSUME DTypeOK, NEW x \in Conns, NEW w \in Index, w = x[1],
         wire[x] # <<>>, wire' = [wire EXCEPT ![x] = Tail(@)]
  PROVE  /\ <<x[2], 1>> \in Places(w)
         /\ \A p \in Places(w)' :
              /\ Moved(x, p) \in Places(w) /\ Batch(w, p)' = Batch(w, Moved(x, p))
              /\ Moved(x, p)[1] = p[1] /\ (p[1] = x[2] => Moved(x, p)[2] > 1)
         /\ \A p, r \in Places(w)' : Earlier(p, r) => Earlier(Moved(x, p), Moved(x, r))
         /\ \A p \in Places(w) : p = <<x[2], 1>> \/ \E r \in Places(w)' : Batch(w, r)' = Batch(w, p)
  <1> DEFINE c == x[2]
             s == wire[x]
  <1>1. /\ x = <<w, c>> /\ c \in 1 .. MaxConns /\ s \in Seq(Messages) /\ s # <<>>
        /\ wire \in [Conns -> Seq(Messages)]
    BY DEF Conns, DTypeOK, LinkTypes
  <1>2. /\ Len(s) \in Nat \ {0} /\ wire'[x] = Tail(s) /\ Len(Tail(s)) = Len(s) - 1
        /\ \A i \in 1 .. Len(s) - 1 : Tail(s)[i] = s[i + 1]
    BY <1>1
  <1>3. \A d \in 1 .. MaxConns : d # c => wire'[<<w, d>>] = wire[<<w, d>>]
    BY <1>1, PlaceTypes
  <1>4. wire[<<w, c>>] = s /\ wire'[<<w, c>>] = Tail(s)
    BY <1>1, <1>2
  <1> HIDE DEF c, s
  <1>5. \A d \in 1 .. MaxConns, i \in Nat \ {0} :
          /\ <<d, i>> \in Places(w) <=> i <= Len(wire[<<w, d>>])
          /\ <<d, i>> \in Places(w)' <=> i <= Len(wire'[<<w, d>>])
          /\ Batch(w, <<d, i>>) = wire[<<w, d>>][i].samples
          /\ Batch(w, <<d, i>>)' = wire'[<<w, d>>][i].samples
    <2> SUFFICES ASSUME NEW d \in 1 .. MaxConns, NEW i \in Nat \ {0}
                 PROVE  /\ <<d, i>> \in Places(w) <=> i <= Len(wire[<<w, d>>])
                        /\ <<d, i>> \in Places(w)' <=> i <= Len(wire'[<<w, d>>])
                        /\ Batch(w, <<d, i>>) = wire[<<w, d>>][i].samples
                        /\ Batch(w, <<d, i>>)' = wire'[<<w, d>>][i].samples
      OBVIOUS
    <2> PICK p : p = <<d, i>>
      OBVIOUS
    <2>1. p[1] = d /\ p[2] = i /\ p \in (1 .. MaxConns) \X (Nat \ {0})
      OBVIOUS
    <2>2. p \in Places(w) <=> i <= Len(wire[<<w, d>>])
      BY <2>1, PlacesAfter
    <2>3. p \in Places(w)' <=> i <= Len(wire'[<<w, d>>])
      BY <2>1, PlacesAfter
    <2>4. Batch(w, p) = wire[<<w, d>>][i].samples /\ Batch(w, p)' = wire'[<<w, d>>][i].samples
      BY <2>1, BatchAfter, ZenonT(60)
    <2> QED BY <2>2, <2>3, <2>4
  <1>6. \A p : p \in Places(w) \/ p \in Places(w)' =>
          \E d \in 1 .. MaxConns, i \in Nat \ {0} : p = <<d, i>>
    <2> SUFFICES ASSUME NEW p, p \in Places(w) \/ p \in Places(w)'
                 PROVE  \E d \in 1 .. MaxConns, i \in Nat \ {0} : p = <<d, i>>
      OBVIOUS
    <2>1. p \in (1 .. MaxConns) \X (Nat \ {0})
      BY PlacesAfter
    <2> QED BY <2>1
  <1>7. <<c, 1>> \in Places(w)
    <2>1. 1 <= Len(wire[<<w, c>>])
      BY <1>2, <1>4
    <2> QED BY <1>1, <1>5, <2>1
  <1>8. ASSUME NEW p, p \in Places(w)'
        PROVE  /\ Moved(x, p) \in Places(w) /\ Batch(w, p)' = Batch(w, Moved(x, p))
               /\ Moved(x, p)[1] = p[1] /\ (p[1] = c => Moved(x, p)[2] > 1)
    <2>1. PICK d \in 1 .. MaxConns, i \in Nat \ {0} : p = <<d, i>>
      BY <1>6, <1>8
    <2>2. i <= Len(wire'[<<w, d>>]) /\ Batch(w, p)' = wire'[<<w, d>>][i].samples
      BY <1>5, <1>8, <2>1
    <2>3. CASE d = c
      <3>1. Moved(x, p) = <<c, i + 1>>
        BY <2>1, <2>3 DEF Moved, c
      <3>2. i \in 1 .. Len(s) - 1 /\ i + 1 \in Nat \ {0} /\ i + 1 <= Len(s) /\ i + 1 > 1
        BY <1>2, <1>4, <2>2, <2>3
      <3>3. /\ Moved(x, p) \in Places(w)
            /\ Batch(w, Moved(x, p)) = s[i + 1].samples
        BY <1>1, <1>4, <1>5, <3>1, <3>2
      <3>4. Batch(w, p)' = s[i + 1].samples
        BY <1>2, <1>4, <2>2, <2>3, <3>2
      <3> QED BY <2>1, <2>3, <3>1, <3>2, <3>3, <3>4
    <2>4. CASE d # c
      <3>1. Moved(x, p) = p
        BY <2>1, <2>4 DEF Moved, c
      <3>2. wire'[<<w, d>>] = wire[<<w, d>>]
        BY <1>3, <2>4
      <3>3. p \in Places(w) /\ Batch(w, p) = wire[<<w, d>>][i].samples
        BY <1>5, <2>1, <2>2, <3>2
      <3> QED BY <2>1, <2>2, <2>4, <3>1, <3>2, <3>3
    <2> QED BY <2>3, <2>4
  <1>9. ASSUME NEW p, NEW r, p \in Places(w)', r \in Places(w)', Earlier(p, r)
        PROVE  Earlier(Moved(x, p), Moved(x, r))
    <2>1. PICK d \in 1 .. MaxConns, i \in Nat \ {0} : p = <<d, i>>
      BY <1>6, <1>9
    <2>2. PICK e \in 1 .. MaxConns, j \in Nat \ {0} : r = <<e, j>>
      BY <1>6, <1>9
    <2> QED BY <1>9, <2>1, <2>2 DEF Moved, Earlier
  <1>10. ASSUME NEW p, p \in Places(w), p # <<c, 1>>
         PROVE  \E r \in Places(w)' : Batch(w, r)' = Batch(w, p)
    <2>1. PICK d \in 1 .. MaxConns, i \in Nat \ {0} : p = <<d, i>>
      BY <1>6, <1>10
    <2>2. i <= Len(wire[<<w, d>>]) /\ Batch(w, p) = wire[<<w, d>>][i].samples
      BY <1>5, <1>10, <2>1
    <2>3. CASE d = c
      <3>1. PICK j : j = i - 1
        OBVIOUS
      <3>2. j \in 1 .. Len(s) - 1 /\ j \in Nat \ {0} /\ j + 1 = i
        BY <1>2, <1>4, <1>10, <2>1, <2>2, <2>3, <3>1
      <3>3. /\ <<c, j>> \in Places(w)'
            /\ Batch(w, <<c, j>>)' = Tail(s)[j].samples
        BY <1>1, <1>2, <1>4, <1>5, <3>2
      <3>4. Tail(s)[j] = s[i]
        BY <1>2, <3>2
      <3> QED BY <1>4, <2>2, <2>3, <3>3, <3>4
    <2>4. CASE d # c
      <3>1. wire'[<<w, d>>] = wire[<<w, d>>]
        BY <1>3, <2>4
      <3>2. p \in Places(w)' /\ Batch(w, p)' = wire'[<<w, d>>][i].samples
        BY <1>5, <2>1, <2>2, <3>1
      <3> QED BY <2>2, <3>1, <3>2
    <2> QED BY <2>3, <2>4
  <1> QED BY <1>7, <1>8, <1>9, <1>10 DEF c
LEMMA ReceiveFlows ==
  ASSUME DTypeOK, Reached, Conns' = Conns, NEW x \in Conns, NEW w \in Index, w = x[1],
         Sorted(w), Whole(w), Fresh(w), Receive(x)
  PROVE  Sorted(w)' /\ Whole(w)' /\ Fresh(w)'
  <1> PICK h : h = Batch(w, <<x[2], 1>>)
    OBVIOUS
  <1>1. /\ x = <<w, x[2]>> /\ x[2] \in 1 .. MaxConns
        /\ wire[x] # <<>> /\ wire' = [wire EXCEPT ![x] = Tail(@)] /\ wire[x] \in Seq(Messages)
        /\ UNCHANGED <<taken, cur, up>> /\ Unsent(w)' = Unsent(w)
    BY DEF Receive, Conns, client, Unsent, DTypeOK, LinkTypes
  <1>2. /\ <<x[2], 1>> \in Places(w)
        /\ \A p \in Places(w)' :
             /\ Moved(x, p) \in Places(w) /\ Batch(w, p)' = Batch(w, Moved(x, p))
             /\ Moved(x, p)[1] = p[1] /\ (p[1] = x[2] => Moved(x, p)[2] > 1)
        /\ \A p, r \in Places(w)' : Earlier(p, r) => Earlier(Moved(x, p), Moved(x, r))
        /\ \A p \in Places(w) : p = <<x[2], 1>> \/ \E r \in Places(w)' : Batch(w, r)' = Batch(w, p)
    BY <1>1, MovedUp
  <1>3. /\ got[w] \in Seq(Nat) /\ h \in Seq(Nat) /\ Unsent(w) \in Seq(Nat) /\ taken[w] \in Nat
        /\ \A p \in Places(w) : Batch(w, p) \in Seq(Nat)
    BY <1>2, PlaceTypes
  <1>4. got'[w] = got[w] \o h
    <2>1. h = Head(wire[x]).samples /\ Head(wire[x]) \in Messages
      BY <1>1, BatchAfter
    <2>2. CASE Head(wire[x]).kind = "samples"
      <3>1. got' = [got EXCEPT ![w] = @ \o h]
        BY <2>1, <2>2 DEF Receive, Ingest
      <3> QED BY <3>1 DEF DTypeOK, CoordinatorTypes
    <2>3. CASE Head(wire[x]).kind # "samples"
      <3>1. got' = got
        BY <2>3 DEF Receive
      <3>2. h = <<>>
        BY <2>1, <2>3 DEF Messages
      <3> QED BY <1>3, <3>1, <3>2, ConcatEmptySeq
    <2> QED BY <2>2, <2>3
  <1> PICK g : g = got'[w]
    OBVIOUS
  <1>g. /\ Rises(got[w]) /\ Rises(h) /\ Precedes(got[w], h) => Rises(g)
        /\ \A n : Within(got[w], n) /\ Within(h, n) => Within(g, n)
        /\ \A u : Precedes(got[w], u) /\ Precedes(h, u) => Precedes(g, u)
        /\ \A u : Apart(got[w], u) /\ Apart(h, u) => Apart(g, u)
        /\ OneToOne(got[w]) /\ Rises(h) /\ Apart(got[w], h) => OneToOne(g)
        /\ \A n : Shows(got[w], n) \/ Shows(h, n) => Shows(g, n)
    <2>1. g = got[w] \o h /\ got[w] \in Seq(Nat) /\ h \in Seq(Nat)
      BY <1>3, <1>4
    <2> QED BY <2>1, Joined, ZenonT(60)
  <1>5. /\ Rises(h) /\ Within(h, taken[w]) /\ Precedes(h, Unsent(w)) /\ Apart(got[w], h)
        /\ \A p \in Places(w) :
             /\ Rises(Batch(w, p)) /\ Within(Batch(w, p), taken[w])
             /\ Precedes(Batch(w, p), Unsent(w)) /\ Apart(got[w], Batch(w, p))
        /\ \A p, q \in Places(w) : Earlier(p, q) => Precedes(Batch(w, p), Batch(w, q))
        /\ Rises(Unsent(w)) /\ Within(Unsent(w), taken[w])
        /\ OneToOne(got[w])
        /\ Precedes(got[w], Unsent(w)) /\ Within(got[w], taken[w])
    BY <1>2 DEF Sorted
  <1>6. \A s, t \in Seq(Nat) : Precedes(s, t) => Apart(s, t) /\ Apart(t, s)
    BY DEF Precedes, Apart
  <1>7. ASSUME NEW p, p \in Places(w)' PROVE Apart(h, Batch(w, p)')
    <2>1. PICK q : q = Moved(x, p)
      OBVIOUS
    <2>2. q \in Places(w) /\ Batch(w, p)' = Batch(w, q) /\ (q[1] = x[2] => q[2] > 1)
      BY <1>2, <1>7, <2>1
    <2>3. /\ q[1] \in Nat /\ q[2] \in Nat /\ x[2] \in Nat
      <3>1. q[1] \in 1 .. MaxConns /\ q[2] \in Nat \ {0}
        BY <2>2, PlaceParts
      <3> QED BY <1>1, <3>1
    <2>4. Earlier(q, <<x[2], 1>>) \/ Earlier(<<x[2], 1>>, q)
      BY <2>2, <2>3 DEF Earlier
    <2>5. Precedes(Batch(w, q), h) \/ Precedes(h, Batch(w, q))
      BY <1>2, <1>5, <2>2, <2>4
    <2> QED BY <1>3, <1>6, <2>2, <2>5
  <1>8. Sorted(w)'
    <2>1. /\ Within(g, taken[w]) /\ Precedes(g, Unsent(w))
          /\ OneToOne(g)
      BY <1>g, <1>5
    <2>2. ASSUME NEW p, p \in Places(w)'
          PROVE  /\ Rises(Batch(w, p)') /\ Within(Batch(w, p)', taken[w])
                 /\ Precedes(Batch(w, p)', Unsent(w)) /\ Apart(g, Batch(w, p)')
      <3>1. Apart(got[w], Batch(w, p)') /\ Apart(h, Batch(w, p)')
        BY <1>2, <1>5, <1>7, <2>2
      <3> QED BY <1>2, <1>5, <2>2, <1>g, <3>1
    <2>3. ASSUME NEW p, NEW q, p \in Places(w)', q \in Places(w)', Earlier(p, q)
          PROVE  Precedes(Batch(w, p)', Batch(w, q)')
      BY <1>2, <1>5, <2>3
    <2> QED BY <1>1, <1>5, <2>1, <2>2, <2>3 DEF Sorted
  <1>9. Whole(w)'
    <2> SUFFICES ASSUME Unbroken(w)'
                 PROVE  /\ Rises(g)
                        /\ \A p \in Places(w)' : Precedes(g, Batch(w, p)')
                        /\ \A n \in 1 .. taken[w] :
                             \/ Shows(g, n)
                             \/ Shows(Unsent(w), n)
                             \/ \E p \in Places(w)' : Shows(Batch(w, p)', n)
      BY <1>1 DEF Whole, Shows
    <2>1. Unbroken(w) /\ cur[w] = 1
      BY <1>1 DEF Unbroken
    <2>2. \A d \in 1 .. MaxConns : d > 1 => wire[<<w, d>>] = <<>>
      BY <2>1, PlaceTypes DEF Reached, Opened
    <2>3. x[2] = 1
      BY <1>1, <2>2
    <2>4. /\ Rises(got[w]) /\ \A p \in Places(w) : Precedes(got[w], Batch(w, p))
          /\ \A n \in 1 .. taken[w] :
               \/ Shows(got[w], n)
               \/ Shows(Unsent(w), n)
               \/ \E p \in Places(w) : Shows(Batch(w, p), n)
      BY <2>1 DEF Whole, Shows
    <2>5. Rises(g)
      BY <1>2, <1>5, <1>g, <2>4
    <2>6. ASSUME NEW p, p \in Places(w)' PROVE Precedes(g, Batch(w, p)')
      <3>1. PICK q : q = Moved(x, p)
        OBVIOUS
      <3>2. q \in Places(w) /\ Batch(w, p)' = Batch(w, q) /\ (q[1] = x[2] => q[2] > 1)
        BY <1>2, <2>6, <3>1
      <3>3. q[1] = 1 \/ q[1] > 1
        <4>1. q[1] \in 1 .. MaxConns
          BY <3>2, PlaceParts
        <4> QED BY <4>1
      <3>4. q[1] = 1
        <4>1. q[1] \in 1 .. MaxConns /\ q[2] \in Nat \ {0} /\ q[2] <= Len(wire[<<w, q[1]>>])
          BY <3>2, PlaceParts
        <4>2. Len(<<>>) = 0
          OBVIOUS
        <4> QED BY <2>2, <3>3, <4>1, <4>2
      <3>5. Earlier(<<x[2], 1>>, q)
        BY <2>3, <3>2, <3>4 DEF Earlier
      <3>6. Precedes(h, Batch(w, q)) /\ Precedes(got[w], Batch(w, q))
        BY <1>2, <1>5, <2>4, <3>2, <3>5
      <3> QED BY <1>g, <3>2, <3>6
    <2>7. ASSUME NEW n \in 1 .. taken[w]
          PROVE  \/ Shows(g, n)
                 \/ Shows(Unsent(w), n)
                 \/ \E p \in Places(w)' : Shows(Batch(w, p)', n)
      <3>1. Shows(got[w], n) \/ Shows(h, n) => Shows(g, n)
        BY <1>g
      <3>2. ASSUME NEW p, p \in Places(w), Shows(Batch(w, p), n)
            PROVE  Shows(h, n) \/ \E r \in Places(w)' : Shows(Batch(w, r)', n)
        BY <1>2, <3>2
      <3> QED BY <2>4, <3>1, <3>2
    <2> QED BY <2>5, <2>6, <2>7
  <1>10. Fresh(w)'
    <2>1. Opened(x)
      BY <1>1 DEF Reached
    <2>2. cur[w] \in Nat /\ x[2] \in Nat \ {0}
      BY <1>1, DistributedAssumption, SMTT(40) DEF DTypeOK, ClientTypes
    <2>3. cur'[w] # 0
      BY <1>1, <2>1, <2>2 DEF Opened
    <2> QED BY <2>3 DEF Fresh
  <1> QED BY <1>8, <1>9, <1>10
LEMMA FlowingStep == ASSUME DTypeOK, DTypeOK', Reached, Flowing, [DNext]_dvars PROVE Flowing'
  <1>0. Index' = Index /\ Conns' = Conns
    BY SameIndex
  <1> SUFFICES ASSUME NEW v \in Index PROVE Sorted(v)' /\ Whole(v)' /\ Fresh(v)'
    BY <1>0 DEF Flowing
  <1>1. Sorted(v) /\ Whole(v) /\ Fresh(v)
    BY DEF Flowing
  <1>2. ASSUME /\ got'[v] = got[v] /\ taken'[v] = taken[v] /\ Unsent(v)' = Unsent(v)
               /\ cur'[v] = cur[v]
               /\ \A c \in 1 .. MaxConns : /\ wire'[<<v, c>>] = wire[<<v, c>>]
                                           /\ up'[<<v, c>>] = up[<<v, c>>]
        PROVE  Sorted(v)' /\ Whole(v)' /\ Fresh(v)'
    <2>1. Unbroken(v)' => Unbroken(v)
      <3>1. cur[v] = 1 => 1 \in 1 .. MaxConns
        BY DistributedAssumption DEF DTypeOK, ClientTypes
      <3> QED BY <1>2, <3>1 DEF Unbroken
    <2> QED BY <1>1, <1>2, <2>1, NothingFlows
  <1>3. CASE UNCHANGED <<taken, buffer, stream, cur, up, wire, got>>
    BY <1>2, <1>3 DEF Unsent
  <1>4. ASSUME NEW w \in Index, Connect(w) \/ WorkerStep(w) \/ Report(w)
        PROVE  Sorted(v)' /\ Whole(v)' /\ Fresh(v)'
    <2>1. CASE v = w /\ Connect(w)
      BY <1>0, <1>1, <2>1, ConnectFlows
    <2>2. CASE v = w /\ (WorkerStep(w) \/ Report(w))
      <3>1. Sorted(v)' /\ Whole(v)'
        BY <1>0, <1>1, <2>2, WorkerFlows
      <3>2. cur' = cur /\ cur[v] # 0
        <4>1. cur' = cur /\ cur[v] \in 1 .. MaxConns
          BY <2>2, OnlySends
        <4> QED BY <4>1
      <3> QED BY <3>1, <3>2 DEF Fresh
    <2>3. CASE v # w
      <3>1. /\ got' = got /\ taken'[v] = taken[v] /\ buffer'[v] = buffer[v]
            /\ stream'[v] = stream[v] /\ cur'[v] = cur[v]
        BY <1>4, <2>3, ZenonT(60) DEF Connect, WorkerStep, Report, Get, GetTimesOut, GetEnd, Flushed, Flush,
                          coordinator, links, DTypeOK, ClientTypes
      <3>2. ASSUME NEW c \in 1 .. MaxConns
            PROVE  wire'[<<v, c>>] = wire[<<v, c>>] /\ up'[<<v, c>>] = up[<<v, c>>]
        <4>1. <<v, c>> \in Conns
          BY DEF Conns
        <4>2. CASE Connect(w)
          BY <2>3, <4>1, <4>2 DEF Connect, DTypeOK, LinkTypes
        <4>3. CASE WorkerStep(w) \/ Report(w)
          <5>1. /\ up' = up
                /\ \/ wire' = wire
                   \/ \E m : wire' = [wire EXCEPT ![<<w, cur[w]>>] = Append(@, m)]
            BY <4>3, OnlySends
          <5> QED BY <2>3, <4>1, <5>1 DEF DTypeOK, LinkTypes
        <4> QED BY <1>4, <4>2, <4>3
      <3> QED BY <1>2, <3>1, <3>2 DEF Unsent
    <2> QED BY <1>4, <2>1, <2>2, <2>3
  <1>5. ASSUME NEW x \in Conns, Break(x) \/ Receive(x)
        PROVE  Sorted(v)' /\ Whole(v)' /\ Fresh(v)'
    <2>1. CASE v = x[1]
      BY <1>0, <1>1, <1>5, <2>1, BreakFlows, ReceiveFlows
    <2>2. CASE v # x[1]
      <3>1. UNCHANGED <<taken, buffer, stream, cur>> /\ got'[v] = got[v]
        BY <1>5, <2>2 DEF Break, Receive, Ingest, client, coordinator, DTypeOK, CoordinatorTypes
      <3>2. ASSUME NEW c \in 1 .. MaxConns
            PROVE  wire'[<<v, c>>] = wire[<<v, c>>] /\ up'[<<v, c>>] = up[<<v, c>>]
        <4>1. <<v, c>> \in Conns /\ <<v, c>> # x
          BY <2>2 DEF Conns
        <4> QED BY <1>5, <4>1 DEF Break, Receive, DTypeOK, LinkTypes
      <3> QED BY <1>2, <3>1, <3>2 DEF Unsent
    <2> QED BY <2>1, <2>2
  <1>6. ASSUME \/ Next /\ UNCHANGED <<client, links, coordinator>>
               \/ \E w \in Index : Produce(w)
               \/ \E x \in Conns : RemoveWorker(x)
               \/ Broadcast
               \/ \E c \in casts, x \in Conns : CastSend(c, x)
               \/ UNCHANGED dvars
        PROVE  UNCHANGED <<taken, buffer, stream, cur, up, wire, got>>
    BY <1>6 DEF Produce, RemoveWorker, Broadcast, CastSend, client, links, coordinator, dvars
  <1> QED BY <1>3, <1>4, <1>5, <1>6 DEF DNext

LEMMA Flows == DSpec => [](DTypeOK /\ Reached /\ Flowing)
  <1>1. DInit => Reached /\ Flowing
    <2> SUFFICES ASSUME DInit PROVE Reached /\ Flowing OBVIOUS
    <2>1. Reached
      BY DEF DInit, Reached, Opened
    <2> SUFFICES ASSUME NEW w \in Index PROVE Sorted(w) /\ Whole(w) /\ Fresh(w)
      BY <2>1 DEF Flowing
    <2>2. /\ cur[w] = 0 /\ taken[w] = 0 /\ got[w] = <<>> /\ Unsent(w) = <<>>
      BY DEF DInit, Unsent
    <2>3. Places(w) = {}
      <3>1. \A c \in 1 .. MaxConns : wire[<<w, c>>] = <<>>
        BY DEF DInit, Conns
      <3>2. Len(<<>>) = 0
        OBVIOUS
      <3>3. ASSUME NEW p \in Places(w) PROVE FALSE
        <4>1. p[1] \in 1 .. MaxConns /\ p[2] \in Nat \ {0} /\ p[2] <= Len(wire[<<w, p[1]>>])
          BY PlaceParts
        <4>2. wire[<<w, p[1]>>] = <<>>
          BY <3>1, <4>1
        <4> QED BY <3>2, <4>1, <4>2
      <3> QED BY <3>3
    <2> QED BY <2>2, <2>3
         DEF Sorted, Whole, Fresh, Unbroken, Rises, Within, Precedes, Apart, OneToOne
  <1>2. ASSUME DTypeOK /\ Reached /\ Flowing, [DNext]_dvars
        PROVE  (DTypeOK /\ Reached /\ Flowing)'
    BY <1>2, TypeStep, ReachedStep, FlowingStep
  <1> QED BY <1>1, <1>2, ClientInit, PTL DEF DSpec

(* No sample reaches the coordinator twice, by however many connections and *)
(* whichever of them break (stream_samples(), ingest_remote_samples()).    *)
THEOREM NeverTwiceAtCoordinator == DSpec => []NeverTwice
  <1>1. Flowing => NeverTwice
    BY DEF Flowing, Sorted, OneToOne, NeverTwice
  <1> QED BY <1>1, Flows, PTL

(* A worker whose connection holds loses, doubles and reorders nothing,     *)
(* whatever the size of its batches and whoever else sends on it.          *)
THEOREM SamplesConservedAlways == DSpec => []SamplesConserved
  <1>1. DTypeOK /\ Reached /\ Flowing => SamplesConserved
    <2> SUFFICES ASSUME DTypeOK, Reached, Flowing, NEW w \in Index, Unbroken(w)
                 PROVE  /\ \A s \in {got[w], Unsent(w)} \cup Range(OnWire(w)) : Rises(s)
                        /\ \A m, n \in DOMAIN OnWire(w) : m < n => Precedes(OnWire(w)[m], OnWire(w)[n])
                        /\ \A s \in Range(OnWire(w)) : Precedes(got[w], s) /\ Precedes(s, Unsent(w))
                        /\ Precedes(got[w], Unsent(w))
                        /\ 1 .. taken[w] = Range(got[w]) \cup Range(Unsent(w))
                                             \cup UNION {Range(s) : s \in Range(OnWire(w))}
      BY DEF SamplesConserved
    <2>1. Sorted(w) /\ Whole(w)
      BY DEF Flowing
    <2>2. /\ cur[w] = 1 /\ 1 \in 1 .. MaxConns
          /\ wire[<<w, 1>>] \in Seq(Messages)
          /\ \A c \in 1 .. MaxConns : c > 1 => wire[<<w, c>>] = <<>>
      <3>1. cur[w] = 1
        BY DEF Unbroken
      <3>2. 1 \in 1 .. MaxConns
        BY <3>1, DistributedAssumption DEF DTypeOK, ClientTypes
      <3>3. ASSUME NEW c \in 1 .. MaxConns, c > 1 PROVE wire[<<w, c>>] = <<>>
        <4>1. ~Opened(<<w, c>>)
          <5>1. c \in Int /\ <<w, c>>[1] = w /\ <<w, c>>[2] = c
            OBVIOUS
          <5>2. ~(c <= cur[w])
            BY <3>1, <3>3, <5>1
          <5> QED BY <5>1, <5>2 DEF Opened
        <4> QED BY <4>1, PlaceTypes DEF Reached
      <3> QED BY <3>1, <3>2, <3>3, PlaceTypes
    <2>3. \A m \in DOMAIN OnWire(w) :
            <<1, m>> \in Places(w) /\ OnWire(w)[m] = Batch(w, <<1, m>>) /\ m \in Nat
      <3>1. DOMAIN OnWire(w) = 1 .. Len(wire[<<w, 1>>]) /\ Len(wire[<<w, 1>>]) \in Nat
        BY <2>2 DEF OnWire
      <3> SUFFICES ASSUME NEW m \in DOMAIN OnWire(w)
                   PROVE  <<1, m>> \in Places(w) /\ OnWire(w)[m] = Batch(w, <<1, m>>) /\ m \in Nat
        OBVIOUS
      <3>2. m \in Nat \ {0} /\ m <= Len(wire[<<w, 1>>])
        BY <3>1
      <3>3. PICK p : p = <<1, m>>
        OBVIOUS
      <3>4. p \in Places(w)
        BY <2>2, <3>2, <3>3, PlacesAfter
      <3>5. OnWire(w)[m] = wire[<<w, 1>>][m].samples
        BY DEF OnWire
      <3> QED BY <3>2, <3>3, <3>4, <3>5, BatchAfter
    <2>4. \A p \in Places(w) : \E m \in DOMAIN OnWire(w) : Batch(w, p) = OnWire(w)[m]
      <3> SUFFICES ASSUME NEW p \in Places(w)
                   PROVE  \E m \in DOMAIN OnWire(w) : Batch(w, p) = OnWire(w)[m]
        OBVIOUS
      <3>1. p[1] \in 1 .. MaxConns /\ p[2] \in Nat \ {0} /\ p[2] <= Len(wire[<<w, p[1]>>])
        BY PlaceParts
      <3>2. Len(<<>>) = 0
        OBVIOUS
      <3>3. p[1] = 1
        BY <2>2, <3>1, <3>2
      <3>4. p[2] \in DOMAIN wire[<<w, 1>>]
        BY <2>2, <3>1, <3>3
      <3>5. p[2] \in DOMAIN OnWire(w) /\ OnWire(w)[p[2]] = wire[<<w, 1>>][p[2]].samples
        BY <3>4 DEF OnWire
      <3> QED BY <3>3, <3>5, BatchAfter
    <2>5. \A s : s \in Range(OnWire(w)) <=> \E m \in DOMAIN OnWire(w) : s = OnWire(w)[m]
      BY DEF Range
    <2>6. \A s \in Range(OnWire(w)) : \E p \in Places(w) : s = Batch(w, p)
      BY <2>3, <2>5
    <2>7. \A m, n \in DOMAIN OnWire(w) : m < n => Precedes(OnWire(w)[m], OnWire(w)[n])
      BY <2>1, <2>3 DEF Sorted, Earlier
    <2>8. 1 .. taken[w] = Range(got[w]) \cup Range(Unsent(w))
                            \cup UNION {Range(s) : s \in Range(OnWire(w))}
      <3>1. ASSUME NEW n \in 1 .. taken[w]
            PROVE  n \in Range(got[w]) \cup Range(Unsent(w)) \cup UNION {Range(s) : s \in Range(OnWire(w))}
        <4>1. \/ \E i \in DOMAIN got[w] : got[w][i] = n
              \/ \E i \in DOMAIN Unsent(w) : Unsent(w)[i] = n
              \/ \E p \in Places(w) : \E i \in DOMAIN Batch(w, p) : Batch(w, p)[i] = n
          BY <2>1 DEF Whole
        <4>2. ASSUME NEW p \in Places(w), NEW i \in DOMAIN Batch(w, p), Batch(w, p)[i] = n
              PROVE  \E s \in Range(OnWire(w)) : n \in Range(s)
          <5>1. Batch(w, p) \in Range(OnWire(w)) BY <2>4, <2>5
          <5>2. n \in Range(Batch(w, p)) BY <4>2 DEF Range
          <5> QED BY <5>1, <5>2
        <4> QED BY <4>1, <4>2 DEF Range
      <3>2. ASSUME NEW s, Within(s, taken[w]), NEW n \in Range(s) PROVE n \in 1 .. taken[w]
        BY <3>2 DEF Within, Range
      <3>3. \A s \in {got[w], Unsent(w)} \cup Range(OnWire(w)) : Within(s, taken[w])
        BY <2>1, <2>6 DEF Sorted
      <3> QED BY <3>1, <3>2, <3>3
    <2> QED BY <2>1, <2>6, <2>7, <2>8 DEF Sorted, Whole
  <1> QED BY <1>1, Flows, PTL
=============================================================================
