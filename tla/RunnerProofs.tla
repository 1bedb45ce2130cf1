----------------------------- MODULE RunnerProofs -----------------------------
(***************************************************************************)
(* Proofs about the event bus (EventBus) and the headless run (Runner) on   *)
(* it: the streams of the bus are faithful, alone and under run_test(), and *)
(* exit code 0 means that every output has every sample.                   *)
(***************************************************************************)
EXTENDS Runner, SequenceTheorems, TLAPS

-----------------------------------------------------------------------------
(* Sequences of events.                                                    *)

(* What a stream that began after `from' events has to contain when `upto'  *)
(* are published, if `missed' of them and of the None found its queue full. *)
Exact(s, from, upto, ended, missed) ==
  /\ s \in Seq(Nat)
  /\ Increasing(s)
  /\ \A i \in DOMAIN s : s[i] = End => ended
  /\ \A i \in DOMAIN s : s[i] # End => from < s[i] /\ s[i] <= upto
  /\ missed = 0 => \A n \in from + 1 .. upto : \E i \in DOMAIN s : s[i] = n

LEMMA ElementsOfSeq ==
  ASSUME NEW s \in Seq(Nat)
  PROVE  /\ Len(s) \in Nat /\ DOMAIN s = 1 .. Len(s)
         /\ \A i \in DOMAIN s : s[i] \in Nat
  BY LenProperties, ElementOfSeq

LEMMA LastOfAppend ==
  ASSUME NEW s \in Seq(Nat), NEW e \in Nat, NEW r, r = Append(s, e)
  PROVE  /\ r \in Seq(Nat)
         /\ DOMAIN r = 1 .. Len(s) + 1
         /\ \A i \in 1 .. Len(s) : r[i] = s[i]
         /\ r[Len(s) + 1] = e
<1>1. /\ r \in Seq(Nat) /\ Len(r) = Len(s) + 1
      /\ \A i \in 1 .. Len(s) : r[i] = s[i]
      /\ r[Len(s) + 1] = e
  BY AppendProperties
<1>2. DOMAIN r = 1 .. Len(r)
  BY <1>1, LenProperties
<1> QED BY <1>1, <1>2

LEMMA ExactBegins ==
  ASSUME NEW s, s = <<>>, NEW u \in Nat, NEW ended, NEW missed
  PROVE  Exact(s, u, u, ended, missed)
<1>1. s \in Seq(Nat) /\ Len(s) = 0
  BY EmptySeq
<1>2. DOMAIN s = {}
  BY <1>1, LenProperties
<1>3. u + 1 .. u = {}
  OBVIOUS
<1> QED BY <1>1, <1>2, <1>3 DEF Exact, Increasing

LEMMA ExactTakesEvent ==
  ASSUME NEW s, NEW f \in Nat, NEW u \in Nat, NEW ended, NEW missed, f <= u,
         Exact(s, f, u, ended, missed),
         NEW r, r = Append(s, u + 1)
  PROVE  Exact(r, f, u + 1, ended, missed)
<1> USE DEF End
<1>1. s \in Seq(Nat)
  BY DEF Exact
<1>2. Len(s) \in Nat /\ DOMAIN s = 1 .. Len(s) /\ \A i \in DOMAIN s : s[i] \in Nat
  BY <1>1, ElementsOfSeq
<1>3. /\ r \in Seq(Nat)
      /\ DOMAIN r = 1 .. Len(s) + 1
      /\ \A i \in 1 .. Len(s) : r[i] = s[i]
      /\ r[Len(s) + 1] = u + 1
  BY <1>1, LastOfAppend
<1>4. \A i \in DOMAIN r : i \in DOMAIN s \/ i = Len(s) + 1
  BY <1>2, <1>3
<1>5. Increasing(r)
  <2> SUFFICES ASSUME NEW i \in DOMAIN r, NEW j \in DOMAIN r
               PROVE  /\ i < j /\ r[i] # End /\ r[j] # End => r[i] < r[j]
                      /\ r[i] = End /\ r[j] = End => i = j
    BY DEF Increasing
  <2>1. CASE i \in DOMAIN s /\ j \in DOMAIN s
    BY <2>1, <1>2, <1>3 DEF Exact, Increasing
  <2>2. CASE i \in DOMAIN s /\ j = Len(s) + 1
    BY <2>2, <1>2, <1>3 DEF Exact
  <2>3. CASE i = Len(s) + 1
    BY <2>3, <1>2, <1>3, <1>4
  <2> QED BY <2>1, <2>2, <2>3, <1>4
<1>6. \A i \in DOMAIN r : r[i] = End => ended
  BY <1>2, <1>3, <1>4 DEF Exact
<1>7. \A i \in DOMAIN r : r[i] # End => f < r[i] /\ r[i] <= u + 1
  BY <1>2, <1>3, <1>4 DEF Exact
<1>8. ASSUME missed = 0, NEW n \in f + 1 .. u + 1 PROVE \E i \in DOMAIN r : r[i] = n
  <2>1. CASE n = u + 1
    BY <2>1, <1>2, <1>3
  <2>2. CASE n # u + 1
    <3>1. n \in f + 1 .. u
      BY <2>2
    <3>2. PICK i \in DOMAIN s : s[i] = n
      BY <3>1, <1>8 DEF Exact
    <3> QED BY <3>2, <1>2, <1>3
  <2> QED BY <2>1, <2>2
<1> QED BY <1>3, <1>5, <1>6, <1>7, <1>8 DEF Exact

LEMMA ExactTakesEnd ==
  ASSUME NEW s, NEW f \in Nat, NEW u \in Nat, NEW missed,
         Exact(s, f, u, FALSE, missed),
         NEW r, r = Append(s, End)
  PROVE  Exact(r, f, u, TRUE, missed)
<1> USE DEF End
<1>1. s \in Seq(Nat)
  BY DEF Exact
<1>2. Len(s) \in Nat /\ DOMAIN s = 1 .. Len(s) /\ \A i \in DOMAIN s : s[i] \in Nat
  BY <1>1, ElementsOfSeq
<1>3. /\ r \in Seq(Nat)
      /\ DOMAIN r = 1 .. Len(s) + 1
      /\ \A i \in 1 .. Len(s) : r[i] = s[i]
      /\ r[Len(s) + 1] = End
  BY <1>1, LastOfAppend
<1>4. \A i \in DOMAIN r : i \in DOMAIN s \/ i = Len(s) + 1
  BY <1>2, <1>3
<1>5. \A i \in DOMAIN s : s[i] # End
  BY DEF Exact
<1>6. Increasing(r)
  BY <1>2, <1>3, <1>4, <1>5 DEF Exact, Increasing
<1>7. \A i \in DOMAIN r : r[i] # End => f < r[i] /\ r[i] <= u
  BY <1>2, <1>3, <1>4 DEF Exact
<1>8. ASSUME missed = 0, NEW n \in f + 1 .. u PROVE \E i \in DOMAIN r : r[i] = n
  <2>1. PICK i \in DOMAIN s : s[i] = n
    BY <1>8 DEF Exact
  <2> QED BY <2>1, <1>2, <1>3
<1> QED BY <1>3, <1>6, <1>7, <1>8 DEF Exact

(* A full queue: the history goes on without the stream.                   *)
LEMMA ExactMisses ==
  ASSUME NEW s, NEW f \in Nat, NEW u \in Nat, NEW v \in Nat, u <= v,
         NEW ended, NEW over2, ended => over2, NEW missed, NEW more, more # 0,
         Exact(s, f, u, ended, missed)
  PROVE  Exact(s, f, v, over2, more)
<1>1. s \in Seq(Nat)
  BY DEF Exact
<1>2. \A i \in DOMAIN s : s[i] \in Nat
  BY <1>1, ElementsOfSeq
<1>3. \A i \in DOMAIN s : s[i] # End => f < s[i] /\ s[i] <= v
  BY <1>2 DEF Exact
<1> QED BY <1>3 DEF Exact

LEMMA TrailGrows ==
  ASSUME NEW g \in Seq(Nat), NEW q \in Seq(Nat), NEW e \in Nat
  PROVE  g \o Append(q, e) = Append(g \o q, e)
<1>1. Append(q, e) = q \o <<e>> /\ <<e>> \in Seq(Nat)
  BY AppendIsConcat
<1>2. g \o q \in Seq(Nat)
  BY ConcatProperties
<1>3. Append(g \o q, e) = (g \o q) \o <<e>>
  BY <1>2, AppendIsConcat
<1> QED BY <1>1, <1>3, ConcatAssociative

LEMMA TrailShifts ==
  ASSUME NEW g \in Seq(Nat), NEW q \in Seq(Nat), q # <<>>
  PROVE  /\ Append(g, Head(q)) \o Tail(q) = g \o q
         /\ Head(q) \in Nat /\ Tail(q) \in Seq(Nat) /\ Append(g, Head(q)) \in Seq(Nat)
<1>1. Head(q) \in Nat /\ Tail(q) \in Seq(Nat)
  BY HeadTailProperties
<1>2. Append(g, Head(q)) = g \o <<Head(q)>> /\ <<Head(q)>> \in Seq(Nat)
  BY <1>1, AppendIsConcat
<1>3. (g \o <<Head(q)>>) \o Tail(q) = g \o (<<Head(q)>> \o Tail(q))
  BY <1>1, <1>2, ConcatAssociative, SMTT(40)
<1>4. <<Head(q)>> \o Tail(q) = q
  <2>1. Len(q) \in Nat \ {0}
    BY EmptySeq
  <2>2. SubSeq(q, 1, Len(q)) = <<q[1]>> \o SubSeq(q, 2, Len(q))
    BY <2>1, SubSeqRecursiveFirst
  <2>3. SubSeq(q, 1, Len(q)) = q
    BY SubSeqFull
  <2>4. Tail(q) = SubSeq(q, 2, Len(q))
    BY TailIsSubSeq
  <2>5. Head(q) = q[1]
    OBVIOUS
  <2> QED BY <2>2, <2>3, <2>4, <2>5
<1>5. Append(g, Head(q)) \in Seq(Nat)
  BY <1>1, AppendProperties
<1> QED BY <1>1, <1>2, <1>3, <1>4, <1>5

-----------------------------------------------------------------------------
(* The bus.                                                                *)

BusTypeOK ==
  /\ queues \in [Queue -> Seq(Nat)]
  /\ subscribed \subseteq Queue
  /\ pending \in Nat
  /\ primary \in {Primary, NoQueue}
  /\ reads \in [Consumer -> Queue \cup {NoQueue}]
  /\ stream \in [Consumer -> {"idle", "open", "ended", "closed"}]
  /\ published \in Nat
  /\ over \in BOOLEAN
  /\ got \in [Consumer -> Seq(Nat)]
  /\ since \in [Queue -> Nat]
  /\ lost \in [Queue -> Nat]

(* Which stream drains which queue: no queue has two readers.              *)
Owners ==
  /\ \A c \in Consumer : stream[c] = "idle" =>
       /\ reads[c] = NoQueue /\ c \notin subscribed
       /\ got[c] = <<>> /\ queues[c] = <<>>
  /\ \A c \in Consumer : stream[c] # "idle" =>
       /\ reads[c] \in {c, Primary}
       /\ reads[c] = Primary => primary = NoQueue
  /\ \A c \in Consumer : stream[c] = "open" => reads[c] \in subscribed
  /\ \A c, d \in Consumer : reads[c] = Primary /\ reads[d] = Primary => c = d
  /\ primary = Primary => Primary \in subscribed

(* Every stream is exact, and so is the queue of the first one before it is *)
(* taken.                                                                  *)
Contents ==
  /\ \A q \in Queue : since[q] <= published
  /\ primary = Primary =>
       Exact(queues[Primary], since[Primary], published, over, lost[Primary])
  /\ \A c \in Consumer : stream[c] = "open" =>
       Exact(Trail(c), since[reads[c]], published, over, lost[reads[c]])

BusInv == BusTypeOK /\ Owners /\ Contents

LEMMA ContentsAreFaithful == BusTypeOK /\ Owners /\ Contents => StreamsAreFaithful
<1> SUFFICES ASSUME BusTypeOK, Owners, Contents, NEW c \in Consumer, stream[c] = "open"
             PROVE  /\ Increasing(Trail(c))
                    /\ Events(Trail(c)) \subseteq since[reads[c]] + 1 .. published
                    /\ lost[reads[c]] = 0 => since[reads[c]] + 1 .. published \subseteq Events(Trail(c))
  BY DEF StreamsAreFaithful
<1> DEFINE s == Trail(c)
           f == since[reads[c]]
<1>1. Exact(s, f, published, over, lost[reads[c]])
  BY DEF Contents
<1>2. reads[c] \in Queue
  BY DEF Owners, BusTypeOK
<1>3. f \in Nat /\ published \in Nat
  BY <1>2 DEF BusTypeOK
<1> HIDE DEF s, f
<1>4. \A i \in DOMAIN s : s[i] \in Nat
  BY <1>1, ElementsOfSeq DEF Exact
<1>5. Increasing(s)
  BY <1>1 DEF Exact
<1>6. Events(s) \subseteq f + 1 .. published
  BY <1>1, <1>3, <1>4 DEF Exact, Events
<1>7. ASSUME lost[reads[c]] = 0, NEW n \in f + 1 .. published PROVE n \in Events(s)
  <2>1. PICK i \in DOMAIN s : s[i] = n
    BY <1>1, <1>7 DEF Exact
  <2>2. n # End
    BY <1>3 DEF End
  <2> QED BY <2>1, <2>2 DEF Events
<1> QED BY <1>5, <1>6, <1>7 DEF s, f

LEMMA BusBegins == Init => BusInv
<1> SUFFICES ASSUME Init PROVE BusInv
  OBVIOUS
<1>0. Primary \in Queue /\ Primary \notin Consumer /\ NoQueue # Primary
  BY EventBusAssumption DEF Queue
<1>1. <<>> \in Seq(Nat)
  BY EmptySeq
<1>2. BusTypeOK
  BY <1>0, <1>1 DEF BusTypeOK, Init
<1>3. Owners
  BY <1>0 DEF Owners, Init, Queue
<1>4. Contents
  <2>1. Exact(<<>>, 0, 0, over, 0)
    BY ExactBegins
  <2>2. queues[Primary] = <<>> /\ since[Primary] = 0 /\ lost[Primary] = 0 /\ published = 0
    BY <1>0 DEF Init
  <2>3. \A c \in Consumer : stream[c] # "open"
    BY DEF Init
  <2>4. \A q \in Queue : since[q] <= published
    BY DEF Init
  <2> QED BY <2>1, <2>2, <2>3, <2>4 DEF Contents
<1> QED BY <1>2, <1>3, <1>4 DEF BusInv

(* What a publication does to the queue of a subscriber.                   *)
LEMMA FanOutTypes ==
  ASSUME BusTypeOK, NEW e \in Nat, FanOut(e)
  PROVE  /\ queues' \in [Queue -> Seq(Nat)] /\ lost' \in [Queue -> Nat]
         /\ \A q \in subscribed :
              \/ queues'[q] = Append(queues[q], e) /\ lost'[q] = lost[q]
              \/ queues'[q] = queues[q] /\ lost'[q] = lost[q] + 1
         /\ \A q \in Queue \ subscribed : queues'[q] = queues[q] /\ lost'[q] = lost[q]
<1>1. \A q \in Queue : queues[q] \in Seq(Nat) /\ lost[q] \in Nat
  BY DEF BusTypeOK
<1>2. \A q \in Queue : Append(queues[q], e) \in Seq(Nat)
  BY <1>1, AppendProperties
<1>3. subscribed \subseteq Queue
  BY DEF BusTypeOK
<1>4. queues' \in [Queue -> Seq(Nat)]
  BY <1>1, <1>2 DEF FanOut
<1>5. lost' \in [Queue -> Nat]
  BY <1>1 DEF FanOut
<1>6. ASSUME NEW q \in subscribed
      PROVE  \/ queues'[q] = Append(queues[q], e) /\ lost'[q] = lost[q]
             \/ queues'[q] = queues[q] /\ lost'[q] = lost[q] + 1
  BY <1>3, <1>6 DEF FanOut
<1>7. ASSUME NEW q \in Queue \ subscribed
      PROVE  queues'[q] = queues[q] /\ lost'[q] = lost[q]
  BY <1>7 DEF FanOut
<1> QED BY <1>4, <1>5, <1>6, <1>7

(* A publication that leaves exact what was exact: of the next event, or of *)
(* the None while the run is not over.                                     *)
LEMMA ExactAfter ==
  ASSUME BusTypeOK, Contents, NEW e \in Nat, NEW u \in Nat, NEW ended \in BOOLEAN,
         \/ e = published + 1 /\ u = published + 1 /\ ended = over
         \/ e = End /\ u = published /\ over = FALSE /\ ended = TRUE,
         NEW s, NEW f \in Nat, f <= published, NEW missed \in Nat,
         Exact(s, f, published, over, missed),
         NEW r, NEW more, \/ r = Append(s, e) /\ more = missed
                          \/ r = s /\ more = missed + 1
  PROVE  Exact(r, f, u, ended, more)
<1>0. published \in Nat /\ over \in BOOLEAN
  BY DEF BusTypeOK
<1>1. CASE r = s /\ more = missed + 1
  <2>1. more # 0 /\ published <= u /\ (over => ended)
    BY <1>0, <1>1
  <2> QED BY <1>0, <1>1, <2>1, ExactMisses
<1>2. CASE r = Append(s, e) /\ more = missed
  <2>1. CASE e = published + 1 /\ u = published + 1 /\ ended = over
    BY <1>0, <1>2, <2>1, ExactTakesEvent
  <2>2. CASE e = End /\ u = published /\ over = FALSE /\ ended = TRUE
    BY <1>0, <1>2, <2>2, ExactTakesEnd
  <2> QED BY <2>1, <2>2
<1> QED BY <1>1, <1>2

LEMMA FanOutKeeps ==
  ASSUME BusInv, NEW e \in Nat, FanOut(e), published' \in Nat, over' \in BOOLEAN,
         \/ e = published + 1 /\ published' = published + 1 /\ over' = over
         \/ e = End /\ published' = published /\ over = FALSE /\ over' = TRUE,
         pending' \in Nat, UNCHANGED <<subscribed, streamVars>>
  PROVE  BusInv'
<1> USE DEF BusInv
<1>0. published \in Nat /\ published <= published'
  BY DEF BusTypeOK
<1>1. /\ queues' \in [Queue -> Seq(Nat)] /\ lost' \in [Queue -> Nat]
      /\ \A q \in subscribed :
           \/ queues'[q] = Append(queues[q], e) /\ lost'[q] = lost[q]
           \/ queues'[q] = queues[q] /\ lost'[q] = lost[q] + 1
      /\ \A q \in Queue \ subscribed : queues'[q] = queues[q] /\ lost'[q] = lost[q]
  BY FanOutTypes
<1>2. BusTypeOK'
  BY <1>1 DEF BusTypeOK, streamVars
<1>3. Owners'
  <2>1. \A c \in Consumer : c \notin subscribed => queues'[c] = queues[c]
    BY <1>1 DEF Queue
  <2> QED BY <2>1 DEF Owners, streamVars
<1>4. \A q \in Queue : since'[q] <= published'
  BY <1>0 DEF Contents, BusTypeOK, streamVars
<1>5. ASSUME primary = Primary
      PROVE  Exact(queues'[Primary], since[Primary], published', over', lost'[Primary])
  <2>1. Primary \in subscribed /\ Primary \in Queue
    BY <1>5 DEF Owners, Queue
  <2>2. /\ since[Primary] \in Nat /\ since[Primary] <= published /\ lost[Primary] \in Nat
        /\ Exact(queues[Primary], since[Primary], published, over, lost[Primary])
    BY <1>5, <2>1 DEF Contents, BusTypeOK
  <2>3. \/ queues'[Primary] = Append(queues[Primary], e) /\ lost'[Primary] = lost[Primary]
        \/ queues'[Primary] = queues[Primary] /\ lost'[Primary] = lost[Primary] + 1
    BY <1>1, <2>1
  <2> QED BY <2>2, <2>3, ExactAfter
<1>6. ASSUME NEW c \in Consumer, stream[c] = "open"
      PROVE  Exact(got[c] \o queues'[reads[c]], since[reads[c]], published', over', lost'[reads[c]])
  <2>1. reads[c] \in subscribed /\ reads[c] \in Queue
    BY <1>6 DEF Owners, BusTypeOK
  <2>2. /\ since[reads[c]] \in Nat /\ since[reads[c]] <= published /\ lost[reads[c]] \in Nat
        /\ Exact(got[c] \o queues[reads[c]], since[reads[c]], published, over, lost[reads[c]])
    BY <1>6, <2>1 DEF Contents, BusTypeOK, Trail
  <2>3. \/ queues'[reads[c]] = Append(queues[reads[c]], e) /\ lost'[reads[c]] = lost[reads[c]]
        \/ queues'[reads[c]] = queues[reads[c]] /\ lost'[reads[c]] = lost[reads[c]] + 1
    BY <1>1, <2>1
  <2>4. got[c] \in Seq(Nat) /\ queues[reads[c]] \in Seq(Nat)
    BY <2>1 DEF BusTypeOK
  <2>5. got[c] \o Append(queues[reads[c]], e) = Append(got[c] \o queues[reads[c]], e)
    BY <2>4, TrailGrows
  <2> DEFINE s == got[c] \o queues[reads[c]]
             r == got[c] \o queues'[reads[c]]
             f == since[reads[c]]
             m == lost[reads[c]]
             n == lost'[reads[c]]
  <2>6. \/ r = Append(s, e) /\ n = m
        \/ r = s /\ n = m + 1
    BY <2>3, <2>5
  <2>7. f \in Nat /\ f <= published /\ m \in Nat /\ Exact(s, f, published, over, m)
    BY <2>2
  <2> HIDE DEF s, r, f, m, n
  <2>8. Exact(r, f, published', over', n)
    BY <2>6, <2>7, ExactAfter
  <2> QED BY <2>8 DEF r, f, n
<1>7. Contents'
  BY <1>4, <1>5, <1>6 DEF Contents, Trail, streamVars
<1> QED BY <1>2, <1>3, <1>7

(* Opening, reading and leaving a stream.                                  *)
LEMMA OpenPrimaryKeeps == ASSUME BusInv, NEW c \in Consumer, OpenPrimary(c) PROVE BusInv'
<1> USE DEF BusInv, OpenPrimary
<1>0. /\ Primary \in Queue /\ Primary \notin Consumer /\ NoQueue # Primary
      /\ NoQueue \notin Queue
  BY EventBusAssumption DEF Queue
<1>1. BusTypeOK'
  BY <1>0 DEF BusTypeOK
<1>2. /\ reads'[c] = Primary /\ stream'[c] = "open" /\ got[c] = <<>>
      /\ \A d \in Consumer \ {c} : reads'[d] = reads[d] /\ stream'[d] = stream[d]
      /\ \A d \in Consumer : reads[d] # Primary
  BY <1>0 DEF BusTypeOK, Owners
<1>3. Owners'
  BY <1>0, <1>2 DEF Owners
<1>4. Exact(Trail(c)', since[Primary], published, over, lost[Primary])
  <2>1. queues[Primary] \in Seq(Nat)
    BY <1>0 DEF BusTypeOK
  <2>2. Trail(c)' = <<>> \o queues[Primary]
    BY <1>2 DEF Trail
  <2>3. <<>> \o queues[Primary] = queues[Primary]
    BY <2>1, ConcatEmptySeq
  <2> QED BY <2>2, <2>3 DEF Contents
<1>5. ASSUME NEW d \in Consumer, stream'[d] = "open"
      PROVE  Exact(Trail(d)', since[reads'[d]], published, over, lost[reads'[d]])
  <2>1. CASE d = c
    BY <1>2, <1>4, <2>1
  <2>2. CASE d # c
    BY <1>2, <1>5, <2>2 DEF Contents, Trail
  <2> QED BY <2>1, <2>2
<1>6. Contents'
  BY <1>0, <1>5 DEF Contents
<1> QED BY <1>1, <1>3, <1>6

LEMMA OpenOwnKeeps == ASSUME BusInv, NEW c \in Consumer, OpenOwn(c) PROVE BusInv'
<1> USE DEF BusInv, OpenOwn
<1>0. /\ Primary \in Queue /\ Primary \notin Consumer /\ NoQueue # Primary
      /\ NoQueue \notin Queue /\ c \in Queue /\ c # Primary
  BY EventBusAssumption DEF Queue
<1>1. BusTypeOK'
  BY <1>0 DEF BusTypeOK
<1>2. /\ reads'[c] = c /\ stream'[c] = "open" /\ got[c] = <<>> /\ queues[c] = <<>>
      /\ since'[c] = published
      /\ \A d \in Consumer \ {c} : reads'[d] = reads[d] /\ stream'[d] = stream[d]
      /\ \A q \in Queue \ {c} : since'[q] = since[q]
  BY <1>0 DEF BusTypeOK, Owners
<1>3. Owners'
  BY <1>0, <1>2 DEF Owners
<1>4. Exact(Trail(c)', published, published, over, lost[c])
  <2>1. Trail(c)' = <<>> \o <<>>
    BY <1>2 DEF Trail
  <2>2. <<>> \o <<>> = <<>>
    BY EmptySeq, ConcatEmptySeq
  <2>3. published \in Nat
    BY DEF BusTypeOK
  <2> QED BY <2>1, <2>2, <2>3, ExactBegins
<1>5. ASSUME NEW d \in Consumer, stream'[d] = "open"
      PROVE  Exact(Trail(d)', since'[reads'[d]], published, over, lost[reads'[d]])
  <2>1. CASE d = c
    BY <1>2, <1>4, <2>1
  <2>2. CASE d # c
    <3>1. stream[d] = "open" /\ reads'[d] = reads[d]
      BY <1>2, <1>5, <2>2
    <3>2. reads[d] \in Queue \ {c}
      BY <1>0, <2>2, <3>1 DEF Owners, BusTypeOK
    <3>3. since'[reads'[d]] = since[reads[d]] /\ Trail(d)' = Trail(d)
      BY <1>2, <3>1, <3>2 DEF Trail
    <3> QED BY <3>1, <3>3 DEF Contents
  <2> QED BY <2>1, <2>2
<1>6. \A q \in Queue : since'[q] <= published
  <2>1. ASSUME NEW q \in Queue PROVE since'[q] <= published
    <3>1. CASE q = c
      BY <3>1, <1>2 DEF BusTypeOK
    <3>2. CASE q # c
      BY <3>2, <1>2 DEF Contents
    <3> QED BY <3>1, <3>2
  <2> QED BY <2>1
<1>7. Contents'
  BY <1>0, <1>5, <1>6 DEF Contents
<1> QED BY <1>1, <1>3, <1>7

(* Taking the head of its own queue leaves the queues of the others alone.  *)
LEMMA OwnQueue ==
  ASSUME BusInv, NEW c \in Consumer, stream[c] = "open",
         NEW d \in Consumer \ {c}, stream[d] = "open"
  PROVE  reads[c] \in Queue /\ reads[d] \in Queue /\ reads[d] # reads[c]
<1>1. Primary \notin Consumer
  BY EventBusAssumption
<1> QED BY <1>1 DEF BusInv, BusTypeOK, Owners

LEMMA YieldKeeps == ASSUME BusInv, NEW c \in Consumer, Yield(c) PROVE BusInv'
<1> USE DEF BusInv, Yield
<1> DEFINE q == queues[reads[c]]
<1>1. reads[c] \in Queue /\ reads[c] \in subscribed
  BY DEF Owners, BusTypeOK
<1>2. q \in Seq(Nat) /\ got[c] \in Seq(Nat) /\ q # <<>>
  BY <1>1 DEF BusTypeOK
<1>3. /\ Append(got[c], Head(q)) \o Tail(q) = got[c] \o q
      /\ Head(q) \in Nat /\ Tail(q) \in Seq(Nat) /\ Append(got[c], Head(q)) \in Seq(Nat)
  BY <1>2, TrailShifts
<1>4. BusTypeOK'
  BY <1>3 DEF BusTypeOK
<1>5. /\ queues'[reads[c]] = Tail(q) /\ got'[c] = Append(got[c], Head(q))
      /\ \A p \in Queue \ {reads[c]} : queues'[p] = queues[p]
      /\ \A d \in Consumer \ {c} : got'[d] = got[d]
  BY <1>1 DEF BusTypeOK
<1>6. Primary \notin Consumer /\ \A d \in Consumer : d \in Queue
  BY EventBusAssumption DEF Queue
<1>7. ASSUME NEW d \in Consumer, stream[d] = "idle"
      PROVE  d # c /\ d # reads[c] /\ got'[d] = <<>> /\ queues'[d] = <<>>
  <2>1. d # c /\ d \notin subscribed /\ got[d] = <<>> /\ queues[d] = <<>>
    BY <1>7 DEF Owners
  <2> QED BY <1>1, <1>5, <1>6, <2>1
<1>8. Owners'
  BY <1>7 DEF Owners
<1>9. Trail(c)' = Trail(c)
  BY <1>3, <1>5 DEF Trail
<1>10. ASSUME NEW d \in Consumer \ {c}, stream[d] = "open" PROVE Trail(d)' = Trail(d)
  BY <1>5, <1>10, OwnQueue DEF Trail
<1>11. primary = Primary => queues'[Primary] = queues[Primary]
  BY <1>1, <1>5, EventBusAssumption DEF Owners, Queue
<1>12. Contents'
  BY <1>9, <1>10, <1>11 DEF Contents
<1> QED BY <1>4, <1>8, <1>12

(* EndStream and CloseStream: c is done with the queue that it reads.      *)
LEMMA LeaveKeeps ==
  ASSUME BusInv, NEW c \in Consumer, stream[c] = "open",
         stream' \in [Consumer -> {"idle", "open", "ended", "closed"}],
         stream'[c] \in {"ended", "closed"},
         \A d \in Consumer \ {c} : stream'[d] = stream[d],
         queues' \in [Queue -> Seq(Nat)],
         \A p \in Queue \ {reads[c]} : queues'[p] = queues[p],
         subscribed' = subscribed \ {reads[c]},
         UNCHANGED <<pending, primary, reads, published, over, got, since, lost>>
  PROVE  BusInv'
<1> USE DEF BusInv
<1>1. reads[c] \in Queue /\ reads[c] \in subscribed
  BY DEF Owners, BusTypeOK
<1>2. BusTypeOK'
  BY DEF BusTypeOK
<1>3. Primary \notin Consumer /\ Primary \in Queue /\ \A d \in Consumer : d \in Queue
  BY EventBusAssumption DEF Queue
<1>4. primary = Primary => reads[c] # Primary
  BY EventBusAssumption DEF Owners
<1>5. Owners'
  <2>1. ASSUME NEW d \in Consumer, stream'[d] = "idle"
        PROVE  /\ reads[d] = NoQueue /\ d \notin subscribed'
               /\ got[d] = <<>> /\ queues'[d] = <<>>
    <3>1. stream[d] = "idle" /\ d # c
      BY <2>1
    <3>2. d \notin subscribed /\ d # reads[c]
      BY <1>1, <3>1 DEF Owners
    <3> QED BY <1>3, <3>1, <3>2 DEF Owners
  <2>2. ASSUME NEW d \in Consumer, stream'[d] = "open" PROVE reads[d] \in subscribed'
    <3>1. stream[d] = "open" /\ d # c
      BY <2>2
    <3> QED BY <3>1, OwnQueue DEF Owners
  <2>3. ASSUME NEW d \in Consumer, stream'[d] # "idle"
        PROVE  reads[d] \in {d, Primary} /\ (reads[d] = Primary => primary = NoQueue)
    <3>1. stream[d] # "idle"
      BY <2>3
    <3> QED BY <3>1 DEF Owners
  <2>4. primary = Primary => Primary \in subscribed'
    BY <1>4 DEF Owners
  <2> QED BY <2>1, <2>2, <2>3, <2>4 DEF Owners
<1>6. Contents'
  <2>1. ASSUME NEW d \in Consumer, stream'[d] = "open"
        PROVE  Trail(d)' = Trail(d) /\ stream[d] = "open"
    <3>1. stream[d] = "open" /\ d # c
      BY <2>1
    <3> QED BY <3>1, OwnQueue DEF Trail
  <2>2. primary = Primary => queues'[Primary] = queues[Primary]
    BY <1>3, <1>4
  <2> QED BY <2>1, <2>2 DEF Contents
<1> QED BY <1>2, <1>5, <1>6

LEMMA EndStreamKeeps == ASSUME BusInv, NEW c \in Consumer, EndStream(c) PROVE BusInv'
<1> USE DEF EndStream
<1>1. reads[c] \in Queue /\ queues[reads[c]] # <<>>
  BY DEF BusInv, Owners, BusTypeOK
<1>2. Tail(queues[reads[c]]) \in Seq(Nat)
  BY <1>1, HeadTailProperties DEF BusInv, BusTypeOK
<1>3. /\ queues' \in [Queue -> Seq(Nat)]
      /\ \A p \in Queue \ {reads[c]} : queues'[p] = queues[p]
  BY <1>1, <1>2 DEF BusInv, BusTypeOK
<1>4. /\ stream' \in [Consumer -> {"idle", "open", "ended", "closed"}]
      /\ stream'[c] = "ended" /\ \A d \in Consumer \ {c} : stream'[d] = stream[d]
  BY DEF BusInv, BusTypeOK
<1> QED BY <1>3, <1>4, LeaveKeeps

LEMMA CloseStreamKeeps == ASSUME BusInv, NEW c \in Consumer, CloseStream(c) PROVE BusInv'
<1> USE DEF CloseStream
<1>1. queues' \in [Queue -> Seq(Nat)] /\ \A p \in Queue : queues'[p] = queues[p]
  BY DEF BusInv, BusTypeOK
<1>2. /\ stream' \in [Consumer -> {"idle", "open", "ended", "closed"}]
      /\ stream'[c] = "closed" /\ \A d \in Consumer \ {c} : stream'[d] = stream[d]
  BY DEF BusInv, BusTypeOK
<1> QED BY <1>1, <1>2, LeaveKeeps

(* A publication of any kind.                                              *)
LEMMA PublicationKeeps ==
  ASSUME BusInv, Publish \/ PublishThreadsafe \/ RunPending \/ PublishEnd PROVE BusInv'
<1>0. published \in Nat /\ pending \in Nat /\ over \in BOOLEAN
  BY DEF BusInv, BusTypeOK
<1>1. CASE Publish
  <2>1. PICK e \in Nat : e = published + 1
    BY <1>0
  <2>2. FanOut(e) /\ published' = e
    BY <1>1, <2>1 DEF Publish
  <2> QED BY <1>0, <1>1, <2>1, <2>2, FanOutKeeps DEF Publish
<1>2. CASE PublishThreadsafe
  BY <1>0, <1>2 DEF PublishThreadsafe, BusInv, BusTypeOK, Owners, Contents, Trail, streamVars
<1>3. CASE RunPending
  <2>1. PICK e \in Nat : e = published + 1
    BY <1>0
  <2>2. FanOut(e) /\ published' = e
    BY <1>3, <2>1 DEF RunPending
  <2>3. pending' \in Nat /\ UNCHANGED <<subscribed, over, streamVars>>
    BY <1>0, <1>3 DEF RunPending
  <2> QED BY <1>0, <2>1, <2>2, <2>3, FanOutKeeps
<1>4. CASE PublishEnd
  BY <1>0, <1>4, FanOutKeeps DEF PublishEnd, End
<1> QED BY <1>1, <1>2, <1>3, <1>4

LEMMA BusSteps == BusInv /\ [Next]_vars => BusInv'
<1> SUFFICES ASSUME BusInv, [Next]_vars PROVE BusInv'
  OBVIOUS
<1>1. CASE Publish \/ PublishThreadsafe \/ RunPending \/ PublishEnd
  BY <1>1, PublicationKeeps
<1>2. ASSUME NEW c \in Consumer, OpenPrimary(c) PROVE BusInv'
  BY <1>2, OpenPrimaryKeeps
<1>3. ASSUME NEW c \in Consumer, OpenOwn(c) PROVE BusInv'
  BY <1>3, OpenOwnKeeps
<1>4. ASSUME NEW c \in Consumer, Read(c) PROVE BusInv'
  BY <1>4, YieldKeeps, EndStreamKeeps DEF Read
<1>5. ASSUME NEW c \in Consumer, CloseStream(c) PROVE BusInv'
  BY <1>5, CloseStreamKeeps
<1>6. CASE UNCHANGED vars
  BY <1>6 DEF vars, BusInv, BusTypeOK, Owners, Contents, Trail
<1> QED BY <1>1, <1>2, <1>3, <1>4, <1>5, <1>6 DEF Next

(* Each stream of the bus is complete, in order and without repetition,     *)
(* from its subscription on, and the first one from the beginning, unless   *)
(* its own queue was full.                                                 *)
THEOREM StreamsFaithful == Spec => []StreamsAreFaithful
<1>1. BusInv => StreamsAreFaithful
  BY ContentsAreFaithful DEF BusInv
<1> QED BY BusBegins, BusSteps, <1>1, PTL DEF Spec

-----------------------------------------------------------------------------
(* Under run_test() the bus takes no other steps.                          *)
LEMMA RunnerUsesBus == RNext => [Next]_vars
<1> SUFFICES ASSUME RNext PROVE [Next]_vars
  OBVIOUS
<1>0. Log \in Consumer /\ Progress \in Consumer
  BY RunnerAssumption
<1>1. CASE Complete \/ Engine
  BY <1>1 DEF Complete, Engine, Next
<1>2. ASSUME NEW c \in {Log, Progress}, TaskOpens(c) PROVE Next
  BY <1>0, <1>2 DEF TaskOpens, Opens, Next
<1>3. ASSUME NEW c \in {Log, Progress}, TaskReads(c) PROVE Next
  BY <1>0, <1>3 DEF TaskReads, Read, Next
<1>4. ASSUME NEW c \in {Log, Progress}, Cancelled(c) PROVE [Next]_vars
  BY <1>0, <1>4 DEF Cancelled, Next
<1>5. CASE LogFails
  BY <1>0, <1>5 DEF LogFails, Next
<1>6. ASSUME NEW c \in Consumer, OtherReader(c) PROVE Next
  BY <1>6 DEF OtherReader, Opens, Next
<1>7. CASE RunTest
  <2>1. CASE RunDone
    BY <1>0, <2>1 DEF RunDone, Next
  <2>2. CASE Finish
    BY <2>2 DEF Finish
  <2>3. CASE StartOutput \/ AllStarted \/ Drained \/ BeginFlush \/ AddSamples \/ AllAdded \/ StopOutput
    <3>1. Stays
      BY <2>3 DEF StartOutput, AllStarted, Drained, BeginFlush, AddSamples, AllAdded, StopOutput
    <3> QED BY <3>1 DEF Stays
  <2> QED BY <1>7, <2>1, <2>2, <2>3 DEF RunTest
<1> QED BY <1>1, <1>2, <1>3, <1>4, <1>5, <1>6, <1>7 DEF RNext

(* The same of the streams of a headless run, whatever its outputs, its log *)
(* and its progress line do.                                               *)
THEOREM RunnerStreamsFaithful == RSpec => []StreamsAreFaithful
<1>1. BusInv => StreamsAreFaithful
  BY ContentsAreFaithful DEF BusInv
<1>2. RInit => BusInv
  BY BusBegins DEF RInit
<1>3. BusInv /\ [RNext]_allvars => BusInv'
  <2>1. UNCHANGED allvars => UNCHANGED vars
    BY DEF allvars
  <2> QED BY <2>1, RunnerUsesBus, BusSteps
<1> QED BY <1>1, <1>2, <1>3, PTL DEF RSpec

-----------------------------------------------------------------------------
(* The outputs.                                                            *)

(* All samples of the run, in their order.                                 *)
Emission == [n \in 1 .. emitted |-> n]

RunnerTypeOK ==
  /\ run \in {"none", "starting", "waiting", "draining", "flushing", "adding",
              "adding again", "stopall", "stopping", "done", "raised"}
  /\ at \in Nat \ {0} /\ emitted \in Nat /\ over \in BOOLEAN
  /\ samples \in Seq(Nat) /\ batch \in Seq(Nat)
  /\ phase \in [Each -> {"new", "started", "stopped"}]
  /\ buffer \in [Each -> Seq(Nat)]
  /\ written \in [Each -> Seq(Nat)]
  /\ refused \in [Each -> Seq(Nat)]

(* An output before, between and after its add_samples() and its stop().    *)
Untouched(i) == buffer[i] = <<>> /\ written[i] = <<>> /\ refused[i] = <<>>

Posted(i) == \/ written[i] = Emission /\ refused[i] = <<>>
             \/ refused[i] = Emission /\ written[i] = <<>>

Holds(i) ==
  /\ Outputs[i] = InFile => buffer[i] = Emission
  /\ Outputs[i] = Posts =>
       \/ buffer[i] = Emission /\ written[i] = <<>> /\ refused[i] = <<>>
       \/ buffer[i] = <<>> /\ Posted(i)

Delivered(i) ==
  /\ phase[i] = "stopped"
  /\ Outputs[i] = InFile => written[i] = Emission
  /\ Outputs[i] = Posts => Posted(i)

(* Where the samples are at each point of run_test(): in OutputManager, in   *)
(* the batch, in the outputs that had their turn.                          *)
Ledger ==
  /\ run \in {"draining", "flushing", "adding", "stopall", "stopping", "done"} => over
  /\ run # "adding again"
  /\ exit = 0 => run = "done" /\ status = "passed"
  /\ run \notin {"flushing", "raised"} => samples = <<>>
  /\ run \in {"none", "starting", "waiting", "draining", "flushing"} =>
       \A i \in Each : Untouched(i)
  /\ run = "flushing" => samples = Emission
  /\ run = "adding" =>
       /\ batch = Emission
       /\ \A i \in Each : (i < at => Holds(i)) /\ (i >= at => Untouched(i))
  /\ run = "stopall" => \A i \in Each : Holds(i)
  /\ run = "stopping" =>
       \A i \in Each : (i < at => Delivered(i)) /\ (i >= at => Holds(i))
  /\ run = "done" => \A i \in Each : Delivered(i)

RunnerInv == RunnerTypeOK /\ Ledger

LEMMA EmissionSeq ==
  ASSUME NEW n \in Nat
  PROVE  /\ [i \in 1 .. n |-> i] \in Seq(Nat)
         /\ Len([i \in 1 .. n |-> i]) = n
         /\ Range([i \in 1 .. n |-> i]) = 1 .. n
<1>1. [i \in 1 .. n |-> i] \in [1 .. n -> Nat]
  OBVIOUS
<1>2. [i \in 1 .. n |-> i] \in Seq(Nat)
  BY <1>1, SeqDef
<1>3. DOMAIN [i \in 1 .. n |-> i] = 1 .. Len([i \in 1 .. n |-> i]) /\ Len([i \in 1 .. n |-> i]) \in Nat
  BY <1>2, LenProperties
<1>4. Len([i \in 1 .. n |-> i]) = n
  BY <1>3
<1>5. Range([i \in 1 .. n |-> i]) = 1 .. n
  BY DEF Range
<1> QED BY <1>2, <1>4, <1>5

LEMMA EmptyRange == Len(<<>>) = 0 /\ Range(<<>>) = {}
<1>1. <<>> \in Seq(Nat) /\ Len(<<>>) = 0
  BY EmptySeq
<1>2. DOMAIN <<>> = {}
  BY <1>1, LenProperties
<1> QED BY <1>1, <1>2 DEF Range

LEMMA LedgerMeansDelivered == RunnerTypeOK /\ Ledger => SuccessMeansDelivered
<1> SUFFICES ASSUME RunnerTypeOK, Ledger, exit = 0
             PROVE  /\ status = "passed"
                    /\ \A i \in Each : phase[i] = "stopped"
                    /\ \A i \in Each :
                         /\ Outputs[i] = InFile => written[i] = [n \in 1 .. emitted |-> n]
                         /\ Outputs[i] = Posts =>
                              /\ Range(written[i]) \cup Range(refused[i]) = 1 .. emitted
                              /\ Len(written[i]) + Len(refused[i]) = emitted
  BY DEF SuccessMeansDelivered
<1>1. status = "passed" /\ \A i \in Each : Delivered(i)
  BY DEF Ledger
<1>2. /\ emitted \in Nat /\ Len(Emission) = emitted /\ Range(Emission) = 1 .. emitted
  BY EmissionSeq DEF RunnerTypeOK, Emission
<1>3. ASSUME NEW i \in Each, Outputs[i] = Posts
      PROVE  /\ Range(written[i]) \cup Range(refused[i]) = 1 .. emitted
             /\ Len(written[i]) + Len(refused[i]) = emitted
  <2>1. Posted(i)
    BY <1>1, <1>3 DEF Delivered
  <2>2. CASE written[i] = Emission /\ refused[i] = <<>>
    BY <2>2, <1>2, EmptyRange
  <2>3. CASE refused[i] = Emission /\ written[i] = <<>>
    BY <2>3, <1>2, EmptyRange
  <2> QED BY <2>1, <2>2, <2>3 DEF Posted
<1>4. ASSUME NEW i \in Each PROVE phase[i] = "stopped" /\ (Outputs[i] = InFile => written[i] = Emission)
  BY <1>1 DEF Delivered
<1> QED BY <1>1, <1>3, <1>4 DEF Emission

LEMMA RunnerBegins == RInit => RunnerInv
<1> SUFFICES ASSUME RInit PROVE RunnerInv
  OBVIOUS
<1>1. <<>> \in Seq(Nat)
  BY EmptySeq
<1>2. RunnerTypeOK
  <2>1. run \in {"starting", "none"}
    BY DEF RInit
  <2>2. over \in BOOLEAN
    BY DEF RInit, Init
  <2>3. /\ phase \in [Each -> {"new", "started", "stopped"}]
        /\ buffer \in [Each -> Seq(Nat)]
        /\ written \in [Each -> Seq(Nat)]
        /\ refused \in [Each -> Seq(Nat)]
    BY <1>1 DEF RInit
  <2>4. at = 1 /\ emitted = 0 /\ samples = <<>> /\ batch = <<>>
    BY DEF RInit
  <2>5. at \in Nat \ {0} /\ emitted \in Nat
    BY <2>4
  <2> QED BY <1>1, <2>1, <2>2, <2>3, <2>4, <2>5 DEF RunnerTypeOK
<1>3. Ledger
  <2>1. run \in {"starting", "none"} /\ exit # 0 /\ samples = <<>>
    BY DEF RInit
  <2>2. \A i \in Each : Untouched(i)
    BY DEF RInit, Untouched
  <2> QED BY <2>1, <2>2 DEF Ledger
<1> QED BY <1>2, <1>3 DEF RunnerInv

(* Steps of the engine and of the streams move no sample; but the engine    *)
(* may still emit some before the run is over.                             *)
OutputsRest == UNCHANGED <<run, at, samples, batch, phase, buffer, written, refused, status, exit>>

LEMMA RestKeeps ==
  ASSUME RunnerInv, OutputsRest, emitted' \in Nat, over' \in BOOLEAN, over => over',
         over => emitted' = emitted
  PROVE  RunnerInv'
<1> USE DEF RunnerInv, OutputsRest
<1>1. RunnerTypeOK'
  BY DEF RunnerTypeOK
<1>2. CASE over
  <2>1. Emission' = Emission
    BY <1>2 DEF Emission
  <2>2. \A i \in Each : /\ Untouched(i)' <=> Untouched(i)
                        /\ Holds(i)' <=> Holds(i)
                        /\ Delivered(i)' <=> Delivered(i)
    BY <2>1 DEF Untouched, Holds, Posted, Delivered
  <2> QED BY <1>1, <1>2, <2>1, <2>2 DEF Ledger
<1>3. CASE ~over
  <2>1. run \in {"none", "starting", "waiting", "raised"}
    BY <1>3 DEF RunnerTypeOK, Ledger
  <2>2. \A i \in Each : Untouched(i)' <=> Untouched(i)
    BY DEF Untouched
  <2> QED BY <1>1, <2>1, <2>2 DEF Ledger
<1> QED BY <1>2, <1>3 DEF RunnerTypeOK

(* An exception ends it.                                                   *)
LEMMA RaisesKeeps ==
  ASSUME RunnerInv, Raises, UNCHANGED <<emitted, over, status>> PROVE RunnerInv'
<1>1. RunnerTypeOK'
  BY DEF RunnerInv, RunnerTypeOK, Raises
<1>2. Ledger'
  BY DEF Ledger, Raises
<1> QED BY <1>1, <1>2 DEF RunnerInv

(* The outputs are as they were.                                           *)
LEMMA OutputsSame ==
  ASSUME UNCHANGED <<emitted, phase, buffer, written, refused>>, NEW i \in Each
  PROVE  /\ Untouched(i)' <=> Untouched(i)
         /\ Holds(i)' <=> Holds(i)
         /\ Delivered(i)' <=> Delivered(i)
         /\ Emission' = Emission
<1>1. Emission' = Emission
  BY DEF Emission
<1> QED BY <1>1 DEF Untouched, Holds, Posted, Delivered

LEMMA StartOutputKeeps == RunnerInv /\ StartOutput => RunnerInv'
<1> SUFFICES ASSUME RunnerInv, StartOutput PROVE RunnerInv'
  OBVIOUS
<1> USE DEF RunnerInv
<1>0. Stays /\ UNCHANGED <<emitted, over, status>>
  BY DEF StartOutput, Stays, vars
<1>1. CASE Raises
  BY <1>0, <1>1, RaisesKeeps
<1>2. CASE ~Raises
  <2>1. /\ run = "starting" /\ at' = at + 1
        /\ phase' = [phase EXCEPT ![at] = "started"]
        /\ UNCHANGED <<run, samples, batch, buffer, written, refused, exit>>
    BY <1>2 DEF StartOutput
  <2>2. RunnerTypeOK'
    <3>1. phase' \in [Each -> {"new", "started", "stopped"}]
      BY <2>1 DEF RunnerTypeOK
    <3>2. at' \in Nat \ {0}
      BY <2>1 DEF RunnerTypeOK
    <3> QED BY <1>0, <2>1, <3>1, <3>2 DEF RunnerTypeOK
  <2>3. \A i \in Each : Untouched(i)' <=> Untouched(i)
    BY <2>1 DEF Untouched
  <2> QED BY <1>0, <2>1, <2>2, <2>3 DEF Ledger
<1> QED BY <1>1, <1>2

LEMMA AllStartedKeeps == RunnerInv /\ AllStarted => RunnerInv'
<1> SUFFICES ASSUME RunnerInv, AllStarted PROVE RunnerInv'
  OBVIOUS
<1> USE DEF RunnerInv
<1>0. /\ UNCHANGED <<emitted, over, status>> /\ run = "starting" /\ run' = "waiting"
      /\ UNCHANGED <<at, samples, batch, phase, buffer, written, refused, exit>>
  BY DEF AllStarted, Stays, vars
<1>1. RunnerTypeOK'
  BY <1>0 DEF RunnerTypeOK
<1>2. \A i \in Each : Untouched(i)' <=> Untouched(i)
  BY <1>0 DEF Untouched
<1> QED BY <1>0, <1>1, <1>2 DEF Ledger

LEMMA RunDoneKeeps == RunnerInv /\ RunDone => RunnerInv'
<1> SUFFICES ASSUME RunnerInv, RunDone PROVE RunnerInv'
  OBVIOUS
<1> USE DEF RunnerInv
<1>0. /\ UNCHANGED <<emitted, over, status>> /\ run = "waiting" /\ run' = "draining" /\ over
      /\ UNCHANGED <<at, samples, batch, phase, buffer, written, refused, exit>>
  BY DEF RunDone, CloseStream, vars
<1>1. RunnerTypeOK'
  BY <1>0 DEF RunnerTypeOK
<1>2. \A i \in Each : Untouched(i)' <=> Untouched(i)
  BY <1>0 DEF Untouched
<1> QED BY <1>0, <1>1, <1>2 DEF Ledger

(* buffer_samples() on the empty buffer of OutputManager.                  *)
LEMMA DrainedKeeps == RunnerInv /\ Drained => RunnerInv'
<1> SUFFICES ASSUME RunnerInv, Drained PROVE RunnerInv'
  OBVIOUS
<1> USE DEF RunnerInv
<1>0. UNCHANGED <<emitted, over, status>> /\ run = "draining"
  BY DEF Drained, Stays, vars
<1>1. CASE Raises
  BY <1>0, <1>1, RaisesKeeps
<1>2. CASE ~Raises
  <2>1. /\ run' = "flushing" /\ samples' = samples \o Emission
        /\ UNCHANGED <<at, batch, phase, buffer, written, refused, exit>>
    BY <1>2 DEF Drained, Emission
  <2>2. samples = <<>> /\ Emission \in Seq(Nat)
    BY <1>0, EmissionSeq DEF Ledger, RunnerTypeOK, Emission
  <2>3. samples' = Emission
    BY <2>1, <2>2, ConcatEmptySeq
  <2>4. RunnerTypeOK'
    BY <1>0, <2>1, <2>2, <2>3 DEF RunnerTypeOK
  <2>5. Emission' = Emission /\ \A i \in Each : Untouched(i)' <=> Untouched(i)
    BY <1>0, <2>1 DEF Untouched, Emission
  <2> QED BY <1>0, <2>1, <2>3, <2>4, <2>5 DEF Ledger
<1> QED BY <1>1, <1>2

(* flush() with samples, or without any; stop_all() finds none left.       *)
LEMMA BeginFlushKeeps == RunnerInv /\ BeginFlush => RunnerInv'
<1> SUFFICES ASSUME RunnerInv, BeginFlush PROVE RunnerInv'
  OBVIOUS
<1> USE DEF RunnerInv
<1>0. /\ UNCHANGED <<emitted, over, status, phase, buffer, written, refused, exit>>
      /\ run \in {"flushing", "stopall"}
  BY DEF BeginFlush, Stays, vars
<1>1. /\ Emission' = Emission
      /\ \A i \in Each : /\ Untouched(i)' <=> Untouched(i)
                         /\ Holds(i)' <=> Holds(i)
                         /\ Delivered(i)' <=> Delivered(i)
  BY <1>0, OutputsSame DEF Emission
<1>2. Each = 1 .. Len(Outputs) /\ \A i \in Each : i \in Nat /\ i >= 1
  BY RunnerAssumption, LenProperties DEF Each
<1>3. CASE run = "flushing" /\ samples = <<>>
  <2>1. run' = "stopall" /\ at' = 1 /\ UNCHANGED <<samples, batch>>
    BY <1>3 DEF BeginFlush, Flush
  <2>2. Emission = <<>>
    BY <1>3 DEF Ledger
  <2>3. \A i \in Each : Holds(i)
    BY <1>3, <2>2 DEF Ledger, Untouched, Holds, Posted
  <2>4. RunnerTypeOK'
    <3>1. at' \in Nat \ {0}
      BY <2>1
    <3> QED BY <1>0, <2>1, <3>1 DEF RunnerTypeOK
  <2> QED BY <1>0, <1>1, <1>3, <2>1, <2>3, <2>4 DEF Ledger
<1>4. CASE run = "flushing" /\ samples # <<>>
  <2>1. run' = "adding" /\ at' = 1 /\ batch' = samples /\ samples' = <<>>
    BY <1>4 DEF BeginFlush, Flush
  <2>2. RunnerTypeOK'
    <3>1. at' \in Nat \ {0}
      BY <2>1
    <3> QED BY <1>0, <2>1, <3>1, EmptySeq DEF RunnerTypeOK
  <2>3. batch' = Emission /\ \A i \in Each : Untouched(i) /\ ~(i < 1)
    BY <1>2, <1>4, <2>1 DEF Ledger
  <2> QED BY <1>0, <1>1, <1>4, <2>1, <2>2, <2>3 DEF Ledger
<1>5. CASE run = "stopall"
  <2>1. samples = <<>>
    BY <1>5 DEF Ledger
  <2>2. run' = "stopping" /\ at' = 1 /\ UNCHANGED <<samples, batch>>
    BY <1>5, <2>1 DEF BeginFlush, Flush
  <2>3. RunnerTypeOK'
    <3>1. at' \in Nat \ {0}
      BY <2>2
    <3> QED BY <1>0, <2>2, <3>1 DEF RunnerTypeOK
  <2>4. \A i \in Each : Holds(i) /\ ~(i < 1)
    BY <1>2, <1>5 DEF Ledger
  <2> QED BY <1>0, <1>1, <1>5, <2>1, <2>2, <2>3, <2>4 DEF Ledger
<1> QED BY <1>0, <1>3, <1>4, <1>5

LEMMA KindsOfOutput ==
  \A i \in Each : /\ Outputs[i] \in {Ignores, InFile, Posts}
                  /\ i \in 1 .. Len(Outputs)
  BY RunnerAssumption, LenProperties, ElementOfSeq DEF Each

LEMMA KindsDiffer == Ignores # InFile /\ Ignores # Posts /\ InFile # Posts
  BY DEF Ignores, InFile, Posts

(* add_samples() of the whole run to an output that has none yet.          *)
LEMMA AddKeeps ==
  ASSUME RunnerTypeOK, NEW i \in Each, Untouched(i), batch = Emission, Add(i),
         UNCHANGED <<emitted, batch>>
  PROVE  /\ Holds(i)'
         /\ buffer' \in [Each -> Seq(Nat)]
         /\ written' \in [Each -> Seq(Nat)]
         /\ refused' \in [Each -> Seq(Nat)]
         /\ \A j \in Each \ {i} : /\ buffer'[j] = buffer[j] /\ written'[j] = written[j]
                                  /\ refused'[j] = refused[j]
<1>1. /\ buffer[i] = <<>> /\ written[i] = <<>> /\ refused[i] = <<>>
      /\ Emission \in Seq(Nat) /\ <<>> \in Seq(Nat)
  BY EmissionSeq, EmptySeq DEF Untouched, Emission, RunnerTypeOK
<1>2. <<>> \o Emission = Emission
  BY <1>1, ConcatEmptySeq
<1>3. buffer[i] \o batch = Emission /\ written[i] \o Emission = Emission /\ refused[i] \o Emission = Emission
  BY <1>1, <1>2
<1>4. Emission' = Emission
  BY DEF Emission
<1>5. /\ buffer \in [Each -> Seq(Nat)] /\ written \in [Each -> Seq(Nat)]
      /\ refused \in [Each -> Seq(Nat)]
  BY DEF RunnerTypeOK
<1> HIDE DEF Emission
<1>6. CASE Outputs[i] = Ignores /\ UNCHANGED <<buffer, written, refused>>
  BY <1>5, <1>6, KindsDiffer DEF Holds
<1>7. CASE Keep(i) /\ Outputs[i] # Ignores
  <2>1. buffer' = [buffer EXCEPT ![i] = Emission] /\ UNCHANGED <<written, refused>>
    BY <1>3, <1>7 DEF Keep
  <2>2. buffer'[i] = Emission
    BY <1>5, <2>1
  <2>3. Holds(i)'
    BY <1>1, <1>4, <2>1, <2>2 DEF Holds
  <2> QED BY <1>1, <1>5, <2>1, <2>3
<1>8. CASE Post(i, buffer[i] \o batch) /\ Outputs[i] = Posts
  <2>1. /\ buffer' = [buffer EXCEPT ![i] = <<>>]
        /\ \/ written' = [written EXCEPT ![i] = Emission] /\ UNCHANGED refused
           \/ refused' = [refused EXCEPT ![i] = Emission] /\ UNCHANGED written
    BY <1>3, <1>8 DEF Post
  <2>2. /\ buffer'[i] = <<>>
        /\ \/ written'[i] = Emission /\ refused'[i] = <<>>
           \/ refused'[i] = Emission /\ written'[i] = <<>>
    BY <1>1, <1>5, <2>1
  <2>3. Holds(i)'
    BY <1>4, <1>8, <2>2, KindsDiffer DEF Holds, Posted
  <2>4. /\ buffer' \in [Each -> Seq(Nat)] /\ written' \in [Each -> Seq(Nat)]
        /\ refused' \in [Each -> Seq(Nat)]
    BY <1>1, <1>5, <2>1
  <2> QED BY <1>5, <2>1, <2>3, <2>4
<1> QED BY <1>6, <1>7, <1>8, KindsDiffer DEF Add, PostBatch

LEMMA AddSamplesKeeps == RunnerInv /\ AddSamples => RunnerInv'
<1> SUFFICES ASSUME RunnerInv, AddSamples PROVE RunnerInv'
  OBVIOUS
<1> USE DEF RunnerInv
<1>0. UNCHANGED <<emitted, over, status>> /\ run = "adding" /\ at <= Len(Outputs)
  BY DEF AddSamples, Stays, vars, Ledger
<1>1. CASE Raises
  BY <1>0, <1>1, RaisesKeeps
<1>2. CASE ~Raises
  <2>1. at' = at + 1 /\ Add(at) /\ UNCHANGED <<run, samples, batch, phase, exit>>
    BY <1>2 DEF AddSamples
  <2>2. at \in Each /\ at \in Nat \ {0}
    BY <1>0, RunnerAssumption, LenProperties DEF Each, RunnerTypeOK
  <2>3. batch = Emission /\ Untouched(at) /\ \A i \in Each : (i < at => Holds(i)) /\ (i >= at => Untouched(i))
    BY <1>0, <2>2 DEF Ledger
  <2>4. PICK k \in Each : k = at
    BY <2>2
  <2>5. /\ Holds(k)'
        /\ buffer' \in [Each -> Seq(Nat)]
        /\ written' \in [Each -> Seq(Nat)]
        /\ refused' \in [Each -> Seq(Nat)]
        /\ \A j \in Each \ {k} : /\ buffer'[j] = buffer[j] /\ written'[j] = written[j]
                                 /\ refused'[j] = refused[j]
    BY <1>0, <2>1, <2>3, <2>4, AddKeeps
  <2>6. at' \in Nat \ {0}
    BY <2>1, <2>2
  <2>7. RunnerTypeOK'
    BY <1>0, <2>1, <2>5, <2>6 DEF RunnerTypeOK
  <2>8. Emission' = Emission
    BY <1>0 DEF Emission
  <2>9. ASSUME NEW i \in Each PROVE (i < at' => Holds(i)') /\ (i >= at' => Untouched(i)')
    <3>0. i \in Nat
      BY KindsOfOutput
    <3>1. CASE i = k
      BY <2>1, <2>2, <2>4, <2>5, <3>1
    <3>2. CASE i # k
      <4>1. (Holds(i)' <=> Holds(i)) /\ (Untouched(i)' <=> Untouched(i))
        BY <2>5, <2>8, <3>2 DEF Holds, Posted, Untouched
      <4>2. (i < at' => i < at) /\ (i >= at' => i >= at)
        BY <2>1, <2>2, <2>4, <3>0, <3>2
      <4> QED BY <2>3, <4>1, <4>2
    <3> QED BY <3>1, <3>2
  <2> QED BY <1>0, <2>1, <2>3, <2>7, <2>8, <2>9 DEF Ledger
<1> QED BY <1>1, <1>2

LEMMA AllAddedKeeps == RunnerInv /\ AllAdded => RunnerInv'
<1> SUFFICES ASSUME RunnerInv, AllAdded PROVE RunnerInv'
  OBVIOUS
<1> USE DEF RunnerInv
<1>0. /\ UNCHANGED <<emitted, over, status, samples, batch, phase, buffer, written, refused, exit>>
      /\ run = "adding" /\ at > Len(Outputs) /\ run' = "stopall" /\ at' = 1
  BY DEF AllAdded, Stays, vars, Ledger
<1>1. RunnerTypeOK'
  <2>1. at' \in Nat \ {0}
    BY <1>0
  <2> QED BY <1>0, <2>1 DEF RunnerTypeOK
<1>2. \A i \in Each : Holds(i)
  <2>1. Len(Outputs) \in Nat /\ at \in Nat
    BY RunnerAssumption, LenProperties DEF RunnerTypeOK
  <2>2. \A i \in Each : i < at
    BY <1>0, <2>1, KindsOfOutput
  <2> QED BY <1>0, <2>2 DEF Ledger
<1>3. \A i \in Each : Holds(i)'
  BY <1>0, <1>2, OutputsSame
<1> QED BY <1>0, <1>1, <1>3 DEF Ledger

(* stop() of an output that holds every sample.                            *)
LEMMA StopKeeps ==
  ASSUME RunnerTypeOK, NEW i \in Each, Holds(i), Stop(i),
         phase' = [phase EXCEPT ![i] = "stopped"], UNCHANGED emitted
  PROVE  /\ Delivered(i)'
         /\ buffer' \in [Each -> Seq(Nat)]
         /\ written' \in [Each -> Seq(Nat)]
         /\ refused' \in [Each -> Seq(Nat)]
         /\ \A j \in Each \ {i} : /\ buffer'[j] = buffer[j] /\ written'[j] = written[j]
                                  /\ refused'[j] = refused[j] /\ phase'[j] = phase[j]
<1>1. Emission \in Seq(Nat) /\ <<>> \in Seq(Nat)
  BY EmissionSeq, EmptySeq DEF Emission, RunnerTypeOK
<1>2. <<>> \o Emission = Emission /\ Emission' = Emission
  BY <1>1, ConcatEmptySeq DEF Emission
<1>3. /\ buffer \in [Each -> Seq(Nat)] /\ written \in [Each -> Seq(Nat)]
      /\ refused \in [Each -> Seq(Nat)]
  BY DEF RunnerTypeOK
<1>4. phase'[i] = "stopped" /\ \A j \in Each \ {i} : phase'[j] = phase[j]
  BY DEF RunnerTypeOK
<1> HIDE DEF Emission
<1>5. CASE Outputs[i] = Ignores /\ UNCHANGED <<buffer, written, refused>>
  BY <1>3, <1>4, <1>5, KindsDiffer DEF Delivered
<1>6. CASE Outputs[i] = InFile /\ WriteFile(i)
  <2>1. written' = [written EXCEPT ![i] = Emission] /\ UNCHANGED <<buffer, refused>>
    BY <1>6 DEF WriteFile, Holds
  <2>2. written'[i] = Emission'
    BY <1>2, <1>3, <2>1
  <2>3. Delivered(i)'
    BY <1>4, <1>6, <2>2, KindsDiffer DEF Delivered
  <2> QED BY <1>1, <1>3, <1>4, <2>1, <2>3
<1>7. CASE Outputs[i] = Posts /\ buffer[i] = <<>> /\ PostRest(i)
  <2>1. UNCHANGED <<buffer, written, refused>>
    BY <1>7 DEF PostRest
  <2>2. Posted(i)
    BY <1>7, KindsDiffer DEF Holds, Posted
  <2>3. Posted(i)'
    BY <1>2, <2>1, <2>2 DEF Posted
  <2>4. Delivered(i)'
    BY <1>4, <1>7, <2>3, KindsDiffer DEF Delivered
  <2> QED BY <1>3, <1>4, <2>1, <2>4
<1>8. CASE Outputs[i] = Posts /\ buffer[i] # <<>> /\ PostRest(i)
  <2>1. buffer[i] = Emission /\ written[i] = <<>> /\ refused[i] = <<>>
    BY <1>8 DEF Holds
  <2>2. /\ buffer' = [buffer EXCEPT ![i] = <<>>]
        /\ \/ written' = [written EXCEPT ![i] = Emission] /\ UNCHANGED refused
           \/ refused' = [refused EXCEPT ![i] = Emission] /\ UNCHANGED written
    BY <1>2, <1>8, <2>1 DEF PostRest, Post
  <2>3. Posted(i)'
    <3>1. \/ written'[i] = Emission /\ refused'[i] = <<>>
          \/ refused'[i] = Emission /\ written'[i] = <<>>
      BY <1>3, <2>1, <2>2
    <3> QED BY <1>2, <3>1 DEF Posted
  <2>4. Delivered(i)'
    BY <1>4, <1>8, <2>3, KindsDiffer DEF Delivered
  <2>5. /\ buffer' \in [Each -> Seq(Nat)] /\ written' \in [Each -> Seq(Nat)]
        /\ refused' \in [Each -> Seq(Nat)]
    BY <1>1, <1>3, <2>2
  <2> QED BY <1>3, <1>4, <2>2, <2>4, <2>5
<1> QED BY <1>5, <1>6, <1>7, <1>8 DEF Stop

LEMMA StopOutputKeeps == RunnerInv /\ StopOutput => RunnerInv'
<1> SUFFICES ASSUME RunnerInv, StopOutput PROVE RunnerInv'
  OBVIOUS
<1> USE DEF RunnerInv
<1>0. UNCHANGED <<emitted, over, status>> /\ run = "stopping" /\ at <= Len(Outputs)
  BY DEF StopOutput, Stays, vars
<1>1. CASE Raises
  BY <1>0, <1>1, RaisesKeeps
<1>2. CASE ~Raises
  <2>1. /\ at' = at + 1 /\ Stop(at) /\ phase' = [phase EXCEPT ![at] = "stopped"]
        /\ UNCHANGED <<run, samples, batch, exit>>
    BY <1>2 DEF StopOutput
  <2>2. at \in Each /\ at \in Nat \ {0}
    BY <1>0, RunnerAssumption, LenProperties DEF Each, RunnerTypeOK
  <2>3. Holds(at) /\ \A i \in Each : (i < at => Delivered(i)) /\ (i >= at => Holds(i))
    BY <1>0, <2>2 DEF Ledger
  <2>4. PICK k \in Each : k = at
    BY <2>2
  <2>5. /\ Delivered(k)'
        /\ buffer' \in [Each -> Seq(Nat)]
        /\ written' \in [Each -> Seq(Nat)]
        /\ refused' \in [Each -> Seq(Nat)]
        /\ \A j \in Each \ {k} : /\ buffer'[j] = buffer[j] /\ written'[j] = written[j]
                                 /\ refused'[j] = refused[j] /\ phase'[j] = phase[j]
    BY <1>0, <2>1, <2>3, <2>4, StopKeeps
  <2>6. at' \in Nat \ {0} /\ phase' \in [Each -> {"new", "started", "stopped"}]
    <3>1. at' \in Nat \ {0}
      BY <2>1, <2>2
    <3>2. phase' \in [Each -> {"new", "started", "stopped"}]
      BY <2>1 DEF RunnerTypeOK
    <3> QED BY <3>1, <3>2
  <2>7. RunnerTypeOK'
    BY <1>0, <2>1, <2>5, <2>6 DEF RunnerTypeOK
  <2>8. Emission' = Emission
    BY <1>0 DEF Emission
  <2>9. ASSUME NEW i \in Each PROVE (i < at' => Delivered(i)') /\ (i >= at' => Holds(i)')
    <3>0. i \in Nat
      BY KindsOfOutput
    <3>1. CASE i = k
      BY <2>1, <2>2, <2>4, <2>5, <3>1
    <3>2. CASE i # k
      <4>1. (Delivered(i)' <=> Delivered(i)) /\ (Holds(i)' <=> Holds(i))
        BY <2>5, <2>8, <3>2 DEF Holds, Posted, Delivered
      <4>2. (i < at' => i < at) /\ (i >= at' => i >= at)
        BY <2>1, <2>2, <2>4, <3>0, <3>2
      <4> QED BY <2>3, <4>1, <4>2
    <3> QED BY <3>1, <3>2
  <2> QED BY <1>0, <2>1, <2>7, <2>9 DEF Ledger
<1> QED BY <1>1, <1>2

LEMMA FinishKeeps == RunnerInv /\ Finish => RunnerInv'
<1> SUFFICES ASSUME RunnerInv, Finish PROVE RunnerInv'
  OBVIOUS
<1> USE DEF RunnerInv
<1>0. UNCHANGED <<emitted, over>> /\ run = "stopping" /\ at > Len(Outputs)
  BY DEF Finish, vars
<1>1. CASE Raises /\ UNCHANGED status
  BY <1>0, <1>1, RaisesKeeps
<1>2. CASE /\ run' = "done" /\ status' \in Statuses /\ exit' = ExitCode(status')
           /\ UNCHANGED <<at, samples, batch, phase, buffer, written, refused>>
  <2>1. RunnerTypeOK'
    BY <1>0, <1>2 DEF RunnerTypeOK
  <2>2. \A i \in Each : Delivered(i)
    <3>1. Len(Outputs) \in Nat /\ at \in Nat
      BY RunnerAssumption, LenProperties DEF RunnerTypeOK
    <3>2. \A i \in Each : i < at
      BY <1>0, <3>1, KindsOfOutput
    <3> QED BY <1>0, <3>2 DEF Ledger
  <2>3. \A i \in Each : Delivered(i)'
    BY <1>0, <1>2, <2>2, OutputsSame
  <2>4. exit' = 0 => status' = "passed"
    BY <1>2 DEF Statuses, ExitCode
  <2> QED BY <1>0, <1>2, <2>1, <2>3, <2>4 DEF Ledger
<1> QED BY <1>1, <1>2 DEF Finish

LEMMA RunnerSteps == RunnerInv /\ [RNext]_allvars => RunnerInv'
<1> SUFFICES ASSUME RunnerInv, [RNext]_allvars PROVE RunnerInv'
  OBVIOUS
<1>0. over \in BOOLEAN /\ emitted \in Nat
  BY DEF RunnerInv, RunnerTypeOK
<1>1. CASE Complete
  <2>1. OutputsRest /\ ~over /\ over' = TRUE /\ emitted' \in Nat
    BY <1>1, RunnerAssumption DEF Complete, OutputsRest, PublishEnd
  <2> QED BY <2>1, RestKeeps
<1>2. CASE Engine
  BY <1>0, <1>2, RestKeeps DEF Engine, rvars, OutputsRest, Publish, PublishThreadsafe, RunPending
<1>3. ASSUME NEW c \in {Log, Progress}, TaskOpens(c) PROVE RunnerInv'
  BY <1>0, <1>3, RestKeeps DEF TaskOpens, Opens, OpenPrimary, OpenOwn, OutputsRest
<1>4. ASSUME NEW c \in {Log, Progress}, TaskReads(c) PROVE RunnerInv'
  BY <1>0, <1>4, RestKeeps DEF TaskReads, Yield, EndStream, OutputsRest
<1>5. ASSUME NEW c \in {Log, Progress}, Cancelled(c) PROVE RunnerInv'
  BY <1>0, <1>5, RestKeeps DEF Cancelled, CloseStream, vars, OutputsRest
<1>6. CASE LogFails
  BY <1>0, <1>6, RestKeeps DEF LogFails, CloseStream, vars, OutputsRest
<1>7. ASSUME NEW c \in Consumer, OtherReader(c) PROVE RunnerInv'
  BY <1>0, <1>7, RestKeeps
     DEF OtherReader, Opens, OpenPrimary, OpenOwn, Read, Yield, EndStream, CloseStream, rvars, OutputsRest
<1>8. CASE RunTest
  BY <1>8, StartOutputKeeps, AllStartedKeeps, RunDoneKeeps, DrainedKeeps, BeginFlushKeeps,
     AddSamplesKeeps, AllAddedKeeps, StopOutputKeeps, FinishKeeps DEF RunTest
<1>9. CASE UNCHANGED allvars
  BY <1>0, <1>9, RestKeeps DEF allvars, vars, rvars, OutputsRest
<1> QED BY <1>1, <1>2, <1>3, <1>4, <1>5, <1>6, <1>7, <1>8, <1>9 DEF RNext

(* Exit code 0 means that the run has passed and that every output, of      *)
(* whatever kind and in whatever order, has been stopped with all samples.  *)
THEOREM ExitZeroMeansDelivered == RSpec => []SuccessMeansDelivered
<1>1. RunnerInv => SuccessMeansDelivered
  BY LedgerMeansDelivered DEF RunnerInv
<1> QED BY RunnerBegins, RunnerSteps, <1>1, PTL DEF RSpec
=============================================================================
