------------------------------ MODULE McpProofs ------------------------------
(***************************************************************************)
(* Proofs about MCP.  About RunRegistry, for any runs, queue sizes and       *)
(* numbers of events: a run shown as completed is recorded with its status   *)
(* and all of its events, the tools agree about it, and a run that is alone  *)
(* gets the SIGINT.  About McpSwap, for any CLIs, processes, commands and    *)
(* mishaps: originals stay recoverable, and a revert of everything that      *)
(* succeeds restores them.                                                 *)
(***************************************************************************)
EXTENDS RunRegistry, McpSwap, SequenceTheorems, WellFoundedInduction, TLAPS

-----------------------------------------------------------------------------
(* The loop's queue of ready tasks.                                        *)

Entry == Tasks \X Run

Holds(x, s) == \E i \in 1 .. Len(s) : s[i] = x
Distinct(s) == \A i, j \in 1 .. Len(s) : s[i] = s[j] => i = j

(* Whoever is b in s has an a before it.                                   *)
Ahead(a, b, s) == \A j \in 1 .. Len(s) : s[j] = b => \E i \in 1 .. j - 1 : s[i] = a

LEMMA NoneHeld ==
  ASSUME NEW E
  PROVE  <<>> \in Seq(E) /\ Distinct(<<>>) /\ \A x : ~Holds(x, <<>>)
  BY DEF Distinct, Holds

LEMMA OneHeld ==
  ASSUME NEW E, NEW x \in E
  PROVE  <<x>> \in Seq(E) /\ Distinct(<<x>>) /\ \A y : Holds(y, <<x>>) <=> y = x
  <1>1. <<x>> \in Seq(E) /\ Len(<<x>>) = 1 /\ <<x>>[1] = x
    OBVIOUS
  <1> QED BY <1>1 DEF Distinct, Holds

LEMMA Joining ==
  ASSUME NEW E, NEW s \in Seq(E), NEW u \in Seq(E)
  PROVE  /\ s \o u \in Seq(E)
         /\ \A x : Holds(x, s \o u) <=> Holds(x, s) \/ Holds(x, u)
         /\ (Distinct(s) /\ Distinct(u) /\ \A x : ~(Holds(x, s) /\ Holds(x, u))) => Distinct(s \o u)
         /\ \A a, b : Ahead(a, b, s) /\ ~Holds(b, u) => Ahead(a, b, s \o u)
         /\ \A a, b : Holds(a, s) /\ ~Holds(b, s) => Ahead(a, b, s \o u)
  <1> PICK w : w = s \o u OBVIOUS
  <1>1. /\ w \in Seq(E) /\ Len(w) = Len(s) + Len(u)
        /\ \A i \in 1 .. Len(s) : w[i] = s[i]
        /\ \A i \in 1 .. Len(u) : w[Len(s) + i] = u[i]
        /\ Len(s) \in Nat /\ Len(u) \in Nat
    OBVIOUS
  <1>2. \A i \in 1 .. Len(w) : i \in 1 .. Len(s) \/ (i - Len(s) \in 1 .. Len(u) /\ w[i] = u[i - Len(s)])
    <2> SUFFICES ASSUME NEW i \in 1 .. Len(w), i > Len(s)
                 PROVE  i - Len(s) \in 1 .. Len(u) /\ w[i] = u[i - Len(s)]
      BY <1>1
    <2>1. i - Len(s) \in 1 .. Len(u) /\ Len(s) + (i - Len(s)) = i
      BY <1>1
    <2> QED BY <1>1, <2>1
  <1>3. \A x : Holds(x, w) <=> Holds(x, s) \/ Holds(x, u)
    <2>1. ASSUME NEW x, Holds(x, w) PROVE Holds(x, s) \/ Holds(x, u)
      BY <1>1, <1>2, <2>1 DEF Holds
    <2>2. ASSUME NEW x, Holds(x, s) PROVE Holds(x, w)
      BY <1>1, <2>2 DEF Holds
    <2>3. ASSUME NEW x, Holds(x, u) PROVE Holds(x, w)
      <3> PICK i \in 1 .. Len(u) : u[i] = x
        BY <2>3 DEF Holds
      <3>1. Len(s) + i \in 1 .. Len(w) /\ w[Len(s) + i] = x
        BY <1>1
      <3> QED BY <3>1 DEF Holds
    <2> QED BY <2>1, <2>2, <2>3
  <1>4. ASSUME Distinct(s), Distinct(u), \A x : ~(Holds(x, s) /\ Holds(x, u)) PROVE Distinct(w)
    <2> SUFFICES ASSUME NEW i \in 1 .. Len(w), NEW j \in 1 .. Len(w), w[i] = w[j] PROVE i = j
      BY DEF Distinct
    <2>1. CASE i \in 1 .. Len(s) /\ j \in 1 .. Len(s)
      BY <1>1, <1>4, <2>1 DEF Distinct
    <2>2. CASE i \notin 1 .. Len(s) /\ j \notin 1 .. Len(s)
      <3>1. i - Len(s) = j - Len(s)
        BY <1>2, <1>4, <2>2 DEF Distinct
      <3> QED BY <1>1, <3>1
    <2>3. CASE i \in 1 .. Len(s) /\ j \notin 1 .. Len(s)
      BY <1>1, <1>2, <1>4, <2>3, ZenonT(60) DEF Holds
    <2>4. CASE i \notin 1 .. Len(s) /\ j \in 1 .. Len(s)
      BY <1>1, <1>2, <1>4, <2>4, ZenonT(60) DEF Holds
    <2> QED BY <2>1, <2>2, <2>3, <2>4
  <1>5. ASSUME NEW a, NEW b, Ahead(a, b, s), ~Holds(b, u) PROVE Ahead(a, b, w)
    <2> SUFFICES ASSUME NEW j \in 1 .. Len(w), w[j] = b PROVE \E i \in 1 .. j - 1 : w[i] = a
      BY DEF Ahead
    <2>1. j \in 1 .. Len(s) /\ s[j] = b
      BY <1>1, <1>2, <1>5 DEF Holds
    <2> PICK i \in 1 .. j - 1 : s[i] = a
      BY <1>5, <2>1 DEF Ahead
    <2>2. i \in 1 .. Len(s)
      BY <1>1, <2>1
    <2> QED BY <1>1, <2>2
  <1>6. ASSUME NEW a, NEW b, Holds(a, s), ~Holds(b, s) PROVE Ahead(a, b, w)
    <2> SUFFICES ASSUME NEW j \in 1 .. Len(w), w[j] = b PROVE \E i \in 1 .. j - 1 : w[i] = a
      BY DEF Ahead
    <2> PICK i \in 1 .. Len(s) : s[i] = a
      BY <1>6 DEF Holds
    <2>1. j \notin 1 .. Len(s)
      BY <1>1, <1>6 DEF Holds
    <2>2. i \in 1 .. j - 1
      BY <1>1, <2>1
    <2> QED BY <1>1, <2>2
  <1> QED BY <1>1, <1>3, <1>4, <1>5, <1>6

LEMMA Leaving ==
  ASSUME NEW E, NEW s \in Seq(E), s # <<>>, Distinct(s)
  PROVE  /\ Tail(s) \in Seq(E) /\ Head(s) \in E /\ Distinct(Tail(s)) /\ Holds(Head(s), s)
         /\ \A x : Holds(x, Tail(s)) <=> Holds(x, s) /\ x # Head(s)
         /\ \A a, b : Ahead(a, b, s) /\ a # Head(s) => Ahead(a, b, Tail(s))
         /\ \A a : ~Ahead(a, Head(s), s)
  <1> PICK w : w = Tail(s) OBVIOUS
  <1> PICK h : h = Head(s) OBVIOUS
  <1>1. /\ w \in Seq(E) /\ h \in E /\ h = s[1] /\ Len(w) = Len(s) - 1 /\ Len(s) \in Nat \ {0}
        /\ \A i \in 1 .. Len(w) : w[i] = s[i + 1]
    OBVIOUS
  <1>2. Distinct(w)
    <2> SUFFICES ASSUME NEW i \in 1 .. Len(w), NEW j \in 1 .. Len(w), w[i] = w[j] PROVE i = j
      BY DEF Distinct
    <2>1. i + 1 \in 1 .. Len(s) /\ j + 1 \in 1 .. Len(s) /\ s[i + 1] = s[j + 1]
      BY <1>1
    <2>2. i + 1 = j + 1
      BY <2>1 DEF Distinct
    <2> QED BY <2>2
  <1>3. ASSUME NEW x, Holds(x, w) PROVE Holds(x, s) /\ x # h
    <2> PICK i \in 1 .. Len(w) : w[i] = x
      BY <1>3 DEF Holds
    <2>1. i + 1 \in 1 .. Len(s) /\ s[i + 1] = x /\ 1 \in 1 .. Len(s) /\ i + 1 # 1
      BY <1>1
    <2>2. Holds(x, s)
      BY <2>1 DEF Holds
    <2>3. x # s[1]
      BY <2>1 DEF Distinct
    <2> QED BY <1>1, <2>2, <2>3
  <1>4. ASSUME NEW x, Holds(x, s), x # h PROVE Holds(x, w)
    <2> PICK i \in 1 .. Len(s) : s[i] = x
      BY <1>4 DEF Holds
    <2>1. i # 1
      BY <1>1, <1>4
    <2>2. i - 1 \in 1 .. Len(w) /\ (i - 1) + 1 = i
      BY <1>1, <2>1
    <2>3. w[i - 1] = x
      BY <1>1, <2>2
    <2> QED BY <2>2, <2>3 DEF Holds
  <1>5. ASSUME NEW a, NEW b, Ahead(a, b, s), a # h PROVE Ahead(a, b, w)
    <2> SUFFICES ASSUME NEW j \in 1 .. Len(w), w[j] = b PROVE \E i \in 1 .. j - 1 : w[i] = a
      BY DEF Ahead
    <2>1. j + 1 \in 1 .. Len(s) /\ s[j + 1] = b
      BY <1>1
    <2> PICK i \in 1 .. (j + 1) - 1 : s[i] = a
      BY <1>5, <2>1 DEF Ahead
    <2>2. i # 1
      BY <1>1, <1>5
    <2>3. i - 1 \in 1 .. j - 1 /\ i - 1 \in 1 .. Len(w) /\ (i - 1) + 1 = i
      BY <1>1, <2>2
    <2>4. w[i - 1] = a
      BY <1>1, <2>3
    <2> QED BY <2>3, <2>4
  <1>6. Holds(h, s) /\ \A a : ~Ahead(a, h, s)
    BY <1>1 DEF Holds, Ahead
  <1> QED BY <1>1, <1>2, <1>3, <1>4, <1>5, <1>6
-----------------------------------------------------------------------------
(* The invariant: of each run, on its own.                                 *)

TaskStates == {"none", "new", "waiting", "ready", "running", "closing", "done"}
Runnable == {"new", "ready", "closing"}
Item   == {Event, None}

RegistryTypeOK ==
  /\ ready \in Seq(Entry) /\ Distinct(ready)
  /\ task \in [Run -> [Tasks -> TaskStates]]
  /\ outcome \in [Run -> {"none", "passed", "stopped", "raised"}]
  /\ queue \in [Run -> Seq(Item)] /\ lost \in [Run -> BOOLEAN]
  /\ published \in [Run -> Nat] /\ events \in [Run -> Nat]
  /\ result \in [Run -> {"none", "passed", "stopped"}]

(* The tasks that are to run are on the loop's queue, and no others.        *)
Entries(r) == \A t \in Tasks : task[r][t] \in Runnable <=> Holds(<<t, r>>, ready)

(* A run that shuts down comes after the tasks that were created with it.   *)
InOrder(r) ==
  task[r]["run"] = "closing" =>
    \A t \in Tasks : task[r][t] = "new" => Ahead(<<t, r>>, <<"run", r>>, ready)

(* How far the tasks are: one is awaited by the next, and is done before it. *)
Stages(r) ==
  LET run == task[r]["run"]
      wait == task[r]["wait"]
      drain == task[r]["drain"]
      complete == task[r]["complete"]
  IN  /\ run \in {"none", "new", "running", "closing", "done"}
      /\ run = "none" <=> wait = "none"
      /\ run = "none" <=> drain = "none"
      /\ run = "none" <=> complete = "none"
      /\ run = "done" <=> outcome[r] # "none"
      /\ run = "done" => wait \in {"ready", "done"} /\ drain # "new" /\ complete # "new"
      /\ run # "done" => wait \notin {"ready", "done"}
      /\ {wait, drain, complete} \cap {"running", "closing"} = {}
      /\ wait = "done" <=> complete \in {"ready", "done"}
      /\ run = "none" => r \notin runs /\ r \notin runtime /\ result[r] = "none"
      /\ run # "none" => r \in runs /\ (r \in runtime <=> result[r] = "none")
      /\ result[r] # "none" => complete = "done" /\ result[r] = outcome[r]

(* Where the last event is, as long as none was lost: still to come, or on   *)
(* the queue in front of the None with the drain ahead of the wait, or read. *)
ToCome(r) ==
  /\ outcome[r] = "none" /\ task[r]["drain"] # "done"
  /\ \A i \in 1 .. Len(queue[r]) : queue[r][i] # None
  /\ events[r] + Len(queue[r]) = published[r]

Underway(r) ==
  /\ outcome[r] # "none" /\ task[r]["drain"] = "ready" /\ task[r]["wait"] = "ready"
  /\ Ahead(<<"drain", r>>, <<"wait", r>>, ready)
  /\ \E k \in 1 .. Len(queue[r]) :
       /\ queue[r][k] = None /\ events[r] + k = published[r] + 1
       /\ \A i \in 1 .. Len(queue[r]) : queue[r][i] = None => i = k

Arrived(r) ==
  outcome[r] # "none" /\ task[r]["drain"] = "done" /\ events[r] = published[r]

Delivered(r) == lost[r] \/ ToCome(r) \/ Underway(r) \/ Arrived(r)

RunOK(r) == Entries(r) /\ InOrder(r) /\ Stages(r) /\ Delivered(r)

Recorded == RegistryTypeOK /\ \A r \in Run : RunOK(r)

-----------------------------------------------------------------------------
(* Steps, by what they do to the loop and to the queue of a run.            *)

LEMMA MinOfTwo ==
  ASSUME NEW a \in Nat, NEW b \in Nat
  PROVE  Min({a, b}) \in {a, b} /\ Min({a, b}) <= a /\ Min({a, b}) <= b
  BY DEF Min

LEMMA PrefixIsTyped ==
  ASSUME NEW S, NEW s \in Seq(S), NEW n \in 0 .. Len(s)
  PROVE  SubSeq(s, 1, n) \in Seq(S)
  OBVIOUS

LEMMA Appended ==
  ASSUME NEW S, NEW s \in Seq(S), NEW u \in Seq(S), NEW w, w = s \o u
  PROVE  /\ Len(w) = Len(s) + Len(u)
         /\ \A i \in 1 .. Len(s) : w[i] = s[i]
         /\ \A i \in 1 .. Len(u) : w[Len(s) + i] = u[i]
  OBVIOUS

(* What is put on the queue of a run: all of it, or something is lost.      *)
LEMMA PutIs ==
  ASSUME RegistryTypeOK, NEW r \in Run, NEW items \in Seq(Item), Put(r, items)
  PROVE  /\ queue' \in [Run -> Seq(Item)] /\ lost' \in [Run -> BOOLEAN]
         /\ \A q \in Run : q # r => queue'[q] = queue[q] /\ lost'[q] = lost[q]
         /\ ~lost'[r] => ~lost[r]
         /\ task[r]["drain"] = "done" => queue'[r] = queue[r]
         /\ (task[r]["drain"] # "done" /\ ~lost'[r]) => queue'[r] = queue[r] \o items
  <1> PICK s : s = queue[r] \o items OBVIOUS
  <1>1. queue[r] \in Seq(Item) /\ lost[r] \in BOOLEAN
    BY DEF RegistryTypeOK
  <1>2. s \in Seq(Item) /\ Len(s) = Len(queue[r]) + Len(items) /\ Len(s) \in Nat
    BY <1>1
  <1> PICK n : n = Min({MaxSize, Len(s)}) OBVIOUS
  <1>3. n \in Nat /\ n <= Len(s) /\ (Len(s) <= MaxSize => n = Len(s))
    <2>1. n \in {MaxSize, Len(s)} /\ n <= MaxSize /\ n <= Len(s) /\ MaxSize \in Nat
      BY <1>2, MinOfTwo, RunRegistryAssumption
    <2> QED BY <1>2, <2>1
  <1>4. SubSeq(s, 1, n) \in Seq(Item) /\ (n = Len(s) => SubSeq(s, 1, n) = s)
    <2>1. n \in 0 .. Len(s)
      BY <1>2, <1>3
    <2>2. SubSeq(s, 1, n) \in Seq(Item)
      BY <1>2, <2>1, PrefixIsTyped
    <2> QED BY <1>2, <2>2, SubSeqFull
  <1>5. queue' = [queue EXCEPT ![r] = Queued(r, items)]
    BY DEF Put
  <1>6. Queued(r, items) = IF task[r]["drain"] = "done" THEN queue[r] ELSE SubSeq(s, 1, n)
    BY <1>2 DEF Queued
  <1>7. lost' = [lost EXCEPT ![r] = @ \/ (task[r]["drain"] # "done" /\ Len(queue[r]) + Len(items) > MaxSize)]
    BY DEF Put
  <1>8. Queued(r, items) \in Seq(Item)
    BY <1>1, <1>4, <1>6
  <1>9. queue' \in [Run -> Seq(Item)] /\ queue'[r] = Queued(r, items)
        /\ \A q \in Run : q # r => queue'[q] = queue[q]
    BY <1>5, <1>8 DEF RegistryTypeOK
  <1>10. /\ DOMAIN lost' = Run /\ \A q \in Run : q # r => lost'[q] = lost[q]
         /\ lost'[r] <=> (lost[r] \/ (task[r]["drain"] # "done" /\ Len(queue[r]) + Len(items) > MaxSize))
    BY <1>7, Zenon DEF RegistryTypeOK
  <1>11. lost' \in [Run -> BOOLEAN]
    BY <1>7, Zenon DEF RegistryTypeOK
  <1>12. ~lost'[r] => task[r]["drain"] = "done" \/ n = Len(s)
    <2>1. ~(Len(queue[r]) + Len(items) > MaxSize) => Len(s) <= MaxSize
      BY <1>1, <1>2, RunRegistryAssumption
    <2> QED BY <1>3, <1>10, <2>1
  <1> QED BY <1>4, <1>6, <1>9, <1>10, <1>11, <1>12

LEMMA WokenIs ==
  ASSUME NEW tasks \in [Run -> [Tasks -> TaskStates]], NEW r \in Run, NEW t \in Tasks
  PROVE  /\ Woken(r, t, tasks) \in [Run -> [Tasks -> TaskStates]]
         /\ \A q \in Run : q # r => Woken(r, t, tasks)[q] = tasks[q]
         /\ \A x \in Tasks : x # t => Woken(r, t, tasks)[r][x] = tasks[r][x]
         /\ Woken(r, t, tasks)[r][t] = IF tasks[r][t] = "waiting" THEN "ready" ELSE tasks[r][t]
  BY DEF Woken, TaskStates

(* A task that waits is put at the end of the loop's queue.                 *)
LEMMA WakesIs ==
  ASSUME NEW r \in Run, NEW t \in Tasks, NEW s \in Seq(Entry), Distinct(s),
         task[r][t] = "waiting" => ~Holds(<<t, r>>, s),
         NEW w, w = s \o Wakes(r, t)
  PROVE  /\ w \in Seq(Entry) /\ Distinct(w)
         /\ \A x : Holds(x, w) <=> Holds(x, s) \/ (x = <<t, r>> /\ task[r][t] = "waiting")
         /\ \A a, b : Ahead(a, b, s) /\ b # <<t, r>> => Ahead(a, b, w)
         /\ \A a, b : Holds(a, s) /\ ~Holds(b, s) => Ahead(a, b, w)
  <1> PICK e : e = <<t, r>> OBVIOUS
  <1>1. e \in Entry
    BY DEF Entry
  <1> PICK u : u = Wakes(r, t) OBVIOUS
  <1>2. CASE task[r][t] = "waiting"
    <2>1. u = <<e>>
      BY <1>2 DEF Wakes
    <2>2. u \in Seq(Entry) /\ Distinct(u) /\ \A y : Holds(y, u) <=> y = e
      BY <1>1, <2>1, OneHeld, ZenonT(60)
    <2> QED BY <1>2, <2>2, Joining, ZenonT(60)
  <1>3. CASE task[r][t] # "waiting"
    <2>1. u = <<>>
      BY <1>3 DEF Wakes
    <2>2. u \in Seq(Entry) /\ Distinct(u) /\ \A y : ~Holds(y, u)
      BY <2>1, NoneHeld
    <2> QED BY <1>3, <2>2, Joining
  <1> QED BY <1>2, <1>3

(* The first item wakes the drain.                                         *)
LEMMA WakesDrainIs ==
  ASSUME RegistryTypeOK, NEW r \in Run, Entries(r), WakesDrain(r)
  PROVE  /\ ready' \in Seq(Entry) /\ Distinct(ready') /\ task' \in [Run -> [Tasks -> TaskStates]]
         /\ \A q \in Run : q # r => task'[q] = task[q]
         /\ \A t \in Tasks : t # "drain" => task'[r][t] = task[r][t]
         /\ task'[r]["drain"] = IF Drains(r) /\ task[r]["drain"] = "waiting" THEN "ready" ELSE task[r]["drain"]
         /\ \A t, q : Holds(<<t, q>>, ready') <=>
              Holds(<<t, q>>, ready) \/ (t = "drain" /\ q = r /\ Drains(r) /\ task[r]["drain"] = "waiting")
         /\ \A q : Ahead(<<"drain", q>>, <<"wait", q>>, ready) => Ahead(<<"drain", q>>, <<"wait", q>>, ready')
         /\ \A a, q : Ahead(a, <<"run", q>>, ready) => Ahead(a, <<"run", q>>, ready')
  <1>1. "drain" \in Tasks /\ task \in [Run -> [Tasks -> TaskStates]] /\ ready \in Seq(Entry) /\ Distinct(ready)
    BY DEF RegistryTypeOK, Tasks
  <1> PICK s : s = ready OBVIOUS
  <1>2. CASE Drains(r)
    <2>1. task' = Woken(r, "drain", task) /\ ready' = s \o Wakes(r, "drain")
      BY <1>2 DEF WakesDrain
    <2>2. task[r]["drain"] = "waiting" => ~Holds(<<"drain", r>>, s)
      BY <1>1 DEF Entries, Runnable
    <2> PICK w : w = s \o Wakes(r, "drain") OBVIOUS
    <2>3. /\ w \in Seq(Entry) /\ Distinct(w)
          /\ \A x : Holds(x, w) <=> Holds(x, s) \/ (x = <<"drain", r>> /\ task[r]["drain"] = "waiting")
          /\ \A a, b : Ahead(a, b, s) /\ b # <<"drain", r>> => Ahead(a, b, w)
      BY <1>1, <2>2, WakesIs
    <2>4. ready' = w
      BY <2>1
    <2>5. \A t, q : Holds(<<t, q>>, w) <=>
            Holds(<<t, q>>, s) \/ (t = "drain" /\ q = r /\ task[r]["drain"] = "waiting")
      BY <2>3
    <2>6. \A q : Ahead(<<"drain", q>>, <<"wait", q>>, s) => Ahead(<<"drain", q>>, <<"wait", q>>, w)
      BY <2>3
    <2>8. \A a, q : Ahead(a, <<"run", q>>, s) => Ahead(a, <<"run", q>>, w)
      BY <2>3
    <2>7. /\ task' \in [Run -> [Tasks -> TaskStates]]
          /\ \A q \in Run : q # r => task'[q] = task[q]
          /\ \A t \in Tasks : t # "drain" => task'[r][t] = task[r][t]
          /\ task'[r]["drain"] = IF task[r]["drain"] = "waiting" THEN "ready" ELSE task[r]["drain"]
      BY <1>1, <2>1, WokenIs
    <2> QED BY <1>2, <2>3, <2>4, <2>5, <2>6, <2>7, <2>8
  <1>3. CASE ~Drains(r)
    <2>1. task' = task /\ ready' = s
      <3>1. ready' = s \o <<>>
        BY <1>3 DEF WakesDrain
      <3> QED BY <1>1, <1>3, <3>1 DEF WakesDrain
    <2> QED BY <1>1, <1>3, <2>1
  <1> QED BY <1>2, <1>3

(* The runs a step is not about.                                           *)
LEMMA OthersAreKept ==
  ASSUME NEW q \in Run, RunOK(q),
         /\ task'[q] = task[q] /\ outcome'[q] = outcome[q] /\ queue'[q] = queue[q]
         /\ lost'[q] = lost[q] /\ published'[q] = published[q] /\ events'[q] = events[q]
         /\ result'[q] = result[q],
         /\ q \in runs' <=> q \in runs
         /\ q \in runtime' <=> q \in runtime,
         \A t \in Tasks : Holds(<<t, q>>, ready') <=> Holds(<<t, q>>, ready),
         Ahead(<<"drain", q>>, <<"wait", q>>, ready) => Ahead(<<"drain", q>>, <<"wait", q>>, ready'),
         \A t \in Tasks : Ahead(<<t, q>>, <<"run", q>>, ready) => Ahead(<<t, q>>, <<"run", q>>, ready')
  PROVE  RunOK(q)'
  <1>1. Entries(q)'
    BY DEF RunOK, Entries
  <1>2. Stages(q)'
    BY DEF RunOK, Stages
  <1>3. ToCome(q) => ToCome(q)'
    BY DEF ToCome
  <1>4. Underway(q) => Underway(q)'
    BY DEF Underway
  <1>5. Arrived(q) => Arrived(q)'
    BY DEF Arrived
  <1>6. InOrder(q)'
    BY DEF RunOK, InOrder
  <1> QED BY <1>1, <1>2, <1>3, <1>4, <1>5, <1>6 DEF RunOK, Delivered

-----------------------------------------------------------------------------
(* The steps of the loop.                                                  *)

(* The task at the head of the queue is there once, and behind nobody.      *)
LEMMA FirstIs ==
  ASSUME Recorded, NEW r \in Run, NEW t \in Tasks, First(t, r)
  PROVE  /\ task[r][t] \in Runnable
         /\ t # "run" => task[r][t] \in {"new", "ready"}
         /\ Tail(ready) \in Seq(Entry) /\ Distinct(Tail(ready))
         /\ \A x, q : Holds(<<x, q>>, Tail(ready)) <=> Holds(<<x, q>>, ready) /\ ~(x = t /\ q = r)
         /\ \A x, q, b : Ahead(<<x, q>>, b, ready) /\ ~(x = t /\ q = r) => Ahead(<<x, q>>, b, Tail(ready))
         /\ \A a : ~Ahead(a, <<t, r>>, ready)
  <1>1. ready # <<>> /\ Head(ready) = <<t, r>> /\ ready \in Seq(Entry) /\ Distinct(ready)
    BY DEF First, Recorded, RegistryTypeOK
  <1> PICK e : e = <<t, r>> OBVIOUS
  <1>5. Head(ready) = e
    BY <1>1
  <1>2. /\ Tail(ready) \in Seq(Entry) /\ Distinct(Tail(ready)) /\ Holds(e, ready)
        /\ \A x : Holds(x, Tail(ready)) <=> Holds(x, ready) /\ x # e
        /\ \A a, b : Ahead(a, b, ready) /\ a # e => Ahead(a, b, Tail(ready))
        /\ \A a : ~Ahead(a, e, ready)
    <2>1. /\ Tail(ready) \in Seq(Entry) /\ Distinct(Tail(ready)) /\ Holds(Head(ready), ready)
          /\ \A x : Holds(x, Tail(ready)) <=> Holds(x, ready) /\ x # Head(ready)
          /\ \A a, b : Ahead(a, b, ready) /\ a # Head(ready) => Ahead(a, b, Tail(ready))
          /\ \A a : ~Ahead(a, Head(ready), ready)
      <3>1. ready # <<>> /\ ready \in Seq(Entry) /\ Distinct(ready)
        BY <1>1
      <3> QED BY <3>1, Leaving
    <2> QED BY <1>5, <2>1
  <1>3. task[r][t] \in Runnable
    BY <1>2 DEF Recorded, RunOK, Entries
  <1>6. t # "run" => task[r][t] \in {"new", "ready"}
    BY <1>3 DEF Recorded, RunOK, Stages, Runnable, Tasks
  <1>4. \A x, q : <<x, q>> # e <=> ~(x = t /\ q = r)
    OBVIOUS
  <1> QED BY <1>2, <1>3, <1>4, <1>6

LEMMA FirstIsAhead ==
  ASSUME Recorded, NEW r \in Run, NEW t \in Tasks, First(t, r), NEW rest, rest = Tail(ready)
  PROVE  \A a, b : Ahead(a, b, ready) /\ a # <<t, r>> => Ahead(a, b, rest)
  <1>1. ready # <<>> /\ Head(ready) = <<t, r>> /\ ready \in Seq(Entry) /\ Distinct(ready)
    BY DEF First, Recorded, RegistryTypeOK
  <1>2. \A a, b : Ahead(a, b, ready) /\ a # Head(ready) => Ahead(a, b, Tail(ready))
    <2>1. ready # <<>> /\ ready \in Seq(Entry) /\ Distinct(ready)
      BY <1>1
    <2> QED BY <2>1, Leaving
  <1> QED BY <1>1, <1>2

LEMMA RunBeginsRecorded == ASSUME Recorded, NEW r \in Run, RunBegins(r) PROVE Recorded'
  <1> USE DEF Recorded
  <1>1. "run" \in Tasks /\ First("run", r) /\ ready' = Tail(ready) /\ task[r]["run"] = "new"
    BY DEF Tasks, RunBegins
  <1>2. UNCHANGED <<queue, events, outcome, lost, published, runs, runtime, result>>
    BY DEF RunBegins, engineVars, recordVars
  <1> HIDE DEF Recorded
  <1>3. /\ task[r]["run"] = "new" /\ ready' \in Seq(Entry) /\ Distinct(ready')
        /\ \A x, q : Holds(<<x, q>>, ready') <=> Holds(<<x, q>>, ready) /\ ~(x = "run" /\ q = r)
        /\ \A x, q, b : Ahead(<<x, q>>, b, ready) /\ ~(x = "run" /\ q = r) => Ahead(<<x, q>>, b, ready')
    BY <1>1, FirstIs
  <1>4. RegistryTypeOK /\ RunOK(r)
    BY DEF Recorded
  <1>5. /\ task' \in [Run -> [Tasks -> TaskStates]] /\ \A q \in Run : q # r => task'[q] = task[q]
        /\ task'[r]["run"] = "running" /\ \A t \in Tasks : t # "run" => task'[r][t] = task[r][t]
    BY <1>1, <1>4 DEF RunBegins, RegistryTypeOK, TaskStates
  <1>6. RegistryTypeOK'
    BY <1>2, <1>3, <1>4, <1>5 DEF RegistryTypeOK
  <1>7. ASSUME NEW q \in Run, q # r PROVE RunOK(q)'
    <2>1. RunOK(q)
      BY DEF Recorded
    <2> QED BY <1>2, <1>3, <1>5, <1>7, <2>1, OthersAreKept
  <1>8. Entries(r)'
    BY <1>3, <1>4, <1>5 DEF Entries, RunOK, Runnable
  <1>9. Stages(r)'
    BY <1>2, <1>3, <1>4, <1>5 DEF Stages, RunOK, Tasks
  <1>10. Delivered(r)'
    <2>1. ToCome(r) => ToCome(r)'
      BY <1>2, <1>5 DEF ToCome, Tasks
    <2>2. Underway(r) => Underway(r)'
      BY <1>2, <1>3, <1>5 DEF Underway, Tasks
    <2>3. Arrived(r) => Arrived(r)'
      BY <1>2, <1>5 DEF Arrived, Tasks
    <2> QED BY <1>2, <1>4, <2>1, <2>2, <2>3 DEF Delivered, RunOK
  <1>11. InOrder(r)'
    BY <1>5 DEF InOrder
  <1> QED BY <1>6, <1>7, <1>8, <1>9, <1>10, <1>11 DEF Recorded, RunOK

LEMMA WaitRecorded == ASSUME Recorded, NEW r \in Run, WaitRuns(r) PROVE Recorded'
  <1>1. "wait" \in Tasks /\ "complete" \in Tasks /\ First("wait", r)
    BY DEF Tasks, WaitRuns
  <1>2. UNCHANGED <<queue, events, outcome, lost, published, runs, runtime, result>>
    BY DEF WaitRuns, engineVars, recordVars
  <1>0. PICK rest : rest = Tail(ready) OBVIOUS
  <1>3. /\ task[r]["wait"] \in {"new", "ready"} /\ rest \in Seq(Entry) /\ Distinct(rest)
        /\ \A x, q : Holds(<<x, q>>, rest) <=> Holds(<<x, q>>, ready) /\ ~(x = "wait" /\ q = r)
        /\ \A x, q, b : Ahead(<<x, q>>, b, ready) /\ ~(x = "wait" /\ q = r) => Ahead(<<x, q>>, b, rest)
        /\ \A a : ~Ahead(a, <<"wait", r>>, ready)
    BY <1>0, <1>1, FirstIs
  <1>4. RegistryTypeOK /\ RunOK(r) /\ Entries(r) /\ InOrder(r) /\ Stages(r) /\ Delivered(r)
    BY DEF Recorded, RunOK
  <1>5. ~Underway(r)
    BY <1>3 DEF Underway
  <1>6. CASE task[r]["run"] = "done"
    <2> PICK mid : mid = [task EXCEPT ![r]["wait"] = "done"] OBVIOUS
    <2>1. task' = Woken(r, "complete", mid) /\ ready' = rest \o Wakes(r, "complete")
      BY <1>0, <1>6 DEF WaitRuns
    <2>2. /\ mid \in [Run -> [Tasks -> TaskStates]] /\ \A q \in Run : q # r => mid[q] = task[q]
          /\ mid[r]["wait"] = "done" /\ \A t \in Tasks : t # "wait" => mid[r][t] = task[r][t]
      BY <1>1, <1>4 DEF RegistryTypeOK, TaskStates
    <2>3. task[r]["complete"] = "waiting" /\ task[r]["wait"] = "ready"
      BY <1>3, <1>4, <1>6, ZenonT(60) DEF Stages, RegistryTypeOK, TaskStates, Tasks
    <2>4. /\ task' \in [Run -> [Tasks -> TaskStates]] /\ \A q \in Run : q # r => task'[q] = task[q]
          /\ task'[r]["wait"] = "done" /\ task'[r]["complete"] = "ready"
          /\ \A t \in Tasks : t \notin {"wait", "complete"} => task'[r][t] = task[r][t]
      <3>1. "complete" \in Tasks /\ "wait" \in Tasks /\ mid[r]["complete"] = "waiting"
            /\ mid \in [Run -> [Tasks -> TaskStates]]
        BY <1>1, <2>2, <2>3
      <3> PICK w : w = Woken(r, "complete", mid) OBVIOUS
      <3>2. /\ w \in [Run -> [Tasks -> TaskStates]] /\ \A q \in Run : q # r => w[q] = mid[q]
            /\ \A x \in Tasks : x # "complete" => w[r][x] = mid[r][x]
            /\ w[r]["complete"] = "ready"
        BY <3>1, WokenIs, ZenonT(60)
      <3> QED BY <2>1, <2>2, <3>1, <3>2
    <2>5. ~Holds(<<"complete", r>>, rest)
      BY <1>1, <1>3, <1>4, <2>3 DEF Entries, Runnable
    <2>6. /\ ready' \in Seq(Entry) /\ Distinct(ready')
          /\ \A x : Holds(x, ready') <=> Holds(x, rest) \/ x = <<"complete", r>>
          /\ \A a, b : Ahead(a, b, rest) /\ b # <<"complete", r>> => Ahead(a, b, ready')
      <3> PICK e : e = <<"complete", r>> OBVIOUS
      <3> PICK u : u = <<e>> OBVIOUS
      <3> PICK w : w = rest \o u OBVIOUS
      <3>1. e \in Entry /\ ~Holds(e, rest) /\ ready' = w
        BY <1>1, <2>1, <2>3, <2>5 DEF Entry, Wakes
      <3>4. u \in Seq(Entry) /\ Distinct(u) /\ \A y : Holds(y, u) <=> y = e
        BY <3>1, OneHeld
      <3>2. rest \in Seq(Entry) /\ Distinct(rest)
        BY <1>3
      <3>5. rest \in Seq(Entry)
        BY <3>2
      <3>6. u \in Seq(Entry)
        BY <3>4
      <3>7. /\ w \in Seq(Entry)
            /\ \A x : Holds(x, w) <=> Holds(x, rest) \/ Holds(x, u)
            /\ (Distinct(rest) /\ Distinct(u) /\ \A x : ~(Holds(x, rest) /\ Holds(x, u))) => Distinct(w)
            /\ \A a, b : Ahead(a, b, rest) /\ ~Holds(b, u) => Ahead(a, b, w)
        BY <3>5, <3>6, Joining
      <3>3. /\ w \in Seq(Entry) /\ Distinct(w)
            /\ \A x : Holds(x, w) <=> Holds(x, rest) \/ x = e
            /\ \A a, b : Ahead(a, b, rest) /\ b # e => Ahead(a, b, w)
        BY <3>1, <3>2, <3>4, <3>7
      <3> QED BY <3>1, <3>3
    <2>7. \A x, q : Holds(<<x, q>>, ready') <=>
            (Holds(<<x, q>>, ready) /\ ~(x = "wait" /\ q = r)) \/ (x = "complete" /\ q = r)
      BY <1>3, <2>6
    <2>8. \A q \in Run : q # r => (Ahead(<<"drain", q>>, <<"wait", q>>, ready)
                                     => Ahead(<<"drain", q>>, <<"wait", q>>, ready'))
      BY <1>3, <2>6
    <2>14. \A a, q : a # <<"wait", r>> /\ Ahead(a, <<"run", q>>, ready) => Ahead(a, <<"run", q>>, ready')
      <3>1. \A a, b : Ahead(a, b, ready) /\ a # <<"wait", r>> => Ahead(a, b, rest)
        BY <1>0, <1>1, FirstIsAhead
      <3>2. \A q : <<"run", q>> # <<"complete", r>>
        OBVIOUS
      <3> QED BY <2>6, <3>1, <3>2
    <2>15. \A q \in Run : q # r => \A t \in Tasks :
             Ahead(<<t, q>>, <<"run", q>>, ready) => Ahead(<<t, q>>, <<"run", q>>, ready')
      BY <2>14
    <2>9. RegistryTypeOK'
      BY <1>2, <1>4, <2>4, <2>6 DEF RegistryTypeOK
    <2>10. ASSUME NEW q \in Run, q # r PROVE RunOK(q)'
      <3>1. RunOK(q)
        BY DEF Recorded
      <3> QED BY <1>2, <2>4, <2>7, <2>8, <2>10, <2>15, <3>1, OthersAreKept
    <2>11. Entries(r)'
      BY <1>4, <2>4, <2>7 DEF Entries, Runnable
    <2>12. Stages(r)'
      <3>1. task'[r]["run"] = "done" /\ task'[r]["drain"] = task[r]["drain"]
        BY <1>6, <2>4 DEF Tasks
      <3>2. task[r]["drain"] \notin {"none", "new", "running"}
            /\ outcome[r] # "none" /\ r \in runs /\ (r \in runtime <=> result[r] = "none")
        BY <1>4, <1>6 DEF Stages
      <3>3. result[r] = "none"
        BY <1>4, <2>3 DEF Stages
      <3> QED BY <1>2, <2>4, <3>1, <3>2, <3>3 DEF Stages
    <2>13. Delivered(r)'
      BY <1>2, <1>4, <1>5, <2>4 DEF Delivered, ToCome, Arrived, Tasks
    <2>16. InOrder(r)'
      BY <1>1, <1>6, <2>4 DEF InOrder, Tasks
    <2> QED BY <2>9, <2>10, <2>11, <2>12, <2>13, <2>16 DEF Recorded, RunOK
  <1>7. CASE task[r]["run"] # "done"
    <2>1. task' = [task EXCEPT ![r]["wait"] = "waiting"] /\ ready' = rest
      BY <1>0, <1>7 DEF WaitRuns
    <2>2. /\ task' \in [Run -> [Tasks -> TaskStates]] /\ \A q \in Run : q # r => task'[q] = task[q]
          /\ task'[r]["wait"] = "waiting" /\ \A t \in Tasks : t # "wait" => task'[r][t] = task[r][t]
      BY <1>1, <1>4, <2>1 DEF RegistryTypeOK, TaskStates
    <2>3. RegistryTypeOK'
      BY <1>2, <1>3, <1>4, <2>1, <2>2 DEF RegistryTypeOK
    <2>4. ASSUME NEW q \in Run, q # r PROVE RunOK(q)'
      <3>1. RunOK(q)
        BY DEF Recorded
      <3> QED BY <1>2, <1>3, <2>1, <2>2, <2>4, <3>1, OthersAreKept
    <2>5. Entries(r)'
      BY <1>3, <1>4, <2>1, <2>2 DEF Entries, Runnable
    <2>6. Stages(r)'
      BY <1>2, <1>3, <1>4, <1>7, <2>2 DEF Stages, Tasks
    <2>7. Delivered(r)'
      BY <1>2, <1>4, <1>5, <2>2 DEF Delivered, ToCome, Arrived, Tasks
    <2>8. InOrder(r)'
      BY <1>3, <1>4, <2>1, <2>2 DEF InOrder, Tasks
    <2> QED BY <2>3, <2>4, <2>5, <2>6, <2>7, <2>8 DEF Recorded, RunOK
  <1> QED BY <1>6, <1>7

LEMMA CompleteRecorded == ASSUME Recorded, NEW r \in Run, CompleteRuns(r) PROVE Recorded'
  <1>1. "complete" \in Tasks /\ First("complete", r) /\ ready' = Tail(ready)
    BY DEF Tasks, CompleteRuns
  <1>2. UNCHANGED <<queue, events, outcome, lost, published, runs>>
    BY DEF CompleteRuns, engineVars
  <1>3. /\ task[r]["complete"] \in {"new", "ready"} /\ ready' \in Seq(Entry) /\ Distinct(ready')
        /\ \A x, q : Holds(<<x, q>>, ready') <=> Holds(<<x, q>>, ready) /\ ~(x = "complete" /\ q = r)
        /\ \A x, q, b : Ahead(<<x, q>>, b, ready) /\ ~(x = "complete" /\ q = r) => Ahead(<<x, q>>, b, ready')
    BY <1>1, FirstIs
  <1>4. RegistryTypeOK /\ RunOK(r) /\ Entries(r) /\ InOrder(r) /\ Stages(r) /\ Delivered(r)
    BY DEF Recorded, RunOK
  <1> PICK to : to = IF task[r]["wait"] # "done" THEN "waiting" ELSE "done" OBVIOUS
  <1>5. task' = [task EXCEPT ![r]["complete"] = to]
    BY DEF CompleteRuns
  <1>6. /\ task' \in [Run -> [Tasks -> TaskStates]] /\ \A q \in Run : q # r => task'[q] = task[q]
        /\ task'[r]["complete"] = to /\ \A t \in Tasks : t # "complete" => task'[r][t] = task[r][t]
    BY <1>1, <1>4, <1>5 DEF RegistryTypeOK, TaskStates
  <1>7. /\ result' \in [Run -> {"none", "passed", "stopped"}]
        /\ \A q \in Run : q # r => result'[q] = result[q]
    BY <1>4 DEF CompleteRuns, RegistryTypeOK
  <1>8. \A q \in Run : q # r => (q \in runtime' <=> q \in runtime)
    BY DEF CompleteRuns
  <1>9. RegistryTypeOK'
    BY <1>2, <1>3, <1>4, <1>6, <1>7 DEF RegistryTypeOK
  <1>10. ASSUME NEW q \in Run, q # r PROVE RunOK(q)'
    <2>1. RunOK(q)
      BY DEF Recorded
    <2> QED BY <1>2, <1>3, <1>6, <1>7, <1>8, <1>10, <2>1, OthersAreKept
  <1>11. Entries(r)'
    BY <1>3, <1>4, <1>6 DEF Entries, Runnable
  <1>12. Delivered(r)'
    <2>1. ToCome(r) => ToCome(r)'
      BY <1>2, <1>6 DEF ToCome, Tasks
    <2>2. Underway(r) => Underway(r)'
      BY <1>2, <1>3, <1>6 DEF Underway, Tasks
    <2>3. Arrived(r) => Arrived(r)'
      BY <1>2, <1>6 DEF Arrived, Tasks
    <2> QED BY <1>2, <1>4, <2>1, <2>2, <2>3 DEF Delivered
  <1>13. Stages(r)'
    <2>1. CASE task[r]["wait"] # "done"
      <3>1. UNCHANGED <<runtime, result>> /\ to = "waiting"
        BY <2>1 DEF CompleteRuns
      <3> QED BY <1>2, <1>3, <1>4, <1>6, <2>1, <3>1 DEF Stages, Tasks
    <2>2. CASE task[r]["wait"] = "done"
      <3>1. to = "done" /\ outcome[r] # "none" /\ result[r] = "none" /\ task[r]["run"] = "done"
        BY <1>3, <1>4, <2>2 DEF Stages
      <3>2. CASE outcome[r] = "raised"
        <4>1. UNCHANGED <<runtime, result>>
          BY <2>2, <3>2 DEF CompleteRuns
        <4> QED BY <1>2, <1>3, <1>4, <1>6, <2>2, <3>1, <4>1 DEF Stages, Tasks
      <3>3. CASE outcome[r] # "raised"
        <4>1. result'[r] = outcome[r] /\ r \notin runtime'
          BY <1>4, <2>2, <3>3 DEF CompleteRuns, RegistryTypeOK
        <4> QED BY <1>2, <1>3, <1>4, <1>6, <2>2, <3>1, <4>1 DEF Stages, Tasks
      <3> QED BY <3>2, <3>3
    <2> QED BY <2>1, <2>2
  <1>14. InOrder(r)'
    BY <1>3, <1>4, <1>6 DEF InOrder, Tasks
  <1> QED BY <1>9, <1>10, <1>11, <1>12, <1>13, <1>14 DEF Recorded, RunOK

LEMMA DrainRecorded == ASSUME Recorded, NEW r \in Run, DrainRuns(r) PROVE Recorded'
  <1>1. "drain" \in Tasks /\ First("drain", r) /\ ready' = Tail(ready)
    BY DEF Tasks, DrainRuns
  <1>2. UNCHANGED <<outcome, lost, published, runs, runtime, result>>
    BY DEF DrainRuns, engineVars, recordVars
  <1>3. /\ task[r]["drain"] \in {"new", "ready"} /\ ready' \in Seq(Entry) /\ Distinct(ready')
        /\ \A x, q : Holds(<<x, q>>, ready') <=> Holds(<<x, q>>, ready) /\ ~(x = "drain" /\ q = r)
        /\ \A x, q, b : Ahead(<<x, q>>, b, ready) /\ ~(x = "drain" /\ q = r) => Ahead(<<x, q>>, b, ready')
    BY <1>1, FirstIs
  <1>4. RegistryTypeOK /\ RunOK(r) /\ Entries(r) /\ InOrder(r) /\ Stages(r) /\ Delivered(r)
    BY DEF Recorded, RunOK
  <1>5. task[r]["drain"] = "new" => r \in runtime
    BY <1>4 DEF Stages
  <1> PICK q0 : q0 = queue[r] OBVIOUS
  <1> PICK ends : ends = {i \in DOMAIN q0 : q0[i] = None} OBVIOUS
  <1> PICK last : last = CHOOSE i \in ends : TRUE OBVIOUS
  <1> PICK to : to = IF ends = {} THEN "waiting" ELSE "done" OBVIOUS
  <1> PICK read : read = IF ends = {} THEN Len(q0) ELSE last - 1 OBVIOUS
  <1>6. /\ queue' = [queue EXCEPT ![r] = <<>>]
        /\ events' = [events EXCEPT ![r] = @ + read]
        /\ task' = [task EXCEPT ![r]["drain"] = to]
    BY <1>5 DEF DrainRuns
  <1>7. q0 \in Seq(Item) /\ DOMAIN q0 = 1 .. Len(q0) /\ Len(q0) \in Nat
    BY <1>4 DEF RegistryTypeOK
  <1>8. ends # {} => last \in ends
    OBVIOUS
  <1>9. read \in Nat
    BY <1>7, <1>8
  <1>10. /\ task' \in [Run -> [Tasks -> TaskStates]] /\ \A q \in Run : q # r => task'[q] = task[q]
         /\ task'[r]["drain"] = to /\ \A t \in Tasks : t # "drain" => task'[r][t] = task[r][t]
    BY <1>1, <1>4, <1>6 DEF RegistryTypeOK, TaskStates
  <1>11. /\ queue' \in [Run -> Seq(Item)] /\ queue'[r] = <<>>
         /\ \A q \in Run : q # r => queue'[q] = queue[q]
    <2>1. <<>> \in Seq(Item)
      OBVIOUS
    <2> QED BY <1>4, <1>6, <2>1 DEF RegistryTypeOK
  <1>12. /\ events' \in [Run -> Nat] /\ events'[r] = events[r] + read
         /\ \A q \in Run : q # r => events'[q] = events[q]
    BY <1>4, <1>6, <1>9 DEF RegistryTypeOK
  <1>13. RegistryTypeOK'
    BY <1>2, <1>3, <1>4, <1>10, <1>11, <1>12 DEF RegistryTypeOK
  <1>14. ASSUME NEW q \in Run, q # r PROVE RunOK(q)'
    <2>1. RunOK(q)
      BY DEF Recorded
    <2> QED BY <1>2, <1>3, <1>10, <1>11, <1>12, <1>14, <2>1, OthersAreKept
  <1>15. Entries(r)'
    BY <1>3, <1>4, <1>10 DEF Entries, Runnable
  <1>16. Stages(r)'
    BY <1>2, <1>3, <1>4, <1>10 DEF Stages, Tasks
  <1>17. Delivered(r)'
    <2>1. events[r] \in Nat /\ published[r] \in Nat
      BY <1>4 DEF RegistryTypeOK
    <2>2. CASE ToCome(r)
      <3>1. ends = {}
        BY <1>7, <2>2 DEF ToCome
      <3>2. events'[r] = events[r] + Len(q0) /\ to = "waiting"
        BY <1>12, <3>1
      <3>3. Len(<<>>) = 0
        OBVIOUS
      <3> QED BY <1>2, <1>7, <1>10, <1>11, <2>1, <2>2, <3>2, <3>3 DEF Delivered, ToCome
    <2>3. CASE Underway(r)
      <3> PICK k \in 1 .. Len(q0) : /\ q0[k] = None /\ events[r] + k = published[r] + 1
                                    /\ \A i \in 1 .. Len(q0) : q0[i] = None => i = k
        BY <2>3 DEF Underway
      <3>1. ends = {k}
        BY <1>7
      <3>2. last = k /\ to = "done" /\ read = k - 1
        BY <1>8, <3>1
      <3>3. events'[r] = published[r]
        <4>1. events'[r] = events[r] + (k - 1) /\ k \in Nat
          BY <1>7, <1>12, <3>2, SMTT(40)
        <4>2. events[r] + k = published[r] + 1
          OBVIOUS
        <4>3. ASSUME NEW e \in Nat, NEW p \in Nat, NEW n \in Nat, e + n = p + 1 PROVE e + (n - 1) = p
          BY <4>3
        <4> QED BY <2>1, <4>1, <4>2, <4>3, ZenonT(60)
      <3> QED BY <1>2, <1>10, <2>3, <3>2, <3>3 DEF Delivered, Arrived, Underway
    <2>4. ~Arrived(r)
      BY <1>3 DEF Arrived
    <2> QED BY <1>2, <1>4, <2>2, <2>3, <2>4 DEF Delivered
  <1>18. InOrder(r)'
    BY <1>3, <1>4, <1>10 DEF InOrder, Tasks
  <1> QED BY <1>13, <1>14, <1>15, <1>16, <1>17, <1>18 DEF Recorded, RunOK

-----------------------------------------------------------------------------
(* The tools and the engine.                                               *)

LEMMA OrderIs ==
  ASSUME NEW r \in Run, NEW o, o = Order(r)
  PROVE  /\ o \in Seq(Entry) /\ Distinct(o)
         /\ \A x : Holds(x, o) <=> \E t \in Tasks : x = <<t, r>>
  <1>1. PICK e1, e2, e3, e4 : /\ e1 = <<"run", r>> /\ e2 = <<"wait", r>>
                              /\ e3 = <<"drain", r>> /\ e4 = <<"complete", r>>
    OBVIOUS
  <1>2. e1 \in Entry /\ e2 \in Entry /\ e3 \in Entry /\ e4 \in Entry
    BY <1>1 DEF Entry, Tasks
  <1>3. e1 # e2 /\ e1 # e3 /\ e1 # e4 /\ e2 # e3 /\ e2 # e4 /\ e3 # e4
    BY <1>1
  <1>4. o = <<e1, e2, e3, e4>>
    BY <1>1 DEF Order
  <1>5. o \in Seq(Entry) /\ Len(o) = 4 /\ o[1] = e1 /\ o[2] = e2 /\ o[3] = e3 /\ o[4] = e4
    BY <1>2, <1>4
  <1>6. 1 .. Len(o) = {1, 2, 3, 4}
    BY <1>5
  <1>7. Distinct(o)
    BY <1>3, <1>5, <1>6 DEF Distinct
  <1>8. \A x : Holds(x, o) <=> x \in {e1, e2, e3, e4}
    BY <1>5, <1>6 DEF Holds
  <1>9. \A x : x \in {e1, e2, e3, e4} <=> \E t \in Tasks : x = <<t, r>>
    BY <1>1 DEF Tasks
  <1> QED BY <1>5, <1>7, <1>8, <1>9

LEMMA StartRunRecorded == ASSUME Recorded, NEW r \in Run, StartRun(r) PROVE Recorded'
  <1>1. RegistryTypeOK /\ RunOK(r) /\ Entries(r) /\ InOrder(r) /\ Stages(r) /\ Delivered(r)
    BY DEF Recorded, RunOK
  <1>2. UNCHANGED <<queue, events, outcome, published, lost, result>>
        /\ runs' = runs \cup {r} /\ runtime' = runtime \cup {r} /\ task[r]["run"] = "none"
    BY DEF StartRun
  <1>3. /\ task' \in [Run -> [Tasks -> TaskStates]] /\ \A q \in Run : q # r => task'[q] = task[q]
        /\ \A t \in Tasks : task'[r][t] = "new"
    BY <1>1 DEF StartRun, RegistryTypeOK, TaskStates
  <1>4. \A t \in Tasks : task[r][t] = "none"
    BY <1>1, <1>2 DEF Stages, Tasks
  <1>5. outcome[r] = "none" /\ result[r] = "none"
    BY <1>1, <1>2 DEF Stages
  <1>6. \A t \in Tasks : ~Holds(<<t, r>>, ready)
    BY <1>1, <1>4 DEF Entries, Runnable
  <1>7. PICK o : o = Order(r)
    OBVIOUS
  <1>8. /\ o \in Seq(Entry) /\ Distinct(o)
        /\ \A x : Holds(x, o) <=> \E t \in Tasks : x = <<t, r>>
    BY <1>7, OrderIs
  <1>9. ready \in Seq(Entry) /\ Distinct(ready)
    BY <1>1 DEF RegistryTypeOK
  <1>10. PICK w : w = ready \o o
    OBVIOUS
  <1>11. ready' = w
    BY <1>7, <1>10 DEF StartRun
  <1>12. /\ w \in Seq(Entry)
         /\ \A x : Holds(x, w) <=> Holds(x, ready) \/ Holds(x, o)
         /\ (Distinct(ready) /\ Distinct(o) /\ \A x : ~(Holds(x, ready) /\ Holds(x, o))) => Distinct(w)
         /\ \A a, b : Ahead(a, b, ready) /\ ~Holds(b, o) => Ahead(a, b, w)
    <2>1. o \in Seq(Entry)
      BY <1>8
    <2>2. ready \in Seq(Entry)
      BY <1>9
    <2> QED BY <1>10, <2>1, <2>2, Joining
  <1>13. \A x : ~(Holds(x, ready) /\ Holds(x, o))
    BY <1>6, <1>8
  <1>14. ready' \in Seq(Entry) /\ Distinct(ready')
    BY <1>8, <1>9, <1>11, <1>12, <1>13
  <1>15. \A t \in Tasks : \A q : Holds(<<t, q>>, ready') <=> Holds(<<t, q>>, ready) \/ q = r
    <2> SUFFICES ASSUME NEW t \in Tasks, NEW q
                 PROVE  Holds(<<t, q>>, ready') <=> Holds(<<t, q>>, ready) \/ q = r
      OBVIOUS
    <2>1. Holds(<<t, q>>, o) <=> q = r
      BY <1>8
    <2>2. Holds(<<t, q>>, w) <=> Holds(<<t, q>>, ready) \/ Holds(<<t, q>>, o)
      BY <1>12
    <2> QED BY <1>11, <2>1, <2>2
  <1>16. \A q : q # r => (Ahead(<<"drain", q>>, <<"wait", q>>, ready)
                            => Ahead(<<"drain", q>>, <<"wait", q>>, ready'))
    <2> SUFFICES ASSUME NEW q, q # r, Ahead(<<"drain", q>>, <<"wait", q>>, ready)
                 PROVE  Ahead(<<"drain", q>>, <<"wait", q>>, ready')
      OBVIOUS
    <2>1. ~Holds(<<"wait", q>>, o)
      BY <1>8
    <2>2. \A a, b : Ahead(a, b, ready) /\ ~Holds(b, o) => Ahead(a, b, w)
      BY <1>12
    <2>3. Ahead(<<"drain", q>>, <<"wait", q>>, w)
      BY <2>1, <2>2
    <2> QED BY <1>11, <2>3
  <1>22. \A q : q # r => \A a : Ahead(a, <<"run", q>>, ready) => Ahead(a, <<"run", q>>, ready')
    <2> SUFFICES ASSUME NEW q, q # r, NEW a, Ahead(a, <<"run", q>>, ready)
                 PROVE  Ahead(a, <<"run", q>>, ready')
      OBVIOUS
    <2>1. ~Holds(<<"run", q>>, o)
      BY <1>8
    <2>2. \A c, b : Ahead(c, b, ready) /\ ~Holds(b, o) => Ahead(c, b, w)
      BY <1>12
    <2>3. Ahead(a, <<"run", q>>, w)
      BY <2>1, <2>2
    <2> QED BY <1>11, <2>3
  <1>17. RegistryTypeOK'
    BY <1>1, <1>2, <1>3, <1>14 DEF RegistryTypeOK
  <1>18. ASSUME NEW q \in Run, q # r PROVE RunOK(q)'
    <2>1. RunOK(q)
      BY DEF Recorded
    <2>2. \A t \in Tasks : Holds(<<t, q>>, ready') <=> Holds(<<t, q>>, ready)
      BY <1>15, <1>18
    <2>3. Ahead(<<"drain", q>>, <<"wait", q>>, ready) => Ahead(<<"drain", q>>, <<"wait", q>>, ready')
      BY <1>16, <1>18
    <2>4. \A t \in Tasks : Ahead(<<t, q>>, <<"run", q>>, ready) => Ahead(<<t, q>>, <<"run", q>>, ready')
      BY <1>18, <1>22
    <2> QED BY <1>2, <1>3, <1>18, <2>1, <2>2, <2>3, <2>4, OthersAreKept
  <1>19. Entries(r)'
    BY <1>3, <1>15 DEF Entries, Runnable
  <1>20. Stages(r)'
    BY <1>2, <1>3, <1>5 DEF Stages, Tasks
  <1>21. Delivered(r)'
    <2>1. "drain" \in Tasks
      BY DEF Tasks
    <2>2. task'[r]["drain"] = "new"
      BY <1>3, <2>1
    <2>3. lost[r] \/ ToCome(r)
      BY <1>1, <1>5 DEF Delivered, Underway, Arrived
    <2> QED BY <1>2, <2>2, <2>3 DEF Delivered, ToCome
  <1>23. InOrder(r)'
    BY <1>3 DEF InOrder, Tasks
  <1> QED BY <1>17, <1>18, <1>19, <1>20, <1>21, <1>23 DEF Recorded, RunOK

(* An event is published: before the end it counts, after it it comes behind *)
(* the None, and when the drain is over it goes nowhere.                   *)
LEMMA PublishingRecorded ==
  ASSUME Recorded, NEW r \in Run, Put(r, <<Event>>), WakesDrain(r), task[r]["run"] # "none",
         published' = [published EXCEPT ![r] = IF outcome[r] = "none" THEN @ + 1 ELSE @],
         UNCHANGED <<events, outcome, runs, runtime, result>>
  PROVE  Recorded'
  <1>1. RegistryTypeOK /\ RunOK(r) /\ Entries(r) /\ InOrder(r) /\ Stages(r) /\ Delivered(r)
    BY DEF Recorded, RunOK
  <1>2. PICK items : items = <<Event>>
    OBVIOUS
  <1>3. items \in Seq(Item) /\ Len(items) = 1 /\ items[1] = Event /\ Event # None
    BY <1>2 DEF Item, Event, None
  <1>4. /\ queue' \in [Run -> Seq(Item)] /\ lost' \in [Run -> BOOLEAN]
        /\ \A q \in Run : q # r => queue'[q] = queue[q] /\ lost'[q] = lost[q]
        /\ ~lost'[r] => ~lost[r]
        /\ task[r]["drain"] = "done" => queue'[r] = queue[r]
        /\ (task[r]["drain"] # "done" /\ ~lost'[r]) => queue'[r] = queue[r] \o items
    <2>1. Put(r, items) /\ items \in Seq(Item)
      BY <1>2, <1>3
    <2> QED BY <1>1, <2>1, PutIs
  <1>5. /\ ready' \in Seq(Entry) /\ Distinct(ready') /\ task' \in [Run -> [Tasks -> TaskStates]]
        /\ \A q \in Run : q # r => task'[q] = task[q]
        /\ \A t \in Tasks : t # "drain" => task'[r][t] = task[r][t]
        /\ task'[r]["drain"] = IF Drains(r) /\ task[r]["drain"] = "waiting" THEN "ready" ELSE task[r]["drain"]
        /\ \A t, q : Holds(<<t, q>>, ready') <=>
             Holds(<<t, q>>, ready) \/ (t = "drain" /\ q = r /\ Drains(r) /\ task[r]["drain"] = "waiting")
        /\ \A q : Ahead(<<"drain", q>>, <<"wait", q>>, ready) => Ahead(<<"drain", q>>, <<"wait", q>>, ready')
        /\ \A a, q : Ahead(a, <<"run", q>>, ready) => Ahead(a, <<"run", q>>, ready')
    BY <1>1, WakesDrainIs
  <1>6. /\ published' \in [Run -> Nat] /\ \A q \in Run : q # r => published'[q] = published[q]
        /\ published'[r] = IF outcome[r] = "none" THEN published[r] + 1 ELSE published[r]
    BY <1>1 DEF RegistryTypeOK
  <1>7. RegistryTypeOK'
    BY <1>1, <1>4, <1>5, <1>6 DEF RegistryTypeOK
  <1>8. ASSUME NEW q \in Run, q # r PROVE RunOK(q)'
    <2>1. RunOK(q)
      BY DEF Recorded
    <2>2. \A t \in Tasks : Holds(<<t, q>>, ready') <=> Holds(<<t, q>>, ready)
      BY <1>5, <1>8
    <2>3. Ahead(<<"drain", q>>, <<"wait", q>>, ready) => Ahead(<<"drain", q>>, <<"wait", q>>, ready')
      BY <1>5
    <2>4. /\ task'[q] = task[q] /\ outcome'[q] = outcome[q] /\ queue'[q] = queue[q]
          /\ lost'[q] = lost[q] /\ published'[q] = published[q] /\ events'[q] = events[q]
          /\ result'[q] = result[q]
      BY <1>4, <1>5, <1>6, <1>8
    <2>5. \A t \in Tasks : Ahead(<<t, q>>, <<"run", q>>, ready) => Ahead(<<t, q>>, <<"run", q>>, ready')
      BY <1>5
    <2> QED BY <2>1, <2>2, <2>3, <2>4, <2>5, OthersAreKept
  <1>9. Entries(r)'
    BY <1>1, <1>5 DEF Entries, Runnable
  <1>10. /\ task'[r]["run"] = task[r]["run"] /\ task'[r]["wait"] = task[r]["wait"]
         /\ task'[r]["complete"] = task[r]["complete"]
         /\ task'[r]["drain"] = task[r]["drain"] \/ (task[r]["drain"] = "waiting" /\ task'[r]["drain"] = "ready")
    BY <1>5 DEF Tasks
  <1>11. Stages(r)'
    BY <1>1, <1>10 DEF Stages
  <1>12. Delivered(r)'
    <2> SUFFICES ASSUME ~lost'[r] PROVE Delivered(r)'
      BY DEF Delivered
    <2> PICK q0 : q0 = queue[r] OBVIOUS
    <2> PICK q1 : q1 = q0 \o items OBVIOUS
    <2>1. /\ q0 \in Seq(Item) /\ events[r] \in Nat /\ published[r] \in Nat
          /\ Len(q0) \in Nat
      BY <1>1 DEF RegistryTypeOK
    <2>2. /\ Len(q1) = Len(q0) + 1 /\ q1[Len(q0) + 1] = Event
          /\ \A i \in 1 .. Len(q0) : q1[i] = q0[i]
      <3>1. /\ Len(q1) = Len(q0) + Len(items) /\ \A i \in 1 .. Len(q0) : q1[i] = q0[i]
            /\ \A i \in 1 .. Len(items) : q1[Len(q0) + i] = items[i]
        <4>1. items \in Seq(Item) /\ q0 \in Seq(Item)
          BY <1>3, <2>1
        <4> QED BY <4>1, Appended
      <3> QED BY <1>3, <3>1
    <2>3. ~lost[r] /\ (ToCome(r) \/ Underway(r) \/ Arrived(r))
      BY <1>1, <1>4 DEF Delivered
    <2>4. \A i \in 1 .. Len(q1) : i \in 1 .. Len(q0) \/ i = Len(q0) + 1
      BY <2>1, <2>2
    <2>5. CASE ToCome(r)
      <3>1. queue'[r] = q1
        BY <1>4, <2>5 DEF ToCome
      <3>2. \A i \in 1 .. Len(q1) : q1[i] # None
        BY <1>3, <2>2, <2>4, <2>5 DEF ToCome
      <3>3. events[r] + Len(q1) = published'[r]
        <4>1. events[r] + Len(q0) = published[r] /\ outcome[r] = "none"
          BY <2>5 DEF ToCome
        <4> QED BY <1>6, <2>1, <2>2, <4>1
      <3> QED BY <1>10, <2>5, <3>1, <3>2, <3>3 DEF Delivered, ToCome
    <2>6. CASE Underway(r)
      <3>1. queue'[r] = q1 /\ published'[r] = published[r]
        BY <1>4, <1>6, <2>6 DEF Underway
      <3>2. PICK k \in 1 .. Len(q0) : /\ q0[k] = None /\ events[r] + k = published[r] + 1
                                      /\ \A i \in 1 .. Len(q0) : q0[i] = None => i = k
        BY <2>6 DEF Underway
      <3>3. k \in 1 .. Len(q1) /\ q1[k] = None
        BY <2>1, <2>2, <3>2
      <3>4. \A i \in 1 .. Len(q1) : q1[i] = None => i = k
        BY <1>3, <2>2, <2>4, <3>2
      <3>5. task'[r]["drain"] = "ready" /\ task'[r]["wait"] = "ready"
        BY <1>10, <2>6 DEF Underway
      <3>6. Ahead(<<"drain", r>>, <<"wait", r>>, ready')
        BY <1>5, <2>6 DEF Underway
      <3>7. \E n \in 1 .. Len(queue'[r]) :
              /\ queue'[r][n] = None /\ events'[r] + n = published'[r] + 1
              /\ \A i \in 1 .. Len(queue'[r]) : queue'[r][i] = None => i = n
        BY <3>1, <3>2, <3>3, <3>4
      <3> QED BY <2>6, <3>5, <3>6, <3>7 DEF Delivered, Underway
    <2>7. CASE Arrived(r)
      BY <1>6, <1>10, <2>7 DEF Delivered, Arrived
    <2> QED BY <2>3, <2>5, <2>6, <2>7
  <1>13. InOrder(r)'
    <2>1. \A t \in Tasks : task'[r][t] = "new" => task[r][t] = "new"
      BY <1>5
    <2> QED BY <1>1, <1>5, <1>10, <2>1 DEF InOrder
  <1> QED BY <1>7, <1>8, <1>9, <1>11, <1>12, <1>13 DEF Recorded, RunOK

LEMMA EngineEventRecorded == ASSUME Recorded, NEW r \in Run, EngineEvent(r) PROVE Recorded'
  <1>1. task[r]["run"] \in {"running", "closing"} /\ Put(r, <<Event>>) /\ WakesDrain(r)
        /\ published' = [published EXCEPT ![r] = @ + 1]
        /\ UNCHANGED <<events, outcome, runs, runtime, result>>
    BY DEF EngineEvent, recordVars
  <1>2. outcome[r] = "none"
    BY <1>1 DEF Recorded, RunOK, Stages
  <1> QED BY <1>1, <1>2, PublishingRecorded

LEMMA PauseOrResumeRecorded == ASSUME Recorded, NEW r \in Run, PauseOrResume(r) PROVE Recorded'
  <1>1. r \in runtime /\ Put(r, <<Event>>) /\ WakesDrain(r)
        /\ published' = [published EXCEPT ![r] = IF outcome[r] = "none" THEN @ + 1 ELSE @]
        /\ UNCHANGED <<events, outcome, runs, runtime, result>>
    BY DEF PauseOrResume, recordVars
  <1>2. task[r]["run"] # "none"
    BY <1>1 DEF Recorded, RunOK, Stages
  <1> QED BY <1>1, <1>2, PublishingRecorded

(* The run shuts down: it goes behind the tasks that have not begun yet.    *)
LEMMA ShutsDownRecorded == ASSUME Recorded, NEW r \in Run, ShutsDown(r) PROVE Recorded'
  <1>1. RegistryTypeOK /\ RunOK(r) /\ Entries(r) /\ Stages(r) /\ Delivered(r)
    BY DEF Recorded, RunOK
  <1>2. task[r]["run"] = "running" /\ "run" \in Tasks
        /\ UNCHANGED <<queue, events, outcome, published, lost, runs, runtime, result>>
    BY DEF ShutsDown, recordVars, Tasks
  <1>3. /\ task' \in [Run -> [Tasks -> TaskStates]] /\ \A q \in Run : q # r => task'[q] = task[q]
        /\ task'[r]["run"] = "closing" /\ \A t \in Tasks : t # "run" => task'[r][t] = task[r][t]
    BY <1>1, <1>2 DEF ShutsDown, RegistryTypeOK, TaskStates
  <1>4. PICK e : e = <<"run", r>>
    OBVIOUS
  <1>5. PICK u : u = <<e>>
    OBVIOUS
  <1>6. PICK w : w = ready \o u
    OBVIOUS
  <1>7. e \in Entry /\ ~Holds(e, ready)
    BY <1>1, <1>2, <1>4 DEF Entry, Entries, Runnable
  <1>8. u \in Seq(Entry) /\ Distinct(u) /\ \A y : Holds(y, u) <=> y = e
    BY <1>5, <1>7, OneHeld
  <1>9. ready \in Seq(Entry) /\ Distinct(ready)
    BY <1>1 DEF RegistryTypeOK
  <1>10. ready' = w
    <2>1. ready' = Append(ready, e)
      BY <1>4 DEF ShutsDown
    <2> QED BY <1>5, <1>6, <1>7, <1>9, <2>1
  <1>11. /\ w \in Seq(Entry)
         /\ \A x : Holds(x, w) <=> Holds(x, ready) \/ Holds(x, u)
         /\ (Distinct(ready) /\ Distinct(u) /\ \A x : ~(Holds(x, ready) /\ Holds(x, u))) => Distinct(w)
         /\ \A a, b : Ahead(a, b, ready) /\ ~Holds(b, u) => Ahead(a, b, w)
         /\ \A a, b : Holds(a, ready) /\ ~Holds(b, ready) => Ahead(a, b, w)
    <2>1. u \in Seq(Entry)
      BY <1>8
    <2>2. ready \in Seq(Entry)
      BY <1>9
    <2> QED BY <1>6, <2>1, <2>2, Joining
  <1>12. /\ ready' \in Seq(Entry) /\ Distinct(ready')
         /\ \A x : Holds(x, ready') <=> Holds(x, ready) \/ x = e
         /\ \A a, b : Ahead(a, b, ready) /\ b # e => Ahead(a, b, ready')
         /\ \A a : Holds(a, ready) => Ahead(a, e, ready')
    BY <1>7, <1>8, <1>9, <1>10, <1>11
  <1>13. \A x, q : Holds(<<x, q>>, ready') <=> Holds(<<x, q>>, ready) \/ (x = "run" /\ q = r)
    BY <1>4, <1>12
  <1>14. RegistryTypeOK'
    BY <1>1, <1>2, <1>3, <1>12 DEF RegistryTypeOK
  <1>15. Ahead(<<"drain", r>>, <<"wait", r>>, ready) => Ahead(<<"drain", r>>, <<"wait", r>>, ready')
    <2>1. <<"wait", r>> # e
      BY <1>4
    <2> QED BY <1>12, <2>1
  <1>16. ASSUME NEW q \in Run, q # r PROVE RunOK(q)'
    <2>1. RunOK(q)
      BY DEF Recorded
    <2>2. <<"wait", q>> # e /\ <<"run", q>> # e
      BY <1>4, <1>16
    <2>3. /\ Ahead(<<"drain", q>>, <<"wait", q>>, ready) => Ahead(<<"drain", q>>, <<"wait", q>>, ready')
          /\ \A t \in Tasks : Ahead(<<t, q>>, <<"run", q>>, ready) => Ahead(<<t, q>>, <<"run", q>>, ready')
      BY <1>12, <2>2
    <2>4. \A t \in Tasks : Holds(<<t, q>>, ready') <=> Holds(<<t, q>>, ready)
      BY <1>13, <1>16
    <2> QED BY <1>2, <1>3, <1>16, <2>1, <2>3, <2>4, OthersAreKept
  <1>17. Entries(r)'
    BY <1>1, <1>3, <1>13 DEF Entries, Runnable
  <1>18. InOrder(r)'
    <2> SUFFICES ASSUME NEW t \in Tasks, task'[r][t] = "new" PROVE Ahead(<<t, r>>, <<"run", r>>, ready')
      BY DEF InOrder
    <2>1. task[r][t] = "new"
      BY <1>2, <1>3
    <2>2. Holds(<<t, r>>, ready)
      BY <1>1, <2>1 DEF Entries, Runnable
    <2> QED BY <1>4, <1>12, <2>2
  <1>19. Stages(r)'
    BY <1>1, <1>2, <1>3 DEF Stages, Tasks
  <1>20. Delivered(r)'
    <2>1. ToCome(r) => ToCome(r)'
      BY <1>2, <1>3 DEF ToCome, Tasks
    <2>2. Underway(r) => Underway(r)'
      BY <1>2, <1>3, <1>15 DEF Underway, Tasks
    <2>3. Arrived(r) => Arrived(r)'
      BY <1>2, <1>3 DEF Arrived, Tasks
    <2> QED BY <1>1, <1>2, <2>1, <2>2, <2>3 DEF Delivered
  <1> QED BY <1>14, <1>16, <1>17, <1>18, <1>19, <1>20 DEF Recorded, RunOK

(* The run ends: its last event and the None are on the queue, and the drain *)
(* is made ready before the wait is, if it was not ready already.           *)
LEMMA EngineEndsRecorded == ASSUME Recorded, NEW r \in Run, EngineEnds(r) PROVE Recorded'
  <1>1. RegistryTypeOK /\ RunOK(r) /\ Entries(r) /\ InOrder(r) /\ Stages(r) /\ Delivered(r)
    BY DEF Recorded, RunOK
  <1>2. PICK items : items = <<Event, None>>
    OBVIOUS
  <1>3. items \in Seq(Item) /\ Len(items) = 2 /\ items[1] = Event /\ items[2] = None /\ Event # None
    BY <1>2 DEF Item, Event, None
  <1>23. "run" \in Tasks /\ First("run", r) /\ task[r]["run"] = "closing"
    BY DEF EngineEnds, Ends, Tasks
  <1>0. PICK rest : rest = Tail(ready)
    OBVIOUS
  <1>24. /\ rest \in Seq(Entry) /\ Distinct(rest)
         /\ \A x, q : Holds(<<x, q>>, rest) <=> Holds(<<x, q>>, ready) /\ ~(x = "run" /\ q = r)
         /\ \A a : ~Ahead(a, <<"run", r>>, ready)
    BY <1>0, <1>23, FirstIs
  <1>25. \A a, b : Ahead(a, b, ready) /\ a # <<"run", r>> => Ahead(a, b, rest)
    BY <1>0, <1>23, FirstIsAhead
  <1>26. \A t \in Tasks : task[r][t] # "new"
    BY <1>1, <1>23, <1>24 DEF InOrder
  <1>4. /\ task[r]["run"] = "closing" /\ \A t \in Tasks : task[r][t] # "new"
        /\ \E end \in {"passed", "stopped", "raised"} : outcome' = [outcome EXCEPT ![r] = end]
        /\ published' = [published EXCEPT ![r] = @ + 1]
        /\ Put(r, items)
        /\ UNCHANGED <<events, runs, runtime, result>>
    BY <1>2, <1>26 DEF EngineEnds, Ends, recordVars
  <1>5. /\ task[r]["wait"] = "waiting" /\ task[r]["complete"] = "waiting"
        /\ task[r]["drain"] \in {"waiting", "ready", "done"}
        /\ outcome[r] = "none" /\ result[r] = "none" /\ r \in runs /\ r \in runtime
    <2>1. \A t \in Tasks : task[r][t] \in TaskStates \ {"new"}
      BY <1>1, <1>4 DEF RegistryTypeOK
    <2>2. task[r]["wait"] \in TaskStates \ {"new"} /\ task[r]["drain"] \in TaskStates \ {"new"}
          /\ task[r]["complete"] \in TaskStates \ {"new"}
      BY <2>1 DEF Tasks
    <2> QED BY <1>1, <1>4, <2>2 DEF Stages, TaskStates
  <1>6. /\ queue' \in [Run -> Seq(Item)] /\ lost' \in [Run -> BOOLEAN]
        /\ \A q \in Run : q # r => queue'[q] = queue[q] /\ lost'[q] = lost[q]
        /\ ~lost'[r] => ~lost[r]
        /\ (task[r]["drain"] # "done" /\ ~lost'[r]) => queue'[r] = queue[r] \o items
    BY <1>1, <1>3, <1>4, PutIs
  <1>7. /\ published' \in [Run -> Nat] /\ published'[r] = published[r] + 1
        /\ \A q \in Run : q # r => published'[q] = published[q]
    BY <1>1, <1>4 DEF RegistryTypeOK
  <1>8. /\ outcome' \in [Run -> {"none", "passed", "stopped", "raised"}] /\ outcome'[r] # "none"
        /\ \A q \in Run : q # r => outcome'[q] = outcome[q]
    BY <1>1, <1>4 DEF RegistryTypeOK
  <1>9. PICK woke : woke = (Drains(r) /\ task[r]["drain"] = "waiting")
    OBVIOUS
  <1>10. /\ task' \in [Run -> [Tasks -> TaskStates]] /\ \A q \in Run : q # r => task'[q] = task[q]
         /\ task'[r]["run"] = "done" /\ task'[r]["wait"] = "ready" /\ task'[r]["complete"] = "waiting"
         /\ task'[r]["drain"] = IF woke THEN "ready" ELSE task[r]["drain"]
    <2>1. PICK drained : drained = IF Drains(r) THEN Woken(r, "drain", task) ELSE task
      OBVIOUS
    <2>2. PICK ended : ended = [drained EXCEPT ![r]["run"] = "done"]
      OBVIOUS
    <2>3. task' = Woken(r, "wait", ended)
      BY <2>1, <2>2 DEF EngineEnds, Ends
    <2>4. /\ "run" \in Tasks /\ "wait" \in Tasks /\ "drain" \in Tasks /\ "complete" \in Tasks
          /\ task \in [Run -> [Tasks -> TaskStates]]
      BY <1>1 DEF RegistryTypeOK, Tasks
    <2>5. /\ drained \in [Run -> [Tasks -> TaskStates]] /\ \A q \in Run : q # r => drained[q] = task[q]
          /\ \A t \in Tasks : t # "drain" => drained[r][t] = task[r][t]
          /\ drained[r]["drain"] = IF woke THEN "ready" ELSE task[r]["drain"]
      <3>1. CASE Drains(r)
        <4>1. drained = Woken(r, "drain", task)
          BY <2>1, <3>1
        <4>2. "drain" \in Tasks /\ task \in [Run -> [Tasks -> TaskStates]]
          BY <2>4
        <4>3. /\ drained \in [Run -> [Tasks -> TaskStates]] /\ \A q \in Run : q # r => drained[q] = task[q]
              /\ \A t \in Tasks : t # "drain" => drained[r][t] = task[r][t]
              /\ drained[r]["drain"] = IF task[r]["drain"] = "waiting" THEN "ready" ELSE task[r]["drain"]
          BY <4>1, <4>2, WokenIs
        <4> QED BY <1>9, <3>1, <4>3
      <3>2. CASE ~Drains(r)
        BY <1>9, <2>1, <2>4, <3>2
      <3> QED BY <3>1, <3>2
    <2>6. /\ ended \in [Run -> [Tasks -> TaskStates]] /\ \A q \in Run : q # r => ended[q] = drained[q]
          /\ \A t \in Tasks : t # "run" => ended[r][t] = drained[r][t]
          /\ ended[r]["run"] = "done"
      BY <2>2, <2>4, <2>5 DEF TaskStates
    <2>7. PICK w : w = Woken(r, "wait", ended)
      OBVIOUS
    <2>8. /\ w \in [Run -> [Tasks -> TaskStates]] /\ \A q \in Run : q # r => w[q] = ended[q]
          /\ \A x \in Tasks : x # "wait" => w[r][x] = ended[r][x]
          /\ w[r]["wait"] = IF ended[r]["wait"] = "waiting" THEN "ready" ELSE ended[r]["wait"]
      <3>1. "wait" \in Tasks /\ ended \in [Run -> [Tasks -> TaskStates]]
        BY <2>4, <2>6
      <3> QED BY <2>7, <3>1, WokenIs
    <2>9. ended[r]["wait"] = "waiting" /\ ended[r]["complete"] = "waiting" /\ ended[r]["drain"] = drained[r]["drain"]
      BY <1>5, <2>4, <2>5, <2>6
    <2> QED BY <2>3, <2>4, <2>5, <2>6, <2>7, <2>8, <2>9
  <1>11. PICK mid : mid = rest \o (IF Drains(r) THEN Wakes(r, "drain") ELSE <<>>)
    OBVIOUS
  <1>12. rest \in Seq(Entry) /\ Distinct(rest)
    BY <1>24
  <1>13. ~Holds(<<"wait", r>>, rest) /\ (task[r]["drain"] = "waiting" => ~Holds(<<"drain", r>>, rest))
         /\ (task[r]["drain"] = "ready" => Holds(<<"drain", r>>, rest))
    <2>1. "wait" \in Tasks /\ "drain" \in Tasks
      BY DEF Tasks
    <2> QED BY <1>1, <1>5, <1>24, <2>1 DEF Entries, Runnable
  <1>14. /\ mid \in Seq(Entry) /\ Distinct(mid)
         /\ \A x : Holds(x, mid) <=> Holds(x, rest) \/ (x = <<"drain", r>> /\ woke)
         /\ \A a, b : Ahead(a, b, rest) /\ b # <<"drain", r>> => Ahead(a, b, mid)
    <2>1. CASE Drains(r)
      <3>1. mid = rest \o Wakes(r, "drain")
        BY <1>11, <2>1
      <3>2. "drain" \in Tasks
        BY DEF Tasks
      <3>3. task[r]["drain"] = "waiting" => ~Holds(<<"drain", r>>, rest)
        BY <1>13
      <3>4. /\ mid \in Seq(Entry) /\ Distinct(mid)
            /\ \A x : Holds(x, mid) <=> Holds(x, rest) \/ (x = <<"drain", r>> /\ task[r]["drain"] = "waiting")
            /\ \A a, b : Ahead(a, b, rest) /\ b # <<"drain", r>> => Ahead(a, b, mid)
            /\ \A a, b : Holds(a, rest) /\ ~Holds(b, rest) => Ahead(a, b, mid)
        BY <1>12, <3>1, <3>2, <3>3, WakesIs, ZenonT(60)
      <3> QED BY <1>9, <2>1, <3>4
    <2>2. CASE ~Drains(r)
      <3>1. mid = rest
        BY <1>11, <1>12, <2>2
      <3> QED BY <1>9, <1>12, <2>2, <3>1
    <2> QED BY <2>1, <2>2
  <1>15. ~Holds(<<"wait", r>>, mid)
    <2>1. <<"wait", r>> # <<"drain", r>>
      OBVIOUS
    <2> QED BY <1>13, <1>14, <2>1
  <1>16. /\ ready' \in Seq(Entry) /\ Distinct(ready')
         /\ \A x : Holds(x, ready') <=> Holds(x, mid) \/ x = <<"wait", r>>
         /\ \A a, b : Ahead(a, b, mid) /\ b # <<"wait", r>> => Ahead(a, b, ready')
         /\ \A a, b : Holds(a, mid) /\ ~Holds(b, mid) => Ahead(a, b, ready')
    <2>1. PICK w : w = mid \o Wakes(r, "wait")
      OBVIOUS
    <2>2. ready' = w
      BY <1>0, <1>11, <2>1 DEF EngineEnds, Ends
    <2>3. mid \in Seq(Entry)
      BY <1>14
    <2>4. Distinct(mid)
      BY <1>14
    <2>5. task[r]["wait"] = "waiting" => ~Holds(<<"wait", r>>, mid)
      BY <1>15
    <2>6. "wait" \in Tasks
      BY DEF Tasks
    <2>7. /\ w \in Seq(Entry) /\ Distinct(w)
          /\ \A x : Holds(x, w) <=> Holds(x, mid) \/ (x = <<"wait", r>> /\ task[r]["wait"] = "waiting")
          /\ \A a, b : Ahead(a, b, mid) /\ b # <<"wait", r>> => Ahead(a, b, w)
          /\ \A a, b : Holds(a, mid) /\ ~Holds(b, mid) => Ahead(a, b, w)
      BY <2>1, <2>3, <2>4, <2>5, <2>6, WakesIs, ZenonT(60)
    <2> QED BY <1>5, <2>2, <2>7
  <1>17. \A t, q : Holds(<<t, q>>, ready') <=>
           (Holds(<<t, q>>, ready) /\ ~(t = "run" /\ q = r))
             \/ (q = r /\ t = "wait") \/ (q = r /\ t = "drain" /\ woke)
    <2> SUFFICES ASSUME NEW t, NEW q
                 PROVE  Holds(<<t, q>>, ready') <=>
                          (Holds(<<t, q>>, ready) /\ ~(t = "run" /\ q = r))
                            \/ (q = r /\ t = "wait") \/ (q = r /\ t = "drain" /\ woke)
      OBVIOUS
    <2>1. Holds(<<t, q>>, ready') <=> Holds(<<t, q>>, mid) \/ <<t, q>> = <<"wait", r>>
      BY <1>16
    <2>2. Holds(<<t, q>>, mid) <=> Holds(<<t, q>>, rest) \/ (<<t, q>> = <<"drain", r>> /\ woke)
      BY <1>14
    <2> QED BY <1>24, <2>1, <2>2
  <1>18. RegistryTypeOK'
    BY <1>1, <1>4, <1>6, <1>7, <1>8, <1>10, <1>16 DEF RegistryTypeOK
  <1>19. ASSUME NEW q \in Run, q # r PROVE RunOK(q)'
    <2>1. RunOK(q)
      BY DEF Recorded
    <2>2. \A t \in Tasks : Holds(<<t, q>>, ready') <=> Holds(<<t, q>>, ready)
      BY <1>17, <1>19
    <2>3. Ahead(<<"drain", q>>, <<"wait", q>>, ready) => Ahead(<<"drain", q>>, <<"wait", q>>, ready')
      <3>1. <<"wait", q>> # <<"wait", r>> /\ <<"wait", q>> # <<"drain", r>>
        BY <1>19
      <3>4. <<"drain", q>> # <<"run", r>>
        OBVIOUS
      <3>2. Ahead(<<"drain", q>>, <<"wait", q>>, ready) => Ahead(<<"drain", q>>, <<"wait", q>>, mid)
        BY <1>14, <1>25, <3>1, <3>4
      <3>3. Ahead(<<"drain", q>>, <<"wait", q>>, mid) => Ahead(<<"drain", q>>, <<"wait", q>>, ready')
        BY <1>16, <3>1
      <3> QED BY <3>2, <3>3
    <2>4. /\ task'[q] = task[q] /\ outcome'[q] = outcome[q] /\ queue'[q] = queue[q]
          /\ lost'[q] = lost[q] /\ published'[q] = published[q] /\ events'[q] = events[q]
          /\ result'[q] = result[q]
      BY <1>4, <1>6, <1>7, <1>8, <1>10, <1>19
    <2>5. (q \in runs' <=> q \in runs) /\ (q \in runtime' <=> q \in runtime)
      BY <1>4
    <2>6. \A t \in Tasks : Ahead(<<t, q>>, <<"run", q>>, ready) => Ahead(<<t, q>>, <<"run", q>>, ready')
      <3> SUFFICES ASSUME NEW t \in Tasks, Ahead(<<t, q>>, <<"run", q>>, ready)
                   PROVE  Ahead(<<t, q>>, <<"run", q>>, ready')
        OBVIOUS
      <3>1. <<t, q>> # <<"run", r>> /\ <<"run", q>> # <<"wait", r>> /\ <<"run", q>> # <<"drain", r>>
        BY <1>19
      <3>2. Ahead(<<t, q>>, <<"run", q>>, mid)
        BY <1>14, <1>25, <3>1
      <3> QED BY <1>16, <3>1, <3>2
    <2> QED BY <2>1, <2>2, <2>3, <2>4, <2>5, <2>6, OthersAreKept
  <1>20. Entries(r)'
    <2>1. task'[r]["run"] \in Runnable <=> Holds(<<"run", r>>, ready')
      BY <1>1, <1>4, <1>10, <1>17 DEF Entries, Tasks, Runnable
    <2>2. task'[r]["wait"] \in Runnable <=> Holds(<<"wait", r>>, ready')
      BY <1>10, <1>17 DEF Runnable
    <2>3. task'[r]["drain"] \in Runnable <=> Holds(<<"drain", r>>, ready')
      BY <1>1, <1>10, <1>17 DEF Entries, Tasks, Runnable
    <2>4. task'[r]["complete"] \in Runnable <=> Holds(<<"complete", r>>, ready')
      BY <1>1, <1>5, <1>10, <1>17 DEF Entries, Tasks, Runnable
    <2> QED BY <2>1, <2>2, <2>3, <2>4 DEF Entries, Tasks
  <1>21. Stages(r)'
    <2>1. task'[r]["drain"] \in {"waiting", "ready", "done"}
      BY <1>5, <1>10
    <2> QED BY <1>4, <1>5, <1>8, <1>10, <2>1 DEF Stages
  <1>22. Delivered(r)'
    <2> SUFFICES ASSUME ~lost'[r] PROVE Delivered(r)'
      BY DEF Delivered
    <2>1. ToCome(r)
      BY <1>1, <1>5, <1>6 DEF Delivered, Underway, Arrived
    <2>2. PICK q0 : q0 = queue[r]
      OBVIOUS
    <2>3. PICK q1 : q1 = q0 \o items
      OBVIOUS
    <2>4. q0 \in Seq(Item) /\ events[r] \in Nat /\ published[r] \in Nat /\ Len(q0) \in Nat
      BY <1>1, <2>2 DEF RegistryTypeOK
    <2>5. /\ Len(q1) = Len(q0) + Len(items) /\ \A i \in 1 .. Len(q0) : q1[i] = q0[i]
          /\ \A i \in 1 .. Len(items) : q1[Len(q0) + i] = items[i]
      <3>1. items \in Seq(Item) /\ q0 \in Seq(Item)
        BY <1>3, <2>4
      <3> QED BY <2>3, <3>1, Appended
    <2>6. Len(q1) = Len(q0) + 2 /\ q1[Len(q0) + 1] = Event /\ q1[Len(q0) + 2] = None
      BY <1>3, <2>5
    <2>7. queue'[r] = q1 /\ task[r]["drain"] # "done" /\ events[r] + Len(q0) = published[r]
          /\ \A i \in 1 .. Len(q0) : q0[i] # None
      BY <1>6, <2>1, <2>2, <2>3 DEF ToCome
    <2>8. PICK k : k = Len(q0) + 2
      OBVIOUS
    <2>9. k \in 1 .. Len(q1) /\ q1[k] = None /\ events[r] + k = published'[r] + 1
      <3>1. k \in 1 .. Len(q1) /\ q1[k] = None
        BY <2>4, <2>6, <2>8
      <3>2. published'[r] = published[r] + 1 /\ events[r] + Len(q0) = published[r]
        BY <1>7, <2>7
      <3>3. \A e, n, m, x \in Nat : e + n = m /\ x = m + 1 => e + (n + 2) = x + 1
        OBVIOUS
      <3>4. events[r] \in Nat /\ Len(q0) \in Nat /\ published[r] \in Nat /\ published'[r] \in Nat
        BY <1>7, <2>4
      <3>5. events[r] + (Len(q0) + 2) = published'[r] + 1
        BY <3>2, <3>3, <3>4
      <3> QED BY <2>8, <3>1, <3>5
    <2>10. \A i \in 1 .. Len(q1) : q1[i] = None => i = k
      <3>1. \A i \in 1 .. Len(q1) : i \in 1 .. Len(q0) \/ i = Len(q0) + 1 \/ i = k
        BY <2>4, <2>6, <2>8
      <3> QED BY <1>3, <2>5, <2>6, <2>7, <3>1
    <2>11. \E n \in 1 .. Len(queue'[r]) :
              /\ queue'[r][n] = None /\ events'[r] + n = published'[r] + 1
              /\ \A i \in 1 .. Len(queue'[r]) : queue'[r][i] = None => i = n
      BY <1>4, <2>7, <2>9, <2>10
    <2>12. Drains(r)
      <3>1. Len(q1) # Len(q0)
        BY <2>4, <2>6
      <3> QED BY <2>2, <2>7, <3>1 DEF Drains
    <2>13. task'[r]["drain"] = "ready" /\ task'[r]["wait"] = "ready"
      BY <1>5, <1>9, <1>10, <2>7, <2>12
    <2>14. Holds(<<"drain", r>>, mid)
      BY <1>5, <1>9, <1>13, <1>14, <2>7, <2>12
    <2>15. Ahead(<<"drain", r>>, <<"wait", r>>, ready')
      BY <1>15, <1>16, <2>14
    <2> QED BY <1>8, <2>11, <2>13, <2>15 DEF Delivered, Underway
  <1>27. InOrder(r)'
    BY <1>10 DEF InOrder
  <1> QED BY <1>18, <1>19, <1>20, <1>21, <1>22, <1>27 DEF Recorded, RunOK

-----------------------------------------------------------------------------
(* The theorems.                                                           *)

LEMMA RecordedInit == Init => Recorded
  <1> SUFFICES ASSUME Init PROVE Recorded
    OBVIOUS
  <1>1. ready \in Seq(Entry) /\ Distinct(ready) /\ \A x : ~Holds(x, ready)
    BY NoneHeld DEF Init
  <1>2. <<>> \in Seq(Item) /\ Len(<<>>) = 0
    OBVIOUS
  <1>3. /\ task \in [Run -> [Tasks -> TaskStates]]
        /\ outcome \in [Run -> {"none", "passed", "stopped", "raised"}]
        /\ queue \in [Run -> Seq(Item)] /\ lost \in [Run -> BOOLEAN]
        /\ published \in [Run -> Nat] /\ events \in [Run -> Nat]
        /\ result \in [Run -> {"none", "passed", "stopped"}]
    BY <1>2 DEF Init, TaskStates
  <1>4. RegistryTypeOK
    BY <1>1, <1>3 DEF RegistryTypeOK
  <1>5. ASSUME NEW r \in Run PROVE RunOK(r)
    <2>1. \A t \in Tasks : task[r][t] = "none"
      BY DEF Init
    <2>2. Entries(r)
      BY <1>1, <2>1 DEF Entries, Runnable
    <2>3. Stages(r)
      BY <2>1 DEF Stages, Init, Tasks
    <2>4. ToCome(r)
      BY <1>2, <2>1 DEF ToCome, Init, Tasks
    <2>5. InOrder(r)
      BY <2>1 DEF InOrder, Tasks
    <2> QED BY <2>2, <2>3, <2>4, <2>5 DEF RunOK, Delivered
  <1> QED BY <1>4, <1>5 DEF Recorded

LEMMA RecordedStep == Recorded /\ [Next]_vars => Recorded'
  <1> SUFFICES ASSUME Recorded, [Next]_vars PROVE Recorded'
    OBVIOUS
  <1>1. ASSUME UNCHANGED <<ready, task, queue, events, outcome, published, lost, runs, runtime, result>>
        PROVE  Recorded'
    <2>1. RegistryTypeOK'
      BY <1>1 DEF Recorded, RegistryTypeOK
    <2>2. ASSUME NEW r \in Run PROVE RunOK(r)'
      <3>1. RunOK(r)
        BY DEF Recorded
      <3> QED BY <1>1, <3>1, OthersAreKept
    <2> QED BY <2>1, <2>2 DEF Recorded
  <1>2. CASE Loop
    BY <1>2, RunBeginsRecorded, EngineEndsRecorded, WaitRecorded, DrainRecorded, CompleteRecorded DEF Loop
  <1>3. CASE Signal
    BY <1>1, <1>3 DEF Signal, recordVars
  <1>4. ASSUME NEW r \in Run, StopRun(r) PROVE Recorded'
    BY <1>1, <1>4 DEF StopRun, recordVars
  <1>5. CASE UNCHANGED vars
    BY <1>1, <1>5 DEF vars, engineVars, recordVars
  <1> QED BY <1>2, <1>3, <1>4, <1>5, StartRunRecorded, EngineEventRecorded, ShutsDownRecorded,
             PauseOrResumeRecorded DEF Next

LEMMA AlwaysRecorded == Spec => []Recorded
  BY RecordedInit, RecordedStep, PTL DEF Spec

(* Of a run shown as completed the drain is over: the None it stopped at was *)
(* ahead of the wait that came before the completion.                      *)
THEOREM CompletedRunsRecorded == Spec => []CompletedIsRecorded
  <1>1. Recorded => CompletedIsRecorded
    <2> SUFFICES ASSUME Recorded, NEW r \in Run, result[r] # "none"
                 PROVE  result[r] = outcome[r] /\ (~lost[r] => events[r] = published[r])
      BY DEF CompletedIsRecorded
    <2>1. Stages(r) /\ Delivered(r)
      BY DEF Recorded, RunOK
    <2>2. result[r] = outcome[r] /\ task[r]["wait"] = "done"
      BY <2>1 DEF Stages
    <2>3. ~ToCome(r) /\ ~Underway(r)
      BY <2>2 DEF ToCome, Underway
    <2> QED BY <2>1, <2>2, <2>3 DEF Delivered, Arrived
  <1> QED BY <1>1, AlwaysRecorded, PTL

-----------------------------------------------------------------------------
(* What the tools say.                                                     *)

LEMMA AlwaysOfRuns == Spec => [](runs \subseteq Run)
  <1>1. Init => runs \subseteq Run
    BY DEF Init
  <1>2. runs \subseteq Run /\ [Next]_vars => (runs \subseteq Run)'
    BY DEF Next, vars, Loop, RunBegins, WaitRuns, DrainRuns, CompleteRuns, Signal, StartRun, EngineEvent,
           EngineEnds, Ends, ShutsDown, StopRun, PauseOrResume, recordVars
  <1> QED BY <1>1, <1>2, PTL DEF Spec

(* A result is written once: a task that completes a record has not yet.    *)
LEMMA ResultsStay ==
  ASSUME Recorded, [Next]_vars, NEW r \in Run, result[r] # "none"
  PROVE  result'[r] = result[r]
  <1>1. ASSUME NEW q \in Run, CompleteRuns(q) PROVE result'[r] = result[r]
    <2>1. "complete" \in Tasks /\ First("complete", q)
      BY <1>1 DEF CompleteRuns, Tasks
    <2>2. task[q]["complete"] \in {"new", "ready"}
      BY <2>1, FirstIs
    <2>3. task[r]["complete"] = "done"
      BY DEF Recorded, RunOK, Stages
    <2> QED BY <1>1, <2>2, <2>3 DEF CompleteRuns, Recorded, RegistryTypeOK
  <1> QED BY <1>1 DEF Next, vars, Loop, RunBegins, WaitRuns, DrainRuns, Signal, StartRun, EngineEvent,
             EngineEnds, Ends, ShutsDown, StopRun, PauseOrResume, recordVars

(* The runtime of a record is dropped in the step that writes its result.   *)
THEOREM ToolsAlwaysAgree == Spec => ToolsAgree
  <1>1. ASSUME Recorded, runs \subseteq Run, [Next]_vars
        PROVE  [\A r \in runs :
                  /\ (ControlAnswers(r) = "accepted") = (StatusAnswers(r) = "running")
                  /\ (MetricsAnswers(r) = "live") = (StatusAnswers(r) = "running")
                  /\ StatusAnswers(r) = ListAnswers(r)
                  /\ StatusAnswers(r) # "running" => StatusAnswers(r)' = StatusAnswers(r)]_vars
    <2> SUFFICES ASSUME NEW r \in runs
                 PROVE  /\ (ControlAnswers(r) = "accepted") = (StatusAnswers(r) = "running")
                        /\ (MetricsAnswers(r) = "live") = (StatusAnswers(r) = "running")
                        /\ StatusAnswers(r) = ListAnswers(r)
                        /\ StatusAnswers(r) # "running" => StatusAnswers(r)' = StatusAnswers(r)
      OBVIOUS
    <2>1. r \in Run
      BY <1>1
    <2>2. (r \in runtime <=> result[r] = "none") /\ result[r] \in {"none", "passed", "stopped"}
      BY <1>1, <2>1 DEF Recorded, RunOK, Stages, RegistryTypeOK
    <2>3. result[r] # "none" => result'[r] = result[r]
      BY <1>1, <2>1, ResultsStay
    <2>4. CASE result[r] = "none"
      BY <2>2, <2>4 DEF ControlAnswers, StatusAnswers, ListAnswers, MetricsAnswers
    <2>5. CASE result[r] # "none"
      BY <2>2, <2>3, <2>5 DEF ControlAnswers, StatusAnswers, ListAnswers, MetricsAnswers
    <2> QED BY <2>4, <2>5
  <1> QED BY <1>1, AlwaysRecorded, AlwaysOfRuns, PTL DEF Spec, ToolsAgree

-----------------------------------------------------------------------------
(* Who gets the SIGINT.                                                    *)

(* Of runs that are active together all are marked; one that is not has the  *)
(* handler until it shuts down.                                            *)
Marked ==
  /\ \A a, b \in Active : a # b => a \in beside
  /\ \A a \in Active : a \in beside \/ handler = a \/ task[a]["run"] = "closing"
  /\ killed => \A a \in Active : a \in beside \/ task[a]["run"] = "closing"

LEMMA MarkedStep == Recorded /\ Marked /\ [Next]_vars => Marked'
  <1> SUFFICES ASSUME Recorded, Marked, [Next]_vars PROVE Marked'
    OBVIOUS
  <1>1. task \in [Run -> [Tasks -> TaskStates]] /\ "run" \in Tasks /\ "wait" \in Tasks
        /\ "drain" \in Tasks /\ "complete" \in Tasks
    BY DEF Recorded, RegistryTypeOK, Tasks
  <1>2. ASSUME \A q \in Run : task'[q]["run"] = task[q]["run"], UNCHANGED <<beside, handler, killed>>
        PROVE  Marked'
    <2>1. Active' = Active /\ \A a \in Active : task'[a]["run"] = task[a]["run"]
      BY <1>2 DEF Active
    <2> QED BY <1>2, <2>1 DEF Marked
  <1>3. ASSUME NEW r \in Run, StartRun(r) PROVE Marked'
    <2>1. Active' = Active \cup {r} /\ r \notin Active
      <3>1. task' = [task EXCEPT ![r] = [t \in Tasks |-> "new"]] /\ task[r]["run"] = "none"
        BY <1>3 DEF StartRun
      <3>2. task'[r]["run"] = "new" /\ \A q \in Run : q # r => task'[q] = task[q]
        BY <1>1, <3>1
      <3> QED BY <3>1, <3>2 DEF Active
    <2>2. handler' = r /\ ~killed /\ ~killed'
          /\ beside' = IF Active = {} THEN beside ELSE beside \cup Active \cup {r}
      BY <1>3 DEF StartRun
    <2>3. \A a \in Active : task'[a]["run"] = task[a]["run"]
      BY <1>1, <1>3, <2>1 DEF StartRun, Active
    <2> QED BY <2>1, <2>2, <2>3 DEF Marked
  <1>4. ASSUME NEW r \in Run, EngineEnds(r) PROVE Marked'
    <2>1. task[r]["run"] = "closing" /\ beside' = beside /\ handler' = handler /\ ~killed /\ ~killed'
      BY <1>4 DEF EngineEnds, Ends, First
    <2>2. Active' = Active \ {r} /\ r \in Active /\ \A a \in Active \ {r} : task'[a]["run"] = task[a]["run"]
      <3>1. PICK drained : drained = IF Drains(r) THEN Woken(r, "drain", task) ELSE task
        OBVIOUS
      <3>2. PICK ended : ended = [drained EXCEPT ![r]["run"] = "done"]
        OBVIOUS
      <3>3. task' = Woken(r, "wait", ended)
        BY <1>4, <3>1, <3>2 DEF EngineEnds, Ends
      <3>4. drained \in [Run -> [Tasks -> TaskStates]] /\ \A q \in Run : q # r => drained[q] = task[q]
        <4>1. Drains(r) => /\ drained \in [Run -> [Tasks -> TaskStates]]
                           /\ \A q \in Run : q # r => drained[q] = task[q]
          BY <1>1, <3>1, WokenIs
        <4> QED BY <1>1, <3>1, <4>1
      <3>5. /\ ended \in [Run -> [Tasks -> TaskStates]] /\ ended[r]["run"] = "done"
            /\ \A q \in Run : q # r => ended[q] = task[q]
        BY <1>1, <3>2, <3>4 DEF TaskStates
      <3>6. PICK w : w = Woken(r, "wait", ended)
        OBVIOUS
      <3>7. /\ \A q \in Run : q # r => w[q] = ended[q]
            /\ \A x \in Tasks : x # "wait" => w[r][x] = ended[r][x]
        <4>1. "wait" \in Tasks /\ ended \in [Run -> [Tasks -> TaskStates]]
          BY <1>1, <3>5
        <4> QED BY <3>6, <4>1, WokenIs
      <3>8. task'[r]["run"] = "done" /\ \A q \in Run : q # r => task'[q] = task[q]
        BY <1>1, <3>3, <3>5, <3>6, <3>7
      <3> QED BY <2>1, <3>8 DEF Active
    <2> QED BY <2>1, <2>2 DEF Marked
  <1>5. CASE Signal
    <2>1. Active' = Active /\ UNCHANGED <<beside, handler, task>>
      BY <1>5 DEF Signal, Active
    <2>2. killed' => handler = "none"
      BY <1>5 DEF Signal
    <2>3. handler = "none" => \A a \in Active : handler # a
      BY RunRegistryAssumption DEF Active
    <2> QED BY <2>1, <2>2, <2>3 DEF Marked
  <1>6. ASSUME NEW r \in Run, StopRun(r) PROVE Marked'
    BY <1>2, <1>6 DEF StopRun
  <1>7. ASSUME NEW r \in Run, WakesDrain(r), UNCHANGED <<beside, handler, killed>> PROVE Marked'
    <2>1. \A q \in Run : task'[q]["run"] = task[q]["run"]
      <3>1. RegistryTypeOK /\ Entries(r)
        BY DEF Recorded, RunOK
      <3>2. /\ \A q \in Run : q # r => task'[q] = task[q]
            /\ \A t \in Tasks : t # "drain" => task'[r][t] = task[r][t]
        BY <1>7, <3>1, WakesDrainIs
      <3> QED BY <1>1, <3>2
    <2> QED BY <1>2, <1>7, <2>1
  <1>8. ASSUME NEW r \in Run, EngineEvent(r) \/ PauseOrResume(r) PROVE Marked'
    BY <1>7, <1>8 DEF EngineEvent, PauseOrResume
  <1>9. ASSUME NEW r \in Run, RunBegins(r) PROVE Marked'
    <2>1. task[r]["run"] = "new"
      BY <1>9 DEF RunBegins
    <2>2. task'[r]["run"] = "running" /\ \A q \in Run : q # r => task'[q] = task[q]
      BY <1>1, <1>9 DEF RunBegins
    <2>3. Active' = Active /\ \A a \in Active : task[a]["run"] = "closing" => task'[a]["run"] = "closing"
      BY <2>1, <2>2 DEF Active
    <2> QED BY <1>9, <2>3 DEF Marked, RunBegins, engineVars
  <1>10. ASSUME NEW r \in Run, WaitRuns(r) PROVE Marked'
    <2>1. PICK ended : ended = [task EXCEPT ![r]["wait"] = "done"]
      OBVIOUS
    <2>2. /\ ended \in [Run -> [Tasks -> TaskStates]] /\ ended[r]["run"] = task[r]["run"]
          /\ \A q \in Run : q # r => ended[q] = task[q]
      BY <1>1, <2>1 DEF TaskStates
    <2>3. PICK w : w = Woken(r, "complete", ended)
      OBVIOUS
    <2>4. /\ \A q \in Run : q # r => w[q] = ended[q]
          /\ \A x \in Tasks : x # "complete" => w[r][x] = ended[r][x]
      BY <1>1, <2>2, <2>3, WokenIs
    <2>5. \A q \in Run : w[q]["run"] = task[q]["run"]
      BY <1>1, <2>2, <2>4
    <2>6. \A q \in Run : task'[q]["run"] = task[q]["run"]
      BY <1>1, <1>10, <2>1, <2>3, <2>5 DEF WaitRuns
    <2> QED BY <1>2, <1>10, <2>6 DEF WaitRuns, engineVars
  <1>11. ASSUME NEW r \in Run, DrainRuns(r) PROVE Marked'
    <2>1. \A q \in Run : task'[q]["run"] = task[q]["run"]
      BY <1>1, <1>11 DEF DrainRuns
    <2> QED BY <1>2, <1>11, <2>1 DEF DrainRuns, engineVars
  <1>12. ASSUME NEW r \in Run, CompleteRuns(r) PROVE Marked'
    <2>1. \A q \in Run : task'[q]["run"] = task[q]["run"]
      BY <1>1, <1>12 DEF CompleteRuns
    <2> QED BY <1>2, <1>12, <2>1 DEF CompleteRuns, engineVars
  <1>13. CASE UNCHANGED vars
    BY <1>2, <1>13 DEF vars, engineVars
  <1>14. ASSUME NEW r \in Run, ShutsDown(r) PROVE Marked'
    <2>1. task' = [task EXCEPT ![r]["run"] = "closing"] /\ task[r]["run"] = "running"
          /\ beside' = beside /\ handler' = "none" /\ ~killed /\ ~killed'
      BY <1>14 DEF ShutsDown
    <2>2. task'[r]["run"] = "closing" /\ \A q \in Run : q # r => task'[q] = task[q]
      BY <1>1, <2>1
    <2>3. Active' = Active /\ r \in Active
      BY <2>1, <2>2 DEF Active
    <2>4. \A a \in Active : a \in beside \/ task'[a]["run"] = "closing"
      BY <2>2, <2>3 DEF Marked, Active
    <2> QED BY <2>1, <2>3, <2>4 DEF Marked
  <1> QED BY <1>3, <1>4, <1>5, <1>6, <1>8, <1>9, <1>10, <1>11, <1>12, <1>13, <1>14 DEF Next, Loop

THEOREM LoneRunsGetTheSignal == Spec => []SignalsStopLoneRuns
  <1>1. Init => Marked
    BY DEF Init, Marked, Active, Tasks
  <1>2. Marked => SignalsStopLoneRuns
    BY DEF Marked, SignalsStopLoneRuns
  <1> QED BY <1>1, <1>2, MarkedStep, AlwaysRecorded, PTL DEF Spec

-----------------------------------------------------------------------------
(* The swap of MCP configurations: numbers of layers.                      *)

LEMMA LeastExists ==
  ASSUME NEW S, S \subseteq Nat, S # {}
  PROVE  \E x \in S : \A y \in S : x <= y
  <1>1. \E x \in S : \A y \in S : ~(<<y, x>> \in OpToRel(<, Nat))
    BY NatLessThanWellFounded, WFMin
  <1>5. PICK x \in S : \A y \in S : ~(<<y, x>> \in OpToRel(<, Nat))
    BY <1>1
  <1>2. \A y \in S : <<y, x>> \in Nat \X Nat
    OBVIOUS
  <1>3. \A y \in S : ~(y < x)
    BY <1>2, <1>5 DEF OpToRel
  <1>4. \A y \in S : x <= y
    BY <1>3
  <1> QED BY <1>4

LEMMA GreatestExists ==
  ASSUME NEW S, S \subseteq Nat, S # {}, \E n \in Nat : \A x \in S : x <= n
  PROVE  \E x \in S : \A y \in S : y <= x
  <1> DEFINE U == {n \in Nat : \A x \in S : x <= n}
  <1>1. \E m \in U : \A n \in U : m <= n
    <2>1. U \subseteq Nat /\ U # {}
      OBVIOUS
    <2> HIDE DEF U
    <2> QED BY <2>1, LeastExists
  <1> PICK m \in U : \A n \in U : m <= n
    BY <1>1
  <1>2. m \in S
    <2> SUFFICES ASSUME m \notin S PROVE FALSE
      OBVIOUS
    <2>1. \A x \in S : x \in Nat /\ x <= m - 1
      OBVIOUS
    <2>3. m \in Nat /\ \E x \in S : x \in Nat
      OBVIOUS
    <2>4. m - 1 \in Nat
      BY <2>1, <2>3
    <2>2. m - 1 \in U
      BY <2>1, <2>4
    <2> QED BY <2>2
  <1> QED BY <1>2

SwapKeys == Clis \X {"user", "project"}

(* What save_state() may find itself with: seq_no tells the layers apart,   *)
(* and every layer has a backup of its own.                                *)
StateOK(st) ==
  /\ DOMAIN st \subseteq SwapKeys
  /\ \A k \in DOMAIN st : st[k].backup \in SwapKeys \X Nat /\ st[k].backup[1] = k /\ st[k].seq \in Nat
  /\ \A k \in DOMAIN st : st[k].target \in Places
  /\ \A k, l \in DOMAIN st : st[k].seq = st[l].seq => k = l
  /\ \E n \in Nat : \A k \in DOMAIN st : st[k].seq <= n

(* The original o of the file x is found: in what it holds, f, if no layer  *)
(* is one of it, else in the backup of its oldest one.  All backups of its  *)
(* layers are there.                                                       *)
Found(st, bs, f, o, x) ==
  /\ LayersAt(st, x) = {} => f = o
  /\ \A k \in LayersAt(st, x) : st[k].backup \in DOMAIN bs
  /\ \A k \in LayersAt(st, x) :
       (\A l \in LayersAt(st, x) : st[k].seq <= st[l].seq) => bs[st[k].backup] = o

(* The layers of x are the same.                                           *)
SameLayers(st, su, x) ==
  /\ LayersAt(st, x) = LayersAt(su, x)
  /\ \A k \in LayersAt(st, x) : st[k] = su[k]

LEMMA OldestExists ==
  ASSUME NEW st, StateOK(st), NEW ks, ks \subseteq DOMAIN st, ks # {}
  PROVE  \E k \in ks : \A l \in ks : st[k].seq <= st[l].seq
  <1> DEFINE S == {st[k].seq : k \in ks}
  <1>1. S \subseteq Nat /\ S # {}
    BY DEF StateOK
  <1>2. \E x \in S : \A y \in S : x <= y
    <2> HIDE DEF S
    <2> QED BY <1>1, LeastExists
  <1> QED BY <1>2

LEMMA NewestExists ==
  ASSUME NEW st, StateOK(st), NEW ks, ks \subseteq DOMAIN st, ks # {}
  PROVE  \E k \in ks : \A l \in ks : st[l].seq <= st[k].seq
  <1> DEFINE S == {st[k].seq : k \in ks}
  <1>1. S \subseteq Nat /\ S # {} /\ \E n \in Nat : \A x \in S : x <= n
    BY DEF StateOK
  <1>2. \E x \in S : \A y \in S : y <= x
    <2> HIDE DEF S
    <2> QED BY <1>1, GreatestExists
  <1> QED BY <1>2

LEMMA TopIs ==
  ASSUME NEW st, StateOK(st), NEW ks, ks \subseteq DOMAIN st, ks # {}
  PROVE  Top(st, ks) \in ks /\ \A l \in ks : st[l].seq <= st[Top(st, ks)].seq
  BY NewestExists DEF Top

LEMMA BottomIs ==
  ASSUME NEW st, StateOK(st), NEW ks, ks \subseteq DOMAIN st, ks # {}
  PROVE  Bottom(st, ks) \in ks /\ \A l \in ks : st[Bottom(st, ks)].seq <= st[l].seq
  BY OldestExists DEF Bottom

(* NextSeq(): above every seq_no in use.                                   *)
LEMMA NextSeqIs ==
  ASSUME NEW st, StateOK(st)
  PROVE  NextSeq(st) \in Nat /\ \A k \in DOMAIN st : st[k].seq < NextSeq(st)
  <1> DEFINE S == {st[k].seq : k \in DOMAIN st} \cup {-1}
  <1>1. \E x \in S : \A y \in S : x >= y
    <2>1. CASE DOMAIN st = {}
      BY <2>1
    <2>2. CASE DOMAIN st # {}
      <3>1. PICK k \in DOMAIN st : \A l \in DOMAIN st : st[l].seq <= st[k].seq
        BY <2>2, NewestExists
      <3> QED BY <3>1, SMTT(40) DEF StateOK
    <2> QED BY <2>1, <2>2
  <1>2. \A x \in S : x \in Nat \/ x = -1
    BY DEF StateOK
  <1>3. Max(S) \in S /\ \A y \in S : Max(S) >= y
    <2> HIDE DEF S
    <2> QED BY <1>1 DEF Max
  <1>4. NextSeq(st) = Max(S) + 1
    BY DEF NextSeq
  <1>5. Max(S) + 1 \in Nat
    <2> HIDE DEF S
    <2> QED BY <1>2, <1>3
  <1>6. \A k \in DOMAIN st : st[k].seq \in S /\ st[k].seq \in Nat
    BY DEF StateOK
  <1>7. \A k \in DOMAIN st : st[k].seq < Max(S) + 1
    <2> HIDE DEF S
    <2> QED BY <1>2, <1>3, <1>6
  <1> QED BY <1>4, <1>5, <1>7

LEMMA FileOfIs ==
  ASSUME NEW st, StateOK(st), NEW k \in DOMAIN st
  PROVE  FileOf(st, k) \in Files /\ FileOf(st, k)[1] = k[1] /\ k \in LayersAt(st, FileOf(st, k))
  BY DEF StateOK, SwapKeys, FileOf, Files, LayersAt

(* A layer with a new backup is the newest; one that keeps its backup keeps *)
(* its place.                                                              *)
LEMMA RegisterIsOK ==
  ASSUME NEW st, StateOK(st), NEW k \in SwapKeys, NEW b \in SwapKeys \X Nat, b[1] = k,
         NEW t \in Places, NEW su, su = Register(st, k, b, t)
  PROVE  /\ StateOK(su) /\ DOMAIN su = DOMAIN st \cup {k}
         /\ su[k].backup = b /\ su[k].target = t
         /\ \A l \in DOMAIN st \ {k} : su[l] = st[l]
         /\ k \in DOMAIN st /\ st[k].backup = b => su[k].seq = st[k].seq
         /\ ~(k \in DOMAIN st /\ st[k].backup = b)
              => \A l \in DOMAIN st \ {k} : su[l].seq < su[k].seq
  <1>1. PICK n : n = IF k \in DOMAIN st /\ st[k].backup = b THEN st[k].seq ELSE NextSeq(st)
    OBVIOUS
  <1>2. su = With(st, k, [backup |-> b, target |-> t, seq |-> n])
    BY <1>1 DEF Register
  <1>4. /\ DOMAIN su = DOMAIN st \cup {k}
        /\ su[k].backup = b /\ su[k].target = t /\ su[k].seq = n
        /\ \A l \in DOMAIN st \ {k} : su[l] = st[l]
    BY <1>2 DEF With
  <1>5. NextSeq(st) \in Nat /\ \A l \in DOMAIN st : st[l].seq < NextSeq(st) /\ st[l].seq \in Nat
    BY NextSeqIs DEF StateOK
  <1>6. n \in Nat /\ (\A l \in DOMAIN st \ {k} : st[l].seq # n) /\ n <= NextSeq(st)
    BY <1>1, <1>5 DEF StateOK
  <1>7. \A l, m \in DOMAIN su : su[l].seq = su[m].seq => l = m
    BY <1>4, <1>6 DEF StateOK
  <1>8. \A l \in DOMAIN su : su[l].seq <= NextSeq(st)
    BY <1>4, <1>5, <1>6
  <1>9. StateOK(su)
    BY <1>4, <1>5, <1>6, <1>7, <1>8 DEF StateOK
  <1> QED BY <1>1, <1>4, <1>5, <1>9

(* Files it neither was in nor goes to see nothing of it.                  *)
LEMMA RegisterElsewhere ==
  ASSUME NEW st, StateOK(st), NEW k \in SwapKeys, NEW b \in SwapKeys \X Nat, b[1] = k,
         NEW t \in Places, NEW x, x # <<k[1], t>>, k \in DOMAIN st => x # FileOf(st, k)
  PROVE  SameLayers(st, Register(st, k, b, t), x)
  <1>1. PICK su : su = Register(st, k, b, t)
    OBVIOUS
  <1>2. /\ DOMAIN su = DOMAIN st \cup {k} /\ su[k].target = t
        /\ \A l \in DOMAIN st \ {k} : su[l] = st[l]
    BY <1>1, RegisterIsOK
  <1>3. k \notin LayersAt(su, x) /\ k \notin LayersAt(st, x)
    BY <1>2 DEF LayersAt, FileOf
  <1>4. LayersAt(su, x) = LayersAt(st, x)
    BY <1>2, <1>3 DEF LayersAt, FileOf
  <1>5. \A l \in LayersAt(st, x) : su[l] = st[l]
    BY <1>2, <1>3 DEF LayersAt
  <1> QED BY <1>1, <1>4, <1>5 DEF SameLayers

LEMMA WithoutIsOK ==
  ASSUME NEW st, StateOK(st), NEW k
  PROVE  /\ StateOK(Without(st, k)) /\ DOMAIN Without(st, k) = DOMAIN st \ {k}
         /\ \A l \in DOMAIN st \ {k} : Without(st, k)[l] = st[l]
  BY DEF StateOK, Without

(* As long as neither the layers nor their backups change.                 *)
LEMMA StillFound ==
  ASSUME NEW x, NEW st, NEW su, SameLayers(st, su, x), NEW bs, NEW bt,
         \A k \in LayersAt(st, x) : st[k].backup \in DOMAIN bs
           => st[k].backup \in DOMAIN bt /\ bt[st[k].backup] = bs[st[k].backup],
         NEW f, NEW g, LayersAt(st, x) = {} => f = g,
         NEW o, Found(st, bs, f, o, x)
  PROVE  Found(su, bt, g, o, x)
  BY DEF Found, SameLayers

(* A layer swapped anew in the same file, with the backup it had.          *)
LEMMA FoundKept ==
  ASSUME NEW st, StateOK(st), NEW k \in SwapKeys, k \in DOMAIN st,
         NEW bs, NEW f, NEW o, Found(st, bs, f, o, FileOf(st, k))
  PROVE  Found(Register(st, k, st[k].backup, st[k].target), bs, f, o, FileOf(st, k))
  <1>1. PICK su : su = Register(st, k, st[k].backup, st[k].target)
    OBVIOUS
  <1>2. PICK x : x = FileOf(st, k)
    OBVIOUS
  <1>3. /\ st[k].backup \in SwapKeys \X Nat /\ st[k].backup[1] = k /\ st[k].target \in Places
    BY DEF StateOK
  <1>4. /\ DOMAIN su = DOMAIN st /\ su[k].backup = st[k].backup /\ su[k].target = st[k].target
        /\ su[k].seq = st[k].seq /\ \A l \in DOMAIN st \ {k} : su[l] = st[l]
    BY <1>1, <1>3, RegisterIsOK
  <1>5. \A l \in DOMAIN st : /\ su[l].backup = st[l].backup /\ su[l].target = st[l].target
                            /\ su[l].seq = st[l].seq
    BY <1>4
  <1>6. LayersAt(su, x) = LayersAt(st, x) /\ LayersAt(st, x) \subseteq DOMAIN st
    BY <1>4, <1>5 DEF LayersAt, FileOf
  <1>7. Found(su, bs, f, o, x)
    BY <1>2, <1>5, <1>6 DEF Found
  <1> QED BY <1>1, <1>2, <1>7

(* A swap adds a layer to a file, with a backup of the file as it is.      *)
LEMMA FoundWith ==
  ASSUME NEW st, StateOK(st), NEW k \in SwapKeys, NEW b \in SwapKeys \X Nat, b[1] = k,
         NEW t \in Places, NEW x, x = <<k[1], t>>,
         k \in DOMAIN st => FileOf(st, k) # x /\ st[k].backup # b,
         NEW bs, b \notin DOMAIN bs, NEW f, NEW g, NEW o, Found(st, bs, f, o, x)
  PROVE  Found(Register(st, k, b, t), With(bs, b, f), g, o, x)
  <1>1. PICK su : su = Register(st, k, b, t)
    OBVIOUS
  <1>2. /\ StateOK(su) /\ DOMAIN su = DOMAIN st \cup {k} /\ su[k].backup = b /\ su[k].target = t
        /\ \A l \in DOMAIN st \ {k} : su[l] = st[l] /\ su[l].seq < su[k].seq
    BY <1>1, RegisterIsOK
  <1>3. PICK bt : bt = With(bs, b, f)
    OBVIOUS
  <1>4. DOMAIN bt = DOMAIN bs \cup {b} /\ bt[b] = f /\ \A y \in DOMAIN bs : bt[y] = bs[y]
    BY <1>3 DEF With
  <1>5. k \notin LayersAt(st, x) /\ LayersAt(su, x) = LayersAt(st, x) \cup {k}
    BY <1>2 DEF LayersAt, FileOf
  <1>6. \A l \in LayersAt(st, x) :
          l \in DOMAIN st /\ l # k /\ su[l] = st[l] /\ su[l].seq \in Nat /\ su[l].seq < su[k].seq
    BY <1>2, <1>5 DEF LayersAt, StateOK
  <1>7. \A l \in LayersAt(su, x) : su[l].backup \in DOMAIN bt
    BY <1>2, <1>4, <1>5, <1>6 DEF Found
  <1>8. ASSUME NEW m \in LayersAt(su, x), \A l \in LayersAt(su, x) : su[m].seq <= su[l].seq
        PROVE  bt[su[m].backup] = o
    <2>1. CASE LayersAt(st, x) = {}
      <3>1. m = k
        BY <1>5, <2>1
      <3> QED BY <1>2, <1>4, <2>1, <3>1 DEF Found
    <2>2. CASE LayersAt(st, x) # {}
      <3>1. m # k
        <4>1. PICK l \in LayersAt(st, x) : TRUE
          BY <2>2
        <4>2. su[k].seq \in Nat
          BY <1>2 DEF StateOK
        <4> QED BY <1>5, <1>6, <1>8, <4>1, <4>2
      <3>2. m \in LayersAt(st, x) /\ \A l \in LayersAt(st, x) : st[m].seq <= st[l].seq
        BY <1>5, <1>6, <1>8, <3>1
      <3>3. st[m].backup \in DOMAIN bs /\ bs[st[m].backup] = o
        BY <3>2 DEF Found
      <3> QED BY <1>4, <1>6, <3>2, <3>3
    <2> QED BY <2>1, <2>2
  <1>9. Found(su, bt, g, o, x)
    BY <1>5, <1>7, <1>8 DEF Found
  <1> QED BY <1>1, <1>3, <1>9

(* A revert takes the newest layer of a file away, once the file is what    *)
(* its backup was.                                                         *)
LEMMA FoundWithout ==
  ASSUME NEW st, StateOK(st), NEW x, NEW k \in LayersAt(st, x),
         \A l \in LayersAt(st, x) : st[l].seq <= st[k].seq,
         NEW bs, NEW f, NEW o, Found(st, bs, f, o, x),
         NEW g, LayersAt(st, x) = {k} => g = o
  PROVE  Found(Without(st, k), bs, g, o, x)
  <1>1. PICK su : su = Without(st, k)
    OBVIOUS
  <1>2. DOMAIN su = DOMAIN st \ {k} /\ \A l \in DOMAIN st \ {k} : su[l] = st[l]
    BY <1>1, WithoutIsOK
  <1>3. LayersAt(su, x) = LayersAt(st, x) \ {k}
    BY <1>2 DEF LayersAt, FileOf
  <1>4. \A l \in LayersAt(su, x) : l \in LayersAt(st, x) /\ su[l] = st[l] /\ st[l].seq \in Nat
    BY <1>2, <1>3 DEF LayersAt, StateOK
  <1>5. ASSUME NEW m \in LayersAt(su, x), \A l \in LayersAt(su, x) : su[m].seq <= su[l].seq
        PROVE  bs[su[m].backup] = o
    <2>1. \A l \in LayersAt(st, x) : st[m].seq <= st[l].seq
      BY <1>3, <1>4, <1>5
    <2> QED BY <1>4, <2>1 DEF Found
  <1>6. Found(su, bs, g, o, x)
    BY <1>3, <1>4, <1>5 DEF Found
  <1> QED BY <1>1, <1>6

-----------------------------------------------------------------------------
(* The invariant.                                                          *)

Swapping == {"backup", "record", "write", "rollback", "unrecord"}
Reverting == {"restore", "forget", "unlink"}
Busy == {"load", "next"} \cup Swapping \cup Reverting
JobFields == {"op", "want", "scope", "only", "todo", "cli", "target", "mem", "prev", "orig",
              "layers", "rc"}

FilesOK(st, bs, cfg, pr, sp) ==
  /\ DOMAIN cfg = Files /\ DOMAIN pr = Files
  /\ StateOK(st) /\ DOMAIN bs \subseteq SwapKeys \X Nat
  /\ \A x \in Files \ sp : Found(st, bs, cfg[x], pr[x], x)

(* What a command has in memory is what is on disk, but for the swap that   *)
(* is about to be recorded.                                                *)
JobOK(l, j, st) ==
  /\ j.op \in {"use", "revert"}
  /\ j.op = "use" => j.scope \in {Nothing, "user"}
  /\ l = "load" => j.only \subseteq Clis
  /\ l # "load" => j.todo \subseteq Clis /\ StateOK(j.mem)
  /\ l \notin {"load", "record"} => j.mem = st

(* The file a swap is about to change; the files that revert cannot put     *)
(* back once the swap is recorded.                                         *)
Aim(j) == <<j.cli, j.target>>
Doomed(l, j, sp) == IF l = "record" THEN sp \cup Moved(j.prev, j.mem, Key(j)) ELSE sp

(* In the middle of a swap, the original is found with what was recorded    *)
(* before it and the bytes that were read: what a rollback goes back to.    *)
SwapOK(l, j, st, bs, cfg, pr, sp) ==
  /\ j.op = "use" /\ j.cli \in Clis /\ j.target \in Places
  /\ l = "backup" /\ Aim(j) \notin sp => Found(j.mem, bs, j.orig, pr[Aim(j)], Aim(j))
  /\ l # "backup" =>
       /\ StateOK(j.prev) /\ Key(j) \in DOMAIN j.mem /\ j.mem[Key(j)].target = j.target
       /\ \A x \in Files : x[1] # j.cli => SameLayers(j.prev, j.mem, x)
       /\ \A x \in Files : x # Aim(j) /\ x \notin Doomed(l, j, sp) => SameLayers(j.prev, j.mem, x)
       /\ Aim(j) \notin Doomed(l, j, sp) => Found(j.prev, bs, j.orig, pr[Aim(j)], Aim(j))
  /\ l = "record" =>
       /\ j.prev = st
       /\ Aim(j) \notin Doomed(l, j, sp) => Found(j.mem, bs, j.orig, pr[Aim(j)], Aim(j))
  /\ l = "unrecord" /\ Aim(j) \notin sp => cfg[Aim(j)] = j.orig

(* In the middle of a revert, the layer restored is the newest of its file, *)
(* and the file is the original if it was the only one.                    *)
RevertOK(l, j, cfg, pr, sp) ==
  /\ j.cli \in Clis
  /\ j.layers \subseteq LayersOf(j.mem, j.cli)
  /\ l # "unlink" => j.layers # {}
  /\ l = "forget" =>
       LET x == FileOf(j.mem, NextLayer(j)) IN
       x \notin sp => /\ \A m \in LayersAt(j.mem, x) : j.mem[m].seq <= j.mem[NextLayer(j)].seq
                      /\ LayersAt(j.mem, x) = {NextLayer(j)} => cfg[x] = pr[x]
  /\ l = "unlink" =>
       StateOK(j.prev) /\ \E k \in DOMAIN j.prev : DOMAIN j.prev \ DOMAIN j.mem = {k}

(* A revert of everything that has not failed still has before it whatever  *)
(* is recorded.                                                            *)
RevertsAll(j) == j.op = "revert" /\ j.scope = Nothing /\ j.only = {} /\ j.rc = 0
AllTaken(l, j) == RevertsAll(j) =>
  \A k \in DOMAIN j.mem : k[1] \in j.todo \/ (l # "next" /\ k \in j.layers)

ProcOK(l, j, st, bs, cfg, pr, sp) ==
  /\ l \in {"idle", "lock"} \cup Busy /\ DOMAIN j = JobFields
  /\ l \in Busy => JobOK(l, j, st)
  /\ l \in Swapping => SwapOK(l, j, st, bs, cfg, pr, sp)
  /\ l \in Reverting => RevertOK(l, j, cfg, pr, sp)
  /\ l \in {"next"} \cup Reverting => AllTaken(l, j)

LockOK ==
  /\ DOMAIN pc = Procs /\ DOMAIN job = Procs
  /\ \A p \in Procs : pc[p] \in Busy <=> lock = p

LinksOK == DOMAIN link = Clis /\ \A c \in Clis : link[c] \in Places

SwapInv ==
  /\ FilesOK(state, backups, config, pristine, spoilt)
  /\ LockOK /\ LinksOK
  /\ \A p \in Procs : ProcOK(pc[p], job[p], state, backups, config, pristine, spoilt)

LEMMA NoJobIs == DOMAIN NoJob = JobFields
  BY DEF NoJob, JobFields

LEMMA AsideIsOK ==
  ASSUME NEW l \in {"idle", "lock"}, NEW j, DOMAIN j = JobFields,
         NEW st, NEW bs, NEW cfg, NEW pr, NEW sp
  PROVE  ProcOK(l, j, st, bs, cfg, pr, sp)
  BY DEF ProcOK, Busy, Swapping, Reverting

LEMMA SwapInvInit == SwapInit => SwapInv
  <1> SUFFICES ASSUME SwapInit PROVE SwapInv
    OBVIOUS
  <1>1. StateOK(state) /\ \A x : LayersAt(state, x) = {}
    <2>1. DOMAIN state = {}
      BY DEF SwapInit
    <2>2. 0 \in Nat
      OBVIOUS
    <2> QED BY <2>1, <2>2 DEF StateOK, LayersAt
  <1>2. DOMAIN backups = {}
    BY DEF SwapInit
  <1>3. DOMAIN config = Files /\ DOMAIN pristine = Files /\ config = pristine /\ LinksOK
    BY DEF SwapInit, LinksOK
  <1>4. FilesOK(state, backups, config, pristine, spoilt)
    BY <1>1, <1>2, <1>3 DEF FilesOK, Found
  <1>5. \A p \in Procs : pc[p] = "idle" /\ job[p] = NoJob
    BY DEF SwapInit
  <1>6. LockOK
    BY <1>5, SwapAssumption DEF LockOK, SwapInit, Nothing, Busy, Swapping, Reverting
  <1>7. \A p \in Procs : ProcOK(pc[p], job[p], state, backups, config, pristine, spoilt)
    BY <1>5, AsideIsOK, NoJobIs
  <1> QED BY <1>3, <1>4, <1>6, <1>7 DEF SwapInv

(* Only one process is at work at a time: what it does concerns no other.   *)
LEMMA OthersAside ==
  ASSUME SwapInv, NEW p \in Procs, pc[p] \in Busy
  PROVE  lock = p /\ \A q \in Procs \ {p} : pc[q] \in {"idle", "lock"} /\ DOMAIN job[q] = JobFields
  BY DEF SwapInv, LockOK, ProcOK

LEMMA OneProcessSteps ==
  ASSUME SwapInv, NEW p \in Procs, pc[p] \in Busy,
         NEW l, NEW j, Goto(p, l, j), link' = link,
         (l \in Busy /\ lock' = lock) \/ (l = "idle" /\ lock' = Nothing),
         FilesOK(state', backups', config', pristine', spoilt'),
         ProcOK(l, j, state', backups', config', pristine', spoilt')
  PROVE  SwapInv'
  <1>1. lock = p /\ \A q \in Procs \ {p} : pc[q] \in {"idle", "lock"} /\ DOMAIN job[q] = JobFields
    BY OthersAside
  <1>2. DOMAIN pc = Procs /\ DOMAIN job = Procs
    BY DEF SwapInv, LockOK
  <1>3. /\ DOMAIN pc' = Procs /\ DOMAIN job' = Procs /\ pc'[p] = l /\ job'[p] = j
        /\ \A q \in Procs \ {p} : pc'[q] = pc[q] /\ job'[q] = job[q]
    BY <1>2 DEF Goto
  <1>4. LockOK'
    <2>1. ASSUME NEW q \in Procs PROVE pc'[q] \in Busy <=> lock' = q
      <3>1. CASE q = p
        BY <1>1, <1>3, <3>1, SwapAssumption DEF Nothing, Busy, Swapping, Reverting
      <3>2. CASE q # p
        <4>1. pc'[q] \notin Busy
          BY <1>1, <1>3, <3>2 DEF Busy, Swapping, Reverting
        <4>2. lock' # q
          BY <1>1, <3>2, SwapAssumption DEF Nothing
        <4> QED BY <4>1, <4>2
      <3> QED BY <3>1, <3>2
    <2> QED BY <1>3, <2>1 DEF LockOK
  <1>5. ASSUME NEW q \in Procs
        PROVE  ProcOK(pc'[q], job'[q], state', backups', config', pristine', spoilt')
    <2>1. CASE q = p
      BY <1>3, <2>1
    <2>2. CASE q # p
      BY <1>1, <1>3, <2>2, AsideIsOK
    <2> QED BY <2>1, <2>2
  <1>6. LinksOK'
    BY DEF SwapInv, LinksOK
  <1> QED BY <1>4, <1>5, <1>6 DEF SwapInv

LEMMA GoesOn ==
  ASSUME SwapInv, NEW p \in Procs, pc[p] \in Busy,
         NEW j, Goto(p, "next", j), link' = link, lock' = lock,
         FilesOK(state', backups', config', pristine', spoilt'),
         DOMAIN j = JobFields, j.op \in {"use", "revert"},
         j.op = "use" => j.scope \in {Nothing, "user"},
         j.todo \subseteq Clis, j.mem = state', AllTaken("next", j)
  PROVE  SwapInv'
  <1>1. StateOK(state')
    BY DEF FilesOK
  <1>2. ProcOK("next", j, state', backups', config', pristine', spoilt')
    BY <1>1 DEF ProcOK, JobOK, Busy, Swapping, Reverting
  <1>3. ("next" \in Busy /\ lock' = lock) \/ ("next" = "idle" /\ lock' = Nothing)
    BY DEF Busy
  <1> QED BY <1>2, <1>3, OneProcessSteps

LEMMA Stops ==
  ASSUME SwapInv, NEW p \in Procs, pc[p] \in Busy,
         Goto(p, "idle", NoJob), link' = link, lock' = Nothing,
         FilesOK(state', backups', config', pristine', spoilt')
  PROVE  SwapInv'
  <1>1. ProcOK("idle", NoJob, state', backups', config', pristine', spoilt')
    BY AsideIsOK, NoJobIs
  <1> QED BY <1>1, OneProcessSteps

(* The files as they were.                                                 *)
LEMMA FilesKept ==
  ASSUME SwapInv, UNCHANGED <<config, link, state, backups, pristine, spoilt>>
  PROVE  FilesOK(state', backups', config', pristine', spoilt') /\ LinksOK'
  BY DEF SwapInv, LinksOK

-----------------------------------------------------------------------------
(* The actions that touch no file.                                         *)

LEMMA CallKeeps ==
  ASSUME SwapInv, NEW p \in Procs, Call(p) PROVE SwapInv'
  <1>1. FilesOK(state', backups', config', pristine', spoilt') /\ LinksOK'
    BY FilesKept DEF Call
  <1>2. /\ DOMAIN pc = Procs /\ DOMAIN job = Procs /\ \A q \in Procs : pc[q] \in Busy <=> lock = q
        /\ \A q \in Procs : ProcOK(pc[q], job[q], state, backups, config, pristine, spoilt)
    BY DEF SwapInv, LockOK
  <1>3. /\ pc[p] = "idle" /\ lock' = lock
        /\ DOMAIN pc' = Procs /\ DOMAIN job' = Procs /\ pc'[p] = "lock" /\ job'[p] = NoJob
        /\ \A q \in Procs \ {p} : pc'[q] = pc[q] /\ job'[q] = job[q]
    BY <1>2 DEF Call, Goto
  <1>4. LockOK'
    BY <1>2, <1>3 DEF LockOK, Busy, Swapping, Reverting
  <1>5. UNCHANGED <<state, backups, config, pristine, spoilt>>
    BY DEF Call
  <1>6. ASSUME NEW q \in Procs
        PROVE  ProcOK(pc'[q], job'[q], state', backups', config', pristine', spoilt')
    <2>1. CASE q = p
      BY <1>3, <2>1, AsideIsOK, NoJobIs
    <2>2. CASE q # p
      BY <1>2, <1>3, <1>5, <2>2
    <2> QED BY <2>1, <2>2
  <1> QED BY <1>1, <1>4, <1>6 DEF SwapInv

LEMMA LockKeeps ==
  ASSUME SwapInv, NEW p \in Procs, Lock(p) PROVE SwapInv'
  <1>1. UNCHANGED <<config, link, state, backups, pristine, spoilt>>
    BY DEF Lock, OnDisk
  <1>2. FilesOK(state', backups', config', pristine', spoilt') /\ LinksOK'
    BY <1>1, FilesKept
  <1>3. PICK j : /\ Goto(p, "load", j) /\ DOMAIN j = JobFields
                 /\ j.op \in {"use", "revert"}
                 /\ j.op = "use" => j.scope \in {Nothing, "user"}
                 /\ j.only \subseteq Clis
    <2> DEFINE J(op, want, scope, only) ==
          [NoJob EXCEPT !.op = op, !.want = want, !.scope = scope, !.only = only]
    <2>1. ASSUME NEW op, NEW want, NEW scope, NEW only
          PROVE  /\ DOMAIN J(op, want, scope, only) = JobFields
                 /\ J(op, want, scope, only).op = op
                 /\ J(op, want, scope, only).scope = scope
                 /\ J(op, want, scope, only).only = only
      BY DEF NoJob, JobFields
    <2>2. \/ \E want \in Targets, scope \in {Nothing, "user"}, only \in {{}} \cup {{c} : c \in Clis} :
               Goto(p, "load", J("use", want, scope, only))
          \/ \E scope \in {Nothing, "user", "project"}, only \in {{}} \cup {{c} : c \in Clis} :
               Goto(p, "load", J("revert", Nothing, scope, only))
      BY DEF Lock, Locked, Arguments
    <2> HIDE DEF J
    <2> QED BY <2>1, <2>2
  <1>4. /\ lock = Nothing /\ lock' = p
        /\ DOMAIN pc = Procs /\ DOMAIN job = Procs /\ \A q \in Procs : pc[q] \in Busy <=> lock = q
        /\ \A q \in Procs : ProcOK(pc[q], job[q], state, backups, config, pristine, spoilt)
    BY DEF SwapInv, LockOK, Lock
  <1>5. /\ DOMAIN pc' = Procs /\ DOMAIN job' = Procs /\ pc'[p] = "load" /\ job'[p] = j
        /\ \A q \in Procs \ {p} : pc'[q] = pc[q] /\ job'[q] = job[q]
    BY <1>3, <1>4 DEF Goto
  <1>6. \A q \in Procs : pc[q] \notin Busy
    BY <1>4, SwapAssumption DEF Nothing
  <1>7. LockOK'
    BY <1>4, <1>5, <1>6 DEF LockOK, Busy
  <1>8. ProcOK("load", j, state', backups', config', pristine', spoilt')
    BY <1>3 DEF ProcOK, JobOK, Busy, Swapping, Reverting
  <1>9. ASSUME NEW q \in Procs
        PROVE  ProcOK(pc'[q], job'[q], state', backups', config', pristine', spoilt')
    <2>1. CASE q = p
      BY <1>5, <1>8, <2>1
    <2>2. CASE q # p
      BY <1>1, <1>4, <1>5, <2>2
    <2> QED BY <2>1, <2>2
  <1> QED BY <1>2, <1>7, <1>9 DEF SwapInv

LEMMA ReturnKeeps ==
  ASSUME SwapInv, NEW p \in Procs, pc[p] \in Busy, Return(p) PROVE SwapInv'
  <1>1. FilesOK(state', backups', config', pristine', spoilt')
    BY FilesKept DEF Return, OnDisk
  <1>2. Goto(p, "idle", NoJob) /\ lock' = Nothing /\ link' = link
    BY DEF Return, OnDisk
  <1> QED BY <1>1, <1>2, Stops

LEMMA CrashKeeps ==
  ASSUME SwapInv, NEW p \in Procs, Crash(p) PROVE SwapInv'
  <1>1. FilesOK(state', backups', config', pristine', spoilt') /\ LinksOK'
    BY FilesKept DEF Crash
  <1>2. CASE pc[p] \in Busy
    <2>1. Goto(p, "idle", NoJob) /\ lock' = Nothing /\ link' = link
      BY <1>2, OthersAside DEF Crash
    <2> QED BY <1>1, <1>2, <2>1, Stops
  <1>3. CASE pc[p] \notin Busy
    <2>1. /\ DOMAIN pc = Procs /\ DOMAIN job = Procs /\ \A q \in Procs : pc[q] \in Busy <=> lock = q
          /\ \A q \in Procs : ProcOK(pc[q], job[q], state, backups, config, pristine, spoilt)
      BY DEF SwapInv, LockOK
    <2>2. /\ lock' = lock
          /\ DOMAIN pc' = Procs /\ DOMAIN job' = Procs /\ pc'[p] = "idle" /\ job'[p] = NoJob
          /\ \A q \in Procs \ {p} : pc'[q] = pc[q] /\ job'[q] = job[q]
      BY <1>3, <2>1 DEF Crash, Goto
    <2>3. LockOK'
      BY <1>3, <2>1, <2>2 DEF LockOK, Busy, Swapping, Reverting
    <2>4. UNCHANGED <<state, backups, config, pristine, spoilt>>
      BY DEF Crash
    <2>5. ASSUME NEW q \in Procs
          PROVE  ProcOK(pc'[q], job'[q], state', backups', config', pristine', spoilt')
      <3>1. CASE q = p
        BY <2>2, <3>1, AsideIsOK, NoJobIs
      <3>2. CASE q # p
        BY <2>1, <2>2, <2>4, <3>2
      <3> QED BY <3>1, <3>2
    <2> QED BY <1>1, <2>3, <2>5 DEF SwapInv
  <1> QED BY <1>2, <1>3

LEMMA LoadStateKeeps ==
  ASSUME SwapInv, NEW p \in Procs, LoadState(p) PROVE SwapInv'
  <1>1. PICK j : j = job[p]
    OBVIOUS
  <1>2. PICK todo : todo = IF j.only # {} THEN j.only
                           ELSE IF j.op = "use" THEN PresentClis
                           ELSE {k[1] : k \in DOMAIN state}
    OBVIOUS
  <1>3. PICK nj : nj = [j EXCEPT !.mem = state, !.todo = todo, !.only = IF j.op = "use" THEN {} ELSE @]
    OBVIOUS
  <1>4. Goto(p, "next", nj) /\ lock' = lock /\ pc[p] = "load"
    BY <1>1, <1>2, <1>3 DEF LoadState
  <1>5. UNCHANGED <<config, link, state, backups, pristine, spoilt>>
    BY DEF LoadState, OnDisk
  <1>6. "load" \in Busy
    BY DEF Busy
  <1>7. DOMAIN j = JobFields /\ JobOK("load", j, state)
    BY <1>1, <1>4, <1>6 DEF SwapInv, ProcOK
  <1>8. /\ DOMAIN nj = JobFields /\ nj.mem = state /\ nj.todo = todo
        /\ nj.op = j.op /\ nj.scope = j.scope /\ nj.only = IF j.op = "use" THEN {} ELSE j.only
    BY <1>3, <1>7 DEF JobFields
  <1>9. StateOK(state)
    BY DEF SwapInv, FilesOK
  <1>10. todo \subseteq Clis
    BY <1>2, <1>7, <1>9 DEF JobOK, PresentClis, StateOK, SwapKeys
  <1>11. AllTaken("next", nj)
    BY <1>2, <1>8 DEF AllTaken, RevertsAll
  <1>12. /\ nj.op \in {"use", "revert"}
         /\ nj.op = "use" => nj.scope \in {Nothing, "user"}
    BY <1>7, <1>8 DEF JobOK
  <1>13. FilesOK(state', backups', config', pristine', spoilt')
    BY <1>5, FilesKept
  <1>14. nj.mem = state' /\ nj.todo \subseteq Clis /\ link' = link
    BY <1>5, <1>8, <1>10
  <1> QED BY <1>4, <1>6, <1>8, <1>11, <1>12, <1>13, <1>14, GoesOn

(* The next iteration of a loop that leaves the files alone.               *)
LEMMA SkipKeeps ==
  ASSUME SwapInv, NEW p \in Procs, pc[p] \in Busy,
         NEW j, Skip(p, j), AllTaken("next", j),
         DOMAIN j = JobFields, j.op \in {"use", "revert"},
         j.op = "use" => j.scope \in {Nothing, "user"},
         j.todo \subseteq Clis, j.mem = state
  PROVE  SwapInv'
  <1>1. PICK nj : nj = [j EXCEPT !.cli = Nothing, !.layers = {}]
    OBVIOUS
  <1>2. Goto(p, "next", nj) /\ lock' = lock /\ UNCHANGED <<config, link, state, backups, pristine, spoilt>>
    BY <1>1 DEF Skip, OnDisk
  <1>3. /\ DOMAIN nj = JobFields /\ nj.op = j.op /\ nj.scope = j.scope /\ nj.only = j.only
        /\ nj.todo = j.todo /\ nj.mem = j.mem /\ nj.rc = j.rc
    BY <1>1 DEF JobFields
  <1>4. AllTaken("next", nj)
    BY <1>3 DEF AllTaken, RevertsAll
  <1>5. /\ nj.op \in {"use", "revert"} /\ nj.todo \subseteq Clis /\ nj.mem = state'
        /\ nj.op = "use" => nj.scope \in {Nothing, "user"}
    BY <1>2, <1>3
  <1>6. FilesOK(state', backups', config', pristine', spoilt')
    BY <1>2, FilesKept
  <1> QED BY <1>2, <1>3, <1>4, <1>5, <1>6, GoesOn

LEMMA FailKeeps ==
  ASSUME SwapInv, NEW p \in Procs, pc[p] \in Busy, NEW j, Fail(p, j),
         DOMAIN j = JobFields, j.op \in {"use", "revert"},
         j.op = "use" => j.scope \in {Nothing, "user"},
         j.todo \subseteq Clis, j.mem = state
  PROVE  SwapInv'
  <1>1. PICK nj : nj = [Failed(j) EXCEPT !.cli = Nothing, !.layers = {}]
    OBVIOUS
  <1>2. Goto(p, "next", nj) /\ lock' = lock /\ UNCHANGED <<config, link, state, backups, pristine, spoilt>>
    BY <1>1 DEF Fail
  <1>3. /\ DOMAIN nj = JobFields /\ nj.op = j.op /\ nj.scope = j.scope
        /\ nj.todo = j.todo /\ nj.mem = j.mem /\ nj.rc = 1
    BY <1>1 DEF JobFields, Failed
  <1>4. AllTaken("next", nj)
    BY <1>3 DEF AllTaken, RevertsAll
  <1>5. /\ nj.op \in {"use", "revert"} /\ nj.todo \subseteq Clis /\ nj.mem = state'
        /\ nj.op = "use" => nj.scope \in {Nothing, "user"}
    BY <1>2, <1>3
  <1>6. FilesOK(state', backups', config', pristine', spoilt')
    BY <1>2, FilesKept
  <1> QED BY <1>2, <1>3, <1>4, <1>5, <1>6, GoesOn

-----------------------------------------------------------------------------
(* use-local.                                                              *)

LEMMA ReadConfigKeeps ==
  ASSUME SwapInv, NEW p \in Procs, ReadConfig(p) PROVE SwapInv'
  <1>1. PICK i : i = job[p]
    OBVIOUS
  <1>2. PICK c \in i.todo :
          LET j == [i EXCEPT !.todo = @ \ {c}, !.cli = c, !.target = link[c], !.orig = Live(c)] IN
          \/ Skip(p, j) \/ Skip(p, Failed(j))
          \/ Goto(p, "backup", j) /\ UNCHANGED <<OnDisk, lock>>
          \/ Fail(p, j)
    BY <1>1 DEF ReadConfig
  <1>3. PICK j : j = [i EXCEPT !.todo = @ \ {c}, !.cli = c, !.target = link[c], !.orig = Live(c)]
    OBVIOUS
  <1>4. \/ Skip(p, j) \/ Skip(p, Failed(j))
        \/ Goto(p, "backup", j) /\ UNCHANGED <<OnDisk, lock>>
        \/ Fail(p, j)
    BY <1>2, <1>3
  <1>5. pc[p] = "next" /\ i.op = "use" /\ pc[p] \in Busy
    BY <1>1 DEF ReadConfig, Busy
  <1>6. DOMAIN i = JobFields /\ JobOK("next", i, state)
    BY <1>1, <1>5 DEF SwapInv, ProcOK
  <1>7. /\ DOMAIN j = JobFields /\ j.op = i.op /\ j.scope = i.scope /\ j.todo = i.todo \ {c}
        /\ j.mem = i.mem /\ j.cli = c /\ j.target = link[c] /\ j.orig = config[<<c, link[c]>>]
    BY <1>3, <1>6 DEF JobFields, Live
  <1>8. PICK fj : fj = Failed(j)
    OBVIOUS
  <1>9. DOMAIN fj = JobFields /\ fj.op = i.op /\ fj.scope = i.scope /\ fj.todo = j.todo /\ fj.mem = j.mem
    BY <1>7, <1>8 DEF JobFields, Failed
  <1>10. /\ j.op = "use" /\ j.scope \in {Nothing, "user"} /\ j.todo \subseteq Clis /\ j.mem = state
         /\ c \in Clis /\ link[c] \in Places
    BY <1>5, <1>6, <1>7 DEF JobOK, SwapInv, LinksOK
  <1>11. AllTaken("next", j) /\ AllTaken("next", fj)
    BY <1>5, <1>9, <1>10 DEF AllTaken, RevertsAll
  <1>12. CASE Skip(p, j)
    BY <1>5, <1>7, <1>10, <1>11, <1>12, SkipKeeps
  <1>13. CASE Skip(p, Failed(j))
    <2>1. Skip(p, fj) /\ fj.op = "use" /\ fj.scope \in {Nothing, "user"} /\ fj.todo \subseteq Clis /\ fj.mem = state
      BY <1>5, <1>7, <1>8, <1>9, <1>10, <1>13
    <2> QED BY <1>5, <1>9, <1>11, <2>1, SkipKeeps
  <1>14. CASE Fail(p, j)
    BY <1>5, <1>7, <1>10, <1>14, FailKeeps
  <1>15. CASE Goto(p, "backup", j) /\ UNCHANGED <<OnDisk, lock>>
    <2>1. UNCHANGED <<config, link, state, backups, pristine, spoilt, lock>>
      BY <1>15 DEF OnDisk
    <2>2. FilesOK(state', backups', config', pristine', spoilt')
      BY <2>1, FilesKept
    <2>3. JobOK("backup", j, state')
      BY <1>6, <1>7, <1>10, <2>1 DEF JobOK
    <2>4. SwapOK("backup", j, state', backups', config', pristine', spoilt')
      <3>1. Aim(j) = <<c, link[c]>> /\ Aim(j) \in Files
        BY <1>7, <1>10 DEF Aim, Files
      <3>2. Aim(j) \notin spoilt' => Found(j.mem, backups', j.orig, pristine'[Aim(j)], Aim(j))
        BY <1>7, <1>10, <2>1, <2>2, <3>1 DEF FilesOK
      <3> QED BY <1>7, <1>10, <3>2 DEF SwapOK
    <2>5. ProcOK("backup", j, state', backups', config', pristine', spoilt')
      BY <1>7, <2>3, <2>4 DEF ProcOK, Busy, Swapping, Reverting
    <2>6. ("backup" \in Busy /\ lock' = lock) \/ ("backup" = "idle" /\ lock' = Nothing)
      BY <2>1 DEF Busy, Swapping
    <2> QED BY <1>5, <1>15, <2>1, <2>2, <2>5, <2>6, OneProcessSteps
  <1> QED BY <1>4, <1>12, <1>13, <1>14, <1>15

LEMMA KeyIs ==
  ASSUME NEW j, j.cli \in Clis, j.scope \in {Nothing, "user"}
  PROVE  Key(j) \in SwapKeys /\ Key(j)[1] = j.cli
  <1>1. Normalize(j.cli, j.scope) \in {"user", "project"}
    BY DEF Normalize, Nothing
  <1> QED BY <1>1 DEF Key, SwapKeys

LEMMA MovedIs ==
  ASSUME NEW st, StateOK(st), NEW su, StateOK(su), NEW k, k \in DOMAIN su
  PROVE  \A x \in Moved(st, su, k) : x[1] = k[1]
  BY FileOfIs DEF Moved

LEMMA AimIs ==
  ASSUME NEW j, j.cli \in Clis, j.target \in Places
  PROVE  Aim(j) \in Files /\ Aim(j)[1] = j.cli
  BY DEF Aim, Files

(* What a backup leaves in memory, and on disk.                            *)
LEMMA BackedUp ==
  ASSUME SwapInv, NEW p \in Procs, pc[p] = "backup",
         NEW j, j = job[p], NEW k, k = Key(j), NEW mem,
         Goto(p, "record", [j EXCEPT !.prev = j.mem, !.mem = mem]),
         UNCHANGED <<config, link, state, pristine, spoilt, lock>>,
         StateOK(mem), k \in DOMAIN mem, mem[k].target = j.target,
         \A x \in Files : x[1] # j.cli => SameLayers(j.mem, mem, x),
         \A x \in Files : x # Aim(j) /\ x \notin spoilt \cup Moved(j.mem, mem, k)
           => SameLayers(j.mem, mem, x),
         FilesOK(state', backups', config', pristine', spoilt'),
         Aim(j) \notin spoilt \cup Moved(j.mem, mem, k)
           => /\ Found(j.mem, backups', j.orig, pristine[Aim(j)], Aim(j))
              /\ Found(mem, backups', j.orig, pristine[Aim(j)], Aim(j))
  PROVE  SwapInv'
  <1>1. pc[p] \in Busy /\ pc[p] \in Swapping
    BY DEF Busy, Swapping
  <1>2. /\ DOMAIN j = JobFields /\ JobOK("backup", j, state)
        /\ SwapOK("backup", j, state, backups, config, pristine, spoilt)
    BY <1>1 DEF SwapInv, ProcOK
  <1>3. PICK nj : nj = [j EXCEPT !.prev = j.mem, !.mem = mem]
    OBVIOUS
  <1>4. /\ DOMAIN nj = JobFields /\ nj.op = j.op /\ nj.scope = j.scope /\ nj.todo = j.todo
        /\ nj.mem = mem /\ nj.prev = j.mem /\ nj.cli = j.cli /\ nj.target = j.target
        /\ nj.orig = j.orig
    BY <1>2, <1>3 DEF JobFields
  <1>5. Key(nj) = k /\ Aim(nj) = Aim(j)
    BY <1>4 DEF Key, Aim
  <1>6. /\ j.op = "use" /\ j.scope \in {Nothing, "user"} /\ j.todo \subseteq Clis
        /\ j.mem = state /\ StateOK(j.mem) /\ j.cli \in Clis /\ j.target \in Places
    BY <1>2 DEF JobOK, SwapOK
  <1>7. JobOK("record", nj, state')
    BY <1>4, <1>6 DEF JobOK
  <1>8. Doomed("record", nj, spoilt') = spoilt \cup Moved(j.mem, mem, k)
    BY <1>4, <1>5 DEF Doomed
  <1>9. SwapOK("record", nj, state', backups', config', pristine', spoilt')
    <2>1. /\ StateOK(nj.prev) /\ Key(nj) \in DOMAIN nj.mem /\ nj.mem[Key(nj)].target = nj.target
          /\ nj.prev = state' /\ nj.op = "use" /\ nj.cli \in Clis /\ nj.target \in Places
      BY <1>4, <1>5, <1>6
    <2>2. \A x \in Files : x[1] # nj.cli => SameLayers(nj.prev, nj.mem, x)
      BY <1>4
    <2>3. \A x \in Files : x # Aim(nj) /\ x \notin Doomed("record", nj, spoilt')
            => SameLayers(nj.prev, nj.mem, x)
      BY <1>4, <1>5, <1>8
    <2>4. Aim(nj) \notin Doomed("record", nj, spoilt')
            => /\ Found(nj.prev, backups', nj.orig, pristine'[Aim(nj)], Aim(nj))
               /\ Found(nj.mem, backups', nj.orig, pristine'[Aim(nj)], Aim(nj))
      BY <1>4, <1>5, <1>8
    <2> QED BY <2>1, <2>2, <2>3, <2>4 DEF SwapOK
  <1>10. ProcOK("record", nj, state', backups', config', pristine', spoilt')
    BY <1>4, <1>7, <1>9 DEF ProcOK, Busy, Swapping, Reverting
  <1>11. Goto(p, "record", nj)
    BY <1>3
  <1>12. ("record" \in Busy /\ lock' = lock) \/ ("record" = "idle" /\ lock' = Nothing)
    BY DEF Busy, Swapping
  <1> QED BY <1>1, <1>10, <1>11, <1>12, OneProcessSteps

LEMMA BackupKeeps ==
  ASSUME SwapInv, NEW p \in Procs, Backup(p) PROVE SwapInv'
  <1>1. PICK j : j = job[p]
    OBVIOUS
  <1>2. pc[p] = "backup" /\ pc[p] \in Busy /\ pc[p] \in Swapping
    BY DEF Backup, Busy, Swapping
  <1>3. /\ DOMAIN j = JobFields /\ JobOK("backup", j, state)
        /\ SwapOK("backup", j, state, backups, config, pristine, spoilt)
    BY <1>1, <1>2 DEF SwapInv, ProcOK
  <1>4. /\ j.op = "use" /\ j.scope \in {Nothing, "user"} /\ j.todo \subseteq Clis
        /\ j.mem = state /\ StateOK(j.mem) /\ j.cli \in Clis /\ j.target \in Places
        /\ Aim(j) \notin spoilt => Found(j.mem, backups, j.orig, pristine[Aim(j)], Aim(j))
    BY <1>3 DEF JobOK, SwapOK
  <1>5. PICK k : k = Key(j)
    OBVIOUS
  <1>6. k \in SwapKeys /\ k[1] = j.cli /\ Aim(j) = <<k[1], j.target>>
    BY <1>4, <1>5, KeyIs DEF Aim
  <1>7. FilesOK(state, backups, config, pristine, spoilt)
    BY DEF SwapInv
  <1>8. ASSUME NEW b \in SwapKeys \X Nat, b[1] = k,
               NEW mem, mem = Register(j.mem, k, b, j.target),
               k \in DOMAIN j.mem => FileOf(j.mem, k) \in spoilt \cup Moved(j.mem, mem, k) \cup {Aim(j)}
        PROVE  /\ StateOK(mem) /\ k \in DOMAIN mem /\ mem[k].target = j.target
               /\ \A x \in Files : x[1] # j.cli => SameLayers(j.mem, mem, x)
               /\ \A x \in Files : x # Aim(j) /\ x \notin spoilt \cup Moved(j.mem, mem, k)
                    => SameLayers(j.mem, mem, x)
    <2>1. StateOK(mem) /\ k \in DOMAIN mem /\ mem[k].target = j.target
      <3>1. StateOK(j.mem) /\ k \in SwapKeys /\ j.target \in Places
        BY <1>4, <1>6
      <3>2. b[1] = k
        BY <1>8
      <3>3. mem = Register(j.mem, k, b, j.target)
        BY <1>8
      <3>4. StateOK(mem)
        BY <3>1, <3>2, <3>3, RegisterIsOK
      <3>5. k \in DOMAIN mem /\ mem[k].target = j.target
        BY <3>3 DEF Register, With
      <3> QED BY <3>4, <3>5
    <2>2. \A x : x # Aim(j) /\ (k \in DOMAIN j.mem => x # FileOf(j.mem, k)) => SameLayers(j.mem, mem, x)
      BY <1>4, <1>6, <1>8, RegisterElsewhere
    <2>3. Aim(j)[1] = j.cli /\ (k \in DOMAIN j.mem => FileOf(j.mem, k)[1] = j.cli)
      BY <1>4, <1>6, FileOfIs
    <2> QED BY <1>8, <2>1, <2>2, <2>3
  <1>9. CASE KeepsBackup(j)
              /\ Goto(p, "record", [j EXCEPT !.prev = j.mem, !.mem = Register(j.mem, Key(j), j.mem[Key(j)].backup, j.target)])
              /\ UNCHANGED <<OnDisk, lock>>
    <2>1. k \in DOMAIN j.mem
      BY <1>5, <1>9 DEF KeepsBackup
    <2>2. PICK b : b = j.mem[k].backup
      OBVIOUS
    <2>3. b \in SwapKeys \X Nat /\ b[1] = k
      BY <1>4, <2>1, <2>2 DEF StateOK
    <2>4. PICK mem : mem = Register(j.mem, k, b, j.target)
      OBVIOUS
    <2>5. mem[k].backup = b /\ mem[k].target = j.target
      BY <2>4 DEF Register, With
    <2>6. UNCHANGED <<config, link, state, backups, pristine, spoilt, lock>>
      BY <1>9 DEF OnDisk
    <2>7. FilesOK(state', backups', config', pristine', spoilt')
      BY <2>6, FilesKept
    <2>8. Goto(p, "record", [j EXCEPT !.prev = j.mem, !.mem = mem])
      BY <1>5, <1>9, <2>2, <2>4
    <2>9. FileOf(j.mem, k) = <<k[1], j.mem[k].target>> /\ FileOf(mem, k) = <<k[1], j.target>>
      BY <2>5 DEF FileOf
    <2>10. IF j.mem[k].target = j.target THEN FileOf(j.mem, k) = Aim(j)
           ELSE Moved(j.mem, mem, k) = {FileOf(j.mem, k), Aim(j)}
      BY <1>6, <2>1, <2>2, <2>5, <2>9 DEF Moved
    <2>11. FileOf(j.mem, k) \in spoilt \cup Moved(j.mem, mem, k) \cup {Aim(j)}
      BY <2>10
    <2>12. /\ StateOK(mem) /\ k \in DOMAIN mem /\ mem[k].target = j.target
           /\ \A x \in Files : x[1] # j.cli => SameLayers(j.mem, mem, x)
           /\ \A x \in Files : x # Aim(j) /\ x \notin spoilt \cup Moved(j.mem, mem, k)
                => SameLayers(j.mem, mem, x)
      BY <1>8, <2>3, <2>4, <2>11
    <2>13. ASSUME Aim(j) \notin spoilt \cup Moved(j.mem, mem, k)
           PROVE  /\ Found(j.mem, backups', j.orig, pristine[Aim(j)], Aim(j))
                  /\ Found(mem, backups', j.orig, pristine[Aim(j)], Aim(j))
      <3>1. Found(j.mem, backups, j.orig, pristine[Aim(j)], Aim(j))
        BY <1>4, <2>13
      <3>2. j.mem[k].target = j.target /\ FileOf(j.mem, k) = Aim(j)
        BY <2>10, <2>13
      <3>3. Found(j.mem, backups, j.orig, pristine[Aim(j)], FileOf(j.mem, k))
        BY <3>1, <3>2
      <3>4. Found(Register(j.mem, k, j.mem[k].backup, j.mem[k].target), backups, j.orig,
                  pristine[Aim(j)], FileOf(j.mem, k))
        BY <1>4, <1>6, <2>1, <3>3, FoundKept
      <3> QED BY <2>2, <2>4, <2>6, <3>1, <3>2, <3>4
    <2> QED BY <1>1, <1>2, <1>5, <2>6, <2>7, <2>8, <2>12, <2>13, BackedUp
  <1>10. CASE ~KeepsBackup(j)
              /\ (\E b \in FreshNames(Key(j)) :
                    /\ backups' = With(backups, b, j.orig)
                    /\ Goto(p, "record", [j EXCEPT !.prev = j.mem, !.mem = Register(j.mem, Key(j), b, j.target)]))
              /\ UNCHANGED <<config, link, state, pristine, spoilt, commands, mishaps, lock>>
    <2>1. PICK b \in FreshNames(k) :
            /\ backups' = With(backups, b, j.orig)
            /\ Goto(p, "record", [j EXCEPT !.prev = j.mem, !.mem = Register(j.mem, k, b, j.target)])
      BY <1>5, <1>10
    <2>2. b \in SwapKeys \X Nat /\ b[1] = k /\ b \notin DOMAIN backups
      BY <1>6, SwapAssumption DEF FreshNames, BackupNames
    <2>3. UNCHANGED <<config, link, state, pristine, spoilt, lock>>
      BY <1>10
    <2>4. DOMAIN backups' = DOMAIN backups \cup {b} /\ \A y \in DOMAIN backups : backups'[y] = backups[y]
      BY <2>1, <2>2 DEF With
    <2>5. ASSUME NEW x, NEW f, NEW o, Found(state, backups, f, o, x)
          PROVE  Found(state, backups', f, o, x)
      BY <2>4, <2>5 DEF Found
    <2>6. FilesOK(state', backups', config', pristine', spoilt')
      BY <1>7, <2>2, <2>3, <2>4, <2>5 DEF FilesOK
    <2>7. PICK mem : mem = Register(j.mem, k, b, j.target)
      OBVIOUS
    <2>8. ASSUME k \in DOMAIN j.mem PROVE FileOf(j.mem, k) \in spoilt
      <3>1. j.mem[k].backup \notin DOMAIN backups
        BY <1>5, <1>10, <2>8 DEF KeepsBackup
      <3>2. FileOf(j.mem, k) \in Files /\ k \in LayersAt(j.mem, FileOf(j.mem, k))
        BY <1>4, <2>8, FileOfIs
      <3> QED BY <1>4, <1>7, <3>1, <3>2 DEF FilesOK, Found
    <2>9. /\ StateOK(mem) /\ k \in DOMAIN mem /\ mem[k].target = j.target
          /\ \A x \in Files : x[1] # j.cli => SameLayers(j.mem, mem, x)
          /\ \A x \in Files : x # Aim(j) /\ x \notin spoilt \cup Moved(j.mem, mem, k)
               => SameLayers(j.mem, mem, x)
      BY <1>8, <2>2, <2>7, <2>8
    <2>10. ASSUME Aim(j) \notin spoilt \cup Moved(j.mem, mem, k)
           PROVE  /\ Found(j.mem, backups', j.orig, pristine[Aim(j)], Aim(j))
                  /\ Found(mem, backups', j.orig, pristine[Aim(j)], Aim(j))
      <3>1. Found(j.mem, backups, j.orig, pristine[Aim(j)], Aim(j))
        BY <1>4, <2>10
      <3>2. Found(j.mem, backups', j.orig, pristine[Aim(j)], Aim(j))
        BY <1>4, <2>5, <3>1
      <3>3. ASSUME k \in DOMAIN j.mem PROVE FileOf(j.mem, k) # Aim(j) /\ j.mem[k].backup # b
        <4>1. FileOf(j.mem, k) # Aim(j)
          BY <2>8, <2>10, <3>3
        <4>2. mem[k].backup = b /\ FileOf(mem, k) = Aim(j)
          <5>1. mem[k].backup = b /\ mem[k].target = j.target
            BY <2>7 DEF Register, With
          <5> QED BY <1>6, <5>1 DEF FileOf
        <4>3. j.mem[k].target # mem[k].target
          BY <4>1, <4>2 DEF FileOf
        <4> QED BY <2>10, <3>3, <4>1, <4>2, <4>3 DEF Moved
      <3>4. Found(mem, With(backups, b, j.orig), j.orig, pristine[Aim(j)], Aim(j))
        BY <1>4, <1>6, <2>2, <2>7, <3>1, <3>3, FoundWith
      <3> QED BY <2>1, <3>2, <3>4
    <2>11. Goto(p, "record", [j EXCEPT !.prev = j.mem, !.mem = mem])
      BY <2>1, <2>7
    <2> QED BY <1>1, <1>2, <1>5, <2>3, <2>6, <2>9, <2>10, <2>11, BackedUp
  <1>11. CASE ~KeepsBackup(j) /\ Fail(p, j)
    BY <1>2, <1>3, <1>4, <1>11, FailKeeps
  <1> QED BY <1>1, <1>9, <1>10, <1>11 DEF Backup

(* The swap that is recorded, written, rolled back or taken off the record. *)
LEMMA SwappingIs ==
  ASSUME SwapInv, NEW p \in Procs, pc[p] \in {"record", "write", "rollback", "unrecord"}
  PROVE  LET j == job[p] IN
         /\ pc[p] \in Busy /\ lock = p /\ DOMAIN j = JobFields
         /\ j.op = "use" /\ j.scope \in {Nothing, "user"} /\ j.todo \subseteq Clis
         /\ j.cli \in Clis /\ j.target \in Places
         /\ StateOK(j.mem) /\ StateOK(j.prev)
         /\ Key(j) \in DOMAIN j.mem /\ j.mem[Key(j)].target = j.target
         /\ Key(j) \in LayersAt(j.mem, Aim(j))
         /\ \A x \in Files : x[1] # j.cli => SameLayers(j.prev, j.mem, x)
         /\ \A x \in Files : x # Aim(j) /\ x \notin Doomed(pc[p], j, spoilt)
              => SameLayers(j.prev, j.mem, x)
         /\ Aim(j) \notin Doomed(pc[p], j, spoilt)
              => Found(j.prev, backups, j.orig, pristine[Aim(j)], Aim(j))
         /\ pc[p] # "record" => j.mem = state
  <1>1. PICK j : j = job[p]
    OBVIOUS
  <1>2. pc[p] \in Busy /\ pc[p] \in Swapping /\ lock = p /\ pc[p] # "backup"
    BY OthersAside DEF Busy, Swapping
  <1>3. /\ DOMAIN j = JobFields /\ JobOK(pc[p], j, state)
        /\ SwapOK(pc[p], j, state, backups, config, pristine, spoilt)
    BY <1>1, <1>2 DEF SwapInv, ProcOK
  <1>4. /\ j.op = "use" /\ j.scope \in {Nothing, "user"} /\ j.todo \subseteq Clis
        /\ StateOK(j.mem) /\ (pc[p] # "record" => j.mem = state)
    BY <1>3 DEF JobOK, SwapOK
  <1>5. /\ j.cli \in Clis /\ j.target \in Places /\ StateOK(j.prev)
        /\ Key(j) \in DOMAIN j.mem /\ j.mem[Key(j)].target = j.target
        /\ \A x \in Files : x[1] # j.cli => SameLayers(j.prev, j.mem, x)
        /\ \A x \in Files : x # Aim(j) /\ x \notin Doomed(pc[p], j, spoilt)
             => SameLayers(j.prev, j.mem, x)
        /\ Aim(j) \notin Doomed(pc[p], j, spoilt)
             => Found(j.prev, backups, j.orig, pristine[Aim(j)], Aim(j))
    BY <1>2, <1>3 DEF SwapOK
  <1>6. Key(j) \in LayersAt(j.mem, Aim(j))
    BY <1>4, <1>5, KeyIs DEF LayersAt, FileOf, Aim
  <1> QED BY <1>1, <1>2, <1>3, <1>4, <1>5, <1>6

(* On with the same swap.                                                  *)
LEMMA SwapGoesOn ==
  ASSUME SwapInv, NEW p \in Procs, pc[p] \in {"record", "write", "rollback", "unrecord"},
         NEW l \in {"write", "rollback", "unrecord"}, Goto(p, l, job[p]), job[p].mem = state',
         UNCHANGED <<link, backups, pristine, lock>>,
         Doomed(pc[p], job[p], spoilt) \subseteq spoilt',
         FilesOK(state', backups', config', pristine', spoilt'),
         l = "unrecord" /\ Aim(job[p]) \notin spoilt' => config'[Aim(job[p])] = job[p].orig
  PROVE  SwapInv'
  <1>1. PICK j : j = job[p]
    OBVIOUS
  <1>2. /\ pc[p] \in Busy /\ DOMAIN j = JobFields
        /\ j.op = "use" /\ j.scope \in {Nothing, "user"} /\ j.todo \subseteq Clis
        /\ j.cli \in Clis /\ j.target \in Places
        /\ StateOK(j.mem) /\ StateOK(j.prev)
        /\ Key(j) \in DOMAIN j.mem /\ j.mem[Key(j)].target = j.target
        /\ \A x \in Files : x[1] # j.cli => SameLayers(j.prev, j.mem, x)
    BY <1>1, SwappingIs
  <1>3. /\ \A x \in Files : x # Aim(j) /\ x \notin Doomed(pc[p], j, spoilt)
             => SameLayers(j.prev, j.mem, x)
        /\ Aim(j) \notin Doomed(pc[p], j, spoilt)
             => Found(j.prev, backups, j.orig, pristine[Aim(j)], Aim(j))
    BY <1>1, SwappingIs
  <1>4. JobOK(l, j, state')
    BY <1>1, <1>2 DEF JobOK
  <1>5. SwapOK(l, j, state', backups', config', pristine', spoilt')
    <2>1. Doomed(l, j, spoilt') = spoilt' /\ l # "backup" /\ l # "record"
      BY DEF Doomed
    <2>2. \A x \in Files : x # Aim(j) /\ x \notin spoilt' => SameLayers(j.prev, j.mem, x)
      BY <1>1, <1>3
    <2>3. Aim(j) \notin spoilt' => Found(j.prev, backups', j.orig, pristine'[Aim(j)], Aim(j))
      BY <1>1, <1>3
    <2>4. l = "unrecord" /\ Aim(j) \notin spoilt' => config'[Aim(j)] = j.orig
      BY <1>1
    <2> QED BY <1>2, <2>1, <2>2, <2>3, <2>4 DEF SwapOK
  <1>6. ProcOK(l, j, state', backups', config', pristine', spoilt')
    BY <1>2, <1>4, <1>5 DEF ProcOK, Busy, Swapping, Reverting
  <1>7. (l \in Busy /\ lock' = lock) \/ (l = "idle" /\ lock' = Nothing)
    BY DEF Busy, Swapping
  <1> QED BY <1>1, <1>2, <1>6, <1>7, OneProcessSteps

LEMMA RecordKeeps ==
  ASSUME SwapInv, NEW p \in Procs, Record(p) PROVE SwapInv'
  <1>1. PICK j : j = job[p]
    OBVIOUS
  <1>2. /\ pc[p] = "record" /\ pc[p] \in Busy /\ pc[p] \in Swapping
        /\ pc[p] \in {"record", "write", "rollback", "unrecord"}
    BY DEF Record, Busy, Swapping
  <1>3. /\ DOMAIN j = JobFields /\ j.op = "use" /\ j.scope \in {Nothing, "user"}
        /\ j.todo \subseteq Clis /\ StateOK(j.mem)
        /\ Key(j) \in LayersAt(j.mem, Aim(j))
        /\ \A x \in Files : x # Aim(j) /\ x \notin Doomed("record", j, spoilt)
             => SameLayers(j.prev, j.mem, x)
    BY <1>1, <1>2, SwappingIs
  <1>4. SwapOK("record", j, state, backups, config, pristine, spoilt)
    BY <1>1, <1>2 DEF SwapInv, ProcOK
  <1>5. /\ j.prev = state
        /\ Aim(j) \notin Doomed("record", j, spoilt)
             => Found(j.mem, backups, j.orig, pristine[Aim(j)], Aim(j))
    BY <1>4 DEF SwapOK
  <1>6. CASE /\ state' = j.mem
             /\ spoilt' = spoilt \cup Moved(j.prev, j.mem, Key(j))
             /\ Goto(p, "write", j)
             /\ UNCHANGED <<config, link, backups, pristine, commands, mishaps, lock>>
    <2>1. FilesOK(state, backups, config, pristine, spoilt)
      BY DEF SwapInv
    <2>2. spoilt' = Doomed("record", j, spoilt) /\ spoilt \subseteq spoilt'
      BY <1>6 DEF Doomed
    <2>3. ASSUME NEW x \in Files \ spoilt'
          PROVE  Found(j.mem, backups, config[x], pristine[x], x)
      <3>1. CASE x = Aim(j)
        BY <1>3, <1>5, <2>2, <3>1 DEF Found
      <3>2. CASE x # Aim(j)
        <4>1. SameLayers(state, j.mem, x) /\ Found(state, backups, config[x], pristine[x], x)
          BY <1>3, <1>5, <2>1, <2>2, <3>2 DEF FilesOK
        <4> QED BY <4>1, StillFound
      <3> QED BY <3>1, <3>2
    <2>4. FilesOK(state', backups', config', pristine', spoilt')
      BY <1>3, <1>6, <2>1, <2>3 DEF FilesOK
    <2>5. "write" \in {"write", "rollback", "unrecord"} /\ "write" # "unrecord"
      OBVIOUS
    <2>6. /\ Goto(p, "write", job[p]) /\ job[p].mem = state'
          /\ UNCHANGED <<link, backups, pristine, lock>>
          /\ Doomed(pc[p], job[p], spoilt) \subseteq spoilt'
      BY <1>1, <1>2, <1>6, <2>2
    <2> QED BY <1>2, <2>4, <2>5, <2>6, SwapGoesOn
  <1>7. CASE Fail(p, [j EXCEPT !.mem = j.prev])
    <2>1. PICK nj : nj = [j EXCEPT !.mem = j.prev]
      OBVIOUS
    <2>2. /\ DOMAIN nj = JobFields /\ nj.op = j.op /\ nj.scope = j.scope /\ nj.todo = j.todo
          /\ nj.mem = j.prev
      BY <1>3, <2>1 DEF JobFields
    <2>3. /\ Fail(p, nj) /\ nj.op \in {"use", "revert"}
          /\ nj.op = "use" => nj.scope \in {Nothing, "user"}
      BY <1>3, <1>7, <2>1, <2>2
    <2>4. nj.todo \subseteq Clis /\ nj.mem = state
      BY <1>3, <1>5, <2>2
    <2> QED BY <1>2, <2>2, <2>3, <2>4, FailKeeps
  <1> QED BY <1>1, <1>6, <1>7 DEF Record

(* A write to a place that has become a link goes through it.              *)
LEMMA AtomicWriteIs ==
  ASSUME SwapInv, NEW c \in Clis, NEW t \in Places, NEW f, AtomicWrite(c, t, f)
  PROVE  LET x == <<c, Resolve(c, t)>> IN
         /\ DOMAIN config' = Files /\ x \in Files /\ config'[x] = f
         /\ \A y \in Files \ {x} : config'[y] = config[y]
         /\ <<c, t>> \notin Redirected(c, t) \/ x \notin Redirected(c, t) => x = <<c, t>>
  <1>1. Resolve(c, t) \in Places
    BY DEF SwapInv, LinksOK, Resolve
  <1>2. DOMAIN config = Files
    BY DEF SwapInv, FilesOK
  <1> QED BY <1>1, <1>2 DEF AtomicWrite, Files, Redirected

(* A file with a layer may change: its original is in a backup.            *)
LEMMA LayeredFileChanges ==
  ASSUME SwapInv, NEW c \in Clis, NEW t \in Places, LayersAt(state, <<c, t>>) # {}, NEW f,
         AtomicWrite(c, t, f), UNCHANGED <<state, backups, pristine>>,
         spoilt \cup Redirected(c, t) \subseteq spoilt'
  PROVE  FilesOK(state', backups', config', pristine', spoilt')
  <1>1. FilesOK(state, backups, config, pristine, spoilt)
    BY DEF SwapInv
  <1>2. PICK x : x = <<c, Resolve(c, t)>>
    OBVIOUS
  <1>3. /\ DOMAIN config' = Files /\ \A y \in Files \ {x} : config'[y] = config[y]
        /\ x \notin Redirected(c, t) => x = <<c, t>>
    BY <1>2, AtomicWriteIs
  <1>4. ASSUME NEW y \in Files \ spoilt'
        PROVE  Found(state, backups, config'[y], pristine[y], y)
    <2>1. Found(state, backups, config[y], pristine[y], y)
      BY <1>1, <1>4 DEF FilesOK
    <2>2. CASE y = x
      <3>1. LayersAt(state, y) # {}
        BY <1>3, <1>4, <2>2
      <3> QED BY <2>1, <3>1 DEF Found
    <2>3. CASE y # x
      BY <1>3, <2>1, <2>3
    <2> QED BY <2>2, <2>3
  <1> QED BY <1>1, <1>3, <1>4 DEF FilesOK

LEMMA WriteKeeps ==
  ASSUME SwapInv, NEW p \in Procs, Write(p) PROVE SwapInv'
  <1>1. PICK j : j = job[p]
    OBVIOUS
  <1>2. PICK f : f = SetServer(Normalize(j.cli, j.scope), j.orig, j.want)
    OBVIOUS
  <1>3. /\ pc[p] = "write" /\ pc[p] \in {"record", "write", "rollback", "unrecord"}
        /\ Doomed(pc[p], j, spoilt) = spoilt
    BY DEF Write, Doomed
  <1>4. /\ pc[p] \in Busy /\ DOMAIN j = JobFields /\ j.op = "use" /\ j.scope \in {Nothing, "user"}
        /\ j.todo \subseteq Clis /\ j.cli \in Clis /\ j.target \in Places /\ j.mem = state
        /\ Key(j) \in LayersAt(j.mem, Aim(j))
    BY <1>1, <1>3, SwappingIs
  <1>5. LayersAt(state, <<j.cli, j.target>>) # {}
    BY <1>4 DEF Aim
  <1>6. /\ UNCHANGED <<link, state, backups, pristine, lock>>
        /\ \/ AtomicWrite(j.cli, j.target, f) /\ spoilt' = spoilt \cup Redirected(j.cli, j.target)
           \/ UNCHANGED <<config, spoilt>>
        /\ Goto(p, "next", [j EXCEPT !.cli = Nothing]) \/ Goto(p, "rollback", j)
    BY <1>1, <1>2 DEF Write
  <1>7. FilesOK(state', backups', config', pristine', spoilt') /\ spoilt \subseteq spoilt'
    <2>1. CASE AtomicWrite(j.cli, j.target, f) /\ spoilt' = spoilt \cup Redirected(j.cli, j.target)
      BY <1>4, <1>5, <1>6, <2>1, LayeredFileChanges
    <2>2. CASE UNCHANGED <<config, spoilt>>
      BY <1>6, <2>2, FilesKept
    <2> QED BY <1>6, <2>1, <2>2
  <1>8. CASE Goto(p, "next", [j EXCEPT !.cli = Nothing])
    <2>1. PICK nj : nj = [j EXCEPT !.cli = Nothing]
      OBVIOUS
    <2>2. /\ DOMAIN nj = JobFields /\ nj.op = j.op /\ nj.scope = j.scope /\ nj.todo = j.todo
          /\ nj.mem = j.mem
      BY <1>4, <2>1 DEF JobFields
    <2>3. /\ Goto(p, "next", nj) /\ nj.op \in {"use", "revert"} /\ nj.todo \subseteq Clis
          /\ nj.op = "use" => nj.scope \in {Nothing, "user"}
      BY <1>4, <1>8, <2>1, <2>2
    <2>4. AllTaken("next", nj)
      BY <1>4, <2>2 DEF AllTaken, RevertsAll
    <2>5. nj.mem = state' /\ lock' = lock /\ link' = link
      BY <1>4, <1>6, <2>2
    <2> QED BY <1>4, <1>7, <2>2, <2>3, <2>4, <2>5, GoesOn
  <1>9. CASE Goto(p, "rollback", j)
    <2>1. /\ "rollback" \in {"write", "rollback", "unrecord"} /\ "rollback" # "unrecord"
          /\ Goto(p, "rollback", job[p]) /\ job[p].mem = state'
          /\ UNCHANGED <<link, backups, pristine, lock>>
          /\ Doomed(pc[p], job[p], spoilt) \subseteq spoilt'
      BY <1>1, <1>3, <1>4, <1>6, <1>7, <1>9
    <2> QED BY <1>3, <1>7, <2>1, SwapGoesOn
  <1> QED BY <1>6, <1>8, <1>9

LEMMA RollbackKeeps ==
  ASSUME SwapInv, NEW p \in Procs, Rollback(p) PROVE SwapInv'
  <1>1. PICK j : j = job[p]
    OBVIOUS
  <1>2. /\ pc[p] = "rollback" /\ pc[p] \in {"record", "write", "rollback", "unrecord"}
        /\ Doomed(pc[p], j, spoilt) = spoilt
    BY DEF Rollback, Doomed
  <1>3. /\ pc[p] \in Busy /\ DOMAIN j = JobFields /\ j.op = "use" /\ j.scope \in {Nothing, "user"}
        /\ j.todo \subseteq Clis /\ j.cli \in Clis /\ j.target \in Places /\ j.mem = state
        /\ Key(j) \in LayersAt(j.mem, Aim(j))
    BY <1>1, <1>2, SwappingIs
  <1>4. CASE /\ AtomicWrite(j.cli, j.target, j.orig)
             /\ spoilt' = spoilt \cup Redirected(j.cli, j.target)
             /\ Goto(p, "unrecord", j)
             /\ UNCHANGED <<link, state, backups, pristine, commands, mishaps, lock>>
    <2>1. LayersAt(state, <<j.cli, j.target>>) # {}
      BY <1>3 DEF Aim
    <2>2. FilesOK(state', backups', config', pristine', spoilt')
      BY <1>3, <1>4, <2>1, LayeredFileChanges
    <2>3. Aim(j) \notin spoilt' => config'[Aim(j)] = j.orig
      <3>1. PICK x : x = <<j.cli, Resolve(j.cli, j.target)>>
        OBVIOUS
      <3>2. config'[x] = j.orig /\ (Aim(j) \notin Redirected(j.cli, j.target) => x = Aim(j))
        BY <1>3, <1>4, <3>1, AtomicWriteIs DEF Aim
      <3> QED BY <1>4, <3>2
    <2>4. /\ "unrecord" \in {"write", "rollback", "unrecord"}
          /\ Goto(p, "unrecord", job[p]) /\ job[p].mem = state'
          /\ Aim(job[p]) \notin spoilt' => config'[Aim(job[p])] = job[p].orig
          /\ UNCHANGED <<link, backups, pristine, lock>>
          /\ Doomed(pc[p], job[p], spoilt) \subseteq spoilt'
      BY <1>1, <1>2, <1>3, <1>4, <2>3
    <2> QED BY <1>2, <2>2, <2>4, SwapGoesOn
  <1>5. CASE Fail(p, j)
    BY <1>3, <1>5, FailKeeps
  <1> QED BY <1>1, <1>4, <1>5 DEF Rollback

LEMMA UnrecordKeeps ==
  ASSUME SwapInv, NEW p \in Procs, Unrecord(p) PROVE SwapInv'
  <1>1. PICK j : j = job[p]
    OBVIOUS
  <1>2. /\ pc[p] = "unrecord" /\ pc[p] \in {"record", "write", "rollback", "unrecord"}
        /\ pc[p] \in Swapping /\ Doomed(pc[p], j, spoilt) = spoilt
    BY DEF Unrecord, Swapping, Doomed
  <1>3. /\ pc[p] \in Busy /\ DOMAIN j = JobFields /\ j.op = "use" /\ j.scope \in {Nothing, "user"}
        /\ j.todo \subseteq Clis /\ j.mem = state /\ StateOK(j.prev)
        /\ \A x \in Files : x # Aim(j) /\ x \notin spoilt => SameLayers(j.prev, j.mem, x)
        /\ Aim(j) \notin spoilt => Found(j.prev, backups, j.orig, pristine[Aim(j)], Aim(j))
    BY <1>1, <1>2, SwappingIs
  <1>4. Aim(j) \notin spoilt => config[Aim(j)] = j.orig
    BY <1>1, <1>2 DEF SwapInv, ProcOK, SwapOK
  <1>5. CASE /\ state' = j.prev
             /\ Goto(p, "next", Failed([j EXCEPT !.cli = Nothing, !.mem = j.prev]))
             /\ UNCHANGED <<config, link, backups, pristine, spoilt, commands, mishaps, lock>>
    <2>1. FilesOK(state, backups, config, pristine, spoilt)
      BY DEF SwapInv
    <2>2. ASSUME NEW x \in Files \ spoilt
          PROVE  Found(j.prev, backups, config[x], pristine[x], x)
      <3>1. CASE x = Aim(j)
        BY <1>3, <1>4, <2>2, <3>1
      <3>2. CASE x # Aim(j)
        <4>1. SameLayers(state, j.prev, x) /\ Found(state, backups, config[x], pristine[x], x)
          BY <1>3, <2>1, <2>2, <3>2 DEF FilesOK, SameLayers
        <4> QED BY <4>1, StillFound
      <3> QED BY <3>1, <3>2
    <2>3. FilesOK(state', backups', config', pristine', spoilt')
      BY <1>3, <1>5, <2>1, <2>2 DEF FilesOK
    <2>4. PICK nj : nj = Failed([j EXCEPT !.cli = Nothing, !.mem = j.prev])
      OBVIOUS
    <2>5. /\ DOMAIN nj = JobFields /\ nj.op = j.op /\ nj.scope = j.scope /\ nj.todo = j.todo
          /\ nj.mem = j.prev /\ nj.rc = 1
      BY <1>3, <2>4 DEF JobFields, Failed
    <2>6. /\ Goto(p, "next", nj) /\ lock' = lock /\ link' = link
          /\ nj.op \in {"use", "revert"} /\ nj.todo \subseteq Clis /\ nj.mem = state'
          /\ nj.op = "use" => nj.scope \in {Nothing, "user"}
      BY <1>3, <1>5, <2>4, <2>5
    <2>7. AllTaken("next", nj)
      BY <2>5 DEF AllTaken, RevertsAll
    <2> QED BY <1>3, <2>3, <2>5, <2>6, <2>7, GoesOn
  <1>6. CASE Fail(p, j)
    BY <1>3, <1>6, FailKeeps
  <1> QED BY <1>1, <1>5, <1>6 DEF Unrecord

-----------------------------------------------------------------------------
(* revert.                                                                 *)

LEMMA RevertingIs ==
  ASSUME SwapInv, NEW p \in Procs, pc[p] \in Reverting
  PROVE  LET j == job[p] IN
         /\ pc[p] \in Busy /\ DOMAIN j = JobFields
         /\ j.op \in {"use", "revert"} /\ (j.op = "use" => j.scope \in {Nothing, "user"})
         /\ j.todo \subseteq Clis /\ j.cli \in Clis /\ j.mem = state /\ StateOK(j.mem)
         /\ j.layers \subseteq LayersOf(j.mem, j.cli) /\ (pc[p] # "unlink" => j.layers # {})
         /\ AllTaken(pc[p], j)
  <1>1. PICK j : j = job[p]
    OBVIOUS
  <1>2. pc[p] \in Busy /\ pc[p] \notin {"load", "record", "next"}
    BY DEF Busy, Reverting
  <1>3. /\ DOMAIN j = JobFields /\ JobOK(pc[p], j, state)
        /\ RevertOK(pc[p], j, config, pristine, spoilt) /\ AllTaken(pc[p], j)
    BY <1>1, <1>2 DEF SwapInv, ProcOK
  <1> QED BY <1>1, <1>2, <1>3 DEF JobOK, RevertOK

(* The layer that is taken next is one of those to take.                   *)
LEMMA NextLayerIs ==
  ASSUME SwapInv, NEW p \in Procs, pc[p] \in {"restore", "forget"}
  PROVE  LET k == NextLayer(job[p]) IN
         /\ k \in job[p].layers /\ k \in LayersOf(state, job[p].cli) /\ k \in DOMAIN state
  <1>1. PICK j : j = job[p]
    OBVIOUS
  <1>2. pc[p] \in Reverting /\ pc[p] # "unlink"
    BY DEF Reverting
  <1>3. StateOK(j.mem) /\ j.mem = state /\ j.layers \subseteq LayersOf(j.mem, j.cli) /\ j.layers # {}
    BY <1>1, <1>2, RevertingIs
  <1>4. j.layers \subseteq DOMAIN j.mem
    BY <1>3 DEF LayersOf
  <1>5. Top(j.mem, j.layers) \in j.layers
    BY <1>3, <1>4, TopIs
  <1> QED BY <1>1, <1>3, <1>4, <1>5 DEF NextLayer

LEMMA PickCliKeeps ==
  ASSUME SwapInv, NEW p \in Procs, PickCli(p) PROVE SwapInv'
  <1>1. PICK i : i = job[p]
    OBVIOUS
  <1>2. PICK c \in i.todo :
          LET ks == {k \in LayersOf(i.mem, c) : k[2] \in WantedScopes(c, i.scope)}
              j == [i EXCEPT !.todo = @ \ {c}]
          IN  /\ Goto(p, IF ks = {} THEN "next" ELSE "restore",
                         [j EXCEPT !.cli = IF ks = {} THEN Nothing ELSE c, !.layers = ks])
              /\ UNCHANGED <<OnDisk, lock>>
    BY <1>1 DEF PickCli
  <1>3. PICK ks : ks = {k \in LayersOf(i.mem, c) : k[2] \in WantedScopes(c, i.scope)}
    OBVIOUS
  <1>4. PICK j : j = [i EXCEPT !.todo = @ \ {c}]
    OBVIOUS
  <1>5. PICK nj : nj = [j EXCEPT !.cli = IF ks = {} THEN Nothing ELSE c, !.layers = ks]
    OBVIOUS
  <1>6. Goto(p, IF ks = {} THEN "next" ELSE "restore", nj)
    BY <1>2, <1>3, <1>4, <1>5
  <1>7. UNCHANGED <<config, link, state, backups, pristine, spoilt, lock>>
    BY <1>2 DEF OnDisk
  <1>8. pc[p] = "next" /\ i.op = "revert" /\ pc[p] \in Busy
    BY <1>1 DEF PickCli, Busy
  <1>9. DOMAIN i = JobFields /\ JobOK("next", i, state) /\ AllTaken("next", i)
    BY <1>1, <1>8 DEF SwapInv, ProcOK
  <1>10. /\ DOMAIN j = JobFields /\ j.op = i.op /\ j.scope = i.scope /\ j.only = i.only
         /\ j.todo = i.todo \ {c} /\ j.mem = i.mem /\ j.rc = i.rc
    BY <1>4, <1>9 DEF JobFields
  <1>11. /\ DOMAIN nj = JobFields /\ nj.op = i.op /\ nj.scope = i.scope /\ nj.only = i.only
         /\ nj.todo = i.todo \ {c} /\ nj.mem = i.mem /\ nj.rc = i.rc
         /\ nj.layers = ks /\ nj.cli = IF ks = {} THEN Nothing ELSE c
    BY <1>5, <1>10 DEF JobFields
  <1>12. i.todo \subseteq Clis /\ StateOK(i.mem) /\ i.mem = state /\ c \in Clis
    BY <1>9 DEF JobOK
  <1>13. FilesOK(state', backups', config', pristine', spoilt')
    BY <1>7, FilesKept
  <1>14. ASSUME RevertsAll(nj), NEW k \in DOMAIN nj.mem PROVE k[1] \in nj.todo \/ k \in ks
    <2>1. RevertsAll(i)
      BY <1>11, <1>14 DEF RevertsAll
    <2>2. k \in DOMAIN i.mem /\ k[1] \in i.todo
      BY <1>9, <1>11, <1>14, <2>1 DEF AllTaken
    <2>3. k[2] \in {"user", "project"}
      BY <1>12, <2>2 DEF StateOK, SwapKeys
    <2>4. WantedScopes(c, i.scope) = {"user", "project"}
      BY <2>1 DEF RevertsAll, WantedScopes
    <2>5. k[1] = c => k \in ks
      BY <1>3, <2>2, <2>3, <2>4 DEF LayersOf
    <2> QED BY <1>11, <2>2, <2>5
  <1>15. CASE ks = {}
    <2>1. AllTaken("next", nj)
      BY <1>14, <1>15 DEF AllTaken
    <2>2. Goto(p, "next", nj) /\ lock' = lock
      BY <1>6, <1>7, <1>15
    <2>3. /\ nj.op \in {"use", "revert"} /\ nj.todo \subseteq Clis /\ nj.mem = state'
          /\ nj.op = "use" => nj.scope \in {Nothing, "user"}
      BY <1>7, <1>8, <1>11, <1>12
    <2> QED BY <1>7, <1>8, <1>11, <1>13, <2>1, <2>2, <2>3, GoesOn
  <1>16. CASE ks # {}
    <2>1. AllTaken("restore", nj)
      BY <1>11, <1>14 DEF AllTaken
    <2>2. JobOK("restore", nj, state')
      BY <1>7, <1>8, <1>11, <1>12 DEF JobOK
    <2>3. RevertOK("restore", nj, config', pristine', spoilt')
      BY <1>3, <1>11, <1>12, <1>16 DEF RevertOK
    <2>4. ProcOK("restore", nj, state', backups', config', pristine', spoilt')
      BY <1>11, <2>1, <2>2, <2>3 DEF ProcOK, Busy, Swapping, Reverting
    <2>5. Goto(p, "restore", nj)
      BY <1>6, <1>16
    <2>6. ("restore" \in Busy /\ lock' = lock) \/ ("restore" = "idle" /\ lock' = Nothing)
      BY <1>7 DEF Busy, Reverting
    <2> QED BY <1>7, <1>8, <1>13, <2>4, <2>5, <2>6, OneProcessSteps
  <1> QED BY <1>15, <1>16

LEMMA RestoreKeeps ==
  ASSUME SwapInv, NEW p \in Procs, Restore(p) PROVE SwapInv'
  <1>1. PICK j : j = job[p]
    OBVIOUS
  <1>2. pc[p] = "restore" /\ pc[p] \in Reverting /\ pc[p] \in {"restore", "forget"}
    BY DEF Restore, Reverting
  <1>3. /\ pc[p] \in Busy /\ DOMAIN j = JobFields /\ j.op \in {"use", "revert"}
        /\ j.op = "use" => j.scope \in {Nothing, "user"}
        /\ j.todo \subseteq Clis /\ j.cli \in Clis /\ j.mem = state /\ StateOK(j.mem)
        /\ j.layers \subseteq LayersOf(j.mem, j.cli) /\ j.layers # {} /\ AllTaken("restore", j)
    BY <1>1, <1>2, RevertingIs
  <1>4. PICK k : k = NextLayer(j)
    OBVIOUS
  <1>5. k \in j.layers /\ k \in LayersOf(state, j.cli) /\ k \in DOMAIN state
    BY <1>1, <1>2, <1>4, NextLayerIs
  <1>6. PICK x : x = FileOf(j.mem, k)
    OBVIOUS
  <1>7. PICK t : t = j.mem[k].target
    OBVIOUS
  <1>8. /\ x = <<j.cli, t>> /\ x \in Files /\ t \in Places /\ k \in LayersAt(state, x)
        /\ LayersAt(state, x) # {}
    <2>1. k \in DOMAIN j.mem /\ k[1] = j.cli /\ StateOK(j.mem)
      BY <1>3, <1>5 DEF LayersOf
    <2>2. x \in Files /\ k \in LayersAt(j.mem, x)
      BY <1>6, <2>1, FileOfIs
    <2>3. t \in Places
      BY <1>7, <2>1 DEF StateOK
    <2> QED BY <1>3, <1>6, <1>7, <2>1, <2>2, <2>3 DEF FileOf
  <1>9. CASE /\ AtomicWrite(j.cli, t, backups[j.mem[k].backup])
             /\ spoilt' = spoilt \cup Redirected(j.cli, t) \cup
                   IF k = Top(j.mem, LayersAt(j.mem, x)) THEN {} ELSE {x}
             /\ Goto(p, "forget", j)
             /\ UNCHANGED <<link, state, backups, pristine, commands, mishaps, lock>>
    <2>1. FilesOK(state, backups, config, pristine, spoilt)
      BY DEF SwapInv
    <2>2. spoilt \cup Redirected(j.cli, t) \subseteq spoilt'
      BY <1>9
    <2>3. FilesOK(state', backups', config', pristine', spoilt')
      BY <1>3, <1>8, <1>9, <2>2, LayeredFileChanges
    <2>4. ASSUME x \notin spoilt'
          PROVE  /\ \A m \in LayersAt(j.mem, x) : j.mem[m].seq <= j.mem[k].seq
                 /\ LayersAt(j.mem, x) = {k} => config'[x] = pristine[x]
      <3>1. LayersAt(j.mem, x) \subseteq DOMAIN j.mem /\ LayersAt(j.mem, x) # {}
        BY <1>3, <1>8 DEF LayersAt
      <3>2. k = Top(j.mem, LayersAt(j.mem, x))
        BY <1>9, <2>4
      <3>3. \A m \in LayersAt(j.mem, x) : j.mem[m].seq <= j.mem[k].seq
        BY <1>3, <3>1, <3>2, TopIs
      <3>4. PICK y : y = <<j.cli, Resolve(j.cli, t)>>
        OBVIOUS
      <3>5. config'[x] = backups[j.mem[k].backup]
        <4>1. config'[y] = backups[j.mem[k].backup]
          BY <1>3, <1>8, <1>9, <3>4, AtomicWriteIs
        <4>2. x \notin Redirected(j.cli, t) => y = x
          BY <1>3, <1>8, <1>9, <3>4, AtomicWriteIs
        <4> QED BY <2>2, <2>4, <4>1, <4>2
      <3>6. Found(state, backups, config[x], pristine[x], x)
        BY <1>8, <2>1, <2>2, <2>4 DEF FilesOK
      <3>7. LayersAt(j.mem, x) = {k} => backups[j.mem[k].backup] = pristine[x]
        BY <1>3, <3>3, <3>6 DEF Found
      <3> QED BY <3>3, <3>5, <3>7
    <2>6. RevertOK("forget", j, config', pristine', spoilt')
      BY <1>3, <1>4, <1>6, <1>9, <2>4 DEF RevertOK
    <2>7. AllTaken("forget", j)
      BY <1>3 DEF AllTaken
    <2>8. JobOK("forget", j, state')
      BY <1>3, <1>9 DEF JobOK
    <2>9. ProcOK("forget", j, state', backups', config', pristine', spoilt')
      BY <1>3, <2>6, <2>7, <2>8 DEF ProcOK, Busy, Swapping, Reverting
    <2>10. ("forget" \in Busy /\ lock' = lock) \/ ("forget" = "idle" /\ lock' = Nothing)
      BY <1>9 DEF Busy, Reverting
    <2>11. Goto(p, "forget", j) /\ link' = link
      BY <1>9
    <2> QED BY <1>3, <2>3, <2>9, <2>10, <2>11, OneProcessSteps
  <1>10. CASE Fail(p, j)
    BY <1>3, <1>10, FailKeeps
  <1>11. CASE Skip(p, Failed(j))
    <2>1. PICK fj : fj = Failed(j)
      OBVIOUS
    <2>2. /\ DOMAIN fj = JobFields /\ fj.op = j.op /\ fj.scope = j.scope /\ fj.todo = j.todo
          /\ fj.mem = j.mem /\ fj.rc = 1
      BY <1>3, <2>1 DEF JobFields, Failed
    <2>3. AllTaken("next", fj)
      BY <2>2 DEF AllTaken, RevertsAll
    <2>4. /\ Skip(p, fj) /\ fj.op \in {"use", "revert"} /\ fj.todo \subseteq Clis /\ fj.mem = state
          /\ fj.op = "use" => fj.scope \in {Nothing, "user"}
      BY <1>3, <1>11, <2>1, <2>2
    <2> QED BY <1>3, <2>2, <2>3, <2>4, SkipKeeps
  <1> QED BY <1>1, <1>4, <1>6, <1>7, <1>9, <1>10, <1>11 DEF Restore

LEMMA ForgetKeeps ==
  ASSUME SwapInv, NEW p \in Procs, Forget(p) PROVE SwapInv'
  <1>1. PICK j : j = job[p]
    OBVIOUS
  <1>2. pc[p] = "forget" /\ pc[p] \in Reverting /\ pc[p] \in {"restore", "forget"}
    BY DEF Forget, Reverting
  <1>3. /\ pc[p] \in Busy /\ DOMAIN j = JobFields /\ j.op \in {"use", "revert"}
        /\ j.op = "use" => j.scope \in {Nothing, "user"}
        /\ j.todo \subseteq Clis /\ j.cli \in Clis /\ j.mem = state /\ StateOK(j.mem)
        /\ j.layers \subseteq LayersOf(j.mem, j.cli) /\ AllTaken("forget", j)
    BY <1>1, <1>2, RevertingIs
  <1>4. PICK k : k = NextLayer(j)
    OBVIOUS
  <1>5. k \in j.layers /\ k \in LayersOf(state, j.cli) /\ k \in DOMAIN state
    BY <1>1, <1>2, <1>4, NextLayerIs
  <1>6. CASE /\ state' = Without(j.mem, k)
             /\ Goto(p, "unlink", [j EXCEPT !.mem = Without(j.mem, k), !.layers = @ \ {k}, !.prev = j.mem])
             /\ UNCHANGED <<config, link, backups, pristine, spoilt, commands, mishaps, lock>>
    <2>1. FilesOK(state, backups, config, pristine, spoilt)
      BY DEF SwapInv
    <2>2. /\ StateOK(state') /\ DOMAIN state' = DOMAIN state \ {k}
          /\ \A l \in DOMAIN state \ {k} : state'[l] = state[l]
      BY <1>3, <1>6, WithoutIsOK
    <2>3. ASSUME NEW x \in Files \ spoilt
          PROVE  Found(state', backups, config[x], pristine[x], x)
      <3>1. Found(state, backups, config[x], pristine[x], x)
        BY <2>1, <2>3 DEF FilesOK
      <3>2. CASE x = FileOf(j.mem, k)
        <4>1. RevertOK("forget", j, config, pristine, spoilt)
          BY <1>1, <1>2 DEF SwapInv, ProcOK
        <4>2. /\ \A m \in LayersAt(state, x) : state[m].seq <= state[k].seq
              /\ LayersAt(state, x) = {k} => config[x] = pristine[x]
          BY <1>3, <1>4, <2>3, <3>2, <4>1 DEF RevertOK
        <4>3. k \in LayersAt(state, x) /\ StateOK(state)
          BY <1>3, <1>5, <3>2, FileOfIs
        <4>4. Found(Without(state, k), backups, config[x], pristine[x], x)
          BY <3>1, <4>2, <4>3, FoundWithout
        <4> QED BY <1>3, <1>6, <4>4
      <3>3. CASE x # FileOf(j.mem, k)
        <4>1. SameLayers(state, state', x)
          BY <1>3, <1>5, <2>2, <3>3 DEF SameLayers, LayersAt, FileOf
        <4> QED BY <3>1, <4>1, StillFound
      <3> QED BY <3>2, <3>3
    <2>4. FilesOK(state', backups', config', pristine', spoilt')
      BY <1>6, <2>1, <2>2, <2>3 DEF FilesOK
    <2>5. PICK nj : nj = [j EXCEPT !.mem = Without(j.mem, k), !.layers = @ \ {k}, !.prev = j.mem]
      OBVIOUS
    <2>6. /\ DOMAIN nj = JobFields /\ nj.op = j.op /\ nj.scope = j.scope /\ nj.only = j.only
          /\ nj.todo = j.todo /\ nj.rc = j.rc /\ nj.cli = j.cli
          /\ nj.mem = state' /\ nj.layers = j.layers \ {k} /\ nj.prev = state
      BY <1>3, <1>6, <2>5 DEF JobFields
    <2>7. JobOK("unlink", nj, state')
      BY <1>3, <2>2, <2>6 DEF JobOK
    <2>8. RevertOK("unlink", nj, config', pristine', spoilt')
      <3>1. nj.layers \subseteq LayersOf(nj.mem, nj.cli)
        BY <1>3, <2>2, <2>6 DEF LayersOf
      <3>2. DOMAIN nj.prev \ DOMAIN nj.mem = {k} /\ k \in DOMAIN nj.prev /\ StateOK(nj.prev)
        BY <1>3, <1>5, <2>2, <2>6
      <3> QED BY <1>3, <2>6, <3>1, <3>2 DEF RevertOK
    <2>9. AllTaken("unlink", nj)
      BY <1>3, <2>2, <2>6 DEF AllTaken, RevertsAll
    <2>10. ProcOK("unlink", nj, state', backups', config', pristine', spoilt')
      BY <2>6, <2>7, <2>8, <2>9 DEF ProcOK, Busy, Swapping, Reverting
    <2>11. ("unlink" \in Busy /\ lock' = lock) \/ ("unlink" = "idle" /\ lock' = Nothing)
      BY <1>6 DEF Busy, Reverting
    <2>12. Goto(p, "unlink", nj) /\ link' = link
      BY <1>6, <2>5
    <2> QED BY <1>3, <2>4, <2>10, <2>11, <2>12, OneProcessSteps
  <1>7. CASE Fail(p, j)
    BY <1>3, <1>7, FailKeeps
  <1> QED BY <1>1, <1>4, <1>6, <1>7 DEF Forget

LEMMA UnlinkKeeps ==
  ASSUME SwapInv, NEW p \in Procs, Unlink(p) PROVE SwapInv'
  <1>1. PICK j : j = job[p]
    OBVIOUS
  <1>2. pc[p] = "unlink" /\ pc[p] \in Reverting
    BY DEF Unlink, Reverting
  <1>3. /\ pc[p] \in Busy /\ DOMAIN j = JobFields /\ j.op \in {"use", "revert"}
        /\ j.op = "use" => j.scope \in {Nothing, "user"}
        /\ j.todo \subseteq Clis /\ j.cli \in Clis /\ j.mem = state /\ StateOK(j.mem)
        /\ j.layers \subseteq LayersOf(j.mem, j.cli) /\ AllTaken("unlink", j)
    BY <1>1, <1>2, RevertingIs
  <1>4. PICK label : label = IF j.layers = {} THEN "next" ELSE "restore"
    OBVIOUS
  <1>5. RevertOK("unlink", j, config, pristine, spoilt)
    BY <1>1, <1>2 DEF SwapInv, ProcOK
  <1>6. PICK k \in DOMAIN j.prev : DOMAIN j.prev \ DOMAIN j.mem = {k}
    BY <1>5 DEF RevertOK
  <1>7. StateOK(j.prev) /\ k \notin DOMAIN state
    BY <1>3, <1>5, <1>6 DEF RevertOK
  <1>8. PICK b : b = j.prev[NextLayer([j EXCEPT !.mem = j.prev, !.layers = DOMAIN j.prev \ DOMAIN j.mem])].backup
    OBVIOUS
  <1>9. b[1] = k
    <2>1. PICK i : i = [j EXCEPT !.mem = j.prev, !.layers = DOMAIN j.prev \ DOMAIN j.mem]
      OBVIOUS
    <2>2. i.mem = j.prev /\ i.layers = {k}
      BY <1>3, <1>6, <2>1 DEF JobFields
    <2>3. Top(j.prev, {k}) \in {k}
      BY <1>7, TopIs
    <2>4. NextLayer(i) = k
      BY <2>2, <2>3 DEF NextLayer
    <2> QED BY <1>7, <1>8, <2>1, <2>4 DEF StateOK
  <1>10. PICK nj : Goto(p, label, nj) /\ (nj = j \/ nj = Failed(j))
    BY <1>1, <1>4 DEF Unlink
  <1>11. UNCHANGED <<config, link, state, pristine, spoilt, lock>> /\ (backups' = Without(backups, b) \/ backups' = backups)
    BY <1>1, <1>8 DEF Unlink
  <1>12. FilesOK(state', backups', config', pristine', spoilt')
    <2>1. FilesOK(state, backups, config, pristine, spoilt)
      BY DEF SwapInv
    <2>2. /\ DOMAIN backups' \subseteq DOMAIN backups
          /\ \A y \in DOMAIN backups \ {b} : y \in DOMAIN backups' /\ backups'[y] = backups[y]
      BY <1>11 DEF Without
    <2>3. ASSUME NEW x \in Files \ spoilt
          PROVE  Found(state, backups', config[x], pristine[x], x)
      <3>1. Found(state, backups, config[x], pristine[x], x)
        BY <2>1, <2>3 DEF FilesOK
      <3>2. \A l \in LayersAt(state, x) : state[l].backup # b
        BY <1>3, <1>7, <1>9 DEF LayersAt, StateOK
      <3>3. \A l \in LayersAt(state, x) : state[l].backup \in DOMAIN backups
              => state[l].backup \in DOMAIN backups' /\ backups'[state[l].backup] = backups[state[l].backup]
        BY <2>2, <3>2
      <3>4. SameLayers(state, state, x)
        BY DEF SameLayers
      <3> QED BY <3>1, <3>3, <3>4, StillFound
    <2> QED BY <1>11, <2>1, <2>2, <2>3 DEF FilesOK
  <1>13. /\ DOMAIN nj = JobFields /\ nj.op = j.op /\ nj.scope = j.scope /\ nj.only = j.only
         /\ nj.todo = j.todo /\ nj.cli = j.cli /\ nj.mem = j.mem /\ nj.layers = j.layers
         /\ nj.rc = j.rc \/ nj.rc = 1
    BY <1>3, <1>10 DEF JobFields, Failed
  <1>14. ASSUME RevertsAll(nj), NEW m \in DOMAIN nj.mem PROVE m[1] \in nj.todo \/ m \in nj.layers
    <2>1. RevertsAll(j)
      BY <1>13, <1>14 DEF RevertsAll
    <2> QED BY <1>3, <1>13, <1>14, <2>1 DEF AllTaken
  <1>15. CASE j.layers = {}
    <2>1. AllTaken("next", nj)
      BY <1>13, <1>14, <1>15 DEF AllTaken
    <2>2. Goto(p, "next", nj) /\ lock' = lock
      BY <1>4, <1>10, <1>11, <1>15
    <2>3. /\ nj.op \in {"use", "revert"} /\ nj.todo \subseteq Clis /\ nj.mem = state'
          /\ nj.op = "use" => nj.scope \in {Nothing, "user"}
      BY <1>3, <1>11, <1>13
    <2> QED BY <1>3, <1>11, <1>12, <1>13, <2>1, <2>2, <2>3, GoesOn
  <1>16. CASE j.layers # {}
    <2>1. AllTaken("restore", nj)
      BY <1>14 DEF AllTaken
    <2>2. JobOK("restore", nj, state')
      BY <1>3, <1>11, <1>13 DEF JobOK
    <2>3. RevertOK("restore", nj, config', pristine', spoilt')
      BY <1>3, <1>13, <1>16 DEF RevertOK
    <2>4. ProcOK("restore", nj, state', backups', config', pristine', spoilt')
      BY <1>13, <2>1, <2>2, <2>3 DEF ProcOK, Busy, Swapping, Reverting
    <2>5. Goto(p, "restore", nj)
      BY <1>4, <1>10, <1>16
    <2>6. ("restore" \in Busy /\ lock' = lock) \/ ("restore" = "idle" /\ lock' = Nothing)
      BY <1>11 DEF Busy, Reverting
    <2> QED BY <1>3, <1>11, <1>12, <2>4, <2>5, <2>6, OneProcessSteps
  <1> QED BY <1>15, <1>16

-----------------------------------------------------------------------------
(* The user.                                                               *)

(* A swap or a restore under way does not care for the files of other CLIs, *)
(* nor for those of its own that are spoilt.                               *)
LEMMA OtherFilesChange ==
  ASSUME NEW l, NEW j, NEW st, NEW bs, NEW cfg, NEW pr, NEW sp,
         ProcOK(l, j, st, bs, cfg, pr, sp),
         NEW cfh, NEW ps, NEW sq,
         l \in Swapping \cup {"restore", "forget"} =>
           \A x \in Files : x[1] = j.cli /\ x \notin sq
             => cfh[x] = cfg[x] /\ ps[x] = pr[x] /\ x \notin sp
  PROVE  ProcOK(l, j, st, bs, cfh, ps, sq)
  <1>1. ASSUME l \in Swapping PROVE SwapOK(l, j, st, bs, cfh, ps, sq)
    <2>1. SwapOK(l, j, st, bs, cfg, pr, sp)
      BY <1>1 DEF ProcOK
    <2>2. j.op = "use" /\ j.cli \in Clis /\ j.target \in Places
      BY <2>1 DEF SwapOK
    <2>3. Aim(j) \in Files /\ Aim(j)[1] = j.cli
      BY <2>2, AimIs
    <2>4. \A x \in Files : x[1] = j.cli /\ x \notin sq
            => cfh[x] = cfg[x] /\ ps[x] = pr[x] /\ x \notin sp
      BY <1>1
    <2>5. \A x \in Files : x[1] = j.cli /\ x \notin Doomed(l, j, sq) => x \notin Doomed(l, j, sp)
      BY <2>4 DEF Doomed
    <2>6. Aim(j) \notin Doomed(l, j, sq) => Aim(j) \notin sq
      BY DEF Doomed
    <2>7. l = "backup" /\ Aim(j) \notin sq => Found(j.mem, bs, j.orig, ps[Aim(j)], Aim(j))
      BY <2>1, <2>3, <2>4 DEF SwapOK
    <2>8. ASSUME l # "backup"
          PROVE  /\ StateOK(j.prev) /\ Key(j) \in DOMAIN j.mem /\ j.mem[Key(j)].target = j.target
                 /\ \A x \in Files : x[1] # j.cli => SameLayers(j.prev, j.mem, x)
                 /\ \A x \in Files : x # Aim(j) /\ x \notin Doomed(l, j, sp)
                      => SameLayers(j.prev, j.mem, x)
                 /\ Aim(j) \notin Doomed(l, j, sp) => Found(j.prev, bs, j.orig, pr[Aim(j)], Aim(j))
      BY <2>1, <2>8 DEF SwapOK
    <2>9. l # "backup" =>
             \A x \in Files : x # Aim(j) /\ x \notin Doomed(l, j, sq) => SameLayers(j.prev, j.mem, x)
      BY <2>5, <2>8
    <2>10. l # "backup" /\ Aim(j) \notin Doomed(l, j, sq)
             => Found(j.prev, bs, j.orig, ps[Aim(j)], Aim(j))
      BY <2>3, <2>4, <2>5, <2>6, <2>8
    <2>11. l = "record" =>
             /\ j.prev = st
             /\ Aim(j) \notin Doomed(l, j, sp) => Found(j.mem, bs, j.orig, pr[Aim(j)], Aim(j))
      BY <2>1 DEF SwapOK
    <2>12. l = "record" =>
             /\ j.prev = st
             /\ Aim(j) \notin Doomed(l, j, sq) => Found(j.mem, bs, j.orig, ps[Aim(j)], Aim(j))
      BY <2>3, <2>4, <2>5, <2>6, <2>11
    <2>13. l = "unrecord" /\ Aim(j) \notin sp => cfg[Aim(j)] = j.orig
      BY <2>1 DEF SwapOK
    <2>14. l = "unrecord" /\ Aim(j) \notin sq => cfh[Aim(j)] = j.orig
      BY <2>3, <2>4, <2>13
    <2> QED BY <2>2, <2>7, <2>8, <2>9, <2>10, <2>12, <2>14 DEF SwapOK
  <1>2. ASSUME l \in Reverting PROVE RevertOK(l, j, cfh, ps, sq)
    <2>1. RevertOK(l, j, cfg, pr, sp) /\ JobOK(l, j, st)
      BY <1>2 DEF ProcOK, Busy
    <2>2. ASSUME l = "forget"
          PROVE  LET x == FileOf(j.mem, NextLayer(j)) IN
                 x \notin sq => /\ \A m \in LayersAt(j.mem, x) : j.mem[m].seq <= j.mem[NextLayer(j)].seq
                                /\ LayersAt(j.mem, x) = {NextLayer(j)} => cfh[x] = ps[x]
      <3>1. PICK x : x = FileOf(j.mem, NextLayer(j))
        OBVIOUS
      <3>2. StateOK(j.mem) /\ j.layers # {} /\ j.layers \subseteq LayersOf(j.mem, j.cli)
        BY <2>1, <2>2 DEF JobOK, RevertOK
      <3>3. NextLayer(j) \in DOMAIN j.mem /\ NextLayer(j)[1] = j.cli
        BY <3>2, TopIs DEF NextLayer, LayersOf
      <3>4. x \in Files /\ x[1] = j.cli
        BY <3>1, <3>2, <3>3, FileOfIs
      <3>5. x \notin sq => x \notin sp /\ cfh[x] = cfg[x] /\ ps[x] = pr[x]
        BY <2>2, <3>4
      <3>6. x \notin sp => /\ \A m \in LayersAt(j.mem, x) : j.mem[m].seq <= j.mem[NextLayer(j)].seq
                           /\ LayersAt(j.mem, x) = {NextLayer(j)} => cfg[x] = pr[x]
        BY <2>1, <2>2, <3>1 DEF RevertOK
      <3> QED BY <3>1, <3>5, <3>6
    <2> QED BY <2>1, <2>2 DEF RevertOK
  <1> QED BY <1>1, <1>2 DEF ProcOK

LEMMA InFlightIs ==
  ASSUME NEW c, NEW p \in Procs, pc[p] \in Swapping \cup {"restore", "forget"}, job[p].cli = c
  PROVE  InFlight(c)
  BY DEF InFlight, Swapping

LEMMA ChangedKeeps ==
  ASSUME SwapInv, NEW x \in Files, NEW f, Changed(x, f), LinksOK',
         UNCHANGED <<state, backups, lock, pc, job>>
  PROVE  SwapInv'
  <1>1. FilesOK(state, backups, config, pristine, spoilt)
    BY DEF SwapInv
  <1>2. /\ config' = [config EXCEPT ![x] = f]
        /\ \/ /\ InFlight(x[1])
              /\ spoilt' = spoilt \cup {x} /\ pristine' = pristine
           \/ /\ ~InFlight(x[1]) /\ LayersAt(state, x) = {}
              /\ spoilt' = spoilt \ {x} /\ pristine' = [pristine EXCEPT ![x] = f]
           \/ /\ ~InFlight(x[1]) /\ LayersAt(state, x) # {}
              /\ spoilt' = spoilt /\ pristine' = pristine
    BY DEF Changed
  <1>3. DOMAIN config = Files /\ DOMAIN pristine = Files
    BY <1>1 DEF FilesOK
  <1>4. /\ DOMAIN config' = Files /\ DOMAIN pristine' = Files /\ config'[x] = f
        /\ \A y \in Files \ {x} : config'[y] = config[y] /\ pristine'[y] = pristine[y]
        /\ \A y \in Files \ {x} : y \notin spoilt' => y \notin spoilt
    BY <1>2, <1>3
  <1>5. /\ InFlight(x[1]) => x \in spoilt'
        /\ ~InFlight(x[1]) /\ LayersAt(state, x) = {} => pristine'[x] = f
        /\ ~InFlight(x[1]) /\ LayersAt(state, x) # {} => pristine'[x] = pristine[x] /\ spoilt' = spoilt
    BY <1>2, <1>3
  <1>6. ASSUME NEW y \in Files \ spoilt'
        PROVE  Found(state, backups, config'[y], pristine'[y], y)
    <2>1. CASE y # x
      BY <1>1, <1>4, <1>6, <2>1 DEF FilesOK
    <2>2. CASE y = x /\ LayersAt(state, x) = {}
      BY <1>4, <1>5, <1>6, <2>2 DEF Found
    <2>3. CASE y = x /\ LayersAt(state, x) # {}
      <3>1. pristine'[x] = pristine[x] /\ x \notin spoilt
        BY <1>5, <1>6, <2>3
      <3>2. Found(state, backups, config[x], pristine[x], x)
        BY <1>1, <3>1 DEF FilesOK
      <3> QED BY <2>3, <3>1, <3>2 DEF Found
    <2> QED BY <2>1, <2>2, <2>3
  <1>7. FilesOK(state', backups', config', pristine', spoilt')
    BY <1>1, <1>4, <1>6 DEF FilesOK
  <1>8. ASSUME NEW p \in Procs
        PROVE  ProcOK(pc'[p], job'[p], state', backups', config', pristine', spoilt')
    <2>1. ProcOK(pc[p], job[p], state, backups, config, pristine, spoilt)
      BY DEF SwapInv
    <2>2. ASSUME pc[p] \in Swapping \cup {"restore", "forget"},
                 NEW y \in Files, y[1] = job[p].cli, y \notin spoilt'
          PROVE  config'[y] = config[y] /\ pristine'[y] = pristine[y] /\ y \notin spoilt
      <3>1. InFlight(y[1])
        BY <2>2, InFlightIs
      <3>2. y # x
        BY <1>5, <2>2, <3>1
      <3> QED BY <1>4, <2>2, <3>2
    <2>3. ProcOK(pc[p], job[p], state, backups, config', pristine', spoilt')
      BY <2>1, <2>2, OtherFilesChange
    <2> QED BY <2>3
  <1>9. LockOK'
    BY DEF SwapInv, LockOK
  <1> QED BY <1>7, <1>8, <1>9 DEF SwapInv

LEMMA EditKeeps ==
  ASSUME SwapInv, NEW c \in Clis, NEW t \in Places, Edit(c, t) PROVE SwapInv'
  <1>1. /\ <<c, t>> \in Files /\ UNCHANGED <<state, backups, lock, pc, job>>
        /\ \E f : Changed(<<c, t>>, f)
    BY DEF Edit, Files
  <1>2. LinksOK'
    BY DEF Edit, SwapInv, LinksOK
  <1> QED BY <1>1, <1>2, ChangedKeeps

LEMMA RelinkKeeps ==
  ASSUME SwapInv, NEW c \in Clis, NEW t \in Places, Relink(c, t) PROVE SwapInv'
  <1>1. UNCHANGED <<state, backups, lock, pc, job>> /\ link' = [link EXCEPT ![c] = t]
    BY DEF Relink
  <1>2. LinksOK'
    BY <1>1 DEF SwapInv, LinksOK
  <1>3. <<c, Own>> \in Files
    BY SwapAssumption DEF Files
  <1>4. (\E f : Changed(<<c, Own>>, f)) \/ UNCHANGED <<config, pristine, spoilt>>
    BY DEF Relink
  <1>5. CASE \E f : Changed(<<c, Own>>, f)
    BY <1>1, <1>2, <1>3, <1>5, ChangedKeeps
  <1>6. CASE UNCHANGED <<config, pristine, spoilt>>
    BY <1>1, <1>2, <1>6 DEF SwapInv, LockOK
  <1> QED BY <1>4, <1>5, <1>6

(* The backups of other CLIs are none of its own.                          *)
LEMMA OtherBackupsGo ==
  ASSUME NEW st, StateOK(st), NEW x, NEW bs, NEW f, NEW o, Found(st, bs, f, o, x), NEW b, b[1][1] # x[1]
  PROVE  Found(st, Without(bs, b), f, o, x)
  <1>1. \A k \in LayersAt(st, x) : st[k].backup # b
    BY DEF LayersAt, FileOf, StateOK
  <1>2. \A y \in DOMAIN bs \ {b} : y \in DOMAIN Without(bs, b) /\ Without(bs, b)[y] = bs[y]
    BY DEF Without
  <1> QED BY <1>1, <1>2 DEF Found

LEMMA LoseBackupKeeps ==
  ASSUME SwapInv, NEW b \in DOMAIN backups, LoseBackup(b) PROVE SwapInv'
  <1>1. PICK c : c = b[1][1]
    OBVIOUS
  <1>2. /\ backups' = Without(backups, b)
        /\ UNCHANGED <<config, link, state, lock, pc, job, pristine>>
        /\ spoilt \subseteq spoilt'
        /\ \A x \in Files : x[1] = c /\ x \notin spoilt' =>
             ~InFlight(c) /\ \A k \in LayersAt(state, x) : state[k].backup # b
    BY <1>1 DEF LoseBackup
  <1>3. FilesOK(state, backups, config, pristine, spoilt)
    BY DEF SwapInv
  <1>4. StateOK(state)
    BY <1>3 DEF FilesOK
  <1>5. /\ DOMAIN backups' = DOMAIN backups \ {b}
        /\ \A y \in DOMAIN backups \ {b} : backups'[y] = backups[y]
    BY <1>2 DEF Without
  <1>6. ASSUME NEW x \in Files \ spoilt'
        PROVE  Found(state, backups', config[x], pristine[x], x)
    <2>1. Found(state, backups, config[x], pristine[x], x)
      BY <1>2, <1>3, <1>6 DEF FilesOK
    <2>2. CASE x[1] # c
      BY <1>1, <1>2, <1>4, <2>1, <2>2, OtherBackupsGo
    <2>3. CASE x[1] = c
      <3>1. \A k \in LayersAt(state, x) : state[k].backup # b
        BY <1>2, <1>6, <2>3
      <3> QED BY <1>5, <2>1, <3>1 DEF Found
    <2> QED BY <2>2, <2>3
  <1>7. FilesOK(state', backups', config', pristine', spoilt')
    BY <1>2, <1>3, <1>5, <1>6 DEF FilesOK
  <1>8. ASSUME NEW p \in Procs
        PROVE  ProcOK(pc'[p], job'[p], state', backups', config', pristine', spoilt')
    <2>1. PICK j : j = job[p]
      OBVIOUS
    <2>2. PICK l : l = pc[p]
      OBVIOUS
    <2>3. ProcOK(l, j, state, backups, config, pristine, spoilt)
      BY <2>1, <2>2 DEF SwapInv
    <2>4. ProcOK(l, j, state, backups, config, pristine, spoilt')
      BY <1>2, <2>3, OtherFilesChange
    <2>5. ASSUME l \in Swapping PROVE SwapOK(l, j, state, backups', config, pristine, spoilt')
      <3>1. SwapOK(l, j, state, backups, config, pristine, spoilt') /\ JobOK(l, j, state)
        BY <2>4, <2>5 DEF ProcOK, Busy
      <3>2. StateOK(j.mem) /\ j.cli \in Clis /\ j.target \in Places
        BY <2>5, <3>1 DEF JobOK, SwapOK, Swapping
      <3>3. Aim(j) \in Files /\ Aim(j)[1] = j.cli
        BY <3>2, AimIs
      <3>4. Aim(j) \notin Doomed(l, j, spoilt') => Aim(j) \notin spoilt'
        BY DEF Doomed
      <3>5. CASE Aim(j) \in spoilt'
        BY <3>1, <3>4, <3>5 DEF SwapOK
      <3>6. CASE Aim(j) \notin spoilt'
        <4>1. Aim(j)[1] # b[1][1]
          BY <1>1, <1>2, <2>1, <2>2, <2>5, <3>3, <3>6, InFlightIs
        <4>2. \A st : StateOK(st) /\ Found(st, backups, j.orig, pristine[Aim(j)], Aim(j))
                => Found(st, backups', j.orig, pristine[Aim(j)], Aim(j))
          BY <1>2, <4>1, OtherBackupsGo
        <4> QED BY <3>1, <3>2, <4>2 DEF SwapOK
      <3> QED BY <3>5, <3>6
    <2>6. ProcOK(l, j, state, backups', config, pristine, spoilt')
      BY <2>4, <2>5 DEF ProcOK
    <2> QED BY <1>2, <2>1, <2>2, <2>6
  <1>9. LockOK' /\ LinksOK'
    BY <1>2 DEF SwapInv, LockOK, LinksOK
  <1> QED BY <1>7, <1>8, <1>9 DEF SwapInv

-----------------------------------------------------------------------------
(* Every step.                                                             *)

LEMMA StepKeeps ==
  ASSUME SwapInv, NEW p \in Procs, Step(p) PROVE SwapInv'
  <1>1. CASE Lock(p)
    BY <1>1, LockKeeps
  <1>2. CASE LoadState(p)
    BY <1>2, LoadStateKeeps
  <1>3. CASE PreflightFails(p) \/ LoadFails(p) \/ Finish(p)
    <2>1. pc[p] \in Busy /\ Return(p)
      BY <1>3 DEF PreflightFails, LoadFails, Finish, Busy
    <2> QED BY <2>1, ReturnKeeps
  <1>4. CASE ReadConfig(p)
    BY <1>4, ReadConfigKeeps
  <1>5. CASE Backup(p)
    BY <1>5, BackupKeeps
  <1>6. CASE Record(p)
    BY <1>6, RecordKeeps
  <1>7. CASE Write(p)
    BY <1>7, WriteKeeps
  <1>8. CASE Rollback(p)
    BY <1>8, RollbackKeeps
  <1>9. CASE Unrecord(p)
    BY <1>9, UnrecordKeeps
  <1>10. CASE PickCli(p)
    BY <1>10, PickCliKeeps
  <1>11. CASE Restore(p)
    BY <1>11, RestoreKeeps
  <1>12. CASE Forget(p)
    BY <1>12, ForgetKeeps
  <1>13. CASE Unlink(p)
    BY <1>13, UnlinkKeeps
  <1> QED BY <1>1, <1>2, <1>3, <1>4, <1>5, <1>6, <1>7, <1>8, <1>9, <1>10, <1>11, <1>12, <1>13 DEF Step

LEMMA SwapInvStep == SwapInv /\ [SwapNext]_swapVars => SwapInv'
  <1> SUFFICES ASSUME SwapInv, [SwapNext]_swapVars PROVE SwapInv'
    OBVIOUS
  <1>1. CASE \E p \in Procs : Call(p)
    BY <1>1, CallKeeps
  <1>2. CASE \E p \in Procs : Step(p)
    BY <1>2, StepKeeps
  <1>3. CASE \E p \in Procs : Crash(p)
    BY <1>3, CrashKeeps
  <1>4. CASE \E c \in Clis, t \in Places : Edit(c, t) \/ Relink(c, t)
    BY <1>4, EditKeeps, RelinkKeeps
  <1>5. CASE \E b \in DOMAIN backups : LoseBackup(b)
    BY <1>5, LoseBackupKeeps
  <1>6. CASE UNCHANGED swapVars
    <2>1. UNCHANGED <<config, link, state, backups, lock, pc, job, pristine, spoilt>>
      BY <1>6 DEF swapVars
    <2> QED BY <2>1 DEF SwapInv, LockOK, LinksOK
  <1> QED BY <1>1, <1>2, <1>3, <1>4, <1>5, <1>6 DEF SwapNext

LEMMA SwapInvIsRecoverable == SwapInv => Recoverable
  <1> SUFFICES ASSUME SwapInv, NEW x \in Files, x \notin spoilt
               PROVE  LET ks == LayersAt(state, x) IN
                      IF ks = {} THEN config[x] = pristine[x]
                      ELSE LET b == state[Bottom(state, ks)].backup IN
                           b \in DOMAIN backups /\ backups[b] = pristine[x]
    BY DEF Recoverable
  <1>1. StateOK(state) /\ Found(state, backups, config[x], pristine[x], x)
    BY DEF SwapInv, FilesOK
  <1>2. PICK ks : ks = LayersAt(state, x)
    OBVIOUS
  <1>3. CASE ks = {}
    BY <1>1, <1>2, <1>3 DEF Found
  <1>4. CASE ks # {}
    <2>1. ks \subseteq DOMAIN state
      BY <1>2 DEF LayersAt
    <2>2. Bottom(state, ks) \in ks /\ \A l \in ks : state[Bottom(state, ks)].seq <= state[l].seq
      BY <1>1, <1>4, <2>1, BottomIs
    <2> QED BY <1>1, <1>2, <1>4, <2>2 DEF Found
  <1> QED BY <1>2, <1>3, <1>4

(* However use-local and revert are interrupted, at any step, by kills,     *)
(* errors or edits of the user, and wherever a configuration leads by now,  *)
(* revert finds the original of every file that nobody spoilt.             *)
THEOREM OriginalsStayRecoverable == SwapSpec => []Recoverable
  <1>1. SwapInit => SwapInv
    BY SwapInvInit
  <1>2. SwapInv /\ [SwapNext]_swapVars => SwapInv'
    BY SwapInvStep
  <1>3. SwapInv => Recoverable
    BY SwapInvIsRecoverable
  <1> QED BY <1>1, <1>2, <1>3, PTL DEF SwapSpec

(* A command that was in its loop and has ended has changed no file.        *)
LEMMA EndsAtRest ==
  ASSUME [SwapNext]_swapVars, SwapInv, NEW p \in Procs, pc[p] = "next", pc'[p] = "idle"
  PROVE  UNCHANGED state
  <1>1. pc[p] \in Busy /\ DOMAIN pc = Procs
    BY DEF SwapInv, LockOK, Busy
  <1>2. ASSUME NEW q \in Procs, NEW l, NEW j, Goto(q, l, j), q # p PROVE FALSE
    BY <1>1, <1>2 DEF Goto
  <1>3. ASSUME NEW l, NEW j, Goto(p, l, j) PROVE l = "idle"
    BY <1>1, <1>3, SMTT(40) DEF Goto
  <1>4. ASSUME NEW q \in Procs, Step(q) PROVE UNCHANGED state
    <2>1. q = p
      <3>1. \E l, j : Goto(q, l, j)
        BY <1>4 DEF Step, Lock, Locked, Arguments, LoadState, PreflightFails, LoadFails, Finish, Return,
                    ReadConfig, Skip, Fail, Backup, Record, Write, Rollback, Unrecord,
                    PickCli, Restore, Forget, Unlink
      <3> QED BY <1>2, <3>1
    <2> QED BY <1>4, <2>1, ZenonT(60) DEF Step, Lock, LoadState, PreflightFails, LoadFails, Finish, Return, OnDisk,
                    ReadConfig, Skip, Fail, Backup, Record, Write, Rollback, Unrecord,
                    PickCli, Restore, Forget, Unlink
  <1>5. (\E q \in Procs : Call(q) \/ Crash(q)) => UNCHANGED state
    BY DEF Call, Crash
  <1>6. (\E c \in Clis, t \in Places : Edit(c, t) \/ Relink(c, t)) \/ (\E b \in DOMAIN backups : LoseBackup(b)) \/ UNCHANGED swapVars
          => UNCHANGED state
    BY DEF Edit, Relink, LoseBackup, swapVars
  <1> QED BY <1>4, <1>5, <1>6 DEF SwapNext

(* A revert without arguments that succeeds leaves no swap recorded, and    *)
(* every file that nobody spoilt as it was.                                *)
THEOREM RevertsRestoreOriginals == SwapSpec => RevertRestores
  <1>1. SwapInit => SwapInv
    BY SwapInvInit
  <1>2. SwapInv /\ [SwapNext]_swapVars => SwapInv'
    BY SwapInvStep
  <1>3. SwapInv /\ SwapInv' /\ [SwapNext]_swapVars =>
          [\A p \in Procs :
            pc[p] = "next" /\ pc'[p] = "idle" /\ job[p].todo = {} /\ job[p].op = "revert"
            /\ job[p].scope = Nothing /\ job[p].only = {} /\ job[p].rc = 0
            => /\ DOMAIN state' = {}
               /\ \A x \in Files : x \notin spoilt' => config'[x] = pristine'[x]]_swapVars
    <2> SUFFICES ASSUME SwapInv, SwapInv', [SwapNext]_swapVars, NEW p \in Procs,
                        pc[p] = "next", pc'[p] = "idle", job[p].todo = {}, RevertsAll(job[p])
                 PROVE  /\ DOMAIN state' = {}
                        /\ \A x \in Files : x \notin spoilt' => config'[x] = pristine'[x]
      BY DEF RevertsAll
    <2>1. PICK j : j = job[p]
      OBVIOUS
    <2>2. pc[p] \in Busy
      BY DEF Busy
    <2>3. AllTaken("next", j) /\ JobOK("next", j, state)
      BY <2>1, <2>2 DEF SwapInv, ProcOK
    <2>4. DOMAIN state = {}
      BY <2>1, <2>3 DEF AllTaken, JobOK
    <2>5. DOMAIN state' = {}
      BY <2>4, EndsAtRest
    <2>6. FilesOK(state', backups', config', pristine', spoilt')
      BY DEF SwapInv
    <2>7. \A x \in Files : LayersAt(state', x) = {}
      BY <2>5 DEF LayersAt
    <2> QED BY <2>5, <2>6, <2>7 DEF FilesOK, Found
  <1> QED BY <1>1, <1>2, <1>3, PTL DEF SwapSpec, RevertRestores
=============================================================================
