--------------------------- MODULE IterationProofs ---------------------------
(***************************************************************************)
(* Proofs about ClosedExecutors and Clients: the iterations that scenarios   *)
(* run and the calls that are made in one of them.  For any scenarios, VUs   *)
(* and budgets: types, the gauges of the VUs, and that exactly the           *)
(* iterations configured run.  For any tasks, servers and number of calls:   *)
(* an iteration that is done has left nothing open, and the phases of a      *)
(* request add up to its duration.                                         *)
(***************************************************************************)
EXTENDS ClosedExecutors, Clients, FiniteSetTheorems, TLAPS

(***************************************************************************)
(* The iterations: ClosedExecutors.                                        *)
(***************************************************************************)

(* A VU that counts as active.                                             *)
Busy == {"gate", "woken", "iter"}
AtWork(s) == At(s, Busy)
Number(s) == Cardinality(AtWork(s))

(* The part of the state the gauges are about.                             *)
Typed ==
  /\ vu \in [VU -> Busy \cup {"new", "off"}]
  /\ active \in [Scenario -> Nat] /\ peak \in [Scenario -> Nat]
  /\ vus \in [Scenario -> Nat \cup {-1}] /\ vusMax \in [Scenario -> Nat \cup {-1}]

-----------------------------------------------------------------------------
(* Where the VUs are.                                                      *)

LEMMA TeamsFinite ==
  ASSUME NEW s \in Scenario
  PROVE  /\ IsFiniteSet(Team(s)) /\ Cardinality(Team(s)) \in Nat
         /\ IsFiniteSet(AtWork(s)) /\ Number(s) \in Nat
         /\ AtWork(s) \subseteq Team(s)
         /\ Number(s) <= Cardinality(Team(s))
  <1>1. IsFiniteSet(VU) /\ Team(s) \subseteq VU /\ AtWork(s) \subseteq Team(s)
    BY ClosedExecutorsAssumption DEF Team, AtWork, At
  <1>2. IsFiniteSet(Team(s))
    BY <1>1, FS_Subset
  <1>3. IsFiniteSet(AtWork(s)) /\ Cardinality(AtWork(s)) <= Cardinality(Team(s))
    BY <1>1, <1>2, FS_Subset
  <1> QED BY <1>1, <1>2, <1>3, FS_CardinalityType DEF Number

(* A VU that begins to work is one more.                                   *)
LEMMA OneMore ==
  ASSUME Typed, NEW v \in VU, vu[v] = "new", vu' = [vu EXCEPT ![v] = "gate"] \/ vu' = [vu EXCEPT ![v] = "iter"]
  PROVE  /\ Number(Home[v])' = Number(Home[v]) + 1
         /\ Number(Home[v]) + 1 <= Cardinality(Team(Home[v]))
         /\ \A s \in Scenario \ {Home[v]} : Number(s)' = Number(s)
  <1>1. Home[v] \in Scenario
    BY ClosedExecutorsAssumption
  <1>2. v \notin AtWork(Home[v]) /\ AtWork(Home[v])' = AtWork(Home[v]) \cup {v}
    BY DEF AtWork, At, Team, Typed, Busy
  <1>3. Number(Home[v])' = Number(Home[v]) + 1
    BY <1>1, <1>2, TeamsFinite, FS_AddElement DEF Number
  <1>4. Number(Home[v]) + 1 <= Cardinality(Team(Home[v]))
    <2>1. AtWork(Home[v]) \cup {v} \subseteq Team(Home[v])
      BY <1>1, TeamsFinite DEF Team
    <2>2. Cardinality(AtWork(Home[v]) \cup {v}) <= Cardinality(Team(Home[v]))
      BY <1>1, <2>1, TeamsFinite, FS_Subset
    <2> QED BY <1>2, <1>3, <2>2 DEF Number
  <1>5. ASSUME NEW s \in Scenario \ {Home[v]} PROVE Number(s)' = Number(s)
    <2>1. AtWork(s)' = AtWork(s)
      BY DEF AtWork, At, Team, Typed, Busy
    <2> QED BY <2>1 DEF Number
  <1> QED BY <1>3, <1>4, <1>5

(* A VU that leaves is one less, unless it had not begun.                  *)
LEMMA OneLess ==
  ASSUME Typed, NEW v \in VU, vu[v] \in Busy, vu' = [vu EXCEPT ![v] = "off"]
  PROVE  /\ Number(Home[v])' = Number(Home[v]) - 1 /\ Number(Home[v]) > 0
         /\ \A s \in Scenario \ {Home[v]} : Number(s)' = Number(s)
  <1>1. Home[v] \in Scenario
    BY ClosedExecutorsAssumption
  <1>2. v \in AtWork(Home[v]) /\ AtWork(Home[v])' = AtWork(Home[v]) \ {v}
    BY DEF AtWork, At, Team, Typed, Busy
  <1>3. Number(Home[v])' = Number(Home[v]) - 1
    BY <1>1, <1>2, TeamsFinite, FS_RemoveElement DEF Number
  <1>4. Number(Home[v]) > 0
    BY <1>1, <1>2, TeamsFinite, FS_EmptySet DEF Number
  <1>5. ASSUME NEW s \in Scenario \ {Home[v]} PROVE Number(s)' = Number(s)
    <2>1. AtWork(s)' = AtWork(s)
      BY DEF AtWork, At, Team, Typed, Busy
    <2> QED BY <2>1 DEF Number
  <1> QED BY <1>3, <1>4, <1>5

(* Other moves change no number.                                           *)
LEMMA AsMany ==
  ASSUME Typed, vu' \in [VU -> Busy \cup {"new", "off"}],
         \A v \in VU : vu'[v] \in Busy <=> vu[v] \in Busy
  PROVE  \A s \in Scenario : Number(s)' = Number(s)
  <1> SUFFICES ASSUME NEW s \in Scenario PROVE Number(s)' = Number(s)
    OBVIOUS
  <1>1. AtWork(s)' = AtWork(s)
    BY DEF AtWork, At, Team
  <1> QED BY <1>1 DEF Number

-----------------------------------------------------------------------------
(* The gauges.                                                             *)

Gauged(s) ==
  /\ active[s] = Number(s)
  /\ vus[s] = active[s] \/ (vus[s] = -1 /\ active[s] = 0)
  /\ vusMax[s] = peak[s] \/ (vusMax[s] = -1 /\ peak[s] = 0)
  /\ active[s] <= peak[s] /\ peak[s] <= Cardinality(Team(s))

Exact == Typed /\ \A s \in Scenario : Gauged(s)

(* What is left of a scenario when nothing of it changes.                   *)
LEMMA UntouchedIsGauged ==
  ASSUME NEW s \in Scenario, Gauged(s), Number(s)' = Number(s),
         active'[s] = active[s], peak'[s] = peak[s], vus'[s] = vus[s], vusMax'[s] = vusMax[s]
  PROVE  Gauged(s)'
  BY DEF Gauged

LEMMA CountUpIsExact ==
  ASSUME Exact, NEW v \in VU, vu[v] = "new", CountUp(Home[v]),
         vu' = [vu EXCEPT ![v] = "gate"] \/ vu' = [vu EXCEPT ![v] = "iter"]
  PROVE  Exact'
  <1> DEFINE h == Home[v]
  <1>1. h \in Scenario /\ Number(h) \in Nat /\ Cardinality(Team(h)) \in Nat
    BY ClosedExecutorsAssumption, TeamsFinite
  <1>2. /\ Number(h)' = Number(h) + 1
        /\ Number(h) + 1 <= Cardinality(Team(h))
        /\ \A s \in Scenario \ {h} : Number(s)' = Number(s)
    BY OneMore DEF Exact
  <1> HIDE DEF h
  <1>3. CountUp(h)
    BY DEF h
  <1>4. Typed'
    BY <1>1, <1>3 DEF Exact, Typed, CountUp, Highest, Busy
  <1>5. Gauged(h)'
    <2>1. Gauged(h) /\ active[h] \in Nat /\ peak[h] \in Nat
      BY <1>1 DEF Exact, Typed
    <2>2. /\ active'[h] = active[h] + 1 /\ vus'[h] = active'[h]
          /\ peak'[h] = Highest(peak[h], active[h] + 1)
          /\ vusMax'[h] = IF active[h] + 1 > peak[h] THEN active[h] + 1 ELSE vusMax[h]
      BY <1>1, <1>3 DEF Exact, Typed, CountUp
    <2> QED BY <1>1, <1>2, <2>1, <2>2 DEF Gauged, Highest
  <1>6. ASSUME NEW s \in Scenario \ {h} PROVE Gauged(s)'
    BY <1>1, <1>2, <1>3, <1>6, UntouchedIsGauged DEF Exact, Typed, CountUp
  <1> QED BY <1>4, <1>5, <1>6 DEF Exact

LEMMA CountDownIsExact ==
  ASSUME Exact, NEW v \in VU, vu[v] \in Busy, CountDown(Home[v]), vu' = [vu EXCEPT ![v] = "off"]
  PROVE  Exact'
  <1> DEFINE h == Home[v]
  <1>1. h \in Scenario /\ Number(h) \in Nat
    BY ClosedExecutorsAssumption, TeamsFinite
  <1>2. /\ Number(h)' = Number(h) - 1 /\ Number(h) > 0
        /\ \A s \in Scenario \ {h} : Number(s)' = Number(s)
    BY OneLess DEF Exact
  <1> HIDE DEF h
  <1>3. CountDown(h) /\ active[h] = Number(h)
    BY <1>1 DEF h, Exact, Gauged
  <1>4. Typed'
    BY <1>1, <1>2, <1>3 DEF Exact, Typed, CountDown
  <1>5. Gauged(h)'
    <2>1. Gauged(h) /\ active[h] \in Nat /\ peak[h] \in Nat
      BY <1>1 DEF Exact, Typed
    <2>2. Cardinality(Team(h)) \in Nat
      BY <1>1, TeamsFinite
    <2>3. /\ active'[h] = active[h] - 1 /\ vus'[h] = active'[h]
          /\ peak' = peak /\ vusMax' = vusMax
      BY <1>1, <1>3 DEF Exact, Typed, CountDown
    <2> QED BY <1>1, <1>2, <2>1, <2>2, <2>3 DEF Gauged
  <1>6. ASSUME NEW s \in Scenario \ {h} PROVE Gauged(s)'
    BY <1>1, <1>2, <1>3, <1>6, UntouchedIsGauged DEF Exact, Typed, CountDown
  <1> QED BY <1>4, <1>5, <1>6 DEF Exact

LEMMA CountUpAndDownIsExact ==
  ASSUME Exact, NEW v \in VU, vu[v] = "new", CountUpAndDown(Home[v]), vu' = [vu EXCEPT ![v] = "off"]
  PROVE  Exact'
  <1> DEFINE h == Home[v]
  <1>1. h \in Scenario /\ Number(h) \in Nat /\ Cardinality(Team(h)) \in Nat
    BY ClosedExecutorsAssumption, TeamsFinite
  <1>2. \A s \in Scenario : Number(s)' = Number(s)
    BY AsMany DEF Exact, Typed, Busy
  <1>3. Number(h) + 1 <= Cardinality(Team(h))
    <2>1. v \notin AtWork(h) /\ AtWork(h) \cup {v} \subseteq Team(h)
      BY <1>1, TeamsFinite DEF AtWork, At, Team, Busy
    <2>2. Cardinality(AtWork(h) \cup {v}) <= Cardinality(Team(h))
      BY <1>1, <2>1, TeamsFinite, FS_Subset
    <2>3. Cardinality(AtWork(h) \cup {v}) = Number(h) + 1
      BY <1>1, <2>1, TeamsFinite, FS_AddElement DEF Number
    <2> QED BY <2>2, <2>3
  <1> HIDE DEF h
  <1>4. CountUpAndDown(h)
    BY DEF h
  <1>5. Typed'
    <2>1. Highest(peak[h], active[h] + 1) \in Nat
      BY <1>1 DEF Exact, Typed, Highest
    <2>2. peak' \in [Scenario -> Nat] /\ vu' \in [VU -> Busy \cup {"new", "off"}]
      <3>1. peak' = [peak EXCEPT ![h] = Highest(@, active[h] + 1)]
        BY <1>4 DEF CountUpAndDown
      <3>2. peak \in [Scenario -> Nat] /\ vu' \in [VU -> Busy \cup {"new", "off"}]
        BY DEF Exact, Typed
      <3> QED BY <2>1, <3>1, <3>2
    <2>3. peak'[h] \in Nat
      BY <1>1, <2>2
    <2> QED BY <1>1, <1>4, <2>2, <2>3 DEF Exact, Typed, CountUpAndDown
  <1>6. Gauged(h)'
    <2>1. Gauged(h) /\ active[h] \in Nat /\ peak[h] \in Nat
      BY <1>1 DEF Exact, Typed
    <2>2. /\ active'[h] = active[h] /\ vus'[h] = active[h]
          /\ peak'[h] = Highest(peak[h], active[h] + 1) /\ vusMax'[h] = peak'[h]
      BY <1>1, <1>4 DEF Exact, Typed, CountUpAndDown
    <2> QED BY <1>1, <1>2, <1>3, <2>1, <2>2 DEF Gauged, Highest
  <1>7. ASSUME NEW s \in Scenario \ {h} PROVE Gauged(s)'
    BY <1>1, <1>2, <1>4, <1>7, UntouchedIsGauged DEF Exact, Typed, CountUpAndDown
  <1> QED BY <1>5, <1>6, <1>7 DEF Exact

LEMMA StillExact ==
  ASSUME Exact, UNCHANGED stateVars, vu' \in [VU -> Busy \cup {"new", "off"}],
         \A v \in VU : vu'[v] \in Busy <=> vu[v] \in Busy
  PROVE  Exact'
  <1>1. \A s \in Scenario : Number(s)' = Number(s)
    BY AsMany DEF Exact
  <1>2. Typed'
    BY DEF Exact, Typed, stateVars
  <1>3. \A s \in Scenario : Gauged(s)'
    BY <1>1, UntouchedIsGauged DEF Exact, stateVars
  <1> QED BY <1>2, <1>3 DEF Exact

-----------------------------------------------------------------------------
(* The steps.                                                              *)

LEMMA ClaimGoesOn ==
  ASSUME NEW v \in VU, Claim(v)
  PROVE  vu' = [vu EXCEPT ![v] = "gate"] \/ vu' = [vu EXCEPT ![v] = "iter"]
  BY DEF Claim

LEMMA VuStepIsExact == ASSUME Exact, NEW v \in VU, VuStep(v) PROVE Exact'
  <1>1. CASE VuStarts(v)
    <2>1. CASE Claim(v) /\ CountUp(Home[v])
      BY <1>1, <2>1, ClaimGoesOn, CountUpIsExact DEF VuStarts
    <2>2. CASE Leaves(v) /\ CountUpAndDown(Home[v])
      BY <1>1, <2>2, CountUpAndDownIsExact DEF VuStarts, Leaves
    <2> QED BY <1>1, <2>1, <2>2 DEF VuStarts
  <1>2. CASE PassesGate(v)
    BY <1>2, StillExact DEF PassesGate, Exact, Typed, Busy
  <1>3. CASE IterationEnds(v)
    <2>1. CASE Claim(v) /\ UNCHANGED stateVars
      BY <1>3, <2>1, StillExact DEF IterationEnds, Claim, Exact, Typed, Busy
    <2>2. CASE Leaves(v) /\ CountDown(Home[v])
      BY <1>3, <2>2, CountDownIsExact DEF IterationEnds, Leaves, Busy
    <2> QED BY <1>3, <2>1, <2>2 DEF IterationEnds
  <1>4. CASE CleanupRaises(v)
    BY <1>4, CountDownIsExact DEF CleanupRaises, Leaves, Busy
  <1>5. CASE VuCancelled(v)
    <2>1. CASE vu[v] = "new"
      BY <1>5, <2>1, StillExact DEF VuCancelled, Leaves, Exact, Typed, Busy
    <2>2. CASE vu[v] # "new"
      <3>1. vu[v] \in Busy
        BY <1>5, <2>2 DEF VuCancelled, Exact, Typed
      <3> QED BY <1>5, <2>2, <3>1, CountDownIsExact DEF VuCancelled, Leaves
    <2> QED BY <2>1, <2>2
  <1> QED BY <1>1, <1>2, <1>3, <1>4, <1>5 DEF VuStep

LEMMA ExactInductive == Spec => []Exact
  <1>1. Init => Exact
    <2> SUFFICES ASSUME Init PROVE Exact OBVIOUS
    <2>1. Typed
      BY DEF Init, Typed
    <2>2. ASSUME NEW s \in Scenario PROVE Gauged(s)
      <3>1. AtWork(s) = {}
        BY DEF Init, AtWork, At, Team, Busy
      <3> QED BY <3>1, TeamsFinite, FS_EmptySet DEF Init, Gauged, Number
    <2> QED BY <2>1, <2>2 DEF Exact
  <1>2. Exact /\ [Next]_vars => Exact'
    <2> SUFFICES ASSUME Exact, [Next]_vars PROVE Exact' OBVIOUS
    <2>1. CASE \E v \in VU : VuStep(v)
      BY <2>1, VuStepIsExact
    <2>2. CASE Resume
      BY <2>2, StillExact DEF Resume, othersOfUser, Exact, Typed, Busy
    <2>3. ASSUME vu' = vu, UNCHANGED stateVars PROVE Exact'
      BY <2>3, StillExact DEF Exact, Typed
    <2>4. CASE (\E s \in Scenario : ScenarioFails(s)) \/ Stop \/ Pause \/ Cancel \/ UNCHANGED vars
      BY <2>3, <2>4 DEF ScenarioFails, Stop, Pause, Cancel, othersOfUser, vars
    <2> QED BY <2>1, <2>2, <2>4 DEF Next
  <1> QED BY <1>1, <1>2, PTL DEF Spec

(* For any scenarios and VUs "vus" is the number of VUs of its scenario that *)
(* are at work, and "vus_max" the largest there was, through pauses, stops,  *)
(* cancellations and clean-ups that raise.                                 *)
THEOREM GaugesAreExact == Spec => []GaugesExact
  <1>1. Exact => GaugesExact
    BY TeamsFinite DEF Exact, Gauged, GaugesExact, Number, AtWork, Busy
  <1> QED BY <1>1, ExactInductive, PTL

-----------------------------------------------------------------------------
(* The rest of the types.                                                  *)

Counters ==
  /\ left \in [Pool -> Nat]
  /\ started \in [Scenario -> Nat] /\ ended \in [Scenario -> Nat]
  /\ raised \subseteq Scenario
  /\ abort \in BOOLEAN /\ paused \in BOOLEAN /\ cancel \in BOOLEAN

LEMMA ClaimCounts ==
  ASSUME Counters, NEW v \in VU, GoesOn(v), Claim(v)
  PROVE  left' \in [Pool -> Nat] /\ started' \in [Scenario -> Nat]
  <1>1. Home[v] \in Scenario /\ PoolOf(v) \in Pool
    BY ClosedExecutorsAssumption DEF PoolOf, Pool
  <1>2. left[PoolOf(v)] \in Nat /\ left[PoolOf(v)] > 0
    BY <1>1 DEF Counters, GoesOn
  <1> QED BY <1>1, <1>2 DEF Counters, Claim

LEMMA VuStepCounts == ASSUME Counters, NEW v \in VU, VuStep(v) PROVE Counters'
  <1> USE DEF userVars
  <1>1. Home[v] \in Scenario
    BY ClosedExecutorsAssumption
  <1>2. CASE VuStarts(v)
    BY <1>2, ClaimCounts DEF Counters, VuStarts, Leaves
  <1>3. CASE PassesGate(v)
    BY <1>1, <1>3 DEF Counters, PassesGate
  <1>4. CASE IterationEnds(v)
    <2>1. ended' \in [Scenario -> Nat] /\ UNCHANGED <<raised, abort, paused, cancel>>
      BY <1>1, <1>4 DEF Counters, IterationEnds
    <2>2. left' \in [Pool -> Nat] /\ started' \in [Scenario -> Nat]
      BY <1>4, ClaimCounts DEF Counters, IterationEnds, Leaves
    <2> QED BY <2>1, <2>2 DEF Counters
  <1>5. CASE CleanupRaises(v)
    BY <1>1, <1>5 DEF Counters, CleanupRaises, Leaves
  <1>6. CASE VuCancelled(v)
    BY <1>1, <1>6 DEF Counters, VuCancelled, Leaves
  <1> QED BY <1>2, <1>3, <1>4, <1>5, <1>6 DEF VuStep

LEMMA CountersInductive == Spec => []Counters
  <1>1. Init => Counters
    <2> SUFFICES ASSUME Init PROVE Counters OBVIOUS
    <2>1. \A p \in Pool : Budget[IF p \in Scenario THEN p ELSE Home[p]] \in Nat
      BY ClosedExecutorsAssumption DEF Pool
    <2> QED BY <2>1 DEF Init, Counters
  <1>2. Counters /\ [Next]_vars => Counters'
    <2> SUFFICES ASSUME Counters, [Next]_vars PROVE Counters' OBVIOUS
    <2>1. CASE \E v \in VU : VuStep(v)
      BY <2>1, VuStepCounts
    <2>2. CASE (\E s \in Scenario : ScenarioFails(s)) \/ UNCHANGED vars
      BY <2>2 DEF Counters, ScenarioFails, vars, userVars
    <2>3. CASE Stop \/ Pause \/ Resume \/ Cancel
      BY <2>3 DEF Counters, Stop, Pause, Resume, Cancel, othersOfUser
    <2> QED BY <2>1, <2>2, <2>3 DEF Next
  <1> QED BY <1>1, <1>2, PTL DEF Spec

(* Every variable keeps its type: no pool of iterations is overdrawn.       *)
THEOREM TypeCorrect == Spec => []TypeOK
  <1>1. Exact /\ Counters => TypeOK
    BY DEF Exact, Typed, Counters, TypeOK, Busy
  <1> QED BY <1>1, ExactInductive, CountersInductive, PTL

-----------------------------------------------------------------------------
(* The iterations.                                                         *)

PoolsOf(s) == {PoolOf(v) : v \in Team(s)}

(* The iterations nobody has taken yet, those that were taken by a VU that  *)
(* waits at the gate, and those that run.                                  *)
Remaining(s) == {r \in PoolsOf(s) \X (1 .. Budget[s]) : r[2] <= left[r[1]]}
Waiting(s)   == {v \in Team(s) : vu[v] \in {"gate", "woken"}}
Iterating(s) == {v \in Team(s) : vu[v] = "iter"}

(* Nothing has cut the scenario short.                                     *)
Free(s) == ~cancel /\ s \notin raised

(* Every iteration is in one of these places, started or ended; a VU leaves *)
(* only a pool that is empty.                                              *)
Accounted(s) == Free(s) =>
  /\ started[s] + Cardinality(Remaining(s)) + Cardinality(Waiting(s)) = Total(s)
  /\ ended[s] + Cardinality(Iterating(s)) = started[s]
  /\ ~abort => \A v \in Team(s) : vu[v] = "off" => left[PoolOf(v)] = 0

Budgeted == \A v \in VU : left[PoolOf(v)] <= Budget[Home[v]]

Ledger == Budgeted /\ \A s \in Scenario : Accounted(s)

State == Typed /\ Counters

LEMMA PoolsShape ==
  /\ \A v \in VU : Home[v] \in Scenario /\ PoolOf(v) \in Pool
  /\ \A v, w \in VU : PoolOf(v) = PoolOf(w) => Home[v] = Home[w]
  BY ClosedExecutorsAssumption DEF PoolOf, Pool

LEMMA SetsFinite ==
  ASSUME NEW s \in Scenario
  PROVE  /\ IsFiniteSet(PoolsOf(s)) /\ IsFiniteSet(PoolsOf(s) \X (1 .. Budget[s]))
         /\ IsFiniteSet(Remaining(s)) /\ IsFiniteSet(Waiting(s)) /\ IsFiniteSet(Iterating(s))
         /\ Cardinality(Remaining(s)) \in Nat
         /\ Cardinality(Waiting(s)) \in Nat /\ Cardinality(Iterating(s)) \in Nat
  <1>1. IsFiniteSet(Team(s))
    BY TeamsFinite
  <1>2. IsFiniteSet(PoolsOf(s))
    <2>1. PoolsOf(s) \subseteq {s} \cup Team(s)
      BY DEF PoolsOf, PoolOf, Team
    <2>2. IsFiniteSet({s} \cup Team(s))
      BY <1>1, FS_Singleton, FS_Union
    <2> QED BY <2>1, <2>2, FS_Subset
  <1>3. IsFiniteSet(PoolsOf(s) \X (1 .. Budget[s]))
    <2>1. Budget[s] \in Int
      BY ClosedExecutorsAssumption
    <2>2. IsFiniteSet(1 .. Budget[s])
      BY <2>1, FS_Interval
    <2> QED BY <1>2, <2>2, FS_Product
  <1>4. /\ Remaining(s) \subseteq PoolsOf(s) \X (1 .. Budget[s])
        /\ Waiting(s) \subseteq Team(s) /\ Iterating(s) \subseteq Team(s)
    BY DEF Remaining, Waiting, Iterating
  <1>5. IsFiniteSet(Remaining(s)) /\ IsFiniteSet(Waiting(s)) /\ IsFiniteSet(Iterating(s))
    BY <1>1, <1>3, <1>4, FS_Subset
  <1> QED BY <1>2, <1>3, <1>5, FS_CardinalityType

LEMMA AddOne ==
  ASSUME NEW S, NEW x, IsFiniteSet(S), x \notin S, NEW T, T = S \cup {x}
  PROVE  Cardinality(T) = Cardinality(S) + 1
  BY FS_AddElement

LEMMA TakeOne ==
  ASSUME NEW S, NEW x, IsFiniteSet(S), x \in S, NEW T, T = S \ {x}
  PROVE  Cardinality(T) = Cardinality(S) - 1
  BY FS_RemoveElement

(* A VU that goes from one place to another changes the sets of its own     *)
(* scenario only.                                                          *)
LEMMA GoesTo ==
  ASSUME State, NEW v \in VU, NEW place, vu' = [vu EXCEPT ![v] = place]
  PROVE  /\ Waiting(Home[v])' = IF place \in {"gate", "woken"} THEN Waiting(Home[v]) \cup {v}
                                ELSE Waiting(Home[v]) \ {v}
         /\ Iterating(Home[v])' = IF place = "iter" THEN Iterating(Home[v]) \cup {v}
                                  ELSE Iterating(Home[v]) \ {v}
         /\ v \in Waiting(Home[v]) <=> vu[v] \in {"gate", "woken"}
         /\ v \in Iterating(Home[v]) <=> vu[v] = "iter"
         /\ \A s \in Scenario \ {Home[v]} :
              Waiting(s)' = Waiting(s) /\ Iterating(s)' = Iterating(s)
  <1>1. vu \in [VU -> Busy \cup {"new", "off"}] /\ Home[v] \in Scenario
    BY PoolsShape DEF State, Typed
  <1>2. vu'[v] = place /\ \A w \in VU \ {v} : vu'[w] = vu[w]
    BY <1>1
  <1> QED BY <1>1, <1>2 DEF Waiting, Iterating, Team

(* One iteration less in the pool of v.                                    *)
LEMMA ClaimTakes ==
  ASSUME State, Budgeted, NEW v \in VU, left[PoolOf(v)] > 0,
         left' = [left EXCEPT ![PoolOf(v)] = @ - 1]
  PROVE  /\ Cardinality(Remaining(Home[v])') = Cardinality(Remaining(Home[v])) - 1
         /\ \A s \in Scenario \ {Home[v]} : Remaining(s)' = Remaining(s)
         /\ Budgeted'
  <1> DEFINE h == Home[v]
             p == PoolOf(v)
             n == left[p]
  <1>1. h \in Scenario /\ p \in Pool /\ left \in [Pool -> Nat] /\ n \in Nat /\ n > 0
    BY PoolsShape DEF State, Counters
  <1>2. n <= Budget[h] /\ Budget[h] \in Nat
    BY <1>1, ClosedExecutorsAssumption DEF Budgeted
  <1>3. p \in PoolsOf(h)
    BY DEF PoolsOf, Team
  <1>4. left'[p] = n - 1 /\ \A q \in Pool \ {p} : left'[q] = left[q]
    BY <1>1
  <1>5. \A s \in Scenario : \A q \in PoolsOf(s) : q \in Pool /\ left[q] \in Nat
    BY <1>1, PoolsShape DEF PoolsOf, Team
  <1>6. <<p, n>> \in Remaining(h)
    BY <1>1, <1>2, <1>3 DEF Remaining
  <1>7. Remaining(h)' = Remaining(h) \ {<<p, n>>}
    <2> HIDE DEF h, p, n
    <2>0. n = left[p]
      BY DEF n
    <2>1. ASSUME NEW r \in PoolsOf(h) \X (1 .. Budget[h])
          PROVE  r[2] <= left'[r[1]] <=> r[2] <= left[r[1]] /\ r # <<p, n>>
      <3>1. r = <<r[1], r[2]>> /\ r[1] \in PoolsOf(h) /\ r[2] \in 1 .. Budget[h]
        BY <2>1
      <3>2. r[1] \in Pool /\ left[r[1]] \in Nat /\ r[2] \in Nat
        BY <1>1, <1>2, <1>5, <3>1
      <3>3. CASE r[1] = p
        <4>1. left'[r[1]] = n - 1 /\ left[r[1]] = n
          BY <1>4, <2>0, <3>3
        <4>2. r # <<p, n>> <=> r[2] # n
          BY <3>1, <3>3
        <4> QED BY <1>1, <3>2, <4>1, <4>2
      <3>4. CASE r[1] # p
        <4>1. left'[r[1]] = left[r[1]]
          BY <1>4, <3>2, <3>4
        <4>2. r # <<p, n>>
          BY <3>1, <3>4
        <4> QED BY <4>1, <4>2
      <3> QED BY <3>3, <3>4
    <2> QED BY <2>1 DEF Remaining
  <1>8. Cardinality(Remaining(h)') = Cardinality(Remaining(h)) - 1
    BY <1>1, <1>6, <1>7, SetsFinite, TakeOne
  <1>9. ASSUME NEW s \in Scenario \ {h} PROVE Remaining(s)' = Remaining(s)
    <2>1. \A q \in PoolsOf(s) : q \in Pool /\ q # p
      BY <1>1, <1>9, PoolsShape DEF PoolsOf, Team
    <2>2. \A q \in PoolsOf(s) : left'[q] = left[q]
      BY <1>4, <2>1
    <2> QED BY <2>2 DEF Remaining
  <1>10. Budgeted'
    <2>1. ASSUME NEW w \in VU PROVE left'[PoolOf(w)] <= Budget[Home[w]]
      <3>1. /\ PoolOf(w) \in Pool /\ left[PoolOf(w)] \in Nat
            /\ left[PoolOf(w)] <= Budget[Home[w]] /\ Budget[Home[w]] \in Nat
        BY <1>1, PoolsShape, ClosedExecutorsAssumption DEF Budgeted
      <3>2. left'[PoolOf(w)] <= left[PoolOf(w)]  /\ left'[PoolOf(w)] \in Int
        BY <1>1, <1>4, <3>1
      <3> QED BY <3>1, <3>2
    <2> QED BY <2>1 DEF Budgeted
  <1> QED BY <1>8, <1>9, <1>10

(* A step of v says nothing about the other scenarios.                     *)
LEMMA OthersAccounted ==
  ASSUME State, Ledger, NEW v \in VU, NEW place, vu' = [vu EXCEPT ![v] = place],
         \A s \in Scenario \ {Home[v]} :
           /\ Remaining(s)' = Remaining(s)
           /\ started'[s] = started[s] /\ ended'[s] = ended[s],
         \A w \in VU : Home[w] # Home[v] => left'[PoolOf(w)] = left[PoolOf(w)],
         raised \subseteq raised', UNCHANGED userVars
  PROVE  \A s \in Scenario \ {Home[v]} : Accounted(s)'
  <1> SUFFICES ASSUME NEW s \in Scenario \ {Home[v]} PROVE Accounted(s)'
    OBVIOUS
  <1>1. Waiting(s)' = Waiting(s) /\ Iterating(s)' = Iterating(s)
    BY GoesTo
  <1>2. \A w \in Team(s) : /\ w \in VU /\ Home[w] # Home[v]
                           /\ vu'[w] = vu[w] /\ left'[PoolOf(w)] = left[PoolOf(w)]
    BY DEF Team, State, Typed
  <1>3. Accounted(s)
    BY DEF Ledger
  <1>4. Free(s)' => Free(s)
    BY DEF Free, userVars
  <1> QED BY <1>1, <1>2, <1>3, <1>4 DEF Accounted, userVars

(* The places of v and of the others in its scenario.                      *)
LEMMA TeamMates ==
  ASSUME State, NEW v \in VU, NEW place, vu' = [vu EXCEPT ![v] = place]
  PROVE  /\ vu'[v] = place /\ v \in Team(Home[v]) /\ Home[v] \in Scenario
         /\ \A w \in Team(Home[v]) \ {v} : w \in VU /\ vu'[w] = vu[w]
  BY PoolsShape DEF State, Typed, Team

(* Claim of an iteration, by a VU that begins or that has ended another.    *)
LEMMA ClaimAccounted ==
  ASSUME State, Ledger, NEW v \in VU, GoesOn(v), Claim(v), ~Cancelled(v),
         UNCHANGED <<raised, userVars>>,
         \/ vu[v] = "new" /\ ended' = ended
         \/ vu[v] = "iter" /\ ended' = [ended EXCEPT ![Home[v]] = @ + 1]
  PROVE  Ledger'
  <1> DEFINE h == Home[v]
             place == IF paused THEN "gate" ELSE "iter"
  <1>1. h \in Scenario /\ started \in [Scenario -> Nat] /\ ended \in [Scenario -> Nat]
    BY PoolsShape DEF State, Counters
  <1>2. vu' = [vu EXCEPT ![v] = place]
    BY DEF Claim
  <1>3. left' = [left EXCEPT ![PoolOf(v)] = @ - 1] /\ left[PoolOf(v)] > 0 /\ ~abort
    BY DEF Claim, GoesOn
  <1>4. /\ Cardinality(Remaining(h)') = Cardinality(Remaining(h)) - 1
        /\ \A s \in Scenario \ {h} : Remaining(s)' = Remaining(s)
        /\ Budgeted'
    BY <1>3, ClaimTakes DEF Ledger
  <1>5. \A s \in Scenario \ {h} : started'[s] = started[s] /\ ended'[s] = ended[s]
    BY <1>1 DEF Claim
  <1>6. \A w \in VU : PoolOf(w) # PoolOf(v) => left'[PoolOf(w)] = left[PoolOf(w)]
    BY <1>3, PoolsShape DEF State, Counters
  <1>7. \A w \in VU : Home[w] # h => PoolOf(w) # PoolOf(v)
    BY PoolsShape
  <1>8. \A s \in Scenario \ {h} : Accounted(s)'
    <2> HIDE DEF h, place
    <2>1. h = Home[v]
      BY DEF h
    <2>2. PICK q \in {"gate", "iter"} : vu' = [vu EXCEPT ![v] = q]
      BY <1>2 DEF place
    <2>3. raised \subseteq raised' /\ UNCHANGED userVars
      OBVIOUS
    <2>4. \A w \in VU : Home[w] # Home[v] => left'[PoolOf(w)] = left[PoolOf(w)]
      BY <1>6, <1>7, <2>1
    <2> QED BY <1>4, <1>5, <2>1, <2>2, <2>3, <2>4, OthersAccounted
  <1>9. /\ vu'[v] = place /\ v \in Team(h)
        /\ \A w \in Team(h) \ {v} : w \in VU /\ vu'[w] = vu[w]
    <2>1. PICK q : q = place
      OBVIOUS
    <2>2. vu' = [vu EXCEPT ![v] = q]
      BY <1>2, <2>1
    <2> HIDE DEF place
    <2> QED BY <2>1, <2>2, TeamMates
  <1>10. Accounted(h)'
    <2>1. Free(h) /\ Accounted(h)
      BY <1>1 DEF Free, Cancelled, Ledger
    <2>2. ASSUME NEW w \in Team(h), vu'[w] = "off" PROVE left'[PoolOf(w)] = 0
      <3>1. w # v /\ w \in VU /\ vu[w] = "off"
        BY <1>9, <2>2
      <3>2. left[PoolOf(w)] = 0
        BY <1>3, <2>1, <3>1 DEF Accounted
      <3> QED BY <1>3, <1>6, <3>1, <3>2
    <2>3. /\ Cardinality(Waiting(h)') = Cardinality(Waiting(h)) + IF paused THEN 1 ELSE 0
          /\ started'[h] = started[h] + IF paused THEN 0 ELSE 1
      <3>0. IsFiniteSet(Waiting(h)) /\ Cardinality(Waiting(h)) \in Nat
        BY <1>1, SetsFinite
      <3>1. v \notin Waiting(h)
        BY DEF Waiting
      <3>2. CASE paused
        <4>1. Waiting(h)' = Waiting(h) \cup {v} /\ started' = started
          BY <1>2, <3>2, GoesTo DEF Claim
        <4>2. Cardinality(Waiting(h)') = Cardinality(Waiting(h)) + 1
          BY <3>0, <3>1, <4>1, AddOne
        <4>3. started'[h] = started[h] + 0
          BY <1>1, <4>1
        <4> QED BY <3>2, <4>2, <4>3
      <3>3. CASE ~paused
        <4>1. Waiting(h)' = Waiting(h) \ {v} /\ started' = [started EXCEPT ![h] = @ + 1]
          BY <1>2, <3>3, GoesTo DEF Claim
        <4>2. Waiting(h)' = Waiting(h)
          BY <3>1, <4>1
        <4>3. Cardinality(Waiting(h)') = Cardinality(Waiting(h)) + 0
          BY <3>0, <4>2
        <4>4. started'[h] = started[h] + 1
          BY <1>1, <4>1
        <4> QED BY <3>3, <4>3, <4>4
      <3> QED BY <3>2, <3>3
    <2>4. ended'[h] + Cardinality(Iterating(h)') = started'[h]
      <3>0. Iterating(h)' = IF ~paused THEN Iterating(h) \cup {v} ELSE Iterating(h) \ {v}
        <4>1. CASE paused
          BY <1>2, <4>1, GoesTo
        <4>2. CASE ~paused
          BY <1>2, <4>2, GoesTo
        <4> QED BY <4>1, <4>2
      <3>1. /\ ended[h] + Cardinality(Iterating(h)) = started[h]
            /\ ended[h] \in Nat /\ started[h] \in Nat /\ Cardinality(Iterating(h)) \in Nat
            /\ IsFiniteSet(Iterating(h))
        BY <1>1, <2>1, SetsFinite DEF Accounted
      <3>2. CASE vu[v] = "new"
        <4>1. v \notin Iterating(h) /\ ended'[h] = ended[h]
          BY <3>2 DEF Iterating
        <4>2. Cardinality(Iterating(h)') = Cardinality(Iterating(h)) + IF paused THEN 0 ELSE 1
          <5>1. CASE paused
            <6>1. Iterating(h)' = Iterating(h)
              BY <3>0, <4>1, <5>1
            <6> QED BY <3>1, <5>1, <6>1
          <5>2. CASE ~paused
            BY <3>0, <3>1, <4>1, <5>2, AddOne
          <5> QED BY <5>1, <5>2
        <4> QED BY <2>3, <3>1, <4>1, <4>2
      <3>3. CASE vu[v] = "iter"
        <4>1. v \in Iterating(h) /\ ended'[h] = ended[h] + 1
          BY <1>1, <3>3 DEF Iterating, Team
        <4>2. Cardinality(Iterating(h)') = Cardinality(Iterating(h)) - IF paused THEN 1 ELSE 0
          <5>1. CASE paused
            BY <3>0, <3>1, <4>1, <5>1, TakeOne
          <5>2. CASE ~paused
            <6>1. Iterating(h)' = Iterating(h)
              BY <3>0, <4>1, <5>2
            <6> QED BY <3>1, <5>2, <6>1
          <5> QED BY <5>1, <5>2
        <4> QED BY <2>3, <3>1, <4>1, <4>2
      <3> QED BY <3>2, <3>3
    <2>5. started'[h] + Cardinality(Remaining(h)') + Cardinality(Waiting(h)') = Total(h)
      <3>1. /\ started[h] + Cardinality(Remaining(h)) + Cardinality(Waiting(h)) = Total(h)
            /\ started[h] \in Nat /\ Cardinality(Remaining(h)) \in Nat /\ Cardinality(Waiting(h)) \in Nat
        BY <1>1, <2>1, SetsFinite DEF Accounted
      <3> QED BY <1>4, <2>3, <3>1
    <2>6. Accounted(h)' <=> (Free(h)' =>
            /\ started'[h] + Cardinality(Remaining(h)') + Cardinality(Waiting(h)') = Total(h)
            /\ ended'[h] + Cardinality(Iterating(h)') = started'[h]
            /\ ~abort' => \A w \in Team(h) : vu'[w] = "off" => left'[PoolOf(w)] = 0)
      BY DEF Accounted
    <2> QED BY <2>2, <2>4, <2>5, <2>6
  <1> QED BY <1>4, <1>8, <1>10 DEF Ledger

(* A VU leaves that has nothing left to do, or is told to stop.            *)
LEMMA LeaveAccounted ==
  ASSUME State, Ledger, NEW v \in VU, ~GoesOn(v), Leaves(v), ~Cancelled(v),
         UNCHANGED <<raised, userVars>>,
         \/ vu[v] = "new" /\ ended' = ended
         \/ vu[v] = "iter" /\ ended' = [ended EXCEPT ![Home[v]] = @ + 1]
  PROVE  Ledger'
  <1> DEFINE h == Home[v]
  <1>1. h \in Scenario /\ started \in [Scenario -> Nat] /\ ended \in [Scenario -> Nat]
    BY PoolsShape DEF State, Counters
  <1>2. vu' = [vu EXCEPT ![v] = "off"] /\ UNCHANGED <<left, started>>
    BY DEF Leaves
  <1>3. \A s \in Scenario : Remaining(s)' = Remaining(s)
    BY <1>2 DEF Remaining
  <1>4. \A s \in Scenario \ {h} : Accounted(s)'
    <2>1. \A s \in Scenario \ {h} : started'[s] = started[s] /\ ended'[s] = ended[s]
      BY <1>1, <1>2
    <2> QED BY <1>2, <1>3, <2>1, OthersAccounted
  <1>5. /\ Waiting(h)' = Waiting(h) \ {v} /\ Iterating(h)' = Iterating(h) \ {v}
        /\ v \notin Waiting(h) /\ (v \in Iterating(h) <=> vu[v] = "iter")
    <2>1. PICK q : q = "off"
      OBVIOUS
    <2>2. vu' = [vu EXCEPT ![v] = q]
      BY <1>2, <2>1
    <2>3. /\ Waiting(h)' = IF q \in {"gate", "woken"} THEN Waiting(h) \cup {v} ELSE Waiting(h) \ {v}
          /\ Iterating(h)' = IF q = "iter" THEN Iterating(h) \cup {v} ELSE Iterating(h) \ {v}
          /\ v \in Waiting(h) <=> vu[v] \in {"gate", "woken"}
          /\ v \in Iterating(h) <=> vu[v] = "iter"
      BY <2>2, GoesTo
    <2>4. q # "iter" /\ q \notin {"gate", "woken"} /\ vu[v] \notin {"gate", "woken"}
      BY <2>1
    <2> QED BY <2>3, <2>4
  <1>6. Accounted(h)'
    <2>1. Free(h) /\ Accounted(h)
      BY <1>1 DEF Free, Cancelled, Ledger
    <2>2. ASSUME ~abort, NEW w \in Team(h), vu'[w] = "off" PROVE left'[PoolOf(w)] = 0
      <3>1. CASE w = v
        <4>1. left[PoolOf(v)] \in Nat
          BY PoolsShape DEF State, Counters
        <4> QED BY <1>2, <2>2, <3>1, <4>1 DEF GoesOn
      <3>2. CASE w # v
        <4>1. vu[w] = "off"
          BY <1>2, <2>2, <3>2, TeamMates
        <4> QED BY <1>2, <2>1, <2>2, <4>1 DEF Accounted
      <3> QED BY <3>1, <3>2
    <2>3. Waiting(h)' = Waiting(h)
      BY <1>5
    <2>4. ended'[h] + Cardinality(Iterating(h)') = started'[h]
      <3>1. /\ ended[h] + Cardinality(Iterating(h)) = started[h]
            /\ ended[h] \in Nat /\ Cardinality(Iterating(h)) \in Nat
            /\ IsFiniteSet(Iterating(h))
        BY <1>1, <2>1, SetsFinite DEF Accounted
      <3>2. CASE vu[v] = "new"
        <4>1. Iterating(h)' = Iterating(h) /\ ended'[h] = ended[h]
          BY <1>5, <3>2
        <4> QED BY <1>2, <3>1, <4>1
      <3>3. CASE vu[v] = "iter"
        <4>1. ended'[h] = ended[h] + 1
          BY <1>1, <3>3
        <4>2. Cardinality(Iterating(h)') = Cardinality(Iterating(h)) - 1
          BY <1>5, <3>1, <3>3, TakeOne
        <4> QED BY <1>2, <3>1, <4>1, <4>2
      <3> QED BY <3>2, <3>3
    <2>5. started'[h] + Cardinality(Remaining(h)') + Cardinality(Waiting(h)') = Total(h)
      BY <1>1, <1>2, <1>3, <2>1, <2>3 DEF Accounted
    <2>6. Accounted(h)' <=> (Free(h)' =>
            /\ started'[h] + Cardinality(Remaining(h)') + Cardinality(Waiting(h)') = Total(h)
            /\ ended'[h] + Cardinality(Iterating(h)') = started'[h]
            /\ ~abort' => \A w \in Team(h) : vu'[w] = "off" => left'[PoolOf(w)] = 0)
      BY DEF Accounted
    <2> QED BY <2>2, <2>4, <2>5, <2>6 DEF userVars
  <1>7. Budgeted'
    BY <1>2 DEF Ledger, Budgeted
  <1> QED BY <1>4, <1>6, <1>7 DEF Ledger

LEMMA GateAccounted == ASSUME State, Ledger, NEW v \in VU, PassesGate(v) PROVE Ledger'
  <1> DEFINE h == Home[v]
  <1>1. h \in Scenario /\ started \in [Scenario -> Nat] /\ ended \in [Scenario -> Nat]
    BY PoolsShape DEF State, Counters
  <1>2. /\ vu[v] = "woken" /\ ~Cancelled(v) /\ vu' = [vu EXCEPT ![v] = "iter"]
        /\ started' = [started EXCEPT ![h] = @ + 1]
        /\ UNCHANGED <<left, ended, raised, userVars>>
    BY DEF PassesGate
  <1>3. \A s \in Scenario : Remaining(s)' = Remaining(s)
    BY <1>2 DEF Remaining
  <1>4. \A s \in Scenario \ {h} : Accounted(s)'
    <2>1. \A s \in Scenario \ {h} : started'[s] = started[s] /\ ended'[s] = ended[s]
      BY <1>1, <1>2
    <2> QED BY <1>2, <1>3, <2>1, OthersAccounted
  <1>5. /\ Waiting(h)' = Waiting(h) \ {v} /\ Iterating(h)' = Iterating(h) \cup {v}
        /\ v \in Waiting(h) /\ v \notin Iterating(h)
    BY <1>2, GoesTo
  <1>6. Accounted(h)'
    <2>1. Free(h) /\ Accounted(h)
      BY <1>1, <1>2 DEF Free, Cancelled, Ledger
    <2>2. ASSUME ~abort, NEW w \in Team(h), vu'[w] = "off" PROVE left'[PoolOf(w)] = 0
      <3>1. w # v /\ vu[w] = "off"
        BY <1>2, <2>2, TeamMates
      <3> QED BY <1>2, <2>1, <2>2, <3>1 DEF Accounted
    <2>3. /\ IsFiniteSet(Waiting(h)) /\ IsFiniteSet(Iterating(h))
          /\ Cardinality(Waiting(h)) \in Nat /\ Cardinality(Iterating(h)) \in Nat
          /\ Cardinality(Remaining(h)) \in Nat
      BY <1>1, SetsFinite
    <2>4. Cardinality(Waiting(h)') = Cardinality(Waiting(h)) - 1
      BY <1>5, <2>3, TakeOne
    <2>5. Cardinality(Iterating(h)') = Cardinality(Iterating(h)) + 1
      BY <1>5, <2>3, AddOne
    <2>6. started'[h] = started[h] + 1 /\ ended'[h] = ended[h] /\ started[h] \in Nat /\ ended[h] \in Nat
      BY <1>1, <1>2
    <2>7. /\ started[h] + Cardinality(Remaining(h)) + Cardinality(Waiting(h)) = Total(h)
          /\ ended[h] + Cardinality(Iterating(h)) = started[h]
      BY <2>1 DEF Accounted
    <2>8. /\ started'[h] + Cardinality(Remaining(h)') + Cardinality(Waiting(h)') = Total(h)
          /\ ended'[h] + Cardinality(Iterating(h)') = started'[h]
      BY <1>1, <1>3, <2>3, <2>4, <2>5, <2>6, <2>7
    <2>9. Accounted(h)' <=> (Free(h)' =>
            /\ started'[h] + Cardinality(Remaining(h)') + Cardinality(Waiting(h)') = Total(h)
            /\ ended'[h] + Cardinality(Iterating(h)') = started'[h]
            /\ ~abort' => \A w \in Team(h) : vu'[w] = "off" => left'[PoolOf(w)] = 0)
      BY DEF Accounted
    <2> QED BY <1>2, <2>2, <2>8, <2>9 DEF userVars
  <1>7. Budgeted'
    BY <1>2 DEF Ledger, Budgeted
  <1> QED BY <1>4, <1>6, <1>7 DEF Ledger

(* A VU that is cancelled or raises: its scenario is cut short from here.   *)
LEMMA CutAccounted ==
  ASSUME State, Ledger, NEW v \in VU, CleanupRaises(v) \/ VuCancelled(v) PROVE Ledger'
  <1> DEFINE h == Home[v]
  <1>1. h \in Scenario /\ started \in [Scenario -> Nat] /\ ended \in [Scenario -> Nat]
    BY PoolsShape DEF State, Counters
  <1>2. /\ vu' = [vu EXCEPT ![v] = "off"] /\ UNCHANGED <<left, started, userVars>>
        /\ raised \subseteq raised'
    BY DEF CleanupRaises, VuCancelled, Leaves
  <1>3. \A s \in Scenario \ {h} : started'[s] = started[s] /\ ended'[s] = ended[s]
    BY <1>1 DEF CleanupRaises, VuCancelled, Leaves
  <1>4. \A s \in Scenario : Remaining(s)' = Remaining(s)
    BY <1>2 DEF Remaining
  <1>5. \A s \in Scenario \ {h} : Accounted(s)'
    BY <1>2, <1>3, <1>4, OthersAccounted
  <1>6. ~Free(h)'
    BY DEF CleanupRaises, VuCancelled, Cancelled, Free, userVars
  <1>7. Budgeted'
    BY <1>2 DEF Ledger, Budgeted
  <1> QED BY <1>5, <1>6, <1>7 DEF Ledger, Accounted

LEMMA VuStepAccounted == ASSUME State, Ledger, NEW v \in VU, VuStep(v) PROVE Ledger'
  <1>1. CASE VuStarts(v)
    BY <1>1, ClaimAccounted, LeaveAccounted DEF VuStarts
  <1>2. CASE PassesGate(v)
    BY <1>2, GateAccounted
  <1>3. CASE IterationEnds(v)
    BY <1>3, ClaimAccounted, LeaveAccounted DEF IterationEnds
  <1>4. CASE CleanupRaises(v) \/ VuCancelled(v)
    BY <1>4, CutAccounted
  <1> QED BY <1>1, <1>2, <1>3, <1>4 DEF VuStep

(* Pausing, resuming, stopping and the end of a run move no iteration.      *)
LEMMA HolderAccounted ==
  ASSUME State, Ledger, UNCHANGED <<left, started, ended>>, raised \subseteq raised',
         cancel => cancel', abort => abort',
         vu' = vu \/ vu' = [v \in VU |-> IF vu[v] = "gate" THEN "woken" ELSE vu[v]]
  PROVE  Ledger'
  <1>1. ASSUME NEW s \in Scenario PROVE Accounted(s)'
    <2>1. Remaining(s)' = Remaining(s)
      BY DEF Remaining
    <2>2. \A v \in VU : /\ vu'[v] \in {"gate", "woken"} <=> vu[v] \in {"gate", "woken"}
                        /\ vu'[v] = "iter" <=> vu[v] = "iter"
                        /\ vu'[v] = "off" <=> vu[v] = "off"
      OBVIOUS
    <2>3. /\ Waiting(s)' = Waiting(s) /\ Iterating(s)' = Iterating(s)
          /\ \A v \in Team(s) : vu'[v] = "off" => vu[v] = "off"
      BY <2>2 DEF Waiting, Iterating, Team
    <2>4. Accounted(s) /\ (Free(s)' => Free(s))
      BY DEF Ledger, Free
    <2> QED BY <2>1, <2>3, <2>4 DEF Accounted
  <1>2. Budgeted'
    BY DEF Ledger, Budgeted
  <1> QED BY <1>1, <1>2 DEF Ledger

LEMMA LedgerBegins == ASSUME Init PROVE Ledger
  <1>1. \A v \in VU : left[PoolOf(v)] = Budget[Home[v]]
    <2>1. ASSUME NEW v \in VU PROVE left[PoolOf(v)] = Budget[Home[v]]
      <3>1. PoolOf(v) \in Pool
        BY PoolsShape
      <3>2. left[PoolOf(v)] = Budget[IF PoolOf(v) \in Scenario THEN PoolOf(v) ELSE Home[PoolOf(v)]]
        BY <3>1 DEF Init
      <3> QED BY <3>2, ClosedExecutorsAssumption DEF PoolOf
    <2> QED BY <2>1
  <1>2. Budgeted
    <2>1. \A v \in VU : Budget[Home[v]] \in Nat
      BY ClosedExecutorsAssumption
    <2> QED BY <1>1, <2>1 DEF Budgeted
  <1>3. ASSUME NEW s \in Scenario PROVE Accounted(s)
    <2>1. Budget[s] \in Nat /\ Cardinality(1 .. Budget[s]) = Budget[s] /\ IsFiniteSet(1 .. Budget[s])
      <3>1. Budget[s] \in Nat
        BY ClosedExecutorsAssumption
      <3>2. IsFiniteSet(1 .. Budget[s]) /\ Cardinality(1 .. Budget[s]) = IF 1 > Budget[s] THEN 0 ELSE Budget[s] - 1 + 1
        BY <3>1, FS_Interval
      <3> QED BY <3>1, <3>2
    <2>2. Remaining(s) = PoolsOf(s) \X (1 .. Budget[s])
      <3>1. \A p \in PoolsOf(s) : left[p] = Budget[s]
        BY <1>1 DEF PoolsOf, Team
      <3> QED BY <3>1, <2>1 DEF Remaining
    <2>3. Cardinality(Remaining(s)) = Cardinality(PoolsOf(s)) * Budget[s]
      BY <2>1, <2>2, SetsFinite, FS_Product
    <2>4. Cardinality(Remaining(s)) = Total(s)
      <3>1. CASE s \in Shared
        <4>1. PoolsOf(s) = {s}
          <5>1. PICK v \in VU : Home[v] = s
            BY ClosedExecutorsAssumption
          <5> QED BY <3>1, <5>1 DEF PoolsOf, Team, PoolOf
        <4>2. Cardinality(PoolsOf(s)) = 1
          BY <4>1, FS_Singleton
        <4> QED BY <2>1, <2>3, <3>1, <4>2 DEF Total
      <3>2. CASE s \notin Shared
        <4>1. PoolsOf(s) = Team(s)
          BY <3>2 DEF PoolsOf, Team, PoolOf
        <4>2. Cardinality(Team(s)) \in Nat
          BY TeamsFinite
        <4> QED BY <2>1, <2>3, <3>2, <4>1, <4>2 DEF Total
      <3> QED BY <3>1, <3>2
    <2>5. Waiting(s) = {} /\ Iterating(s) = {} /\ \A v \in Team(s) : vu[v] # "off"
      BY DEF Init, Waiting, Iterating, Team
    <2>6. Cardinality(Waiting(s)) = 0 /\ Cardinality(Iterating(s)) = 0
      BY <2>5, FS_EmptySet
    <2>7. started[s] = 0 /\ ended[s] = 0
      BY DEF Init
    <2>8. Cardinality(Remaining(s)) \in Nat
      BY SetsFinite
    <2> QED BY <2>4, <2>5, <2>6, <2>7, <2>8 DEF Accounted
  <1> QED BY <1>2, <1>3 DEF Ledger

LEMMA LedgerMeansExactly == State /\ Ledger => RanExactly
  <1> SUFFICES ASSUME State, Ledger, NEW s \in Scenario,
                      Team(s) = At(s, {"off"}), ~abort, ~cancel, s \notin raised
               PROVE  started[s] = Total(s) /\ ended[s] = Total(s)
    BY DEF RanExactly
  <1>1. \A v \in Team(s) : vu[v] = "off"
    BY DEF At
  <1>2. Accounted(s) /\ Free(s)
    BY DEF Ledger, Free
  <1>3. \A v \in Team(s) : left[PoolOf(v)] = 0
    BY <1>1, <1>2 DEF Accounted
  <1>4. Remaining(s) = {}
    <2>1. \A p \in PoolsOf(s) : left[p] = 0
      BY <1>3 DEF PoolsOf
    <2>2. Budget[s] \in Nat
      BY ClosedExecutorsAssumption
    <2> QED BY <2>1, <2>2 DEF Remaining
  <1>5. Waiting(s) = {} /\ Iterating(s) = {}
    BY <1>1 DEF Waiting, Iterating
  <1>6. Cardinality(Remaining(s)) = 0 /\ Cardinality(Waiting(s)) = 0 /\ Cardinality(Iterating(s)) = 0
    BY <1>4, <1>5, FS_EmptySet
  <1>7. started[s] \in Nat /\ ended[s] \in Nat
    BY DEF State, Counters
  <1> QED BY <1>2, <1>6, <1>7 DEF Accounted

(* Whatever the VUs, scenarios and budgets: a scenario that nothing has cut *)
(* short has run exactly its iterations and counted each of them once,      *)
(* through pauses at any moment and whichever VU took which iteration.     *)
THEOREM ScenariosRunExactly == Spec => []RanExactly
  <1>1. Init => Ledger
    BY LedgerBegins
  <1>2. State /\ Ledger /\ [Next]_vars => Ledger'
    <2> SUFFICES ASSUME State, Ledger, [Next]_vars PROVE Ledger'
      OBVIOUS
    <2>1. CASE \E v \in VU : VuStep(v)
      BY <2>1, VuStepAccounted
    <2>2. CASE (\E s \in Scenario : ScenarioFails(s)) \/ UNCHANGED vars
      BY <2>2, HolderAccounted DEF ScenarioFails, vars, userVars
    <2>3. CASE Stop \/ Pause \/ Resume \/ Cancel
      BY <2>3, HolderAccounted DEF Stop, Pause, Resume, Cancel, othersOfUser
    <2> QED BY <2>1, <2>2, <2>3 DEF Next
  <1>3. State /\ Ledger => RanExactly
    BY LedgerMeansExactly
  <1>4. Exact /\ Counters => State
    BY DEF Exact, State
  <1> QED BY <1>1, <1>2, <1>3, <1>4, ExactInductive, CountersInductive, PTL DEF Spec

(***************************************************************************)
(* The calls in an iteration: Clients.                                     *)
(***************************************************************************)

(* What was made has a number, and 0 is None.                               *)
Numbered == made \in Nat /\ open \subseteq 1 .. made

(* Up to each step of the clean-up, what is open is known to a client whose *)
(* close() is still to come.                                               *)
Tidy ==
  ~late =>
    /\ where \in {"user", "http"} => open \subseteq {http, ws} \cup Channels
    /\ where \in {"httpClosing", "ws"} => open \subseteq {ws} \cup Channels
    /\ where \in {"wsClosing", "grpc"} => open \subseteq Channels
    /\ where = "grpcClosing" => open \subseteq toClose
    /\ where = "done" => open = {}

Known == Numbered /\ Tidy

-----------------------------------------------------------------------------
(* Calls.                                                                  *)

LEMMA OpenedIsNumbered ==
  ASSUME Numbered, Opened \/ UNCHANGED <<open, made>> PROVE Numbered'
  <1>1. CASE Opened
    <2>1. made' \in Nat /\ made' = made + 1 /\ open' = open \cup {made'}
      BY <1>1 DEF Numbered, Opened
    <2>2. \A x \in open' : x \in 1 .. made'
      BY <2>1 DEF Numbered
    <2> QED BY <2>1, <2>2 DEF Numbered
  <1>2. CASE UNCHANGED <<open, made>>
    BY <1>2 DEF Numbered
  <1> QED BY <1>1, <1>2

(* A step that opens nothing, makes no call and leaves the clients alone.   *)
LEMMA OthersKeepKnown ==
  ASSUME Known, UNCHANGED <<http, ws, channel, made, cleanup>>, open' \subseteq open, late' = late
  PROVE  Known'
  BY DEF Known, Numbered, Tidy, Channels, cleanup

(* A call during the clean-up, or one that makes no session.               *)
LEMMA EnsuredIsKnown ==
  ASSUME Known, EnsureSession, UNCHANGED <<ws, channel, cleanup>>, late' = (late \/ where # "user")
  PROVE  Known'
  <1> USE DEF Known, Numbered, cleanup
  <1>1. Numbered'
    BY OpenedIsNumbered DEF EnsureSession
  <1>2. Tidy'
    <2> SUFFICES ASSUME ~late, where = "user" PROVE open' \subseteq {http', ws'} \cup Channels'
      BY DEF Tidy
    <2>1. open \subseteq {http, ws} \cup Channels
      BY DEF Tidy
    <2>2. Channels' = Channels
      BY DEF Channels
    <2> QED BY <2>1, <2>2 DEF EnsureSession, Opened
  <1> QED BY <1>1, <1>2

LEMMA ConnectIsKnown == ASSUME Known, NEW t \in Task, Connect(t) PROVE Known'
  <1> USE DEF Known, Numbered, Connect, NewCall, wsFrame, cleanup
  <1>1. Numbered'
    BY OpenedIsNumbered
  <1>2. Tidy'
    <2> SUFFICES ASSUME ~late, where = "user" PROVE open' \subseteq {http', ws'} \cup Channels'
      BY DEF Tidy
    <2>1. open \subseteq {http, ws} \cup Channels
      BY DEF Tidy
    <2>2. Channels' = Channels
      BY DEF Channels
    <2>3. 0 \notin open
      OBVIOUS
    <2> QED BY <2>1, <2>2, <2>3 DEF Opened
  <1> QED BY <1>1, <1>2

LEMMA ChannelIsKnown ==
  ASSUME Known, NEW target, GetChannel(target), UNCHANGED <<http, ws, cleanup>>,
         late' = (late \/ where # "user")
  PROVE  Known'
  <1> USE DEF Known, Numbered, cleanup
  <1>1. Numbered'
    BY OpenedIsNumbered DEF GetChannel
  <1>2. Tidy'
    <2> SUFFICES ASSUME ~late, where = "user" PROVE open' \subseteq {http', ws'} \cup Channels'
      BY DEF Tidy
    <2>1. open \subseteq {http, ws} \cup Channels
      BY DEF Tidy
    <2>2. CASE HasChannel(target)
      BY <2>1, <2>2 DEF GetChannel, Channels
    <2>3. CASE ~HasChannel(target)
      <3>1. /\ channel' = [x \in DOMAIN channel \cup {target} |->
                             IF x = target THEN made + 1 ELSE channel[x]]
            /\ open' = open \cup {made + 1}
        BY <2>3 DEF GetChannel, Opened
      <3>2. DOMAIN channel' = DOMAIN channel \cup {target} /\ channel'[target] = made + 1
        BY <3>1
      <3>3. \A x \in DOMAIN channel : x \in DOMAIN channel' /\ channel'[x] = channel[x]
        BY <2>3, <3>1 DEF HasChannel
      <3>4. Channels \subseteq Channels' /\ made + 1 \in Channels'
        BY <3>2, <3>3 DEF Channels
      <3> QED BY <2>1, <3>1, <3>4
    <2> QED BY <2>2, <2>3
  <1> QED BY <1>1, <1>2

LEMMA HttpKnown == ASSUME Known, NEW t \in Task, HttpStep(t) PROVE Known'
  <1> USE DEF resources, httpFrame
  <1>1. CASE Request(t)
    BY <1>1, EnsuredIsKnown DEF Request, NewCall
  <1>2. CASE RequestRefused(t)
    BY <1>2, EnsuredIsKnown DEF RequestRefused
  <1>3. CASE ConnectionCreateStart(t) \/ ConnectionCreateEnd(t)
    BY <1>3, OthersKeepKnown DEF ConnectionCreateStart, ConnectionCreateEnd
  <1>4. CASE RequestHeadersSent(t) \/ RequestEnd(t)
    BY <1>4, OthersKeepKnown DEF RequestHeadersSent, RequestEnd
  <1>5. CASE Answered(t)
    BY <1>5, OthersKeepKnown DEF Answered
  <1>6. CASE RequestFails(t) \/ CancelCall(t)
    BY <1>6, OthersKeepKnown DEF RequestFails, CancelCall
  <1>7. CASE UserClosesHttp(t)
    BY <1>7, OthersKeepKnown DEF UserClosesHttp
  <1> QED BY <1>1, <1>2, <1>3, <1>4, <1>5, <1>6, <1>7 DEF HttpStep

LEMMA WsKnown == ASSUME Known, NEW t \in Task, WsStep(t) PROVE Known'
  <1> USE DEF resources, wsFrame
  <1>1. CASE Connect(t)
    BY <1>1, ConnectIsKnown
  <1>2. CASE Connected(t) \/ ConnectFails(t) \/ CloseWs(t)
    BY <1>2, OthersKeepKnown DEF Connected, ConnectFails, CloseWs
  <1> QED BY <1>1, <1>2 DEF WsStep

LEMMA GrpcKnown == ASSUME Known, NEW t \in Task, GrpcStep(t) PROVE Known'
  <1> USE DEF resources, wsFrame
  <1>1. ASSUME NEW target \in Target, Unary(t, target) \/ ServerStream(t, target) PROVE Known'
    BY <1>1, ChannelIsKnown DEF Unary, ServerStream, NewCall
  <1>2. CASE UnaryEnds(t)
    BY <1>2, OthersKeepKnown DEF UnaryEnds
  <1>3. CASE StreamEnds(t)
    BY <1>3, OthersKeepKnown DEF StreamEnds
  <1> QED BY <1>1, <1>2, <1>3 DEF GrpcStep

-----------------------------------------------------------------------------
(* The clean-up.                                                           *)

LEMMA CleanupKnown == ASSUME Known, Cleanup PROVE Known'
  <1> USE DEF Known, Numbered, Tidy, Channels, closeFrame, resources
  <1>1. CASE UserFunctionEnds
    BY <1>1 DEF UserFunctionEnds
  <1>2. CASE CloseHttp
    BY <1>2 DEF CloseHttp
  <1>3. CASE HttpClosed
    BY <1>3 DEF HttpClosed
  <1>4. CASE CloseWsClient
    BY <1>4 DEF CloseWsClient
  <1>5. CASE WsClosed
    BY <1>5 DEF WsClosed
  <1>6. CASE CloseGrpc
    BY <1>6 DEF CloseGrpc
  <1>7. CASE CloseChannel
    BY <1>7 DEF CloseChannel
  <1>8. CASE GrpcClosed
    BY <1>8 DEF GrpcClosed
  <1>9. CASE ChannelsChanged \/ CleanupFails
    BY <1>9 DEF ChannelsChanged, CleanupFails
  <1> QED BY <1>1, <1>2, <1>3, <1>4, <1>5, <1>6, <1>7, <1>8, <1>9 DEF Cleanup

(* When the clean-up of an iteration is done and nobody made a call during  *)
(* it, no session and no channel is open, whatever calls, failures and      *)
(* closes came before and however they overlapped.                         *)
THEOREM DoneLeavesNothingOpen == ClientsSpec => []NothingLeftOpen
  <1>1. ClientsInit => Known
    BY DEF ClientsInit, Known, Numbered, Tidy
  <1>2. Known /\ [ClientsNext]_clientsVars => Known'
    <2> SUFFICES ASSUME Known, [ClientsNext]_clientsVars PROVE Known' OBVIOUS
    <2>1. CASE UNCHANGED clientsVars
      BY <2>1, OthersKeepKnown DEF clientsVars, resources
    <2> QED BY <2>1, CleanupKnown, HttpKnown, WsKnown, GrpcKnown DEF ClientsNext
  <1>3. Known => NothingLeftOpen
    BY DEF Known, Tidy, NothingLeftOpen
  <1> QED BY <1>1, <1>2, <1>3, PTL DEF ClientsSpec
-----------------------------------------------------------------------------
(* The timings of the requests.                                            *)

Stamps  == {"start", "connStart", "connEnd", "sent", "chunk", "end"}
Places  == InFlight \cup {"idle", "wsConnect", "wsOpen", "unary", "stream"}
Told5   == {<<>>} \cup (Nat \X Nat \X Nat \X Nat \X Nat)
Timings == [start : Nat, connStart : Nat, connEnd : Nat, sent : Nat, chunk : Nat, end : Nat]
Reports == [began : Nat, took : Nat, phases : Told5, crowded : BOOLEAN,
            how : {"none", "refused", "answered", "failed", "cancelled"}]

TimingTypeOK ==
  /\ calls \in Nat /\ calls <= MaxCalls /\ clock \in Nat \ {0} /\ current \in 0 .. calls
  /\ task \in [Task -> [call : 0 .. MaxCalls, at : Places]]
  /\ ctx \in [Call -> Timings]
  /\ report \in [Call -> Reports]

Engaged(t) == task[t].at # "idle"

(* Every task that is busy has a call of its own, and a call that nobody     *)
(* has made yet has no trace.                                              *)
OwnCalls ==
  /\ \A t \in Task : Engaged(t) => task[t].call \in 1 .. calls
  /\ \A t, u \in Task : Engaged(t) /\ Engaged(u) /\ t # u => task[t].call # task[u].call
  /\ \A c \in Call : c > calls => ctx[c] = Unset /\ report[c] = NoReport

(* What the hooks have stamped when a request is at a place: each a later    *)
(* time than the hooks before it.                                          *)
Ordered(x, now) ==
  /\ 0 < x.start /\ x.start < now
  /\ x.connStart # 0 => x.start < x.connStart /\ x.connStart < now
  /\ x.connEnd # 0 => x.connStart # 0 /\ x.connStart < x.connEnd /\ x.connEnd < now
  /\ x.sent # 0 => /\ x.start < x.sent /\ x.sent < now
                   /\ x.connStart # 0 => x.connEnd # 0 /\ x.connEnd < x.sent
  /\ x.end # 0 => x.sent # 0 /\ x.sent < x.end /\ x.end < now
  /\ x.chunk = 0

Placed(x, at) ==
  /\ at = "queued" => x.connStart = 0
  /\ at = "connecting" => x.connStart # 0 /\ x.connEnd = 0
  /\ at = "sending" => x.connEnd # 0
  /\ at \in {"queued", "connecting", "sending"} => x.sent = 0
  /\ at \in {"waiting", "reading"} => x.sent # 0
  /\ at = "reading" <=> x.end # 0

(* A request in flight has its own stamps and nothing told yet, and as long  *)
(* as it has met no other it is the only one, and the current one.         *)
Followed(t) ==
  LET c == task[t].call
  IN  /\ Ordered(ctx[c], clock) /\ Placed(ctx[c], task[t].at)
      /\ report[c].how = "none" /\ report[c].began = ctx[c].start
      /\ ~report[c].crowded => current = c /\ \A u \in HttpTasks : u = t

(* PhasesAddUp, of one call.                                               *)
AddsUp(c) ==
  LET r == report[c]
  IN  (~r.crowded /\ r.how \in {"answered", "failed"}) =>
        /\ r.phases # <<>>
        /\ ctx[c].connStart # 0 =>
             IF r.how = "answered" THEN Sum5(r.phases) = r.took ELSE Sum5(r.phases) <= r.took

Timed ==
  TimingTypeOK /\ OwnCalls /\ (\A t \in HttpTasks : Followed(t)) /\ (\A c \in Call : AddsUp(c))

LEMMA OrderedLater ==
  ASSUME NEW x \in Timings, NEW now \in Nat, Ordered(x, now) PROVE Ordered(x, now + 1)
  BY DEF Ordered, Timings

LEMMA MsIsNat == ASSUME NEW a \in Nat, NEW b \in Nat PROVE Ms(a, b) \in Nat
  BY DEF Ms

LEMMA PhasesHaveType == ASSUME NEW x \in Timings PROVE Phases(x) \in Told5
  <1>1. /\ x.start \in Nat /\ x.connStart \in Nat /\ x.connEnd \in Nat
        /\ x.sent \in Nat /\ x.chunk \in Nat /\ x.end \in Nat
    BY DEF Timings
  <1>2. /\ Or(x.connStart, x.sent) \in Nat /\ Or(x.connEnd, x.start) \in Nat
        /\ Or(x.chunk, x.end) \in Nat
    BY <1>1 DEF Or
  <1>3. /\ Ms(x.start, Or(x.connStart, x.sent)) \in Nat /\ Ms(x.connStart, x.connEnd) \in Nat
        /\ Ms(Or(x.connEnd, x.start), x.sent) \in Nat /\ Ms(x.sent, Or(x.chunk, x.end)) \in Nat
        /\ Ms(x.chunk, x.end) \in Nat
    BY <1>1, <1>2, MsIsNat
  <1> QED BY <1>3 DEF Phases, Told5

LEMMA PhasesAreTold == ASSUME NEW x PROVE Phases(x) # <<>>
  BY DEF Phases

(* The sum of the phases is that of the five differences.                   *)
LEMMA SumOfPhases ==
  ASSUME NEW x
  PROVE  Sum5(Phases(x)) =
           Ms(x.start, Or(x.connStart, x.sent)) + Ms(x.connStart, x.connEnd)
           + Ms(Or(x.connEnd, x.start), x.sent) + Ms(x.sent, Or(x.chunk, x.end)) + Ms(x.chunk, x.end)
  BY DEF Sum5, Phases

(* An answered request that made its connection.                           *)
LEMMA AnswerAddsUp ==
  ASSUME NEW x \in Timings, NEW y \in Timings, NEW now \in Nat, Ordered(x, now), Placed(x, "reading"),
         y = [x EXCEPT !.chunk = now], y.connStart # 0
  PROVE  Sum5(Phases(y)) = now - x.start
  <1>1. /\ y.start = x.start /\ y.connStart = x.connStart /\ y.connEnd = x.connEnd
        /\ y.sent = x.sent /\ y.end = x.end /\ y.chunk = now
    BY DEF Timings
  <1>2. /\ x.start \in Nat /\ x.connStart \in Nat /\ x.connEnd \in Nat
        /\ x.sent \in Nat /\ x.end \in Nat
    BY DEF Timings
  <1>3. /\ 0 < x.start /\ x.start < x.connStart /\ x.connStart < x.connEnd
        /\ x.connEnd < x.sent /\ x.sent < x.end /\ x.end < now
    BY <1>1, <1>2 DEF Ordered, Placed
  <1>4. /\ Ms(y.start, Or(y.connStart, y.sent)) = x.connStart - x.start
        /\ Ms(y.connStart, y.connEnd) = x.connEnd - x.connStart
        /\ Ms(Or(y.connEnd, y.start), y.sent) = x.sent - x.connEnd
        /\ Ms(y.sent, Or(y.chunk, y.end)) = now - x.sent
        /\ Ms(y.chunk, y.end) = 0
    BY <1>1, <1>2, <1>3 DEF Ms, Or
  <1>5. Sum5(Phases(y)) = (x.connStart - x.start) + (x.connEnd - x.connStart)
                          + (x.sent - x.connEnd) + (now - x.sent) + 0
    BY <1>4, Zenon DEF Sum5, Phases
  <1> QED BY <1>2, <1>5

(* One that failed on the way.                                             *)
LEMMA FailureAddsUp ==
  ASSUME NEW x \in Timings, NEW now \in Nat, NEW at \in InFlight, Ordered(x, now), Placed(x, at),
         x.connStart # 0
  PROVE  Sum5(Phases(x)) <= now - x.start
  <1>1. /\ x.start \in Nat /\ x.connStart \in Nat /\ x.connEnd \in Nat
        /\ x.sent \in Nat /\ x.end \in Nat
    BY DEF Timings
  <1>2. x.chunk = 0 /\ 0 < x.start /\ x.start < x.connStart /\ x.connStart < now
    BY <1>1 DEF Ordered
  <1>3. CASE x.connEnd = 0
    <2>1. x.sent = 0 /\ x.end = 0
      BY <1>1, <1>2, <1>3 DEF Ordered
    <2> QED BY <1>1, <1>2, <1>3, <2>1, SumOfPhases DEF Ms, Or
  <1>4. CASE x.connEnd # 0 /\ x.sent = 0
    <2>1. x.end = 0 /\ x.connStart < x.connEnd /\ x.connEnd < now
      BY <1>1, <1>4 DEF Ordered
    <2> QED BY <1>1, <1>2, <1>4, <2>1, SumOfPhases DEF Ms, Or
  <1>5. CASE x.sent # 0
    <2>1. x.connStart < x.connEnd /\ x.connEnd < x.sent /\ x.sent < now
      BY <1>1, <1>2, <1>5 DEF Ordered
    <2>2. x.end # 0 => x.sent < x.end /\ x.end < now
      BY <1>1 DEF Ordered
    <2> QED BY <1>1, <1>2, <1>5, <2>1, <2>2, SumOfPhases DEF Ms, Or
  <1> QED BY <1>3, <1>4, <1>5

-----------------------------------------------------------------------------
(* Steps, by what they do to the requests.                                 *)

(* One that leaves requests, timings and reports alone: task t makes a call  *)
(* that is no request, goes on with one, or is done with it.               *)
LEMMA OtherCallsAreTimed ==
  ASSUME Timed, NEW t \in Task, ~Calling(t, InFlight), UNCHANGED <<timing, clock, report>>,
         NEW to \in [call : 0 .. MaxCalls, at : Places \ InFlight],
         task' = [task EXCEPT ![t] = to],
         calls' \in {calls, calls + 1}, calls' <= MaxCalls,
         to.at # "idle" =>
           \/ to.call = calls + 1 /\ calls' = calls + 1
           \/ to.call = task[t].call /\ Engaged(t)
  PROVE  Timed'
  <1> USE DEF Timed, TimingTypeOK
  <1>1. ctx' = ctx /\ current' = current /\ clock' = clock /\ report' = report
    BY DEF timing
  <1>2. TimingTypeOK'
    <2>1. to \in [call : 0 .. MaxCalls, at : Places]
      OBVIOUS
    <2>2. task' \in [Task -> [call : 0 .. MaxCalls, at : Places]]
      BY <2>1
    <2>3. calls' \in Nat /\ current' \in 0 .. calls'
      BY <1>1
    <2> QED BY <1>1, <2>2, <2>3
  <1>3. \A u \in Task : u # t => task'[u] = task[u]
    OBVIOUS
  <1>4. task'[t] = to
    OBVIOUS
  <1>5. OwnCalls'
    <2>1. ASSUME NEW u \in Task, Engaged(u)' PROVE task'[u].call \in 1 .. calls'
      BY <1>3, <1>4, <2>1 DEF Engaged, OwnCalls
    <2>2. ASSUME NEW u \in Task, NEW v \in Task, Engaged(u)', Engaged(v)', u # v
          PROVE task'[u].call # task'[v].call
      BY <1>3, <1>4, <2>2 DEF Engaged, OwnCalls
    <2>3. \A c \in Call : c > calls' => ctx[c] = Unset /\ report[c] = NoReport
      BY DEF OwnCalls, Call
    <2> QED BY <1>1, <2>1, <2>2, <2>3 DEF OwnCalls
  <1>6. HttpTasks' = HttpTasks
    BY <1>3, <1>4 DEF HttpTasks, Calling
  <1>7. ASSUME NEW u \in HttpTasks' PROVE Followed(u)'
    <2>1. u \in HttpTasks /\ u \in Task /\ u # t
      BY <1>6 DEF HttpTasks
    <2>2. Followed(u) /\ task'[u] = task[u]
      BY <1>3, <2>1
    <2> QED BY <1>1, <1>6, <2>2 DEF Followed
  <1>8. ASSUME NEW c \in Call PROVE AddsUp(c)'
    BY <1>1 DEF AddsUp
  <1> QED BY <1>2, <1>5, <1>7, <1>8

(* A hook: the next stamp of a request on its way.                         *)
LEMMA HooksAreTimed ==
  ASSUME Timed, NEW t \in Task, NEW at \in InFlight, Calling(t, InFlight), Moves(t, at), Reads,
         UNCHANGED <<current, count, report, httpFrame>>,
         NEW c, c = task[t].call, NEW x \in Timings, ctx' = [ctx EXCEPT ![c] = x],
         Ordered(x, clock + 1), Placed(x, at), x.start = ctx[c].start
  PROVE  Timed'
  <1> USE DEF Timed, TimingTypeOK
  <1>1. current' = current /\ report' = report /\ calls' = calls
    BY DEF httpFrame
  <1>2. clock' = clock + 1 /\ clock' \in Nat \ {0}
    BY DEF Reads
  <1>3. Engaged(t) /\ t \in HttpTasks
    BY DEF Engaged, Calling, InFlight, HttpTasks
  <1>4. c \in 1 .. calls /\ c \in Call
    BY <1>3 DEF OwnCalls, Call
  <1>5. /\ \A u \in Task : u # t => task'[u] = task[u]
        /\ task'[t].call = c /\ task'[t].at = at
    BY DEF Moves
  <1>6. /\ ctx'[c] = x
        /\ \A d \in Call : d # c => ctx'[d] = ctx[d]
        /\ ctx' \in [Call -> Timings]
    BY <1>4
  <1>7. TimingTypeOK'
    <2>1. task' \in [Task -> [call : 0 .. MaxCalls, at : Places]]
      BY DEF Moves, Places
    <2> QED BY <1>1, <1>2, <1>6, <2>1
  <1>8. \A u \in Task : Engaged(u)' <=> Engaged(u)
    BY <1>3, <1>5 DEF Engaged, InFlight
  <1>9. \A u \in Task : task'[u].call = task[u].call
    BY <1>5
  <1>10. OwnCalls'
    <2>1. \A d \in Call : d > calls => d # c
      BY <1>4 DEF Call
    <2> QED BY <1>1, <1>6, <1>8, <1>9, <2>1 DEF OwnCalls
  <1>11. HttpTasks' = HttpTasks
    BY <1>3, <1>5 DEF HttpTasks, Calling
  <1>12. ASSUME NEW u \in HttpTasks' PROVE Followed(u)'
    <2>1. u \in HttpTasks /\ u \in Task /\ Followed(u)
      BY <1>11 DEF HttpTasks
    <2>2. CASE u = t
      BY <1>1, <1>2, <1>5, <1>6, <1>11, <2>1, <2>2 DEF Followed
    <2>3. CASE u # t
      <3>1. Engaged(u)
        BY <2>1 DEF HttpTasks, Calling, Engaged, InFlight
      <3> PICK d : d = task[u].call OBVIOUS
      <3>2. d # c /\ d \in Call
        BY <1>3, <2>1, <2>3, <3>1 DEF OwnCalls, Call
      <3>3. ctx'[d] = ctx[d] /\ task'[u] = task[u]
        BY <1>5, <1>6, <2>1, <2>3, <3>2
      <3>4. Ordered(ctx[d], clock')
        <4>1. Ordered(ctx[d], clock) /\ ctx[d] \in Timings
          BY <2>1, <3>2 DEF Followed
        <4> QED BY <1>2, <4>1 DEF Ordered, Timings
      <3> QED BY <1>1, <1>11, <2>1, <3>3, <3>4 DEF Followed
    <2> QED BY <2>2, <2>3
  <1>13. ASSUME NEW d \in Call PROVE AddsUp(d)'
    <2>1. CASE d = c
      <3>1. report'[c].how = "none"
        BY <1>1, <1>3 DEF Followed
      <3> QED BY <2>1, <3>1 DEF AddsUp
    <2>2. CASE d # c
      <3>1. AddsUp(d) /\ ctx'[d] = ctx[d]
        BY <1>6, <2>2
      <3> QED BY <1>1, <3>1 DEF AddsUp
    <2> QED BY <2>1, <2>2
  <1> QED BY <1>7, <1>10, <1>12, <1>13

LEMMA IdleIsTyped == Idle \in [call : 0 .. MaxCalls, at : Places] /\ Idle.at = "idle"
  BY ClientsAssumption DEF Idle, Places

(* A request ends, with a report that adds up.                             *)
LEMMA EndsAreTimed ==
  ASSUME Timed, NEW t \in Task, Calling(t, InFlight), task' = [task EXCEPT ![t] = Idle],
         current' = current, calls' = calls, clock' \in {clock, clock + 1},
         NEW c, c = task[t].call,
         ctx' \in [Call -> Timings], report' \in [Call -> Reports],
         \A d \in Call : d # c => ctx'[d] = ctx[d] /\ report'[d] = report[d],
         AddsUp(c)'
  PROVE  Timed'
  <1> USE DEF Timed, TimingTypeOK
  <1>1. Engaged(t) /\ t \in HttpTasks
    BY DEF Engaged, Calling, InFlight, HttpTasks
  <1>2. c \in 1 .. calls /\ c \in Call
    BY <1>1 DEF OwnCalls, Call
  <1>3. /\ \A u \in Task : u # t => task'[u] = task[u]
        /\ task'[t] = Idle
    OBVIOUS
  <1>4. TimingTypeOK'
    <2>1. task' \in [Task -> [call : 0 .. MaxCalls, at : Places]]
      BY IdleIsTyped
    <2>2. clock' \in Nat \ {0}
      OBVIOUS
    <2> QED BY <2>1, <2>2
  <1>5. OwnCalls'
    <2>1. \A u \in Task : Engaged(u)' => Engaged(u) /\ u # t /\ task'[u] = task[u]
      BY <1>3 DEF Engaged, Idle
    <2>2. \A d \in Call : d > calls => d # c
      BY <1>2 DEF Call
    <2> QED BY <2>1, <2>2 DEF OwnCalls
  <1>6. HttpTasks' = HttpTasks \ {t}
    BY <1>3 DEF HttpTasks, Calling, Idle, InFlight
  <1>7. ASSUME NEW u \in HttpTasks' PROVE Followed(u)'
    <2>1. u \in HttpTasks /\ u \in Task /\ u # t /\ Followed(u)
      BY <1>6 DEF HttpTasks
    <2>2. Engaged(u)
      BY <2>1 DEF HttpTasks, Calling, Engaged, InFlight
    <2> PICK d : d = task[u].call OBVIOUS
    <2>3. d # c /\ d \in Call
      BY <1>1, <2>1, <2>2 DEF OwnCalls, Call
    <2>4. ctx'[d] = ctx[d] /\ task'[u] = task[u] /\ report'[d] = report[d]
      BY <1>3, <2>1, <2>3
    <2>5. Ordered(ctx[d], clock')
      <3>1. Ordered(ctx[d], clock) /\ ctx[d] \in Timings
        BY <2>1, <2>3 DEF Followed
      <3> QED BY <3>1 DEF Ordered, Timings
    <2>6. ~report[d].crowded => t = u
      BY <1>1, <2>1 DEF Followed
    <2> QED BY <2>1, <2>4, <2>5, <2>6 DEF Followed
  <1>8. ASSUME NEW d \in Call PROVE AddsUp(d)'
    <2>1. CASE d # c
      <3>1. AddsUp(d) /\ ctx'[d] = ctx[d] /\ report'[d] = report[d]
        BY <2>1
      <3> QED BY <3>1 DEF AddsUp
    <2> QED BY <2>1
  <1> QED BY <1>4, <1>5, <1>7, <1>8

-----------------------------------------------------------------------------
(* The actions.                                                            *)

(* What a request in flight has.                                           *)
LEMMA InFlightHas ==
  ASSUME Timed, NEW t \in Task, Calling(t, InFlight), NEW c, c = task[t].call
  PROVE  /\ c \in Call /\ ctx[c] \in Timings /\ report[c] \in Reports /\ Followed(t)
         /\ task[t].at \in InFlight
  <1>1. Engaged(t) /\ t \in HttpTasks
    BY DEF Engaged, Calling, InFlight, HttpTasks
  <1>2. c \in Call
    BY <1>1 DEF Timed, TimingTypeOK, OwnCalls, Call
  <1> QED BY <1>1, <1>2 DEF Timed, TimingTypeOK, Calling

LEMMA CurrentIsCall == ASSUME Timed PROVE current # 0 => current \in Call
  BY ClientsAssumption DEF Timed, TimingTypeOK, Call

LEMMA HookActionsTimed ==
  ASSUME Timed, NEW t \in Task,
         \/ ConnectionCreateStart(t) \/ ConnectionCreateEnd(t)
         \/ RequestHeadersSent(t) \/ RequestEnd(t)
  PROVE  Timed'
  <1> PICK c : c = task[t].call OBVIOUS
  <1> PICK now : now = clock OBVIOUS
  <1>1. Calling(t, InFlight) /\ Reads /\ UNCHANGED <<current, count, report, httpFrame>>
    BY DEF ConnectionCreateStart, ConnectionCreateEnd, RequestHeadersSent, RequestEnd, Hook,
           Calling, InFlight
  <1>2. /\ c \in Call /\ ctx[c] \in Timings /\ Ordered(ctx[c], now) /\ Placed(ctx[c], task[t].at)
        /\ now \in Nat
    BY <1>1, InFlightHas DEF Followed, Timed, TimingTypeOK
  <1> PICK x : x = ctx[c] OBVIOUS
  <1>3. /\ x.start \in Nat /\ x.connStart \in Nat /\ x.connEnd \in Nat
        /\ x.sent \in Nat /\ x.chunk \in Nat /\ x.end \in Nat
    BY <1>2 DEF Timings
  <1>4. CASE ConnectionCreateStart(t)
    <2> PICK y : y = [x EXCEPT !.connStart = now] OBVIOUS
    <2>1. y \in Timings /\ y.start = x.start
      BY <1>2 DEF Timings
    <2>2. ctx' = [ctx EXCEPT ![c] = y] /\ Moves(t, "connecting") /\ task[t].at = "queued"
      BY <1>4 DEF ConnectionCreateStart, Hook, Stamped, Calling
    <2>3. /\ y.start = x.start /\ y.connStart = now /\ y.connEnd = x.connEnd
          /\ y.sent = x.sent /\ y.chunk = x.chunk /\ y.end = x.end
      BY <1>2 DEF Timings
    <2>4. Ordered(y, now + 1) /\ Placed(y, "connecting")
      BY <1>2, <1>3, <2>2, <2>3 DEF Ordered, Placed
    <2> QED BY <1>1, <2>1, <2>2, <2>4, HooksAreTimed DEF InFlight
  <1>5. CASE ConnectionCreateEnd(t)
    <2> PICK y : y = [x EXCEPT !.connEnd = now] OBVIOUS
    <2>1. y \in Timings /\ y.start = x.start
      BY <1>2 DEF Timings
    <2>2. ctx' = [ctx EXCEPT ![c] = y] /\ Moves(t, "sending") /\ task[t].at = "connecting"
      BY <1>5 DEF ConnectionCreateEnd, Hook, Stamped, Calling
    <2>3. /\ y.start = x.start /\ y.connStart = x.connStart /\ y.connEnd = now
          /\ y.sent = x.sent /\ y.chunk = x.chunk /\ y.end = x.end
      BY <1>2 DEF Timings
    <2>4. Ordered(y, now + 1) /\ Placed(y, "sending")
      BY <1>2, <1>3, <2>2, <2>3 DEF Ordered, Placed
    <2> QED BY <1>1, <2>1, <2>2, <2>4, HooksAreTimed DEF InFlight
  <1>6. CASE RequestHeadersSent(t)
    <2> PICK y : y = [x EXCEPT !.sent = now] OBVIOUS
    <2>1. y \in Timings /\ y.start = x.start
      BY <1>2 DEF Timings
    <2>2. ctx' = [ctx EXCEPT ![c] = y] /\ Moves(t, "waiting") /\ task[t].at \in {"queued", "sending"}
      BY <1>6 DEF RequestHeadersSent, Hook, Stamped, Calling
    <2>3. /\ y.start = x.start /\ y.connStart = x.connStart /\ y.connEnd = x.connEnd
          /\ y.sent = now /\ y.chunk = x.chunk /\ y.end = x.end
      BY <1>2 DEF Timings
    <2>4. Ordered(y, now + 1) /\ Placed(y, "waiting")
      BY <1>2, <1>3, <2>2, <2>3 DEF Ordered, Placed
    <2> QED BY <1>1, <2>1, <2>2, <2>4, HooksAreTimed DEF InFlight
  <1>7. CASE RequestEnd(t)
    <2> PICK y : y = [x EXCEPT !.end = now] OBVIOUS
    <2>1. y \in Timings /\ y.start = x.start
      BY <1>2 DEF Timings
    <2>2. ctx' = [ctx EXCEPT ![c] = y] /\ Moves(t, "reading") /\ task[t].at = "waiting"
      BY <1>7 DEF RequestEnd, Hook, Stamped, Calling
    <2>3. /\ y.start = x.start /\ y.connStart = x.connStart /\ y.connEnd = x.connEnd
          /\ y.sent = x.sent /\ y.chunk = x.chunk /\ y.end = now
      BY <1>2 DEF Timings
    <2>4. Ordered(y, now + 1) /\ Placed(y, "reading")
      BY <1>2, <1>3, <2>2, <2>3 DEF Ordered, Placed
    <2> QED BY <1>1, <2>1, <2>2, <2>4, HooksAreTimed DEF InFlight
  <1> QED BY <1>4, <1>5, <1>6, <1>7

LEMMA AnsweredTimed == ASSUME Timed, NEW t \in Task, Answered(t) PROVE Timed'
  <1> PICK c : c = task[t].call OBVIOUS
  <1> PICK now : now = clock OBVIOUS
  <1>1. Calling(t, {"reading"}) /\ Calling(t, InFlight) /\ task[t].at = "reading"
    BY DEF Answered, Calling, InFlight
  <1>2. /\ c \in Call /\ ctx[c] \in Timings /\ report[c] \in Reports /\ now \in Nat
        /\ Ordered(ctx[c], now) /\ Placed(ctx[c], "reading")
        /\ report[c].began = ctx[c].start /\ (~report[c].crowded => current = c)
    BY <1>1, InFlightHas DEF Followed, Timed, TimingTypeOK
  <1> PICK x : x = ctx[c] OBVIOUS
  <1> PICK y : y = [x EXCEPT !.chunk = now] OBVIOUS
  <1>3. y \in Timings
    BY <1>2 DEF Timings
  <1>4. ctx' = [ctx EXCEPT ![c] = y] /\ current' = current
    BY DEF Answered, Stamped
  <1>5. ctx'[c] = y /\ ctx' \in [Call -> Timings] /\ \A d \in Call : d # c => ctx'[d] = ctx[d]
    BY <1>2, <1>3, <1>4 DEF Timed, TimingTypeOK
  <1> PICK phases : phases = IF current' = 0 THEN <<>> ELSE Phases(ctx'[current']) OBVIOUS
  <1>6. phases \in Told5
    <2>1. current' # 0 => current' \in Call
      BY <1>4, CurrentIsCall
    <2>2. current' # 0 => ctx'[current'] \in Timings
      BY <1>5, <2>1
    <2> QED BY <2>2, PhasesHaveType DEF Told5
  <1> PICK took : took = now - Or(report[c].began, now) OBVIOUS
  <1>7. x.start \in Nat /\ 0 < x.start /\ x.start < now
    BY <1>2 DEF Ordered, Timings
  <1>8. took = now - x.start /\ took \in Nat
    <2>1. report[c].began = x.start /\ report[c].began # 0
      BY <1>2, <1>7
    <2>2. took = now - x.start
      BY <2>1 DEF Or
    <2> QED BY <1>2, <1>7, <2>2
  <1>9. clock' = now + 1 /\ calls' = calls /\ task' = [task EXCEPT ![t] = Idle]
    BY DEF Answered, Told, Reads, httpFrame
  <1>10. report' = [report EXCEPT ![c].took = took, ![c].how = "answered", ![c].phases = phases]
    BY DEF Answered, Told
  <1>11. /\ report'[c] = [report[c] EXCEPT !.took = took, !.how = "answered", !.phases = phases]
         /\ \A d \in Call : d # c => report'[d] = report[d]
         /\ DOMAIN report' = Call
         /\ report' = [d \in Call |-> report'[d]]
    BY <1>2, <1>10 DEF Timed, TimingTypeOK
  <1>12. /\ report'[c] \in Reports /\ report'[c].took = took /\ report'[c].how = "answered"
         /\ report'[c].phases = phases /\ report'[c].crowded = report[c].crowded
    BY <1>2, <1>6, <1>8, <1>11 DEF Reports
  <1>13. report' \in [Call -> Reports]
    <2>1. \A d \in Call : report'[d] \in Reports
      BY <1>11, <1>12 DEF Timed, TimingTypeOK
    <2> QED BY <1>11, <2>1
  <1>14. AddsUp(c)'
    <2> SUFFICES ASSUME ~report[c].crowded
                 PROVE  phases # <<>> /\ (y.connStart # 0 => Sum5(phases) = took)
      BY <1>5, <1>12 DEF AddsUp
    <2>1. c # 0
      BY <1>2 DEF Call
    <2>2. phases = Phases(y)
      BY <1>2, <1>4, <1>5, <2>1
    <2>3. y.connStart # 0 => Sum5(Phases(y)) = now - x.start
      BY <1>2, <1>3, AnswerAddsUp
    <2>4. phases # <<>>
      BY <2>2, PhasesAreTold
    <2> QED BY <1>8, <2>2, <2>3, <2>4
  <1> QED BY <1>1, <1>4, <1>5, <1>9, <1>11, <1>13, <1>14, EndsAreTimed

LEMMA FailedTimed == ASSUME Timed, NEW t \in Task, RequestFails(t) PROVE Timed'
  <1> PICK c : c = task[t].call OBVIOUS
  <1> PICK now : now = clock OBVIOUS
  <1>1. Calling(t, InFlight)
    BY DEF RequestFails
  <1> PICK at : at = task[t].at OBVIOUS
  <1>2. /\ c \in Call /\ ctx[c] \in Timings /\ report[c] \in Reports /\ now \in Nat
        /\ at \in InFlight /\ Ordered(ctx[c], now) /\ Placed(ctx[c], at)
        /\ report[c].began = ctx[c].start /\ (~report[c].crowded => current = c)
    BY <1>1, InFlightHas DEF Followed, Timed, TimingTypeOK
  <1> PICK x : x = ctx[c] OBVIOUS
  <1>3. ctx' = ctx /\ current' = current
    BY DEF RequestFails, timing
  <1> PICK phases : phases = IF current = 0 THEN <<>> ELSE Phases(ctx[current]) OBVIOUS
  <1>4. phases \in Told5
    <2>1. current # 0 => current \in Call
      BY CurrentIsCall
    <2>2. current # 0 => ctx[current] \in Timings
      BY <2>1 DEF Timed, TimingTypeOK
    <2> QED BY <2>2, PhasesHaveType DEF Told5
  <1> PICK took : took = now - Or(report[c].began, now) OBVIOUS
  <1>5. x.start \in Nat /\ 0 < x.start /\ x.start < now
    BY <1>2 DEF Ordered, Timings
  <1>6. took = now - x.start /\ took \in Nat
    BY <1>2, <1>5 DEF Or
  <1>7. clock' = now + 1 /\ calls' = calls /\ task' = [task EXCEPT ![t] = Idle]
    BY DEF RequestFails, Told, Reads, httpFrame
  <1>8. report' = [report EXCEPT ![c].took = took, ![c].how = "failed", ![c].phases = phases]
    BY <1>3 DEF RequestFails, Told
  <1>9. /\ report'[c] = [report[c] EXCEPT !.took = took, !.how = "failed", !.phases = phases]
        /\ \A d \in Call : d # c => report'[d] = report[d]
        /\ DOMAIN report' = Call
        /\ report' = [d \in Call |-> report'[d]]
    BY <1>2, <1>8 DEF Timed, TimingTypeOK
  <1>10. /\ report'[c] \in Reports /\ report'[c].took = took /\ report'[c].how = "failed"
         /\ report'[c].phases = phases /\ report'[c].crowded = report[c].crowded
    BY <1>2, <1>4, <1>6, <1>9 DEF Reports
  <1>11. report' \in [Call -> Reports]
    <2>1. \A d \in Call : report'[d] \in Reports
      BY <1>9, <1>10 DEF Timed, TimingTypeOK
    <2> QED BY <1>9, <2>1
  <1>12. AddsUp(c)'
    <2> SUFFICES ASSUME ~report[c].crowded
                 PROVE  phases # <<>> /\ (x.connStart # 0 => Sum5(phases) <= took)
      BY <1>3, <1>10 DEF AddsUp
    <2>1. c # 0
      BY <1>2 DEF Call
    <2>2. phases = Phases(x)
      BY <1>2, <2>1
    <2> QED BY <1>2, <1>6, <2>2, PhasesAreTold, FailureAddsUp
  <1>13. ctx' \in [Call -> Timings]
    BY <1>3 DEF Timed, TimingTypeOK
  <1> QED BY <1>1, <1>3, <1>7, <1>9, <1>11, <1>12, <1>13, EndsAreTimed

LEMMA CancelTimed == ASSUME Timed, NEW t \in Task, CancelCall(t) PROVE Timed'
  <1> PICK c : c = task[t].call OBVIOUS
  <1>1. ctx' = ctx /\ current' = current /\ calls' = calls /\ clock' = clock
    BY DEF CancelCall, timing
  <1>2. task' = [task EXCEPT ![t] = Idle]
    BY DEF CancelCall
  <1>3. CASE Calling(t, InFlight)
    <2>1. c \in Call /\ report[c] \in Reports
      BY <1>3, InFlightHas
    <2>2. report' = [report EXCEPT ![c].how = "cancelled"]
      BY <1>3 DEF CancelCall
    <2>3. /\ report' \in [Call -> Reports] /\ report'[c].how = "cancelled"
          /\ \A d \in Call : d # c => report'[d] = report[d]
      BY <2>1, <2>2 DEF Timed, TimingTypeOK, Reports
    <2>4. AddsUp(c)'
      BY <2>3 DEF AddsUp
    <2>5. ctx' \in [Call -> Timings]
      BY <1>1 DEF Timed, TimingTypeOK
    <2> QED BY <1>1, <1>2, <1>3, <2>3, <2>4, <2>5, EndsAreTimed
  <1>4. CASE ~Calling(t, InFlight)
    <2>1. UNCHANGED <<timing, clock, report>>
      BY <1>4 DEF CancelCall
    <2>2. Idle \in [call : 0 .. MaxCalls, at : Places \ InFlight]
      BY ClientsAssumption DEF Idle, Places, InFlight
    <2>3. calls' <= MaxCalls
      BY <1>1 DEF Timed, TimingTypeOK
    <2> QED BY <1>1, <1>2, <1>4, <2>1, <2>2, <2>3, IdleIsTyped, OtherCallsAreTimed
  <1> QED BY <1>3, <1>4

(* The next call has left no trace.                                        *)
LEMMA NextIsFresh ==
  ASSUME Timed, NEW t \in Task, MayCall(t), NEW c, c = calls + 1
  PROVE  /\ c \in Call /\ ctx[c] = Unset /\ report[c] = NoReport /\ ~Engaged(t) /\ ~Calling(t, InFlight)
         /\ \A u \in HttpTasks : u \in Task /\ u # t /\ task[u].call # c
  <1> USE DEF Timed, TimingTypeOK
  <1>1. c \in Call /\ c > calls
    BY ClientsAssumption DEF MayCall, Call
  <1>2. ~Engaged(t) /\ ~Calling(t, InFlight)
    BY DEF MayCall, Calling, Engaged, InFlight
  <1>3. ASSUME NEW u \in HttpTasks PROVE u \in Task /\ u # t /\ task[u].call # c
    <2>1. u \in Task /\ u # t /\ Engaged(u)
      BY <1>2, <1>3 DEF HttpTasks, Calling, Engaged, InFlight
    <2> QED BY <2>1 DEF OwnCalls
  <1> QED BY <1>1, <1>2, <1>3 DEF OwnCalls

(* A call that is no request begins, and one ends.                         *)
LEMMA CallsAreTimed ==
  ASSUME Timed, NEW t \in Task, MayCall(t), UNCHANGED <<timing, clock, report>>,
         NEW at \in Places \ InFlight, task' = [task EXCEPT ![t] = [call |-> calls + 1, at |-> at]],
         calls' = calls + 1
  PROVE  Timed'
  <1> PICK to : to = [call |-> calls + 1, at |-> at] OBVIOUS
  <1>1. calls' <= MaxCalls /\ calls + 1 \in 0 .. MaxCalls
    BY ClientsAssumption DEF Timed, TimingTypeOK, MayCall
  <1>2. to \in [call : 0 .. MaxCalls, at : Places \ InFlight] /\ to.call = calls + 1
    BY <1>1
  <1>3. ~Calling(t, InFlight)
    BY NextIsFresh
  <1> QED BY <1>1, <1>2, <1>3, OtherCallsAreTimed

LEMMA LastsAreTimed ==
  ASSUME Timed, NEW t \in Task, ~Calling(t, InFlight), UNCHANGED <<timing, clock, report>>,
         task' = [task EXCEPT ![t] = Idle], calls' = calls
  PROVE  Timed'
  <1>1. Idle \in [call : 0 .. MaxCalls, at : Places \ InFlight]
    BY ClientsAssumption DEF Idle, Places, InFlight
  <1>2. calls' <= MaxCalls
    BY DEF Timed, TimingTypeOK
  <1> QED BY <1>1, <1>2, IdleIsTyped, OtherCallsAreTimed

LEMMA UntimedStep ==
  ASSUME Timed, UNCHANGED <<calls, clock, current, ctx, task, report>> PROVE Timed'
  <1>1. TimingTypeOK' /\ OwnCalls'
    BY DEF Timed, TimingTypeOK, OwnCalls, Engaged
  <1>2. HttpTasks' = HttpTasks
    BY DEF HttpTasks, Calling
  <1>3. \A t \in HttpTasks : Followed(t)'
    BY <1>2 DEF Timed, Followed
  <1>4. \A c \in Call : AddsUp(c)'
    BY DEF Timed, AddsUp
  <1> QED BY <1>1, <1>2, <1>3, <1>4 DEF Timed

LEMMA RefusedTimed == ASSUME Timed, NEW t \in Task, RequestRefused(t) PROVE Timed'
  <1> PICK c : c = calls + 1 OBVIOUS
  <1> PICK now : now = clock OBVIOUS
  <1>1. MayCall(t) /\ ctx' = ctx /\ current' = current /\ task' = task /\ calls' = c
    BY DEF RequestRefused, timing
  <1>2. /\ c \in Call /\ report[c] = NoReport /\ \A u \in HttpTasks : u \in Task /\ task[u].call # c
    BY <1>1, NextIsFresh
  <1>3. /\ calls \in Nat /\ now \in Nat \ {0} /\ current \in 0 .. calls /\ report \in [Call -> Reports]
        /\ ctx \in [Call -> Timings] /\ task \in [Task -> [call : 0 .. MaxCalls, at : Places]]
    BY DEF Timed, TimingTypeOK
  <1> PICK phases : phases = IF current = 0 THEN <<>> ELSE Phases(ctx[current]) OBVIOUS
  <1>4. phases \in Told5
    <2>1. current # 0 => ctx[current] \in Timings
      BY <1>3, CurrentIsCall
    <2> QED BY <2>1, PhasesHaveType DEF Told5
  <1> PICK took : took = now - Or(report[c].began, now) OBVIOUS
  <1>5. took = 0
    BY <1>2, <1>3 DEF Or, NoReport
  <1>6. clock' = now + 1
    BY DEF RequestRefused, Told, Reads
  <1>7. report' = [report EXCEPT ![c].took = took, ![c].how = "refused", ![c].phases = phases]
    BY <1>1 DEF RequestRefused, Told
  <1>8. report[c] \in Reports
    BY <1>2, <1>3
  <1>9. /\ report'[c] = [report[c] EXCEPT !.took = took, !.how = "refused", !.phases = phases]
        /\ \A d \in Call : d # c => report'[d] = report[d]
        /\ DOMAIN report' = Call
        /\ report' = [d \in Call |-> report'[d]]
    BY <1>2, <1>3, <1>7
  <1>10. report'[c] \in Reports /\ report'[c].how = "refused"
    <2>1. took \in Nat
      BY <1>5
    <2> QED BY <1>4, <2>1, <1>8, <1>9 DEF Reports
  <1>11. report' \in [Call -> Reports]
    <2>1. \A d \in Call : report'[d] \in Reports
      BY <1>3, <1>9, <1>10
    <2> QED BY <1>9, <2>1
  <1>12. TimingTypeOK'
    <2>1. c \in Nat /\ c <= MaxCalls /\ current \in 0 .. c
      BY <1>2, <1>3, ClientsAssumption DEF Call
    <2> QED BY <1>1, <1>3, <1>6, <1>11, <2>1 DEF TimingTypeOK
  <1>13. OwnCalls'
    <2>1. \A d \in Call : d > c => d > calls /\ d # c
      BY <1>3 DEF Call
    <2>2. \A u \in Task : Engaged(u) => task[u].call \in 1 .. c
      BY <1>3 DEF Timed, OwnCalls
    <2>3. \A d \in Call : d > c => ctx[d] = Unset /\ report'[d] = NoReport
      BY <1>9, <2>1 DEF Timed, OwnCalls
    <2> QED BY <1>1, <2>2, <2>3 DEF Timed, OwnCalls, Engaged
  <1>14. HttpTasks' = HttpTasks
    BY <1>1 DEF HttpTasks, Calling
  <1>15. ASSUME NEW u \in HttpTasks' PROVE Followed(u)'
    <2> PICK d : d = task[u].call OBVIOUS
    <2>1. u \in HttpTasks /\ Followed(u) /\ d # c /\ u \in Task /\ Calling(u, InFlight)
      BY <1>2, <1>14, <1>15 DEF Timed, HttpTasks
    <2>2. d \in Call /\ ctx[d] \in Timings
      BY <2>1, InFlightHas
    <2>3. report'[d] = report[d]
      BY <1>9, <2>1, <2>2
    <2>4. Ordered(ctx[d], clock')
      <3>1. Ordered(ctx[d], now)
        BY <2>1 DEF Followed
      <3> QED BY <1>3, <1>6, <2>2, <3>1, OrderedLater
    <2> QED BY <1>1, <1>14, <2>1, <2>3, <2>4 DEF Followed
  <1>16. ASSUME NEW d \in Call PROVE AddsUp(d)'
    <2>1. CASE d = c
      BY <1>10, <2>1 DEF AddsUp
    <2>2. CASE d # c
      <3>1. AddsUp(d) /\ report'[d] = report[d]
        BY <1>9, <2>2 DEF Timed
      <3> QED BY <1>1, <3>1 DEF AddsUp
    <2> QED BY <2>1, <2>2
  <1> QED BY <1>12, <1>13, <1>15, <1>16 DEF Timed

LEMMA RequestTimed == ASSUME Timed, NEW t \in Task, Request(t) PROVE Timed'
  <1> PICK c : c = calls + 1 OBVIOUS
  <1> PICK now : now = clock OBVIOUS
  <1> PICK others : others = HttpTasks OBVIOUS
  <1>1. /\ MayCall(t) /\ ctx' = [ctx EXCEPT ![c].start = now] /\ current' = c /\ calls' = c
        /\ task' = [task EXCEPT ![t] = [call |-> c, at |-> "queued"]] /\ clock' = now + 1
    BY DEF Request, NewCall, OnRequestStart, Reads
  <1>2. /\ c \in Call /\ ctx[c] = Unset /\ ~Engaged(t) /\ t \notin others
        /\ \A u \in others : u \in Task /\ u # t /\ task[u].call # c
    BY <1>1, NextIsFresh DEF HttpTasks
  <1>3. /\ calls \in Nat /\ now \in Nat \ {0} /\ report \in [Call -> Reports]
        /\ ctx \in [Call -> Timings] /\ task \in [Task -> [call : 0 .. MaxCalls, at : Places]]
    BY DEF Timed, TimingTypeOK
  <1> PICK x : x = [Unset EXCEPT !.start = now] OBVIOUS
  <1>4. /\ x \in Timings /\ x.start = now /\ x.connStart = 0 /\ x.connEnd = 0
        /\ x.sent = 0 /\ x.chunk = 0 /\ x.end = 0
    BY <1>3 DEF Timings, Unset
  <1>5. /\ ctx'[c] = x /\ ctx' \in [Call -> Timings]
        /\ \A d \in Call : d # c => ctx'[d] = ctx[d]
    BY <1>1, <1>2, <1>3, <1>4
  <1>6. /\ task'[t] = [call |-> c, at |-> "queued"]
        /\ \A u \in Task : u # t => task'[u] = task[u]
        /\ task' \in [Task -> [call : 0 .. MaxCalls, at : Places]]
    <2>1. [call |-> c, at |-> "queued"] \in [call : 0 .. MaxCalls, at : Places]
      BY <1>2, ClientsAssumption DEF Call, Places, InFlight
    <2> QED BY <1>1, <1>3, <2>1
  <1> PICK new : new = [NoReport EXCEPT !.began = now, !.crowded = others # {}] OBVIOUS
  <1>7. report' = [d \in Call |->
          IF d = c THEN new
          ELSE IF \E u \in others : task[u].call = d THEN [report[d] EXCEPT !.crowded = TRUE]
          ELSE report[d]]
    BY DEF Request
  <1>8. /\ new \in Reports /\ new.how = "none" /\ new.began = now /\ (~new.crowded => others = {})
    BY <1>3 DEF NoReport, Reports, Told5
  <1>9. report'[c] = new
    BY <1>2, <1>7
  <1>10. ASSUME NEW d \in Call, d # c, \A u \in others : task[u].call # d
         PROVE  report'[d] = report[d]
    BY <1>7, <1>10
  <1>11. ASSUME NEW d \in Call, d # c, NEW u \in others, task[u].call = d
         PROVE  /\ report'[d] \in Reports /\ report'[d].crowded
                /\ report'[d].how = report[d].how /\ report'[d].began = report[d].began
    <2>1. report'[d] = [report[d] EXCEPT !.crowded = TRUE] /\ report[d] \in Reports
      BY <1>3, <1>7, <1>11
    <2> QED BY <2>1 DEF Reports
  <1>12. report' \in [Call -> Reports]
    <2>1. \A d \in Call : report'[d] \in Reports
      BY <1>3, <1>8, <1>9, <1>10, <1>11
    <2> QED BY <1>7, <2>1
  <1>13. TimingTypeOK'
    <2>1. c \in Nat /\ c <= MaxCalls /\ c \in 0 .. c
      BY <1>2, <1>3, ClientsAssumption DEF Call
    <2> QED BY <1>1, <1>3, <1>5, <1>6, <1>12, <2>1 DEF TimingTypeOK
  <1>14. OwnCalls'
    <2>1. ASSUME NEW u \in Task, Engaged(u) PROVE task[u].call \in 1 .. calls /\ u # t
      BY <1>2, <2>1 DEF Timed, OwnCalls
    <2>2. ASSUME NEW u \in Task, Engaged(u)' PROVE task'[u].call \in 1 .. c
      BY <1>2, <1>3, <1>6, <2>1, <2>2 DEF Engaged
    <2>3. ASSUME NEW u \in Task, NEW v \in Task, Engaged(u)', Engaged(v)', u # v
          PROVE task'[u].call # task'[v].call
      <3>1. CASE u # t /\ v # t
        BY <1>6, <2>3, <3>1 DEF Timed, OwnCalls, Engaged
      <3>2. CASE u = t
        <4>1. task'[u].call = c /\ task'[v].call = task[v].call /\ Engaged(v)
          BY <1>6, <2>3, <3>2 DEF Engaged
        <4> QED BY <1>3, <2>1, <4>1
      <3>3. CASE v = t
        <4>1. task'[v].call = c /\ task'[u].call = task[u].call /\ Engaged(u)
          BY <1>6, <2>3, <3>3 DEF Engaged
        <4> QED BY <1>3, <2>1, <4>1
      <3> QED BY <3>1, <3>2, <3>3
    <2>4. ASSUME NEW d \in Call, d > c PROVE ctx'[d] = Unset /\ report'[d] = NoReport
      <3>1. d > calls /\ d # c
        BY <1>3, <2>4 DEF Call
      <3>2. \A u \in others : task[u].call # d
        <4>1. \A u \in others : u \in Task /\ Engaged(u)
          BY DEF HttpTasks, Calling, Engaged, InFlight
        <4> QED BY <1>3, <2>1, <3>1, <4>1
      <3> QED BY <1>5, <1>10, <3>1, <3>2 DEF Timed, OwnCalls
    <2> QED BY <1>1, <2>2, <2>3, <2>4 DEF OwnCalls
  <1>15. HttpTasks' = others \cup {t}
    BY <1>6 DEF HttpTasks, Calling, InFlight
  <1>16. Followed(t)'
    <2>1. Ordered(x, now + 1) /\ Placed(x, "queued")
      BY <1>3, <1>4 DEF Ordered, Placed
    <2>2. task'[t].call = c /\ task'[t].at = "queued"
      BY <1>6
    <2> QED BY <1>1, <1>4, <1>5, <1>8, <1>9, <1>15, <2>1, <2>2 DEF Followed
  <1>17. ASSUME NEW u \in HttpTasks', u # t PROVE Followed(u)'
    <2> PICK d : d = task[u].call OBVIOUS
    <2>1. u \in others /\ Followed(u) /\ d # c /\ u \in Task /\ Calling(u, InFlight)
      BY <1>2, <1>15, <1>17 DEF Timed, HttpTasks
    <2>2. d \in Call /\ ctx[d] \in Timings
      BY <2>1, InFlightHas
    <2>3. /\ report'[d].crowded /\ report'[d].how = report[d].how
          /\ report'[d].began = report[d].began /\ ctx'[d] = ctx[d] /\ task'[u] = task[u]
      BY <1>5, <1>6, <1>11, <1>17, <2>1, <2>2
    <2>4. Ordered(ctx[d], clock')
      <3>1. Ordered(ctx[d], now)
        BY <2>1 DEF Followed
      <3> QED BY <1>1, <1>3, <2>2, <3>1 DEF Ordered, Timings
    <2> QED BY <2>1, <2>3, <2>4 DEF Followed
  <1>18. ASSUME NEW d \in Call PROVE AddsUp(d)'
    <2>1. CASE d = c
      BY <1>8, <1>9, <2>1 DEF AddsUp
    <2>2. CASE d # c /\ \A u \in others : task[u].call # d
      <3>1. AddsUp(d) /\ report'[d] = report[d] /\ ctx'[d] = ctx[d]
        BY <1>5, <1>10, <2>2 DEF Timed
      <3> QED BY <3>1 DEF AddsUp
    <2>3. CASE d # c /\ \E u \in others : task[u].call = d
      BY <1>11, <2>3 DEF AddsUp
    <2> QED BY <2>1, <2>2, <2>3
  <1> QED BY <1>13, <1>14, <1>16, <1>17, <1>18 DEF Timed

LEMMA HttpTimed == ASSUME Timed, NEW t \in Task, HttpStep(t) PROVE Timed'
  <1>1. CASE UserClosesHttp(t)
    <2>1. UNCHANGED <<calls, clock, current, ctx, task, report>>
      BY <1>1 DEF UserClosesHttp, timing
    <2> QED BY <2>1, UntimedStep
  <1> QED BY <1>1, RequestTimed, RefusedTimed, HookActionsTimed, AnsweredTimed, FailedTimed, CancelTimed
          DEF HttpStep

LEMMA WsTimed == ASSUME Timed, NEW t \in Task, WsStep(t) PROVE Timed'
  <1>1. UNCHANGED <<timing, clock, report>>
    BY DEF WsStep, Connect, Connected, ConnectFails, CloseWs, wsFrame
  <1>2. calls \in Nat /\ calls <= MaxCalls /\ task \in [Task -> [call : 0 .. MaxCalls, at : Places]]
    BY DEF Timed, TimingTypeOK
  <1>3. CASE Connect(t)
    <2> PICK to : to = [call |-> calls + 1, at |-> "wsConnect"] OBVIOUS
    <2>1. MayCall(t) /\ task' = [task EXCEPT ![t] = to] /\ calls' = calls + 1
      BY <1>3 DEF Connect, NewCall
    <2> QED BY <1>1, <2>1, CallsAreTimed DEF Places, InFlight
  <1>4. CASE Connected(t)
    <2> PICK to : to = [task[t] EXCEPT !.at = "wsOpen"] OBVIOUS
    <2>1. task' = [task EXCEPT ![t] = to] /\ calls' = calls /\ task[t].at = "wsConnect"
      BY <1>4 DEF Connected, Moves, Calling
    <2>2. to \in [call : 0 .. MaxCalls, at : Places \ InFlight] /\ to.call = task[t].call
      BY <1>2 DEF Places, InFlight
    <2>3. ~Calling(t, InFlight) /\ Engaged(t)
      BY <2>1 DEF Calling, Engaged, InFlight
    <2> QED BY <1>1, <1>2, <2>1, <2>2, <2>3, OtherCallsAreTimed
  <1>5. CASE ConnectFails(t) \/ CloseWs(t)
    <2>1. ~Calling(t, InFlight) /\ task' = [task EXCEPT ![t] = Idle] /\ calls' = calls
      BY <1>5 DEF ConnectFails, CloseWs, Calling, InFlight
    <2> QED BY <1>1, <2>1, LastsAreTimed
  <1> QED BY <1>3, <1>4, <1>5 DEF WsStep

LEMMA GrpcTimed == ASSUME Timed, NEW t \in Task, GrpcStep(t) PROVE Timed'
  <1>1. UNCHANGED <<timing, clock, report>>
    BY DEF GrpcStep, Unary, ServerStream, UnaryEnds, StreamEnds, wsFrame
  <1>2. ASSUME NEW target \in Target, Unary(t, target) PROVE Timed'
    <2>1. MayCall(t) /\ task' = [task EXCEPT ![t] = [call |-> calls + 1, at |-> "unary"]]
          /\ calls' = calls + 1
      BY <1>2 DEF Unary, NewCall
    <2> QED BY <1>1, <2>1, CallsAreTimed DEF Places, InFlight
  <1>3. ASSUME NEW target \in Target, ServerStream(t, target) PROVE Timed'
    <2>1. MayCall(t) /\ task' = [task EXCEPT ![t] = [call |-> calls + 1, at |-> "stream"]]
          /\ calls' = calls + 1
      BY <1>3 DEF ServerStream, NewCall
    <2> QED BY <1>1, <2>1, CallsAreTimed DEF Places, InFlight
  <1>4. CASE UnaryEnds(t) \/ StreamEnds(t)
    <2>1. ~Calling(t, InFlight) /\ task' = [task EXCEPT ![t] = Idle] /\ calls' = calls
      BY <1>4 DEF UnaryEnds, StreamEnds, Calling, InFlight
    <2> QED BY <1>1, <2>1, LastsAreTimed
  <1> QED BY <1>2, <1>3, <1>4 DEF GrpcStep

(* Whatever calls overlap, fail or are cancelled, and whatever the clean-up  *)
(* closes under them: the phases of a request that met no other one and made *)
(* its own connection add up to its duration, and to no more if it failed.  *)
THEOREM PhasesAlwaysAddUp == ClientsSpec => []PhasesAddUp
  <1>1. ClientsInit => Timed
    <2> SUFFICES ASSUME ClientsInit PROVE Timed OBVIOUS
    <2>1. TimingTypeOK
      <3>1. \A c \in Call : Unset \in Timings /\ NoReport \in Reports
        BY DEF Unset, Timings, NoReport, Reports, Told5
      <3>2. calls \in Nat /\ calls <= MaxCalls /\ clock \in Nat \ {0} /\ current \in 0 .. calls
        BY ClientsAssumption DEF ClientsInit
      <3> QED BY <3>1, <3>2, IdleIsTyped DEF ClientsInit, TimingTypeOK
    <2>2. OwnCalls
      BY DEF ClientsInit, OwnCalls, Engaged, Idle
    <2>3. HttpTasks = {}
      BY DEF ClientsInit, HttpTasks, Calling, Idle, InFlight
    <2>4. \A c \in Call : AddsUp(c)
      BY DEF ClientsInit, AddsUp, NoReport
    <2> QED BY <2>1, <2>2, <2>3, <2>4 DEF Timed
  <1>2. Timed /\ [ClientsNext]_clientsVars => Timed'
    <2> SUFFICES ASSUME Timed, [ClientsNext]_clientsVars PROVE Timed' OBVIOUS
    <2>1. CASE UNCHANGED clientsVars
      <3>1. UNCHANGED <<calls, clock, current, ctx, task, report>>
        BY <2>1 DEF clientsVars, timing
      <3> QED BY <3>1, UntimedStep
    <2>2. CASE Cleanup
      <3>1. UNCHANGED closeFrame
        BY <2>2 DEF Cleanup, UserFunctionEnds, CloseHttp, HttpClosed, CloseWsClient, WsClosed,
                    CloseGrpc, CloseChannel, GrpcClosed, ChannelsChanged, CleanupFails
      <3>2. UNCHANGED <<calls, clock, current, ctx, task, report>>
        BY <3>1 DEF closeFrame, timing
      <3> QED BY <3>2, UntimedStep
    <2> QED BY <2>1, <2>2, HttpTimed, WsTimed, GrpcTimed DEF ClientsNext
  <1>3. Timed => PhasesAddUp
    BY DEF Timed, AddsUp, PhasesAddUp
  <1> QED BY <1>1, <1>2, <1>3, PTL DEF ClientsSpec

=============================================================================
