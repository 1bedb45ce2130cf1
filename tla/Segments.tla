------------------------------ MODULE Segments ------------------------------
(***************************************************************************)
(* How the workers of a distributed run share VUs, iterations and arrival   *)
(* rate (class ExecutionSegment of distributed/segment.py).  There is no    *)
(* assignment from a central place: every worker knows its index and the    *)
(* number of workers, and computes its own share whenever it comes to it.   *)
(***************************************************************************)
EXTENDS Integers

CONSTANTS
  Workers, \* numbers of workers a run may have
  Amounts  \* numbers of VUs, or of iterations, a run may have

ASSUME SegmentsAssumption ==
  /\ Workers \subseteq Nat \ {0}
  /\ Amounts \subseteq Nat

VARIABLES
  total,    \* total
  amount,   \* total_vus, total_iterations
  computed, \* the indices whose workers have computed their share
  owned     \* the VUs, or iterations, each worker takes as its own

vars == <<total, amount, computed, owned>>

BoundTruncated(i, n, k) == i * (k \div n)

(* index * K // total, the start of a range and the end of the one before. *)
Bound(i, n, k) == (i * k) \div n

(* Wrong: a range that includes its end.                                    *)
RangeInclusive(i, n, k) == Bound(i, n, k) .. Bound(i + 1, n, k)

(* vu_range(), iteration_range().                                          *)
RangeOf(i, n, k) == Bound(i, n, k) .. Bound(i + 1, n, k) - 1

Index == 0 .. total - 1
Items == 0 .. amount - 1

Init ==
  /\ total \in Workers /\ amount \in Amounts
  /\ computed = {}
  /\ owned = [i \in Index |-> {}]

Compute(i) ==
  /\ i \in Index \ computed
  /\ computed' = computed \cup {i}
  /\ owned' = [owned EXCEPT ![i] = RangeOf(i, total, amount)]
  /\ UNCHANGED <<total, amount>>

Next == \E i \in Index : Compute(i)

Spec == Init /\ [][Next]_vars

-----------------------------------------------------------------------------
(* Properties.                                                             *)

TypeOK ==
  /\ total \in Workers /\ amount \in Amounts
  /\ computed \subseteq Index
  /\ owned \in [Index -> SUBSET Items]

(* No VU and no iteration is run by two workers, at any time and in        *)
(* whatever order the workers come to compute their shares.                *)
NoOverlap == \A i, j \in Index : i # j => owned[i] \cap owned[j] = {}

(* Once every worker has computed its share, each VU and each iteration has *)
(* a worker that runs it.                                                  *)
AllOwned == computed = Index => \A k \in Items : \E i \in Index : k \in owned[i]

(* However many workers compute the bounds of their shares for themselves,  *)
(* nothing is run twice and in the end nothing is left out (vu_range() and  *)
(* iteration_range(), which round down at both ends of a share).            *)
Partitioned == NoOverlap /\ AllOwned
=============================================================================
