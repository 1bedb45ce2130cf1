------------------------- MODULE MCClosedExecutors -------------------------
(* Small instances of ClosedExecutors for TLC: a scenario with a shared     *)
(* pool and one with a range per VU, side by side.                          *)
EXTENDS ClosedExecutors

CONSTANTS pool, each, p1, p2, e1, e2

MCScenario == {pool, each}
MCVU       == {p1, p2, e1, e2}
MCHome     == [v \in MCVU |-> IF v \in {e1, e2} THEN each ELSE pool]
MCBudget   == [s \in MCScenario |-> IF s = pool THEN 3 ELSE 2]
=============================================================================
