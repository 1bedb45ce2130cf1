---------------------------- MODULE MCRampingVUs ----------------------------
(* Small instances of RampingVUs for TLC. *)
EXTENDS RampingVUs

Stage(n, goal) == [steps |-> n, target |-> goal]

(* Up in two steps, on to three VUs in one, down to one in two.            *)
UpAndDown == <<Stage(2, 2), Stage(1, 3), Stage(2, 1)>>
=============================================================================
