------------------------------ MODULE MCClients ------------------------------
(* One iteration whose user function runs two tasks that make two calls     *)
(* between them, one after the other or overlapping, on any of the clients, *)
(* with two gRPC servers: enough for a request that meets the timings or    *)
(* the closed session of another, and for a channel that is added while     *)
(* another is being closed.                                                 *)
EXTENDS Clients, TLC

CONSTANTS t1, t2, g1, g2

Tasks   == {t1, t2}
Targets == {g1, g2}

Interchangeable == Permutations(Tasks) \cup Permutations(Targets)
=============================================================================
