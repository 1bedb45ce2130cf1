----------------------------- MODULE MCMcpSwap -----------------------------
(* Small instances of McpSwap for TLC. *)
EXTENDS McpSwap, TLC

Interchangeable == Permutations(Procs)
=============================================================================
