--------------------------- MODULE MCRunRegistry ---------------------------
(* Small instances of RunRegistry for TLC. *)
EXTENDS RunRegistry
=============================================================================
