--------------------------- MODULE MCDistributed ---------------------------
(* Small instances of Distributed for TLC. *)
EXTENDS Distributed
=============================================================================
