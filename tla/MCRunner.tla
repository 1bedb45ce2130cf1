------------------------------ MODULE MCRunner ------------------------------
(* Small instances of Runner for TLC. *)
EXTENDS Runner
Three == <<"console", "file", "post">>
=============================================================================
