-------------------------- MODULE MCOpenCodeSession --------------------------
(* Small instances of OpenCodeSession. *)
EXTENDS OpenCodeSession

=============================================================================
