----------------------------- MODULE MCRunStream -----------------------------
(* RunStream with its constants given in the configuration. *)
EXTENDS RunStream

=============================================================================
