-------------------------- MODULE MCClaudeSession --------------------------
(* Small instances of ClaudeSession. *)
EXTENDS ClaudeSession

=============================================================================
