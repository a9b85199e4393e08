-------------------------- MODULE MCCodexAppServer --------------------------
(* Small instances of CodexAppServer. *)
EXTENDS CodexAppServer

=============================================================================
