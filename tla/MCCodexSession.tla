--------------------------- MODULE MCCodexSession ---------------------------
(* Small instances of CodexSession. *)
EXTENDS CodexSession

=============================================================================
