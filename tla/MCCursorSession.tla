-------------------------- MODULE MCCursorSession --------------------------
\* Small instances of CursorSession: up to three sends whose subprocesses
\* write up to two lines each.
EXTENDS CursorSession

=============================================================================
