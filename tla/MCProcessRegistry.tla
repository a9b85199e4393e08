------------------------- MODULE MCProcessRegistry -------------------------
\* Small instances of ProcessRegistry: two children, two shutdown callbacks
\* and one or two overlapping killAll() calls.
EXTENDS ProcessRegistry

=============================================================================
