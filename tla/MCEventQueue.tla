---------------------------- MODULE MCEventQueue ----------------------------
\* A small instance of EventQueue: two distinguishable events, up to four
\* pushes and four next() calls, every interleaving with close and return.
EXTENDS EventQueue

=============================================================================
