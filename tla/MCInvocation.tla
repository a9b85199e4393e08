---------------------------- MODULE MCInvocation ----------------------------
\* Small instances of Invocation: two or three attempts of each CLI.
EXTENDS Invocation

=============================================================================
