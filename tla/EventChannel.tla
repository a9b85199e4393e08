---------------------------- MODULE EventChannel ----------------------------
(***************************************************************************)
(* What `session.events` promises to a consumer, whatever backs it: one    *)
(* FIFO log of accepted events, and the k-th call of next() is answered    *)
(* with the k-th event of that log, or with "done" once the channel is     *)
(* closed and the log has no k-th event, or stays pending until one of     *)
(* the two happens.  EventQueue implements this specification.             *)
(***************************************************************************)
EXTENDS Naturals, Sequences

CONSTANTS Event,      \* what producers push
          Waiting,    \* the answer of a next() whose promise is pending
          Finished    \* the answer {done: true}

VARIABLES log,      \* every event the channel accepted, in order
          closed,   \* no event is accepted any more
          answers   \* answers[k] is the state of the k-th next() promise

chanVars == <<log, closed, answers>>

-----------------------------------------------------------------------------

Answer(k, accepted, isClosed) ==
    IF k <= Len(accepted) THEN accepted[k]
    ELSE IF isClosed THEN Finished ELSE Waiting

Answers(n, accepted, isClosed) ==
    [k \in 1..n |-> Answer(k, accepted, isClosed)]

Init ==
    /\ log = <<>>
    /\ closed = FALSE
    /\ answers = <<>>

Accept(e) ==
    /\ ~closed
    /\ log' = Append(log, e)
    /\ answers' = Answers(Len(answers), log', closed)
    /\ UNCHANGED closed

Shut ==
    /\ ~closed
    /\ closed' = TRUE
    /\ answers' = Answers(Len(answers), log, TRUE)
    /\ UNCHANGED log

Ask ==
    /\ answers' = Answers(Len(answers) + 1, log, closed)
    /\ UNCHANGED <<log, closed>>

Next == (\E e \in Event : Accept(e)) \/ Shut \/ Ask

Spec == Init /\ [][Next]_chanVars

=============================================================================
