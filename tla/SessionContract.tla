--------------------------- MODULE SessionContract ---------------------------
(***************************************************************************)
(* The contract of RuntimeSession (runtime/session-types.ts), which every  *)
(* adapter's session is to keep: how a send() may end in each phase of the *)
(* session, one synthetic turn-end behind every native end of a turn,      *)
(* nothing published on a completed `events`, and a `done` that resolves   *)
(* once, after `events` completed.                                         *)
(***************************************************************************)
EXTENDS Naturals, Sequences

CONSTANTS NativeEvent,  \* the native events that end no turn
          TurnOver,     \* the native end of a turn
          TurnEnd       \* the synthetic one

VARIABLES phase,      \* "open", "ended" by endInput(), "aborted"
          outcomes,   \* outcomes[s]: the promise of the s-th send()
          published,  \* the events pushed
          completed,  \* `events` is complete
          resolved    \* `done` is resolved

contractVars == <<phase, outcomes, published, completed, resolved>>

-----------------------------------------------------------------------------

Init ==
    /\ phase = "open"
    /\ outcomes = <<>>
    /\ published = <<>>
    /\ completed = FALSE
    /\ resolved = FALSE

\* send() fails by the phase of the session, or is delivered or not.
Send ==
    /\ \E o \in CASE phase = "aborted" -> {"aborted"}
                  [] phase = "ended"   -> {"inputClosed"}
                  [] OTHER             -> {"pending", "accepted", "undelivered"} :
          outcomes' = Append(outcomes, o)
    /\ UNCHANGED <<phase, published, completed, resolved>>

\* Some of the pending sends end, each accepted or not.
Settle ==
    /\ DOMAIN outcomes' = DOMAIN outcomes
    /\ \A s \in DOMAIN outcomes :
          \/ outcomes'[s] = outcomes[s]
          \/ outcomes[s] = "pending" /\ outcomes'[s] \in {"accepted", "undelivered"}
    /\ UNCHANGED <<phase, published, completed, resolved>>

EndInput ==
    /\ phase = "open"
    /\ phase' = "ended"
    /\ UNCHANGED <<outcomes, published, completed, resolved>>

Abort ==
    /\ phase # "aborted"
    /\ phase' = "aborted"
    /\ UNCHANGED <<outcomes, published, completed, resolved>>

\* A native event, and behind the end of a turn its synthetic twin.
Publish ==
    /\ ~completed
    /\ \/ \E e \in NativeEvent : published' = Append(published, e)
       \/ published' = published \o <<TurnOver, TurnEnd>>
    /\ UNCHANGED <<phase, outcomes, completed, resolved>>

Complete ==
    /\ ~completed
    /\ completed' = TRUE
    /\ UNCHANGED <<phase, outcomes, published, resolved>>

Resolve ==
    /\ completed
    /\ ~resolved
    /\ resolved' = TRUE
    /\ UNCHANGED <<phase, outcomes, published, completed>>

Next == Send \/ Settle \/ EndInput \/ Abort \/ Publish \/ Complete \/ Resolve

Spec == Init /\ [][Next]_contractVars

=============================================================================
