---------------------------- MODULE CodexSession ----------------------------
(***************************************************************************)
(* openCodexSession (codex/session.ts): after the handshake send() issues  *)
(* turn/start or turn/steer by `activeTurnId`, a pump turns notifications  *)
(* into events and keeps `activeTurnId`, and `done` waits for the client   *)
(* and the pump.                                                           *)
(*                                                                         *)
(* CodexAppServer, the client below it, appears here as two sequences:     *)
(* `outbox`, the requests on their way to the server, and `wire`, the      *)
(* lines on their way back that have had no effect yet.  A response        *)
(* resumes its send() one microtask after the client handled it, while     *)
(* notifications queue for the pump: a response may overtake earlier       *)
(* notifications, and no notification overtakes an earlier response.       *)
(*                                                                         *)
(* The server is external.  As the stub of codex/session_test.ts does, it  *)
(* answers turn/start before it announces the turn, and everything asked   *)
(* of a turn before it completes the turn.                                 *)
(***************************************************************************)
EXTENDS Naturals, Sequences, FiniteSets

CONSTANTS MaxSend,   \* bound on send()
          MaxTurn,   \* bound on the turns the server starts
          Malformed  \* the server may announce a turn without `params.turn`

ASSUME SessionAssumption ==
    /\ MaxSend \in Nat
    /\ MaxTurn \in Nat
    /\ Malformed \in BOOLEAN

VARIABLES phase,         \* of openCodexSession(): "handshake", "thread", "open",
                         \* "failing", "failed"
          ended, sessionAborted,  \* the flags of the session
          signalled,     \* the client was aborted, and not by the session's abort()
          activeTurnId,  \* 0 for null
          sends,         \* what became of each send(), with its request
          outbox, wire,
          turn,          \* the server's active turn, 0 for none
          turns,         \* the turns it started so far
          announced,     \* turn/started was sent for the active turn
          child,         \* "running", "exited"
          clientDone,    \* client.done is resolved
          pump,          \* notificationPump: "running", "ended", "thrown"
          published,     \* the events pushed
          done           \* "waiting", "resolved", "rejected"

flagVars   == <<ended, sessionAborted, signalled>>
serverVars == <<turn, turns, announced>>
endVars    == <<child, clientDone, done>>
streamVars == <<pump, published>>
vars == <<phase, flagVars, activeTurnId, sends, outbox, wire, serverVars, endVars, streamVars>>

Null == 0
Sends == 1..Len(sends)

-----------------------------------------------------------------------------

Init ==
    /\ phase = "handshake"
    /\ ended = FALSE
    /\ sessionAborted = FALSE
    /\ signalled = FALSE
    /\ activeTurnId = Null
    /\ sends = <<>>
    /\ outbox = <<>>
    /\ wire = <<>>
    /\ turn = Null
    /\ turns = 0
    /\ announced = FALSE
    /\ child = "running"
    /\ clientDone = FALSE
    /\ pump = "running"
    /\ published = <<>>
    /\ done = "waiting"

-----------------------------------------------------------------------------
(* Opening *)

\* The response of the request the opening waits for: `initialized` and the
\* thread request follow, unless the client was aborted, then the handle.
OpenAnswered ==
    /\ child = "running"
    /\ \/ phase = "handshake" /\ phase' = IF signalled THEN "failing" ELSE "thread"
       \/ phase = "thread" /\ phase' = "open"
    /\ UNCHANGED <<flagVars, activeTurnId, sends, outbox, wire, serverVars, endVars,
                   streamVars>>

\* An error response, or a request rejected because the client is done: the
\* catch aborts the client and waits for it.
OpenFails ==
    /\ phase \in {"handshake", "thread"}
    /\ child = "running" \/ clientDone
    /\ phase' = "failing"
    /\ signalled' = TRUE
    /\ UNCHANGED <<ended, sessionAborted, activeTurnId, sends, outbox, wire, serverVars,
                   endVars, streamVars>>

\* The awaited end of the client.
Reaped == clientDone

OpenThrows ==
    /\ phase = "failing"
    /\ Reaped
    /\ phase' = "failed"
    /\ UNCHANGED <<flagVars, activeTurnId, sends, outbox, wire, serverVars, endVars,
                   streamVars>>

-----------------------------------------------------------------------------
(* The handle's methods *)

RefusalUnended ==    \* slip: `ended` is not tested
    IF sessionAborted THEN "aborted"
    ELSE IF signalled \/ clientDone THEN "undelivered"
    ELSE "none"

\* A send() is refused by the flags or by the client, or it is issued.
Refusal ==
    IF sessionAborted THEN "aborted"
    ELSE IF ended THEN "inputClosed"
    ELSE IF signalled \/ clientDone THEN "undelivered"
    ELSE "none"

\* History: the active turn, when the response of some send() has named it.
Known == IF \E s \in Sends : sends[s].turn = turn THEN turn ELSE Null

\* A request with no expected turn is turn/start, with one turn/steer.
Called(o) == [outcome |-> o, expected |-> activeTurnId, turn |-> Null,
              known |-> Known, late |-> signalled]

Send ==
    /\ phase = "open"
    /\ Len(sends) < MaxSend
    /\ \/ /\ Refusal # "none"
          /\ sends' = Append(sends, Called(Refusal))
          /\ UNCHANGED outbox
       \/ /\ Refusal = "none"
          /\ sends' = Append(sends, Called("pending"))
          /\ outbox' = Append(outbox, [send |-> Len(sends) + 1, expected |-> activeTurnId])
    /\ UNCHANGED <<phase, flagVars, activeTurnId, wire, serverVars, endVars, streamVars>>

EndInput ==
    /\ phase = "open"
    /\ ~ended
    /\ ended' = TRUE
    /\ UNCHANGED <<phase, sessionAborted, signalled, activeTurnId, sends, outbox, wire,
                   serverVars, endVars, streamVars>>

Abort ==
    /\ phase = "open"
    /\ ~sessionAborted
    /\ sessionAborted' = TRUE
    /\ ended' = TRUE
    /\ UNCHANGED <<phase, signalled, activeTurnId, sends, outbox, wire, serverVars, endVars,
                   streamVars>>

\* The external signal reaches the client's abort() only.
SignalFires ==
    /\ ~signalled
    /\ ~clientDone
    /\ signalled' = TRUE
    /\ UNCHANGED <<phase, ended, sessionAborted, activeTurnId, sends, outbox, wire, serverVars,
                   endVars, streamVars>>

-----------------------------------------------------------------------------
(* The server *)

Response(s, t) == [kind |-> "response", send |-> s, turn |-> t]
Refused(s)     == [kind |-> "refused", send |-> s, turn |-> Null]
Note(k, t)     == [kind |-> k, send |-> Null, turn |-> t]

Answers(line) == wire' = Append(wire, line)

\* turn/start on an idle thread starts a turn.  On a busy one the server
\* refuses it or gives it to the active turn.
TakesStart(request) ==
    /\ request.expected = Null
    /\ \/ /\ turn = Null
          /\ turns < MaxTurn
          /\ turns' = turns + 1
          /\ turn' = turns + 1
          /\ announced' = FALSE
          /\ Answers(Response(request.send, turns + 1))
       \/ /\ turn # Null
          /\ \/ Answers(Response(request.send, turn))
             \/ Answers(Refused(request.send))
          /\ UNCHANGED serverVars

\* turn/steer needs the active turn to be the expected one.
TakesSteer(request) ==
    /\ request.expected # Null
    /\ Answers(IF request.expected = turn THEN Response(request.send, turn)
               ELSE Refused(request.send))
    /\ UNCHANGED serverVars

ServerTakes ==
    /\ phase = "open"
    /\ child = "running"
    /\ outbox # <<>>
    /\ TakesStart(Head(outbox)) \/ TakesSteer(Head(outbox))
    /\ outbox' = Tail(outbox)
    /\ UNCHANGED <<phase, flagVars, activeTurnId, sends, endVars, streamVars>>

ServerStarts ==
    /\ child = "running"
    /\ turn # Null
    /\ ~announced
    /\ announced' = TRUE
    /\ \E k \in {"started"} \cup IF Malformed THEN {"bare"} ELSE {} : Answers(Note(k, turn))
    /\ UNCHANGED <<phase, flagVars, activeTurnId, sends, outbox, turn, turns, endVars, streamVars>>

ServerCompletes ==
    /\ child = "running"
    /\ announced
    /\ turn # Null
    /\ Answers(Note("completed", turn))
    /\ turn' = Null
    /\ UNCHANGED <<phase, flagVars, activeTurnId, sends, outbox, turns, announced, endVars,
                   streamVars>>

ChildExits ==
    /\ child = "running"
    /\ child' = "exited"
    /\ UNCHANGED <<phase, flagVars, activeTurnId, sends, outbox, wire, serverVars, clientDone,
                   done, streamVars>>

-----------------------------------------------------------------------------
(* The continuations of send() and the pump *)

IsReply(line) == line.kind \in {"response", "refused"}

\* The first line of the wire that a continuation of this kind takes.
FirstReply(k) == IsReply(wire[k]) /\ \A j \in 1..(k - 1) : ~IsReply(wire[j])
FirstNote(k)  == \A j \in 1..k : ~IsReply(wire[j])

Without(k) == [j \in 1..(Len(wire) - 1) |-> IF j < k THEN wire[j] ELSE wire[j + 1]]

Settled(S, o, t) ==
    [s \in Sends |-> IF s \in S THEN [sends[s] EXCEPT !.outcome = o, !.turn = t]
                    ELSE sends[s]]

\* What a response makes of activeTurnId: a started turn counts only while
\* none is known, a steered one always.
Promoted(line) ==
    IF line.kind = "refused" \/ (sends[line.send].expected = Null /\ activeTurnId # Null)
    THEN activeTurnId ELSE line.turn

\* The rest of send() once its response arrived.
Resume ==
    /\ \E k \in 1..Len(wire) :
          /\ FirstReply(k)
          /\ wire' = Without(k)
          /\ sends' = Settled({wire[k].send},
                              IF wire[k].kind = "response" THEN "accepted" ELSE "undelivered",
                              wire[k].turn)
          /\ activeTurnId' = Promoted(wire[k])
    /\ UNCHANGED <<phase, flagVars, outbox, serverVars, endVars, streamVars>>

\* updateActiveTurnId().
TrackedNever(note) ==    \* slip: the end of a turn is not tracked
    IF note.kind = "started" THEN note.turn ELSE activeTurnId
Tracked(note) ==
    CASE note.kind = "started"   -> note.turn
      [] note.kind = "completed" -> Null

\* One notification through the pump: its event and, behind the end of a
\* turn, the synthetic one.
Events(note) ==
    <<[kind |-> note.kind, turn |-> note.turn]>> \o
        IF note.kind = "completed" THEN <<[kind |-> "turn-end", turn |-> note.turn]>>
        ELSE <<>>

Pump ==
    /\ phase = "open"
    /\ pump = "running"
    /\ wire # <<>>
    /\ FirstNote(1)
    /\ Head(wire).kind # "bare"
    /\ wire' = Tail(wire)
    /\ activeTurnId' = Tracked(Head(wire))
    /\ published' = published \o Events(Head(wire))
    /\ UNCHANGED <<phase, flagVars, sends, outbox, serverVars, endVars, pump>>

\* `params.turn` is missing: reading its id throws out of the pump, which
\* closes the event queue and leaves the notifications.
PumpThrows ==
    /\ phase = "open"
    /\ pump = "running"
    /\ wire # <<>>
    /\ Head(wire).kind = "bare"
    /\ wire' = Tail(wire)
    /\ pump' = "thrown"
    /\ UNCHANGED <<phase, flagVars, activeTurnId, sends, outbox, serverVars, endVars, published>>

\* A closed notification queue drops the rest.
NotesDrop ==
    /\ pump = "thrown"
    /\ wire # <<>>
    /\ FirstNote(1)
    /\ wire' = Tail(wire)
    /\ UNCHANGED <<phase, flagVars, activeTurnId, sends, outbox, serverVars, endVars, streamVars>>

-----------------------------------------------------------------------------
(* The end *)


\* client.done resolves after the last line had its effect on the requests:
\* it rejects those that are still pending.
Unanswered == {s \in Sends : sends[s].outcome = "pending"}

ClientDone ==
    /\ child = "exited"
    /\ ~clientDone
    /\ \A k \in 1..Len(wire) : ~IsReply(wire[k])
    /\ clientDone' = TRUE
    /\ sends' = Settled(Unanswered, "undelivered", Null)
    /\ outbox' = <<>>
    /\ UNCHANGED <<phase, flagVars, activeTurnId, wire, serverVars, child, done, streamVars>>

\* The notifications are closed and drained: the pump closes the events.
DrainedEarly == TRUE    \* slip: the events are closed before the queue is drained
DrainedAlive == wire = <<>> /\ ~clientDone    \* slip: the exit does not end the notifications

Drained == wire = <<>>

PumpEnds ==
    /\ phase = "open"
    /\ clientDone
    /\ pump = "running"
    /\ Drained
    /\ pump' = "ended"
    /\ UNCHANGED <<phase, flagVars, activeTurnId, sends, outbox, wire, serverVars, endVars,
                   published>>

\* `done`: after the client, and after the pump, whose throw it passes on.
Done ==
    /\ clientDone
    /\ done = "waiting"
    /\ pump # "running"
    /\ done' = IF pump = "ended" THEN "resolved" ELSE "rejected"
    /\ UNCHANGED <<phase, flagVars, activeTurnId, sends, outbox, wire, serverVars, child,
                   clientDone, streamVars>>

-----------------------------------------------------------------------------

Handle == Send \/ EndInput \/ Abort \/ SignalFires
Server == ServerTakes \/ ServerStarts \/ ServerCompletes \/ ChildExits
Opening == OpenAnswered \/ OpenFails
Tasks  == OpenThrows \/ Resume \/ Pump \/ PumpThrows \/ NotesDrop \/ ClientDone \/ PumpEnds \/ Done

Next == Opening \/ Handle \/ Server \/ Tasks

Spec == Init /\ [][Next]_vars

\* The event loop runs what can run.  Nothing is assumed of the consumer, of
\* the server, or of a child that was sent SIGTERM.
FairSpec ==
    /\ Spec
    /\ WF_vars(Tasks)
    /\ WF_vars(OpenFails /\ clientDone)

-----------------------------------------------------------------------------
(* Properties *)

Turns == 1..MaxTurn

TypeOK ==
    /\ phase \in {"handshake", "thread", "open", "failing", "failed"}
    /\ {ended, sessionAborted, signalled, announced, clientDone} \subseteq BOOLEAN
    /\ {activeTurnId, turn} \subseteq {Null} \cup Turns
    /\ turns \in 0..MaxTurn
    /\ sends \in Seq([outcome : {"pending", "accepted", "undelivered", "aborted", "inputClosed"},
                      expected : {Null} \cup Turns, turn : {Null} \cup Turns,
                      known : {Null} \cup Turns, late : BOOLEAN])
    /\ outbox \in Seq([send : Sends, expected : {Null} \cup Turns])
    /\ wire \in Seq([kind : {"response", "refused"}, send : Sends, turn : {Null} \cup Turns]
                    \cup [kind : {"started", "bare", "completed"}, send : {Null}, turn : Turns])
    /\ child \in {"running", "exited"}
    /\ pump \in {"running", "ended", "thrown"}
    /\ published \in Seq([kind : {"started", "completed", "turn-end"}, turn : Turns])
    /\ done \in {"waiting", "resolved", "rejected"}

OnWire(k, t) == \E i \in 1..Len(wire) : wire[i].kind = k /\ wire[i].turn = t

\* `activeTurnId` lags behind the server by the lines on the wire and by
\* nothing else: a turn it names has ended only if its turn/completed is still
\* to be pumped, and a turn it misses is still to be announced (session.ts:
\* 235-237, 304-326).
ActiveTurnAgrees ==
    pump = "running" =>
        /\ activeTurnId # Null =>
              activeTurnId = turn \/ OnWire("completed", activeTurnId)
        /\ turn # Null /\ announced =>
              activeTurnId = turn \/ OnWire("started", turn) \/ OnWire("bare", turn)

\* Every send() in flight is on its way to the server or back: none can be
\* forgotten by both sides (session.ts:287-345).
PendingIsInFlight ==
    \A s \in Sends : sends[s].outcome = "pending" <=>
        \/ \E i \in 1..Len(outbox) : outbox[i].send = s
        \/ \E i \in 1..Len(wire) : IsReply(wire[i]) /\ wire[i].send = s

\* A failed openCodexSession() leaves no subprocess behind: it throws only when
\* the client is done (session.ts:371-384).
FailedOpenReaps == phase = "failed" => child = "exited"

\* When the events are complete, every turn the server completed was ended by
\* exactly one turn-end, and no other turn was (session-types.ts:285-288).
TurnEndsMatch ==
    pump = "ended" => \A t \in 1..turns :
        Cardinality({i \in 1..Len(published) : published[i] = [kind |-> "turn-end", turn |-> t]})
          = IF t = turn THEN 0 ELSE 1

\* The type invariant, the tracking of sends, the failed opening and the turn-ends
\* (codex/session.ts:233-345, 371-384).
SessionInv == TypeOK /\ PendingIsInFlight /\ FailedOpenReaps /\ TurnEndsMatch

\* The session keeps the contract every RuntimeSession has.
Contract == INSTANCE SessionContract WITH
    NativeEvent <- {"started"},
    TurnOver    <- "completed",
    TurnEnd     <- "turn-end",
    phase       <- IF sessionAborted THEN "aborted" ELSE IF ended THEN "ended" ELSE "open",
    outcomes    <- [s \in Sends |-> sends[s].outcome],
    published   <- [i \in 1..Len(published) |-> published[i].kind],
    completed   <- pump # "running",
    resolved    <- done = "resolved"

\* Sends, events, endInput, abort and done behave as runtime/session-types.ts
\* promises of every adapter.
ImplementsContract == Contract!Spec

\* Once the subprocess is gone `done` settles, or openCodexSession() throws
\* (session-types.ts:289-290).
ExitSettlesDone == child = "exited" ~> done # "waiting" \/ phase = "failed"

\* `done` never rejects (session-types.ts:289-290).
DoneNeverRejects == done # "rejected"

\* A send() that follows the response which named the active turn steers that
\* turn (session.ts:305-309).
FollowUpSteers ==
    \A s \in Sends : sends[s].known # Null => sends[s].expected # Null

\* A send() on a session whose signal has aborted it says so
\* (session-types.ts:266-274).
AbortedSendSaysSo == \A s \in Sends : sends[s].late => sends[s].outcome = "aborted"

=============================================================================
