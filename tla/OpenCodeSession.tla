--------------------------- MODULE OpenCodeSession ---------------------------
(***************************************************************************)
(* openOpenCodeSession (opencode/session.ts): a server of its own, a POST  *)
(* per send(), an SSE stream whose busy and idle events tell the turns,    *)
(* and an endInput() that waits in the background for the idle event       *)
(* before it sends SIGTERM.                                                *)
(*                                                                         *)
(* The server is external.  It takes prompts, serves them in turns, and    *)
(* writes its events to the SSE stream while it has one: as in the stub of *)
(* opencode/session_test.ts, what happens before the stream is connected   *)
(* reaches nobody.                                                         *)
(***************************************************************************)
EXTENDS Naturals, Sequences, FiniteSets

CONSTANTS MaxSend,     \* bound on send()
          MaxForeign,  \* bound on the events of other sessions
          SseDrops     \* the stream may end while the server runs

ASSUME SessionAssumption ==
    /\ MaxSend \in Nat
    /\ MaxForeign \in Nat
    /\ SseDrops \in BOOLEAN

VARIABLES phase,        \* of openOpenCodeSession(): "starting", "creating", "open",
                        \* "failed"
          aborted, inputClosed, isIdle,  \* the flags of the session
          recent,       \* the last send() was less than 500 ms ago
          teardown,     \* waitForIdleAndTeardown(): "none", "window" and "await" at
                        \* its two waits, "resumed" behind one, "over"
          abortRequest, \* of abort(): "none", "pending", "settled"
          sends,        \* what became of each send()
          server,       \* "running", "exited"
          signalled,    \* SIGTERM was sent
          registered,   \* the registry knows the server
          prompts,      \* the prompts the server has not started to serve
          serving,      \* the turn it serves, 0 for none
          turns,        \* the turns it started so far
          foreign,      \* the events of other sessions so far
          stream,       \* the SSE stream: "none", "connecting", "open", "ended"
          sseAborted,   \* sseController was aborted
          wire,         \* the events on the stream
          published,    \* the events pushed
          done          \* `done` is resolved

flagVars   == <<aborted, inputClosed>>
serverVars == <<prompts, serving, turns, foreign>>
childVars  == <<server, signalled, registered>>
sseVars    == <<stream, sseAborted, wire, published>>
vars == <<phase, flagVars, isIdle, recent, teardown, abortRequest, sends, childVars, serverVars,
          sseVars, done>>

None == 0
Sends == 1..Len(sends)

-----------------------------------------------------------------------------

Init ==
    /\ phase = "starting"
    /\ aborted = FALSE
    /\ inputClosed = FALSE
    /\ isIdle = TRUE
    /\ recent = FALSE
    /\ teardown = "none"
    /\ abortRequest = "none"
    /\ sends = <<>>
    /\ server = "running"
    /\ signalled = FALSE
    /\ registered = TRUE
    /\ prompts = 0
    /\ serving = None
    /\ turns = 0
    /\ foreign = 0
    /\ stream = "none"
    /\ sseAborted = FALSE
    /\ wire = <<>>
    /\ published = <<>>
    /\ done = FALSE

-----------------------------------------------------------------------------
(* Opening *)

\* The handle is returned with the SSE request on its way.
Opens == phase' = "open" /\ stream' = "connecting"

\* The server said that it listens, and may be gone by now: the session is
\* created, or resumed without a request.
Listens ==
    /\ phase = "starting"
    /\ \/ Opens
       \/ phase' = "creating" /\ UNCHANGED stream
    /\ UNCHANGED <<flagVars, isIdle, recent, teardown, abortRequest, sends, childVars, serverVars,
                   sseAborted, wire, published, done>>

\* It exits, or closes its stdout, before it listens: unregistered, not killed.
StartFails ==
    /\ phase = "starting"
    /\ phase' = "failed"
    /\ registered' = FALSE
    /\ UNCHANGED <<flagVars, isIdle, recent, teardown, abortRequest, sends, server, signalled,
                   serverVars, sseVars, done>>

Created ==
    /\ phase = "creating"
    /\ Opens
    /\ UNCHANGED <<flagVars, isIdle, recent, teardown, abortRequest, sends, childVars, serverVars,
                   sseAborted, wire, published, done>>

\* POST /session is refused: the server is killed and unregistered.
CreateRefused ==
    /\ phase = "creating"
    /\ phase' = "failed"
    /\ signalled' = TRUE
    /\ registered' = FALSE
    /\ UNCHANGED <<flagVars, isIdle, recent, teardown, abortRequest, sends, server, serverVars,
                   sseVars, done>>

\* The fetch itself fails, or its body is not JSON: neither.
CreateThrows ==
    /\ phase = "creating"
    /\ phase' = "failed"
    /\ UNCHANGED <<flagVars, isIdle, recent, teardown, abortRequest, sends, childVars, serverVars,
                   sseVars, done>>

-----------------------------------------------------------------------------
(* The handle's methods *)

RefusalUnended ==    \* slip: endInput() is not looked at
    IF aborted THEN "aborted" ELSE "none"
Refusal ==
    CASE aborted                    -> "aborted"
      [] ~aborted /\ inputClosed    -> "inputClosed"
      [] ~aborted /\ ~inputClosed   -> "none"

Send ==
    /\ phase = "open"
    /\ Len(sends) < MaxSend
    /\ IF Refusal = "none"
       THEN sends' = Append(sends, "posted") /\ recent' = TRUE
       ELSE sends' = Append(sends, Refusal) /\ UNCHANGED recent
    /\ UNCHANGED <<phase, flagVars, isIdle, teardown, abortRequest, childVars, serverVars, sseVars,
                   done>>

\* 500 ms pass.
SendAges ==
    /\ recent
    /\ recent' = FALSE
    /\ UNCHANGED <<phase, flagVars, isIdle, teardown, abortRequest, sends, childVars, serverVars,
                   sseVars, done>>

\* The loop of waitForIdleAndTeardown(), from its test to the next wait or to
\* its end, which kills the server unless abort() did.
LoopOnce ==          \* slip: `if` for `while`
    /\ teardown' = IF teardown = "none" /\ ~isIdle /\ ~aborted THEN "await" ELSE "over"
    /\ IF (teardown = "none" /\ ~isIdle) \/ aborted THEN UNCHANGED <<sseAborted, signalled>>
       ELSE sseAborted' = TRUE /\ signalled' = TRUE
Loop ==
    \/ ~isIdle /\ ~aborted /\ teardown' = "await" /\ UNCHANGED <<sseAborted, signalled>>
    \/ isIdle /\ ~aborted /\ teardown' = "over" /\ sseAborted' = TRUE /\ signalled' = TRUE
    \/ aborted /\ teardown' = "over" /\ UNCHANGED <<sseAborted, signalled>>

EndInput ==
    /\ phase = "open"
    /\ ~aborted
    /\ ~inputClosed
    /\ inputClosed' = TRUE
    /\ \/ recent /\ teardown' = "window" /\ UNCHANGED <<sseAborted, signalled>>
       \/ ~recent /\ Loop
    /\ UNCHANGED <<phase, aborted, isIdle, recent, abortRequest, sends, server, registered,
                   serverVars, stream, wire, published, done>>

\* The 500 ms timer of the first wait.
WindowEnds ==
    /\ teardown = "window"
    /\ teardown' = "resumed"
    /\ UNCHANGED <<phase, flagVars, isIdle, recent, abortRequest, sends, childVars, serverVars,
                   sseVars, done>>

TeardownResumes ==
    /\ teardown = "resumed"
    /\ Loop
    /\ UNCHANGED <<phase, flagVars, isIdle, recent, abortRequest, sends, server, registered,
                   serverVars, stream, wire, published, done>>

Abort ==
    /\ phase = "open"
    /\ ~aborted
    /\ aborted' = TRUE
    /\ abortRequest' = "pending"
    /\ sseAborted' = TRUE
    /\ signalled' = TRUE
    /\ UNCHANGED <<phase, inputClosed, isIdle, recent, teardown, sends, server, registered,
                   serverVars, stream, wire, published, done>>

\* The abort request is answered, fails, or is given up after 250 ms.
AbortSettles ==
    /\ abortRequest = "pending"
    /\ abortRequest' = "settled"
    /\ UNCHANGED <<phase, flagVars, isIdle, recent, teardown, sends, childVars, serverVars, sseVars,
                   done>>

\* opts.signal: SIGTERM, and nothing of the rest of abort().
SignalFires ==
    /\ ~aborted
    /\ ~done
    /\ aborted' = TRUE
    /\ signalled' = TRUE
    /\ UNCHANGED <<phase, inputClosed, isIdle, recent, teardown, abortRequest, sends, server,
                   registered, serverVars, sseVars, done>>

-----------------------------------------------------------------------------
(* The server *)

Own(t, n) == [session |-> "own", type |-> t, turn |-> n]
Global    == [session |-> "none", type |-> "connected", turn |-> None]
Other(t)  == [session |-> "other", type |-> t, turn |-> None]

Emits(events) == wire' = IF stream = "open" THEN wire \o events ELSE wire

\* A prompt is refused, or joins the active turn, or waits for one of its own.
ServerTakes ==
    /\ server = "running"
    /\ \E s \in Sends :
          /\ sends[s] = "posted"
          /\ \/ sends' = [sends EXCEPT ![s] = "refused"] /\ UNCHANGED prompts
             \/ /\ sends' = [sends EXCEPT ![s] = "taken"]
                /\ \/ prompts' = prompts + 1
                   \/ serving # None /\ UNCHANGED prompts
    /\ UNCHANGED <<phase, flagVars, isIdle, recent, teardown, abortRequest, childVars, serving,
                   turns, foreign, sseVars, done>>

ServerStarts ==
    /\ server = "running"
    /\ serving = None
    /\ prompts > 0
    /\ prompts' = prompts - 1
    /\ serving' = turns + 1
    /\ turns' = turns + 1
    /\ Emits(<<Own("busy", turns + 1)>>)
    /\ UNCHANGED <<phase, flagVars, isIdle, recent, teardown, abortRequest, sends, childVars,
                   foreign, stream, sseAborted, published, done>>

\* The end of a turn is told by either kind of idle event, or by both.
ServerFinishes ==
    /\ server = "running"
    /\ serving # None
    /\ serving' = None
    /\ \E events \in {<<Own("idle", serving)>>, <<Own("sessionIdle", serving)>>,
                      <<Own("idle", serving), Own("sessionIdle", serving)>>} : Emits(events)
    /\ UNCHANGED <<phase, flagVars, isIdle, recent, teardown, abortRequest, sends, childVars,
                   prompts, turns, foreign, stream, sseAborted, published, done>>

\* Bounded to an empty stream: own events may still come behind.
ServerServesOthers ==
    /\ server = "running"
    /\ stream = "open"
    /\ wire = <<>>
    /\ foreign < MaxForeign
    /\ foreign' = foreign + 1
    /\ Emits(<<Other("sessionIdle")>>)
    /\ UNCHANGED <<phase, flagVars, isIdle, recent, teardown, abortRequest, sends, childVars,
                   prompts, serving, turns, stream, sseAborted, published, done>>

Connects ==
    /\ server = "running"
    /\ stream = "connecting"
    /\ ~sseAborted
    /\ stream' = "open"
    /\ wire' = <<Global>>
    /\ UNCHANGED <<phase, flagVars, isIdle, recent, teardown, abortRequest, sends, childVars,
                   serverVars, sseAborted, published, done>>

ServerExits ==
    /\ server = "running"
    /\ server' = "exited"
    /\ UNCHANGED <<phase, flagVars, isIdle, recent, teardown, abortRequest, sends, signalled,
                   registered, serverVars, sseVars, done>>

-----------------------------------------------------------------------------
(* The continuations of send() and the SSE pump *)

\* The response of a POST arrives, or the server is gone.
SendSettles ==
    /\ \E s \in Sends :
          \/ sends[s] = "taken" /\ sends' = [sends EXCEPT ![s] = "accepted"]
          \/ sends[s] = "refused" /\ sends' = [sends EXCEPT ![s] = "undelivered"]
          \/ /\ sends[s] \in {"posted", "taken"}
             /\ server = "exited"
             /\ sends' = [sends EXCEPT ![s] = "undelivered"]
    /\ UNCHANGED <<phase, flagVars, isIdle, recent, teardown, abortRequest, childVars, serverVars,
                   sseVars, done>>

IdleType == {"idle", "sessionIdle"}

Busy(e) == e.session = "own" /\ e.type = "busy"
Idle(e) == e.session = "own" /\ e.type \in IdleType

\* An idle event ends a turn only when the session was busy.
EndsTurnAlways(e) == Idle(e)         \* slip: every idle event does
EndsTurn(e) == Idle(e) /\ ~isIdle

\* The predicate of the waiter resolves it.
Wakes(e) ==
    \/ teardown = "window" /\ (Busy(e) \/ Idle(e))
    \/ teardown = "await" /\ Idle(e)

\* dispatch(): the event unless it is another session's, and behind the end of
\* a turn the synthetic one.
Dispatch ==
    /\ stream = "open"
    /\ wire # <<>>
    /\ LET e == Head(wire) IN
          /\ wire' = Tail(wire)
          /\ isIdle' = ((isIdle \/ EndsTurn(e)) /\ ~Busy(e))
          /\ teardown' = IF Wakes(e) THEN "resumed" ELSE teardown
          /\ published' = published \o (IF e.session # "other" THEN <<e>> ELSE <<>>)
                \o (IF EndsTurn(e) THEN <<Own("turn-end", e.turn)>> ELSE <<>>)
    /\ UNCHANGED <<phase, flagVars, recent, abortRequest, sends, childVars, serverVars, stream,
                   sseAborted, done>>

\* Behind the stream the queue is closed and every waiter resolved.
SseOver ==
    /\ stream \in {"connecting", "open"}
    /\ stream' = "ended"
    /\ wire' = <<>>
    /\ teardown' = IF teardown \in {"window", "await"} THEN "resumed" ELSE teardown
    /\ UNCHANGED <<phase, flagVars, isIdle, recent, abortRequest, sends, childVars, serverVars,
                   sseAborted, published, done>>

\* The pump is aborted, or the server is gone.
SseEnds == (sseAborted \/ server = "exited") /\ SseOver

\* The stream breaks, or the server ends it.
SseDropped == SseDrops /\ server = "running" /\ SseOver

\* What `done` waits for, apart from the output pumps, which end with the server.
FinishedBehind ==    \* slip: the teardown is awaited, too
    server = "exited" /\ stream = "ended" /\ abortRequest # "pending" /\ teardown \in {"none", "over"}
Finished == server = "exited" /\ stream = "ended" /\ abortRequest # "pending"

Done ==
    /\ Finished
    /\ ~done
    /\ done' = TRUE
    /\ registered' = FALSE
    /\ UNCHANGED <<phase, flagVars, isIdle, recent, teardown, abortRequest, sends, server, signalled,
                   serverVars, sseVars>>

-----------------------------------------------------------------------------

Opening == Listens \/ StartFails \/ Created \/ CreateRefused \/ CreateThrows
Handle  == Send \/ SendAges \/ EndInput \/ Abort \/ SignalFires
Server  == ServerTakes \/ ServerStarts \/ ServerFinishes \/ ServerServesOthers \/ Connects
           \/ ServerExits \/ SseDropped
Tasks   == WindowEnds \/ TeardownResumes \/ AbortSettles \/ SendSettles \/ Dispatch \/ SseEnds \/ Done

Next == Opening \/ Handle \/ Server \/ Tasks

Spec == Init /\ [][Next]_vars

\* The event loop runs what can run, the server ends the turns it serves and
\* dies of SIGTERM.
FairSpec ==
    /\ Spec
    /\ WF_vars(Tasks)
    /\ WF_vars(ServerFinishes)
    /\ WF_vars(ServerExits /\ signalled)

-----------------------------------------------------------------------------
(* Properties *)

Turns == 1..MaxSend
EventSet == {Global} \cup {Other("sessionIdle")}
            \cup {Own(t, n) : t \in {"busy", "turn-end"} \cup IdleType, n \in Turns}

TypeOK ==
    /\ phase \in {"starting", "creating", "open", "failed"}
    /\ {aborted, inputClosed, isIdle, recent, signalled, registered, sseAborted, done} \subseteq BOOLEAN
    /\ teardown \in {"none", "window", "await", "resumed", "over"}
    /\ abortRequest \in {"none", "pending", "settled"}
    /\ sends \in Seq({"posted", "taken", "refused", "accepted", "undelivered", "aborted", "inputClosed"})
    /\ server \in {"running", "exited"}
    /\ prompts \in Nat
    /\ {serving, turns} \subseteq {None} \cup Turns
    /\ foreign \in 0..MaxForeign
    /\ stream \in {"none", "connecting", "open", "ended"}
    /\ wire \in Seq(EventSet)
    /\ published \in Seq(EventSet)

\* A running server is registered until the opening has failed (session.ts:230,
\* 339, 355, 361, 621).
Tracked == server = "running" /\ ~registered => phase = "failed"

\* The teardown's second wait is never left alone with an idle session: no idle
\* event slips past the waiter, however the continuation is delayed (session.ts:
\* 548-556).
NoMissedIdle == teardown = "await" => ~isIdle

\* A turn-end stands exactly behind the idle event that ends a busy spell:
\* neither initial idles nor the second idle event of a turn yield one
\* (session.ts:384-402, 417-432).
OwnType(i) == IF published[i].session = "own" THEN published[i].type ELSE "none"

EndsSpell(i) ==
    /\ OwnType(i) \in IdleType
    /\ \E j \in 1..(i - 1) :
          /\ OwnType(j) = "busy"
          /\ \A k \in (j + 1)..(i - 1) : OwnType(k) \notin IdleType

TurnEndPerSpell ==
    \A i \in 1..Len(published) :
        EndsSpell(i) <=> i < Len(published) /\ OwnType(i + 1) = "turn-end"

\* The type invariant with the registration, the teardown's wait and the turn-ends
\* (opencode/session.ts:230-361, 384-432, 548-556).
SessionInv == TypeOK /\ Tracked /\ NoMissedIdle /\ TurnEndPerSpell

\* endInput() kills no session that is busy as far as the stream has told,
\* even when it became busy again behind the idle event that woke the teardown
\* (session.ts:548-560).
TeardownSparesBusy ==
    [][teardown' = "over" /\ ~aborted /\ signalled' # signalled => isIdle]_vars

\* The session keeps the contract every RuntimeSession has.
Outcome(s) == IF sends[s] \in {"posted", "taken", "refused"} THEN "pending" ELSE sends[s]

Kind(i) ==
    CASE OwnType(i) = "turn-end" -> "turn-end"
      [] i < Len(published) /\ OwnType(i + 1) = "turn-end" -> "over"
      [] OTHER -> "note"

Contract == INSTANCE SessionContract WITH
    NativeEvent <- {"note"},
    TurnOver    <- "over",
    TurnEnd     <- "turn-end",
    phase       <- IF aborted THEN "aborted" ELSE IF inputClosed THEN "ended" ELSE "open",
    outcomes    <- [s \in Sends |-> Outcome(s)],
    published   <- [i \in 1..Len(published) |-> Kind(i)],
    completed   <- stream = "ended",
    resolved    <- done

\* Sends, events, endInput, abort and done behave as runtime/session-types.ts
\* promises of every adapter.
ImplementsContract == Contract!Spec

\* endInput() ends the session: the background task SIGTERMs the server, and
\* `done` shows it (session.ts:169-171).
EndInputResolvesDone == inputClosed ~> done

\* Once the server of an opened session is gone `done` resolves
\* (session-types.ts:289-290), and only the loss of the stream while the session
\* is busy can keep endInput() from ending it (session.ts:443-482, 536-561).
StreamLost == stream = "ended" /\ server = "running" /\ ~isIdle
DoneResolves ==
    /\ phase = "open" /\ server = "exited" ~> done
    /\ inputClosed ~> done \/ StreamLost

\* endInput() is graceful: the server is not killed with a prompt unserved
\* (session.ts:138-139, 169-171).
EndInputServesAll ==
    [][teardown' = "over" /\ ~aborted /\ signalled' # signalled =>
          serving = None /\ prompts = 0]_vars

\* One turn-end for every turn the server served (session-types.ts:285-288).
TurnEndPerTurn ==
    stream = "open" /\ wire = <<>> /\ serving = None =>
        \A n \in 1..turns : \E i \in 1..Len(published) : published[i] = Own("turn-end", n)

\* Only events of the session are pushed (session.ts:159-161).
OnlySessionEvents == \A i \in 1..Len(published) : published[i].session = "own"

\* An aborted session asks the server to abort, whoever aborted it
\* (session.ts:88-89).
AbortIsPosted == phase = "open" /\ aborted => abortRequest # "none"

=============================================================================
