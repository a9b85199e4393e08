---------------------------- MODULE ClaudeSession ----------------------------
(***************************************************************************)
(* openClaudeSession (claude/session.ts) and the adapter around it         *)
(* (runtime/session-adapter.ts): one `claude` subprocess for the session,  *)
(* send() writes to its stdin, a pump copies its stdout to the event queue *)
(* and to onEvent, and `done` waits for the subprocess and both pumps.     *)
(*                                                                         *)
(* A message is the number of its send().  A write to stdin resolves when  *)
(* the pipe took it.  The adapter adds the turn-end behind each native     *)
(* `result` twice: in the generator the consumer pulls from, and in the    *)
(* callback the pump calls.                                                *)
(*                                                                         *)
(* The CLI is external: it reads its stdin in order, writes `init` once,   *)
(* answers each message with one `result`, and exits by itself when stdin  *)
(* is at its end and everything read is answered.  It may die at any time. *)
(* A helper process it started may hold stdout and stderr beyond its exit. *)
(***************************************************************************)
EXTENDS Naturals, Sequences, FiniteSets, SequencesExt

CONSTANTS MaxSend,   \* bound on send()
          MaxText,   \* bound on the lines that are neither init nor result
          Room,      \* messages the stdin pipe holds
          McpServers \* opts.mcpServers is given

ASSUME SessionAssumption ==
    /\ MaxSend \in Nat
    /\ MaxText \in Nat
    /\ Room \in Nat \ {0}
    /\ McpServers \in BOOLEAN

VARIABLES handle,       \* of openClaudeSession(): "preparing", "open", "failed"
          signal,       \* opts.signal is aborted
          listening,    \* onExternalAbort is attached to it
          registered,   \* the process registry knows the subprocess
          mcpFile,      \* the rendered MCP configuration exists
          stdinClosed, aborted,
          inputEnded,   \* history: endInput() was called
          sends,        \* what became of each send(), with inputEnded at the call
          writing,      \* messages stdinWriter has not handed to the pipe
          writer,       \* stdinWriter: "open", "closing", "closed", "errored"
          pipe,         \* messages in the stdin pipe
          child,        \* "running", "finished" by end of input, "dead"
          killed,       \* it was sent SIGTERM
          helper,       \* a helper holds stdout and stderr
          inbox,        \* the messages the CLI read
          served,       \* how many of them it answered
          texts,        \* how many text lines it wrote
          greeted,      \* it wrote `init`
          wire,         \* stdout lines the pump has not read
          stdoutPump, stderrPump,  \* "running", "ended"
          sessionId,    \* currentSessionId is known
          pushed, queueClosed,     \* the event queue, whole
          taken,        \* how many of its events the generator took
          gen,          \* mapEvents(): "native", "owes" a turn-end, "ended", "left"
          delivered,    \* what the consumer received
          heard,        \* what onEvent received
          done          \* "waiting", "closing", "reaping", "resolved"

openVars   == <<handle, signal, listening, registered, mcpFile>>
flagVars   == <<stdinClosed, aborted, inputEnded>>
stdinVars  == <<sends, writing, writer, pipe>>
cliVars    == <<inbox, served, texts, greeted>>
procVars   == <<child, killed, helper>>
stdoutVars == <<wire, stdoutPump, stderrPump>>
queueVars  == <<sessionId, pushed, queueClosed, heard>>
readerVars == <<taken, gen, delivered>>
vars == <<openVars, flagVars, stdinVars, cliVars, procVars, stdoutVars, queueVars,
          readerVars, done>>

Sends == 1..Len(sends)

-----------------------------------------------------------------------------

Init ==
    /\ handle = "preparing"
    /\ signal \in BOOLEAN
    /\ listening = FALSE
    /\ registered = FALSE
    /\ mcpFile = McpServers
    /\ stdinClosed = FALSE
    /\ aborted = FALSE
    /\ inputEnded = FALSE
    /\ sends = <<>>
    /\ writing = <<>>
    /\ writer = "open"
    /\ pipe = <<>>
    /\ child = "none"
    /\ killed = FALSE
    /\ helper = FALSE
    /\ inbox = <<>>
    /\ served = 0
    /\ texts = 0
    /\ greeted = FALSE
    /\ wire = <<>>
    /\ stdoutPump = "running"
    /\ stderrPump = "running"
    /\ sessionId = FALSE
    /\ pushed = <<>>
    /\ queueClosed = FALSE
    /\ taken = 0
    /\ gen = "native"
    /\ delivered = <<>>
    /\ heard = <<>>
    /\ done = "waiting"

-----------------------------------------------------------------------------
(* Opening *)

\* The subprocess is spawned and registered; a signal that is already aborted
\* kills it at once, another one is listened to.
Spawns ==
    /\ handle = "preparing"
    /\ handle' = "open"
    /\ child' = "running"
    /\ registered' = TRUE
    /\ listening' = ~signal
    /\ aborted' = signal
    /\ killed' = signal
    /\ UNCHANGED <<signal, mcpFile, stdinClosed, inputEnded, stdinVars, cliVars, helper,
                   stdoutVars, queueVars, readerVars, done>>

\* spawn() throws out of openClaudeSession().
SpawnFails ==
    /\ handle = "preparing"
    /\ handle' = "failed"
    /\ UNCHANGED <<signal, listening, registered, mcpFile, flagVars, stdinVars, cliVars,
                   procVars, stdoutVars, queueVars, readerVars, done>>

-----------------------------------------------------------------------------
(* The handle's methods *)

\* What becomes of a send() at the call.
Refusal ==
    IF aborted THEN "aborted"
    ELSE IF stdinClosed THEN "inputClosed"
    ELSE IF writer = "errored" THEN "undelivered"
    ELSE "pending"

Send ==
    /\ handle = "open"
    /\ Len(sends) < MaxSend
    /\ sends' = Append(sends, [outcome |-> Refusal, ended |-> inputEnded])
    /\ writing' = IF Refusal = "pending" THEN Append(writing, Len(sends) + 1) ELSE writing
    /\ UNCHANGED <<openVars, flagVars, writer, pipe, cliVars, procVars, stdoutVars, queueVars,
                   readerVars, done>>

ForceCloseStdinFlag ==    \* slip: the flag is set and the stream left open
    /\ stdinClosed' = TRUE
    /\ UNCHANGED writer

\* forceCloseStdin() up to its await: the close waits behind the writes.  Of an
\* errored writer the close is rejected and abort() does nothing.
ForceCloseStdin ==
    /\ stdinClosed' = TRUE
    /\ writer' = IF ~stdinClosed /\ writer = "open" THEN "closing" ELSE writer

EndInput ==
    /\ handle = "open"
    /\ ~inputEnded
    /\ inputEnded' = TRUE
    /\ ForceCloseStdin
    /\ UNCHANGED <<openVars, aborted, sends, writing, pipe, cliVars, procVars, stdoutVars,
                   queueVars, readerVars, done>>

\* doKill(): SIGTERM, when there is somebody to signal.
Kill == killed' = (killed \/ child = "running")

Abort ==
    /\ handle = "open"
    /\ ~aborted
    /\ aborted' = TRUE
    /\ ForceCloseStdin
    /\ Kill
    /\ UNCHANGED <<openVars, inputEnded, sends, writing, pipe, cliVars, child, helper,
                   stdoutVars, queueVars, readerVars, done>>

\* opts.signal fires: onExternalAbort() leaves stdin open.
SignalFires ==
    /\ ~signal
    /\ signal' = TRUE
    /\ listening' = FALSE
    /\ IF listening THEN aborted' = TRUE /\ Kill ELSE UNCHANGED <<aborted, killed>>
    /\ UNCHANGED <<handle, registered, mcpFile, stdinClosed, inputEnded, stdinVars, cliVars,
                   child, helper, stdoutVars, queueVars, readerVars, done>>

-----------------------------------------------------------------------------
(* The stdin pipe *)

Settled(S, o) ==
    [s \in Sends |-> IF s \in S THEN [sends[s] EXCEPT !.outcome = o] ELSE sends[s]]

Writing == {writing[i] : i \in 1..Len(writing)}

WriteLands ==
    /\ writing # <<>>
    /\ child = "running"
    /\ Len(pipe) < Room
    /\ pipe' = Append(pipe, Head(writing))
    /\ writing' = Tail(writing)
    /\ sends' = Settled({Head(writing)}, "accepted")
    /\ UNCHANGED <<openVars, flagVars, writer, cliVars, procVars, stdoutVars, queueVars,
                   readerVars, done>>

\* Nobody reads the pipe any more: the stream errors and rejects every write.
WriteFails ==
    /\ writing # <<>>
    /\ child \in {"finished", "dead"}
    /\ writing' = <<>>
    /\ writer' = "errored"
    /\ sends' = Settled(Writing, "undelivered")
    /\ UNCHANGED <<openVars, flagVars, pipe, cliVars, procVars, stdoutVars, queueVars,
                   readerVars, done>>

\* The close follows the writes.
WriterCloses ==
    /\ writer = "closing"
    /\ writing = <<>>
    /\ writer' = "closed"
    /\ UNCHANGED <<openVars, flagVars, sends, writing, pipe, cliVars, procVars, stdoutVars,
                   queueVars, readerVars, done>>

-----------------------------------------------------------------------------
(* The CLI *)

Line(k) == [kind |-> k, partial |-> FALSE]

CliReads ==
    /\ child = "running"
    /\ pipe # <<>>
    /\ inbox' = Append(inbox, Head(pipe))
    /\ pipe' = Tail(pipe)
    /\ UNCHANGED <<openVars, flagVars, sends, writing, writer, served, texts, greeted, procVars,
                   stdoutVars, queueVars, readerVars, done>>

CliSpeaks ==
    /\ child = "running"
    /\ \/ ~greeted /\ greeted' = TRUE /\ wire' = Append(wire, Line("init"))
          /\ UNCHANGED <<served, texts>>
       \/ greeted /\ texts < MaxText /\ texts' = texts + 1 /\ wire' = Append(wire, Line("text"))
          /\ UNCHANGED <<served, greeted>>
       \/ greeted /\ served < Len(inbox) /\ served' = served + 1
          /\ wire' = Append(wire, Line("result"))
          /\ UNCHANGED <<texts, greeted>>
    /\ UNCHANGED <<openVars, flagVars, stdinVars, inbox, procVars, stdoutPump, stderrPump,
                   queueVars, readerVars, done>>

HelperStarts ==
    /\ child = "running"
    /\ ~helper
    /\ inbox # <<>>
    /\ helper' = TRUE
    /\ UNCHANGED <<openVars, flagVars, stdinVars, cliVars, child, killed, stdoutVars, queueVars,
                   readerVars, done>>

HelperExits ==
    /\ helper
    /\ helper' = FALSE
    /\ UNCHANGED <<openVars, flagVars, stdinVars, cliVars, child, killed, stdoutVars, queueVars,
                   readerVars, done>>

\* The last line may come without its newline; one cut short by the death of
\* the CLI is not JSON.
Unterminated(k) ==
    [wire EXCEPT ![Len(wire)] = [kind |-> k, partial |-> TRUE]]

CliExits ==
    /\ child = "running"
    /\ \/ /\ writer = "closed" /\ pipe = <<>> /\ served = Len(inbox)
          /\ child' = "finished"
          /\ wire' \in {wire} \cup IF wire = <<>> THEN {} ELSE {Unterminated(wire[Len(wire)].kind)}
       \/ /\ child' = "dead"
          /\ wire' \in {wire} \cup IF wire = <<>> THEN {} ELSE {Unterminated("cut")}
    /\ UNCHANGED <<openVars, flagVars, stdinVars, cliVars, killed, helper, stdoutPump,
                   stderrPump, queueVars, readerVars, done>>

-----------------------------------------------------------------------------
(* The pumps *)

\* Nobody can write to stdout or stderr any more.
Eof == child \in {"finished", "dead"} /\ ~helper

ReadyTerminated == wire # <<>> /\ ~Head(wire).partial    \* slip: the rest is forgotten

\* A line that ends, or the rest of the buffer behind the end of the stream.
Ready == wire # <<>> /\ (Head(wire).partial => Eof)

\* Every result with the turn-end behind it.
Twin(e) == IF e = "result" THEN <<e, "turn-end">> ELSE <<e>>
Twinned(events) ==
    LET upto[n \in 0..Len(events)] == IF n = 0 THEN <<>> ELSE upto[n - 1] \o Twin(events[n])
    IN  upto[Len(events)]

\* adaptEventCallback(): a throw on the native event skips the synthetic one.
Heard(e) ==
    {heard \o Twin(e)} \cup IF e = "result" THEN {Append(heard, e)} ELSE {}

\* One line: a line that is no JSON is skipped, an event is pushed, unless the
\* consumer closed the queue, and reported.
StdoutPump ==
    /\ stdoutPump = "running"
    /\ Ready
    /\ wire' = Tail(wire)
    /\ LET e == Head(wire).kind IN
          IF e = "cut" THEN UNCHANGED queueVars
          ELSE /\ sessionId' = TRUE
               /\ pushed' = IF queueClosed THEN pushed ELSE Append(pushed, e)
               /\ heard' \in Heard(e)
               /\ UNCHANGED queueClosed
    /\ UNCHANGED <<openVars, flagVars, stdinVars, cliVars, procVars, stdoutPump, stderrPump,
                   readerVars, done>>

StdoutEnds ==
    /\ stdoutPump = "running"
    /\ Eof
    /\ ~Ready
    /\ stdoutPump' = "ended"
    /\ queueClosed' = TRUE
    /\ UNCHANGED <<openVars, flagVars, stdinVars, cliVars, procVars, wire, stderrPump,
                   sessionId, pushed, heard, readerVars, done>>

StderrEnds ==
    /\ stderrPump = "running"
    /\ Eof
    /\ stderrPump' = "ended"
    /\ UNCHANGED <<openVars, flagVars, stdinVars, cliVars, procVars, wire, stdoutPump,
                   queueVars, readerVars, done>>

-----------------------------------------------------------------------------
(* The consumer of the adapted `events` *)

\* mapEvents() yields the turn-end it owes, or the next event of the queue.
Takes ==
    \/ /\ gen = "owes"
       /\ delivered' = Append(delivered, "turn-end")
       /\ gen' = "native"
       /\ UNCHANGED taken
    \/ /\ gen = "native"
       /\ taken < Len(pushed)
       /\ delivered' = Append(delivered, pushed[taken + 1])
       /\ taken' = taken + 1
       /\ gen' = IF pushed[taken + 1] = "result" THEN "owes" ELSE "native"
    \/ /\ gen = "native"
       /\ taken = Len(pushed)
       /\ queueClosed
       /\ gen' = "ended"
       /\ UNCHANGED <<taken, delivered>>

ConsumerTakes ==
    /\ Takes
    /\ UNCHANGED <<openVars, flagVars, stdinVars, cliVars, procVars, stdoutVars, queueVars, done>>

\* A `break` at a yield: the generator's return() reaches the queue's.
ConsumerLeaves ==
    /\ delivered # <<>>
    /\ gen \in {"native", "owes"}
    /\ gen' = "left"
    /\ queueClosed' = TRUE
    /\ UNCHANGED <<openVars, flagVars, stdinVars, cliVars, procVars, stdoutVars, sessionId,
                   pushed, heard, taken, delivered, done>>

-----------------------------------------------------------------------------
(* The end *)

\* The finally of `done` up to the removal of the MCP file.
Finally ==
    /\ listening' = FALSE
    /\ registered' = FALSE
    /\ done' = "reaping"

\* Promise.all: the exit and both pumps.
EndedByExit == child \in {"finished", "dead"}    \* slip: the pumps are not awaited
Ended == child \in {"finished", "dead"} /\ stdoutPump = "ended" /\ stderrPump = "ended"

DoneProceeds ==
    /\ \/ /\ done = "waiting"
          /\ Ended
          /\ ForceCloseStdin
          /\ IF stdinClosed THEN Finally
             ELSE done' = "closing" /\ UNCHANGED <<listening, registered>>
       \/ /\ done = "closing"
          /\ writer \in {"closed", "errored"}
          /\ Finally
          /\ UNCHANGED <<stdinClosed, writer>>
    /\ UNCHANGED <<handle, signal, mcpFile, aborted, inputEnded, sends, writing, pipe, cliVars,
                   procVars, stdoutVars, queueVars, readerVars>>

DoneResolves ==
    /\ done = "reaping"
    /\ mcpFile' = FALSE
    /\ done' = "resolved"
    /\ UNCHANGED <<handle, signal, listening, registered, flagVars, stdinVars, cliVars,
                   procVars, stdoutVars, queueVars, readerVars>>

-----------------------------------------------------------------------------

Handle   == Spawns \/ SpawnFails \/ Send \/ EndInput \/ Abort \/ SignalFires
Cli      == CliReads \/ CliSpeaks \/ HelperStarts \/ HelperExits \/ CliExits
Consumer == ConsumerTakes \/ ConsumerLeaves
Stdin    == WriteLands \/ WriteFails \/ WriterCloses
Tasks    == StdoutPump \/ StdoutEnds \/ StderrEnds \/ DoneProceeds \/ DoneResolves

Next == Handle \/ Cli \/ Consumer \/ Stdin \/ Tasks

Spec == Init /\ [][Next]_vars

\* The event loop runs what can run and pipes carry what they can.  Nothing is
\* assumed of the consumer, of the CLI, of its helpers, or of the effect of
\* SIGTERM.
FairSpec == Spec /\ WF_vars(Tasks) /\ WF_vars(Stdin)

-----------------------------------------------------------------------------
(* Properties *)

Native == {"init", "text", "result"}
Outcome == {"pending", "accepted", "undelivered", "aborted", "inputClosed"}
Gone == child \in {"finished", "dead"}

TypeOK ==
    /\ handle \in {"preparing", "open", "failed"}
    /\ {signal, listening, registered, mcpFile, stdinClosed, aborted, inputEnded, killed, helper,
        greeted, sessionId, queueClosed} \subseteq BOOLEAN
    /\ sends \in Seq([outcome : Outcome, ended : BOOLEAN])
    /\ writer \in {"open", "closing", "closed", "errored"}
    /\ writing \in Seq(Sends) /\ pipe \in Seq(Sends) /\ inbox \in Seq(Sends)
    /\ child \in {"none", "running", "finished", "dead"}
    /\ served \in 0..Len(inbox) /\ texts \in 0..MaxText
    /\ wire \in Seq([kind : Native \cup {"cut"}, partial : BOOLEAN])
    /\ {stdoutPump, stderrPump} \subseteq {"running", "ended"}
    /\ pushed \in Seq(Native)
    /\ taken \in 0..Len(pushed)
    /\ gen \in {"native", "owes", "ended", "left"}
    /\ delivered \in Seq(Native \cup {"turn-end"}) /\ heard \in Seq(Native \cup {"turn-end"})
    /\ done \in {"waiting", "closing", "reaping", "resolved"}

\* The messages that were handed to the stream, in the order of the calls,
\* are read, in the pipe or still to be written, and the outcome of each
\* send() says which: accepted once it is in the pipe, pending before.
InOrder ==
    LET given == inbox \o pipe \o writing IN
    /\ \A i, j \in 1..Len(given) : i < j => given[i] < given[j]
    /\ \A s \in Sends :
          /\ sends[s].outcome = "accepted" <=> s \in ToSet(inbox \o pipe)
          /\ sends[s].outcome = "pending" <=> s \in ToSet(writing)

\* Whoever kills the parent's children finds the subprocess, and an aborted
\* session's subprocess was sent SIGTERM.
Watched == child = "running" => registered /\ (aborted => killed)

\* Behind `done` nothing is left of the session.
Cleaned ==
    done = "resolved" => Gone /\ ~registered /\ ~listening /\ ~mcpFile /\ queueClosed

\* The consumer receives the pushed events in order with one turn-end right
\* behind each result, and `events` ends only after all of them
\* (runtime/session-adapter.ts:79-92).
YieldedInOrder ==
    /\ gen \in {"native", "ended"} => delivered = Twinned(SubSeq(pushed, 1, taken))
    /\ gen = "owes" => Append(delivered, "turn-end") = Twinned(SubSeq(pushed, 1, taken))
    /\ gen = "ended" => taken = Len(pushed)

\* When the CLI came to the end of its input, every accepted send() has its
\* result among the events, even one whose newline was lost, unless the
\* consumer left (claude/session.ts:181-187, 381-394).
AcceptedAreAnswered ==
    child = "finished" /\ stdoutPump = "ended" /\ gen # "left" =>
        Cardinality({i \in DOMAIN pushed : pushed[i] = "result"}) =
            Cardinality({s \in Sends : sends[s].outcome = "accepted"})

\* No accepted message is without its result, and no result without its turn-end,
\* from the CLI's stdout to the caller (claude/session.ts:356-400,
\* runtime/session-adapter.ts:79-115).
EventsDelivered == AcceptedAreAnswered /\ YieldedInOrder

\* The type invariant; every message handed to stdin is in exactly one place
\* and in order; the subprocess is registered as long as it runs; nothing is
\* left behind `done`; and nothing accepted is lost on the way to the caller
\* (claude/session.ts:339-495, runtime/session-adapter.ts:79-115).
SessionInv == TypeOK /\ InOrder /\ Watched /\ Cleaned /\ EventsDelivered

\* The session keeps the contract of every RuntimeSession.  `ended` is taken
\* from stdinClosed, which `done` sets too.
Contract == INSTANCE SessionContract WITH
    NativeEvent <- {"init", "text"},
    TurnOver    <- "result",
    TurnEnd     <- "turn-end",
    phase       <- IF aborted THEN "aborted" ELSE IF stdinClosed THEN "ended" ELSE "open",
    outcomes    <- [s \in Sends |-> sends[s].outcome],
    published   <- Twinned(pushed),
    completed   <- queueClosed,
    resolved    <- done = "resolved"

\* Sends, events, endInput, abort and done behave as runtime/session-types.ts
\* promises of every adapter.
ImplementsContract == Contract!Spec

\* Once the subprocess is gone and nobody holds its pipes, every send() is
\* settled and `done` resolves (runtime/session-types.ts:289-290).
ExitResolvesDone ==
    Gone /\ ~helper ~> done = "resolved" /\ \A s \in Sends : sends[s].outcome # "pending"

\* `done` resolves when the subprocess exits (claude/session.ts:193).
ExitAloneResolvesDone == Gone ~> done = "resolved"

\* send() fails as input-closed only behind endInput()
\* (runtime/session-types.ts:269).
InputClosedByCaller == \A s \in Sends : sends[s].outcome = "inputClosed" => sends[s].ended

\* onEvent hears a turn-end behind each result (runtime/session-adapter.ts:140-143).
TurnEndHeard ==
    Len(SelectSeq(heard, LAMBDA e : e = "result")) =
        Len(SelectSeq(heard, LAMBDA e : e = "turn-end"))

\* The MCP configuration does not outlive the call that rendered it, whichever
\* way it ended (claude/mcp.ts:8-10).
FailedOpenLeavesNoFile == handle = "failed" => ~mcpFile

=============================================================================
