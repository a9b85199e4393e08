--------------------------- MODULE CodexAppServer ---------------------------
(***************************************************************************)
(* CodexAppServerClient (codex/app-server.ts), the JSON-RPC client of      *)
(* `codex app-server`: requests numbered from 1 and kept in `pending`, a   *)
(* writer that queues their lines, a pump that reads the child's stdout    *)
(* line by line, and the `done` task that waits for the exit and the pump, *)
(* closes stdin, rejects what is still pending and closes the              *)
(* notifications.  Lines are only what handleLine tells apart.             *)
(*                                                                         *)
(* The child is external: it may answer what it was sent in any order,     *)
(* send notifications, requests of its own and lines that are no message,  *)
(* and exit at any point with or without a SIGTERM.                        *)
(***************************************************************************)
EXTENDS Naturals, Sequences, FiniteSets

CONSTANTS ServerId,    \* the ids of the requests the server itself makes
          Junk,        \* the other lines it writes: "garbage", "null"
          MaxRequest,  \* bound on request()
          MaxLine      \* bound on the lines the child writes

ASSUME CodexAssumption ==
    /\ ServerId \subseteq Nat
    /\ Junk \subseteq {"garbage", "null"}
    /\ MaxRequest \in Nat
    /\ MaxLine \in Nat

VARIABLES subprocess,   \* "running", "exited"
          writing,      \* the lines the stdin writer holds, by request id
          held,         \* the requests in the pipe or in the server
          sent,         \* every line the child wrote to stdout
          read,         \* how many of them the pump has handled
          pump,         \* pumpStdout(): "reading", "ended"
          answer,       \* answer[id]: the promise of the id-th request()
          pending,      \* the map of that name
          notes,        \* the notifications pushed, as indices of `sent`
          feed,         \* notificationQueue: "open", "left", "closed"
          stdinClosed, aborted,
          finalizer     \* the task behind `done`

childVars  == <<subprocess, held, sent>>
pumpVars   == <<read, pump, notes, feed>>
stopVars   == <<stdinClosed, aborted, finalizer>>
callVars   == <<answer, pending>>
clientVars == <<childVars, writing, pumpVars, callVars, stopVars>>

Outcome  == {"result", "error"}
Response == [kind : {"response"}, id : 1..MaxRequest, outcome : Outcome]
Ask      == [kind : {"ask"}, id : ServerId]
Note     == [kind : {"note"}]
Odd      == [kind : Junk]
Line     == Response \cup Ask \cup Note \cup Odd

Requests  == 1..Len(answer)
Notification == 0   \* the `writing` entry of a notify(), which has no id

-----------------------------------------------------------------------------

ClientInit ==
    /\ subprocess = "running"
    /\ writing = <<>>
    /\ held = {}
    /\ sent = <<>>
    /\ read = 0
    /\ pump = "reading"
    /\ answer = <<>>
    /\ pending = {}
    /\ notes = <<>>
    /\ feed = "open"
    /\ stdinClosed = FALSE
    /\ aborted = FALSE
    /\ finalizer = "waiting"

\* A promise settles once; a second resolve or reject is a no-op.
Settle(S, a) ==
    answer' = [id \in Requests |->
                  IF id \in S /\ answer[id] = "waiting" THEN a ELSE answer[id]]

-----------------------------------------------------------------------------
(* Calls of the embedder *)

\* request(): refused once aborted or closed, else registered and written.
Request ==
    /\ Len(answer) < MaxRequest
    /\ ~aborted
    /\ ~stdinClosed
    /\ answer' = Append(answer, "waiting")
    /\ pending' = pending \cup {Len(answer) + 1}
    /\ writing' = Append(writing, Len(answer) + 1)
    /\ UNCHANGED <<childVars, pumpVars, stopVars>>

\* notify(): a line without an id, one at a time.
Notify ==
    /\ ~aborted
    /\ ~stdinClosed
    /\ \A i \in 1..Len(writing) : writing[i] # Notification
    /\ writing' = Append(writing, Notification)
    /\ UNCHANGED <<childVars, pumpVars, callVars, stopVars>>

\* closeStdin() and close(): the writer ends after the lines it holds.
CloseStdin ==
    /\ ~stdinClosed
    /\ stdinClosed' = TRUE
    /\ UNCHANGED <<childVars, writing, pumpVars, callVars, aborted, finalizer>>

\* abort(), by a call or the external signal: stdin is closed and SIGTERM
\* sent, which the child may obey (ChildExits) or not.
Abort ==
    /\ ~aborted
    /\ aborted' = TRUE
    /\ stdinClosed' = TRUE
    /\ UNCHANGED <<childVars, writing, pumpVars, callVars, finalizer>>

\* The consumer of `notifications` breaks out of its loop.
ConsumerLeaves ==
    /\ feed = "open"
    /\ feed' = "left"
    /\ UNCHANGED <<childVars, writing, read, pump, notes, callVars, stopVars>>

-----------------------------------------------------------------------------
(* The writer and the child *)

\* The oldest line goes into the pipe.
Flush ==
    /\ subprocess = "running"
    /\ writing # <<>>
    /\ held' = held \cup ({Head(writing)} \ {Notification})
    /\ writing' = Tail(writing)
    /\ UNCHANGED <<subprocess, sent, pumpVars, callVars, stopVars>>

\* The pipe is broken: every line in the writer fails, and the catch of its
\* request() removes and rejects it.
Unwritten == {writing[i] : i \in 1..Len(writing)} \ {Notification}

WriteFails ==
    /\ subprocess = "exited"
    /\ writing # <<>>
    /\ writing' = <<>>
    /\ Settle(Unwritten, "rejected")
    /\ pending' = pending \ Unwritten
    /\ UNCHANGED <<childVars, pumpVars, stopVars>>

ChildWrites(line) ==
    /\ subprocess = "running"
    /\ Len(sent) < MaxLine
    /\ sent' = Append(sent, line)
    /\ UNCHANGED <<subprocess, writing, pumpVars, callVars, stopVars>>

ChildAnswers ==
    \E id \in held, outcome \in Outcome :
        /\ ChildWrites([kind |-> "response", id |-> id, outcome |-> outcome])
        /\ held' = held \ {id}

ChildSpeaks ==
    /\ \E line \in Ask \cup Note \cup Odd : ChildWrites(line)
    /\ UNCHANGED held

ChildExits ==
    /\ subprocess = "running"
    /\ subprocess' = "exited"
    /\ UNCHANGED <<held, sent, writing, pumpVars, callVars, stopVars>>

-----------------------------------------------------------------------------
(* pumpStdout() and handleLine() *)

\* What resolves the promise: the outcome of a response; a message with an
\* id and neither `result` nor `error` resolves it with undefined.
Carried(line) == IF line.kind = "response" THEN line.outcome ELSE "undefined"

HasId(line) == line.kind \in {"response", "ask"}

HandleIdOldest(line) ==  \* slip: responses are matched in request order
    /\ HasId(line)
    /\ LET oldest == {id \in pending : \A other \in pending : id <= other} IN
       /\ Settle(oldest, Carried(line))
       /\ pending' = pending \ oldest
    /\ UNCHANGED <<pump, notes>>

\* A numeric id: the pending request of that id, if any, is settled.
HandleId(line) ==
    /\ HasId(line)
    /\ Settle({line.id} \cap pending, Carried(line))
    /\ pending' = pending \ {line.id}
    /\ UNCHANGED <<pump, notes>>

HandleNoteInFront(line) ==  \* slip: the newest notification comes first
    /\ line.kind = "note"
    /\ notes' = IF feed = "open" THEN <<read + 1>> \o notes ELSE notes
    /\ UNCHANGED <<pump, callVars>>

\* No id but a method: a notification, unless the queue was closed.
HandleNote(line) ==
    /\ line.kind = "note"
    /\ notes' = IF feed = "open" THEN Append(notes, read + 1) ELSE notes
    /\ UNCHANGED <<pump, callVars>>

\* A line that is no JSON is skipped.  `null` is JSON: reading its `id`
\* throws out of handleLine and ends the pump.
HandleJunk(line) ==
    /\ line.kind \in Junk
    /\ pump' = IF line.kind = "null" THEN "ended" ELSE pump
    /\ UNCHANGED <<notes, callVars>>

ReadLine ==
    /\ pump = "reading"
    /\ read < Len(sent)
    /\ read' = read + 1
    /\ LET line == sent[read + 1] IN
       HandleId(line) \/ HandleNote(line) \/ HandleJunk(line)
    /\ UNCHANGED <<childVars, writing, feed, stopVars>>

\* The reader is done when the child has exited and the pipe is empty.
PumpEnds ==
    /\ pump = "reading"
    /\ subprocess = "exited"
    /\ read = Len(sent)
    /\ pump' = "ended"
    /\ UNCHANGED <<childVars, writing, read, notes, feed, callVars, stopVars>>

-----------------------------------------------------------------------------
(* The task behind `done` *)

\* Promise.all of the exit status and the pumps.
ExitSeen == subprocess = "exited" /\ pump = "ended"

\* forceCloseStdin(): a first close waits for the writer, a second does not.
Finalize ==
    /\ finalizer = "waiting"
    /\ ExitSeen
    /\ finalizer' = IF stdinClosed THEN "rejecting" ELSE "closing"
    /\ stdinClosed' = TRUE
    /\ UNCHANGED <<childVars, writing, pumpVars, callVars, aborted>>

WriterClosesNever == FALSE  \* slip: close() of a broken writer is not caught

WriterCloses ==
    /\ finalizer = "closing"
    /\ writing = <<>>
    /\ finalizer' = "rejecting"
    /\ UNCHANGED <<childVars, writing, pumpVars, callVars, stdinClosed, aborted>>

RejectPending ==
    /\ finalizer = "rejecting"
    /\ Settle(pending, "rejected")
    /\ pending' = {}
    /\ feed' = IF feed = "open" THEN "closed" ELSE feed
    /\ finalizer' = "done"
    /\ UNCHANGED <<childVars, writing, read, pump, notes, stdinClosed, aborted>>

-----------------------------------------------------------------------------

ClientCalls  == Request \/ Notify \/ CloseStdin \/ Abort \/ ConsumerLeaves
Server == Flush \/ ChildAnswers \/ ChildSpeaks \/ ChildExits
Tasks  == WriteFails \/ ReadLine \/ PumpEnds \/ Finalize \/ WriterCloses
          \/ RejectPending

ClientNext == ClientCalls \/ Server \/ Tasks

ClientSpec == ClientInit /\ [][ClientNext]_clientVars

\* The event loop runs every task that can run; nothing is assumed of the
\* embedder or of the child.
FairClientSpec ==
    /\ ClientSpec
    /\ WF_clientVars(WriteFails)
    /\ WF_clientVars(ReadLine \/ PumpEnds)
    /\ WF_clientVars(Finalize \/ WriterCloses \/ RejectPending)

-----------------------------------------------------------------------------
(* Properties *)

ClientTypeOK ==
    /\ subprocess \in {"running", "exited"}
    /\ writing \in Seq({Notification} \cup Requests)
    /\ held \subseteq Requests
    /\ sent \in Seq(Line)
    /\ read \in 0..Len(sent)
    /\ pump \in {"reading", "ended"}
    /\ answer \in Seq({"waiting", "rejected", "undefined"} \cup Outcome)
    /\ Len(answer) <= MaxRequest
    /\ pending \subseteq Requests
    /\ notes \in Seq(1..read)
    /\ feed \in {"open", "left", "closed"}
    /\ stdinClosed \in BOOLEAN
    /\ aborted \in BOOLEAN
    /\ finalizer \in {"waiting", "closing", "rejecting", "done"}

\* `pending` holds exactly the requests whose promise is unsettled, through
\* failed writes, answers and the exit (app-server.ts:356-373, 499-507).
PendingIsWaiting == pending = {id \in Requests : answer[id] = "waiting"}

\* The finalizer acts after the exit and the pump; from then on, and once
\* aborted, no request is accepted.
StdinShut ==
    /\ aborted => stdinClosed
    /\ finalizer # "waiting" => stdinClosed /\ subprocess = "exited" /\ pump = "ended"

\* When `done` has resolved no request() promise is left unsettled, however
\* calls, writes and the exit interleave (app-server.ts:263-273).
NothingPendingAfterDone ==
    finalizer = "done" => \A id \in Requests : answer[id] # "waiting"

IsResponse(line) == line.kind = "response"

\* A promise takes what a line of its own id carried, never another's.  That
\* line is its response or a request the server made under the same number
\* and the pump read ahead of the response; once its response has been read a
\* promise is settled, and was not rejected (app-server.ts:14-18, 498-508).
AnswersMatch ==
    /\ \A id \in Requests : answer[id] \in Outcome \cup {"undefined"} =>
          \E k \in 1..read :
              /\ HasId(sent[k])
              /\ sent[k].id = id
              /\ Carried(sent[k]) = answer[id]
              /\ \A j \in 1..(k - 1) : ~(IsResponse(sent[j]) /\ sent[j].id = id)
    /\ \A k \in 1..read : IsResponse(sent[k]) =>
          answer[sent[k].id] \in Outcome \cup {"undefined"}

\* What request() promises, and the code keeps only while the server numbers
\* its own requests apart: a request resolves with its response and with
\* nothing else (app-server.ts:338-344).
OnlyResponsesAnswer ==
    \A id \in Requests : answer[id] \in Outcome \cup {"undefined"} =>
        \E k \in 1..read : sent[k] = [kind |-> "response", id |-> id, outcome |-> answer[id]]

\* A request the server answered is never rejected, unless a line `null` ended
\* the pump ahead of the answer: the exit and the broken pipe are acted on
\* only after the last line (app-server.ts:257-273).
AnsweredNeverRejected ==
    \A k \in 1..Len(sent) : IsResponse(sent[k]) =>
        \/ answer[sent[k].id] # "rejected"
        \/ \E j \in 1..(k - 1) : sent[j].kind = "null"

\* A line that is no message does not stop the pump: whatever the child
\* wrote was handled before `done` acts (app-server.ts:483-488).
DrainedBeforeDone == finalizer # "waiting" => read = Len(sent)

\* The inductive invariant behind NothingPendingAfterDone.
ClientInv ==
    /\ ClientTypeOK
    /\ PendingIsWaiting
    /\ StdinShut
    /\ NothingPendingAfterDone

\* The notifications reach the queue in the order they were written and,
\* unless the consumer left, all of them, also those read between the exit and
\* the end of the pump (app-server.ts:257-273, 510-516).
NotesInOrder ==
    /\ \A i, j \in 1..Len(notes) : i < j => notes[i] < notes[j]
    /\ feed # "left" => {notes[i] : i \in 1..Len(notes)} =
                          {k \in 1..read : sent[k].kind = "note"}

\* The inductive invariant behind NotesInOrder: the queue is closed last.
NotesInv ==
    /\ ClientInv
    /\ feed = "closed" => finalizer = "done"
    /\ NotesInOrder

\* A request is in the writer, in the server, or answered, and it is
\* answered once.
InOnePlace ==
    /\ \A i, j \in 1..Len(writing) : writing[i] = writing[j] => i = j
    /\ Unwritten \cap held = {}
    /\ \A k \in 1..Len(sent) : IsResponse(sent[k]) =>
          sent[k].id \in Requests \ (held \cup Unwritten)
    /\ \A j, k \in 1..Len(sent) :
          IsResponse(sent[j]) /\ IsResponse(sent[k]) /\ sent[j].id = sent[k].id => j = k

NullRead == read >= 1 /\ sent[read].kind = "null"

\* The request of a response still in the pipe waits for it or was settled by
\* the server's own of that number, and the pump ends on an empty pipe or on a
\* line `null`; behind that alone it may be rejected too.
AwaitedInPipe ==
    /\ \A k \in (read + 1)..Len(sent) : IsResponse(sent[k]) =>
          \/ answer[sent[k].id] \in {"waiting", "undefined"}
          \/ answer[sent[k].id] = "rejected" /\ pump = "ended"
    /\ pump = "ended" => (subprocess = "exited" /\ read = Len(sent)) \/ NullRead

\* Nothing is rejected while the child runs.
RunningKeepsPromises ==
    subprocess = "running" => \A id \in Requests : answer[id] # "rejected"

\* The inductive invariant behind AnswersMatch and AnsweredNeverRejected, for
\* servers that use any ids and write any lines.
AnswerInv ==
    /\ ClientInv
    /\ InOnePlace
    /\ AwaitedInPipe
    /\ RunningKeepsPromises
    /\ AnswersMatch

\* Once the child is gone `done` resolves with nothing left pending, whatever
\* the embedder does meanwhile.
ExitSettles == subprocess = "exited" ~> finalizer = "done" /\ pending = {}

=============================================================================
