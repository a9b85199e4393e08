------------------------------ MODULE AcpClient ------------------------------
(***************************************************************************)
(* AcpStdioClient (runtime/acp/client.ts), the JSON-RPC client of an ACP   *)
(* front: requests kept in `pending`, a queue of notifications with one    *)
(* waiter, inbound requests answered by a handler, a task on the exit that *)
(* rejects what is pending and closes the notifications, and dispose(), a  *)
(* chain of waits.  Timers bound all but one of them: abort() of the stdin *)
(* writer waits for the write in flight.                                   *)
(*                                                                         *)
(* Unlike CodexAppServer, the exit does not wait for the stdout pump: the  *)
(* two race.  The front is external: it may answer what it was sent in any *)
(* order, write anything else, ignore SIGTERM and exit at any point.       *)
(***************************************************************************)
EXTENDS Naturals, Sequences

CONSTANTS Junk,        \* other lines the front writes: "garbage", "null"
          MaxRequest,  \* bound on request()
          MaxLine      \* bound on the lines the front writes

ASSUME ClientAssumption ==
    /\ Junk \subseteq {"garbage", "null"}
    /\ MaxRequest \in Nat
    /\ MaxLine \in Nat

VARIABLES child,       \* the front: "running", "exited"
          killed,      \* SIGKILL was sent
          registered,  \* the registry knows the front
          writing,     \* the lines the writer holds: a request's id, or Other
          writer,      \* "open", "closing", "erroring" (abort() waits), "closed"
          held,        \* the requests in the pipe or in the front
          sent,        \* every line the front wrote to stdout
          read,        \* how many of them #handleLine has seen
          pump,        \* #drainStdout(): "reading", "ended", "thrown"
          handling,    \* the inbound requests whose handler has not settled
          answer,      \* answer[id]: the promise of the id-th request()
          pending,     \* the map of that name
          received,    \* every notification pushed, as an index of `sent`
          queued,      \* those still in the queue
          delivered,   \* those next() has returned
          consumer,    \* the loop over notifications(): "ready", "waiting", "ended"
          closed,      \* #notificationClosed
          exitSeen,    \* the continuation of the exit has run
          disposed,
          disposer     \* the first dispose(): "none", "closing", "aborting",
                       \* "terminating", "killing", "draining", "returned"

childVars == <<child, killed, held, sent>>
pipeVars  == <<writing, writer>>
callVars  == <<answer, pending>>
noteVars  == <<received, queued, delivered, consumer, closed>>
stopVars  == <<disposed, disposer, registered>>
vars == <<childVars, pipeVars, read, pump, handling, callVars, noteVars, exitSeen, stopVars>>

Outcome  == {"result", "error"}
Response == [kind : {"response"}, id : 1..MaxRequest, outcome : Outcome]
Notes    == {"note", "commands"}    \* an available_commands_update, and any other
Line     == Response \cup [kind : {"ask"} \cup Notes \cup Junk]

Requests == 1..Len(answer)
Other    == 0    \* in `writing`: a notification, or the reply to the front

-----------------------------------------------------------------------------

Init ==
    /\ child = "running"
    /\ killed = FALSE
    /\ registered = TRUE
    /\ writing = <<>>
    /\ writer = "open"
    /\ held = {}
    /\ sent = <<>>
    /\ read = 0
    /\ pump = "reading"
    /\ handling = {}
    /\ answer = <<>>
    /\ pending = {}
    /\ received = <<>>
    /\ queued = <<>>
    /\ delivered = <<>>
    /\ consumer = "ready"
    /\ closed = FALSE
    /\ exitSeen = FALSE
    /\ disposed = FALSE
    /\ disposer = "none"

\* A promise settles once.
Settle(S, a) ==
    answer' = [id \in Requests |->
                  IF id \in S /\ answer[id] = "waiting" THEN a ELSE answer[id]]

\* #closeNotifications(): a waiting next() is told the end.
CloseNotifications ==
    /\ closed' = TRUE
    /\ consumer' = IF consumer = "waiting" THEN "ended" ELSE consumer
    /\ UNCHANGED <<received, queued, delivered>>

-----------------------------------------------------------------------------
(* Calls *)

Request ==
    /\ Len(answer) < MaxRequest
    /\ \/ /\ disposed
          /\ answer' = Append(answer, "refused")
          /\ UNCHANGED <<pending, writing>>
       \/ /\ ~disposed
          /\ answer' = Append(answer, "waiting")
          /\ pending' = pending \cup {Len(answer) + 1}
          /\ writing' = Append(writing, Len(answer) + 1)
    /\ UNCHANGED <<childVars, writer, read, pump, handling, noteVars, exitSeen, stopVars>>

\* notify(), one at a time.
Notify ==
    /\ ~disposed
    /\ \A i \in 1..Len(writing) : writing[i] # Other
    /\ writing' = Append(writing, Other)
    /\ UNCHANGED <<childVars, writer, read, pump, handling, callVars, noteVars, exitSeen, stopVars>>

\* next() of the iterator: a queued notification even after the close, else
\* the end, else it becomes the one waiter.
ConsumerNext ==
    /\ consumer = "ready"
    /\ \/ /\ queued # <<>>
          /\ delivered' = Append(delivered, Head(queued))
          /\ queued' = Tail(queued)
          /\ UNCHANGED consumer
       \/ queued = <<>> /\ closed /\ consumer' = "ended" /\ UNCHANGED <<queued, delivered>>
       \/ queued = <<>> /\ ~closed /\ consumer' = "waiting" /\ UNCHANGED <<queued, delivered>>
    /\ UNCHANGED <<childVars, pipeVars, read, pump, handling, callVars, received, closed, exitSeen,
                   stopVars>>

\* return() of the iterator: the loop is left, and nobody need ask any more.
ConsumerLeaves ==
    /\ consumer = "ready"
    /\ CloseNotifications
    /\ UNCHANGED <<childVars, pipeVars, read, pump, handling, callVars, exitSeen, stopVars>>

-----------------------------------------------------------------------------
(* The writer and the front *)

\* The write in flight, that of the oldest line, ends: the pipe has all of it.
Flush ==
    /\ child = "running"
    /\ writer \in {"open", "closing"}
    /\ writing # <<>>
    /\ held' = held \cup ({Head(writing)} \ {Other})
    /\ writing' = Tail(writing)
    /\ UNCHANGED <<child, killed, sent, writer, read, pump, handling, callVars, noteVars, exitSeen,
                   stopVars>>

\* What the writer drops fails, and the catch of its request() rejects it.
Unwritten == {writing[i] : i \in 1..Len(writing)} \ {Other}

Drop(S) ==
    /\ writing' = <<>>
    /\ Settle(S, "rejected")
    /\ pending' = pending \ S

DropWriting == Drop(Unwritten)

\* It ends with an abort() behind it, which discards the other lines only now.
Unstarted == {writing[i] : i \in 2..Len(writing)} \ {Other}

FlushLast ==
    /\ child = "running"
    /\ writer = "erroring"
    /\ writing # <<>>
    /\ held' = held \cup ({Head(writing)} \ {Other})
    /\ Drop(Unstarted)
    /\ UNCHANGED <<child, killed, sent, writer, read, pump, handling, noteVars, exitSeen, stopVars>>

\* The pipe is broken.
WriteFails ==
    /\ child = "exited"
    /\ writing # <<>>
    /\ DropWriting
    /\ UNCHANGED <<childVars, writer, read, pump, handling, noteVars, exitSeen, stopVars>>

FrontWrites(line) ==
    /\ child = "running"
    /\ Len(sent) < MaxLine
    /\ sent' = Append(sent, line)
    /\ UNCHANGED <<child, killed, pipeVars, read, pump, handling, callVars, noteVars, exitSeen,
                   stopVars>>

FrontAnswers ==
    \E id \in held, outcome \in Outcome :
        /\ FrontWrites([kind |-> "response", id |-> id, outcome |-> outcome])
        /\ held' = held \ {id}

FrontSpeaks ==
    /\ \E k \in {"ask"} \cup Notes \cup Junk : FrontWrites([kind |-> k])
    /\ UNCHANGED held

FrontExits ==
    /\ child = "running"
    /\ child' = "exited"
    /\ UNCHANGED <<killed, held, sent, pipeVars, read, pump, handling, callVars, noteVars, exitSeen,
                   stopVars>>

-----------------------------------------------------------------------------
(* #drainStdout() and #handleLine() *)

HandleResponseAny(line) ==    \* slip: the id of the response is not used
    /\ line.kind = "response"
    /\ Settle(pending, line.outcome)
    /\ pending' = {}
    /\ UNCHANGED <<pump, handling, noteVars>>
HandleResponse(line) ==
    /\ line.kind = "response"
    /\ Settle({line.id} \cap pending, line.outcome)
    /\ pending' = pending \ {line.id}
    /\ UNCHANGED <<pump, handling, noteVars>>

\* An id and a method: the handler is called.
HandleAsk(line) ==
    /\ line.kind = "ask"
    /\ handling' = handling \cup {read + 1}
    /\ UNCHANGED <<pump, callVars, noteVars>>

\* A notification goes to the waiter, or into the queue, closed or not.
HandleNote(line) ==
    /\ line.kind \in Notes
    /\ received' = Append(received, read + 1)
    /\ \/ /\ consumer = "waiting"
          /\ delivered' = Append(delivered, read + 1)
          /\ consumer' = "ready"
          /\ UNCHANGED queued
       \/ /\ consumer # "waiting"
          /\ queued' = Append(queued, read + 1)
          /\ UNCHANGED <<delivered, consumer>>
    /\ UNCHANGED <<pump, handling, callVars, closed>>

\* A line that is no JSON is passed to onStderr.  `null` is JSON: reading its
\* id throws out of the pump.
HandleJunk(line) ==
    /\ line.kind \in Junk
    /\ pump' = IF line.kind = "null" THEN "thrown" ELSE pump
    /\ UNCHANGED <<handling, callVars, noteVars>>

ReadLine ==
    /\ pump = "reading"
    /\ read < Len(sent)
    /\ read' = read + 1
    /\ LET line == sent[read + 1] IN
       HandleResponse(line) \/ HandleAsk(line) \/ HandleNote(line) \/ HandleJunk(line)
    /\ UNCHANGED <<childVars, pipeVars, exitSeen, stopVars>>

PumpEnds ==
    /\ pump = "reading"
    /\ child = "exited"
    /\ read = Len(sent)
    /\ pump' = "ended"
    /\ UNCHANGED <<childVars, pipeVars, read, handling, callVars, noteVars, exitSeen, stopVars>>

\* The handler settles: its result or its error is written, if that is
\* still possible.
Reply(k) ==
    /\ k \in handling
    /\ handling' = handling \ {k}
    /\ writing' = IF writer = "open" THEN Append(writing, Other) ELSE writing
    /\ UNCHANGED <<childVars, writer, read, pump, callVars, noteVars, exitSeen, stopVars>>

HandlerSettles == \E k \in handling : Reply(k)

\* The exit status arrives, whether or not stdout has been read.
ExitSeen ==
    /\ child = "exited"
    /\ ~exitSeen
    /\ exitSeen' = TRUE
    /\ CloseNotifications
    /\ Settle(pending, "rejected")
    /\ pending' = {}
    /\ UNCHANGED <<childVars, pipeVars, read, pump, handling, stopVars>>

-----------------------------------------------------------------------------
(* dispose() *)

Dispose ==
    /\ ~disposed
    /\ disposed' = TRUE
    /\ disposer' = "closing"
    /\ writer' = "closing"
    /\ UNCHANGED <<childVars, writing, read, pump, handling, callVars, noteVars, exitSeen,
                   registered>>

\* WRITER_CLOSE_GRACE_MS with a write in flight: abort() of the writer, which
\* by the Streams standard is done when that write has ended, well or not.
WriterAborts ==
    /\ disposer = "closing"
    /\ writing # <<>>
    /\ writer' = "erroring"
    /\ disposer' = "aborting"
    /\ UNCHANGED <<childVars, writing, read, pump, handling, callVars, noteVars, exitSeen, disposed,
                   registered>>

\* close() or abort() ends behind the last write; close() on a broken pipe
\* fails, and abort() has nothing to do.  SIGTERM follows, which the front may
\* obey (FrontExits) or not.
WriterCloses ==
    /\ disposer \in {"closing", "aborting"}
    /\ writing = <<>>
    /\ writer' = "closed"
    /\ disposer' = "terminating"
    /\ UNCHANGED <<childVars, writing, read, pump, handling, callVars, noteVars, exitSeen, disposed,
                   registered>>

\* DISPOSE_GRACE_MS without an exit: SIGKILL.
GraceEndsMild ==    \* slip: SIGTERM again
    /\ disposer = "terminating"
    /\ disposer' = "killing"
    /\ UNCHANGED <<childVars, pipeVars, read, pump, handling, callVars, noteVars, exitSeen,
                   disposed, registered>>
GraceEnds ==
    /\ disposer = "terminating"
    /\ disposer' = "killing"
    /\ killed' = TRUE
    /\ UNCHANGED <<child, held, sent, pipeVars, read, pump, handling, callVars, noteVars, exitSeen,
                   disposed, registered>>

\* The awaited exit.
Gone == child = "exited"

FrontGone ==
    /\ disposer \in {"terminating", "killing"}
    /\ Gone
    /\ disposer' = "draining"
    /\ registered' = FALSE
    /\ UNCHANGED <<childVars, pipeVars, read, pump, handling, callVars, noteVars, exitSeen, disposed>>

\* The pumps ended, or another WRITER_CLOSE_GRACE_MS passed: a process the
\* front left behind may hold its stdout open.  stdout.cancel() rejects at
\* once, as the pump's loop has the stream locked.
DisposeReturns ==
    /\ disposer = "draining"
    /\ disposer' = "returned"
    /\ CloseNotifications
    /\ UNCHANGED <<childVars, pipeVars, read, pump, handling, callVars, exitSeen, disposed,
                   registered>>

-----------------------------------------------------------------------------

Calls    == Request \/ Notify \/ Dispose \/ HandlerSettles
Front    == Flush \/ FlushLast \/ FrontAnswers \/ FrontSpeaks \/ FrontExits
Tasks    == WriteFails \/ ReadLine \/ PumpEnds \/ ExitSeen
Disposal == WriterAborts \/ WriterCloses \/ GraceEnds \/ FrontGone \/ DisposeReturns

Consumer == ConsumerNext \/ ConsumerLeaves

Next == Calls \/ Front \/ Tasks \/ Disposal \/ Consumer

Spec == Init /\ [][Next]_vars

-----------------------------------------------------------------------------
(* Properties *)

TypeOK ==
    /\ child \in {"running", "exited"}
    /\ {killed, registered, closed, exitSeen, disposed} \subseteq BOOLEAN
    /\ writing \in Seq({Other} \cup Requests)
    /\ writer \in {"open", "closing", "erroring", "closed"}
    /\ held \subseteq Requests
    /\ sent \in Seq(Line)
    /\ read \in 0..Len(sent)
    /\ pump \in {"reading", "ended", "thrown"}
    /\ handling \subseteq 1..read
    /\ answer \in Seq({"waiting", "rejected", "refused"} \cup Outcome)
    /\ pending \subseteq Requests
    /\ {received, queued, delivered} \subseteq Seq(1..read)
    /\ consumer \in {"ready", "waiting", "ended"}
    /\ disposer \in {"none", "closing", "aborting", "terminating", "killing", "draining", "returned"}

\* `pending` holds exactly the requests whose promise is unsettled, whichever
\* of a response, a failed write and the exit came first (client.ts:231-242,
\* 260-272, 519-541).
PendingIsWaiting == pending = {id \in Requests : answer[id] = "waiting"}

IsResponse(line) == line.kind = "response"

\* What resolves or rejects a request by the wire is the response of its own
\* id (client.ts:519-541).
AnswersMatch ==
    \A id \in Requests : answer[id] \in Outcome =>
        \E k \in 1..read : IsResponse(sent[k]) /\ sent[k].id = id /\ sent[k].outcome = answer[id]

\* What next() returned and what is queued are together all notifications
\* ever read, in their order, and the loop ends only behind the close
\* (client.ts:291-316, 503-516).
NotesInOrder ==
    /\ received = delivered \o queued
    /\ consumer = "ended" => closed

\* When the first dispose() returns the front is gone and unregistered and the
\* notifications are closed (client.ts:353-434).
DisposedIsGone ==
    disposer = "returned" => child = "exited" /\ ~registered /\ closed

\* The type invariant with the bookkeeping of requests, their answers and the
\* notifications, and what dispose() leaves (client.ts:230-434, 519-541).
ClientInv == TypeOK /\ PendingIsWaiting /\ AnswersMatch /\ NotesInOrder /\ DisposedIsGone

\* The front has not taken the line in flight, and SIGTERM comes behind it.
Blocked == disposer = "aborting" /\ child = "running" /\ writing # <<>>

\* Once the front is gone every request is settled and no next() is left waiting
\* (client.ts:230-243), and dispose() returns, also on a front that does not die
\* of SIGTERM, unless a line is stuck in the writer for ever and the front stays
\* (client.ts:356-400).
Settles ==
    /\ child = "exited" ~> pending = {} /\ closed /\ consumer # "waiting"
    /\ (disposed ~> disposer = "returned") \/ <>[]Blocked

\* dispose() does not hang on an agent that has not drained its stdin, as it
\* falls back to abort(), "which discards queued bytes without blocking"
\* (client.ts:356-364).
DisposeNeverHangs == disposed ~> disposer = "returned"

\* A request that the front answered is not rejected (client.ts:245).
AnsweredNeverRejected ==
    \A k \in 1..Len(sent) : IsResponse(sent[k]) => answer[sent[k].id] # "rejected"

\* Behind dispose() nothing reads from the front any more (client.ts:402-407).
DisposeStopsReading == disposer = "returned" => pump # "reading"

\* No line of the front stops the pump (client.ts:484-492).
PumpSurvives == pump # "thrown"

=============================================================================
