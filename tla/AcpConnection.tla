---------------------------- MODULE AcpConnection ----------------------------
(***************************************************************************)
(* openAcpConnection and openSessionViaAcp (runtime/acp/adapter.ts): one   *)
(* ACP front behind many sessions, or behind the one that owns it and ends *)
(* it.  One drain loop takes the notifications of the client and     *)
(* delivers each to the session its id is registered for, or holds it in   *)
(* `early`; openSession() registers its id, flushes what was held and      *)
(* returns the handle; send() waits for the response of session/prompt and *)
(* then for the drain loop, so that its turn-end comes last; a session     *)
(* that is ended leaves the connection and the front goes on, or disposes  *)
(* it when it owns it.  A request of the front is answered by the callback *)
(* of the session that is registered when the request is read.             *)
(*                                                                         *)
(* The front is external.  It writes the updates of a session from the     *)
(* request that opens it on, also behind the session's end.  The client in *)
(* between is AcpClient: it reads the front's lines in their order, so one *)
(* step here is the writing of a line together with its reading, and the   *)
(* exit of the front is the step in which the client's exit handler runs.  *)
(* Lines buffered at the exit may be read behind it.                       *)
(***************************************************************************)
EXTENDS Naturals, Sequences, FiniteSets

CONSTANTS Owned,     \* the kinds of front: TRUE, a session owns it
          Resumes,   \* openSession() may resume an id, as session/load
          CanClose,  \* the front advertises session/close
          MaxOpen,   \* bound on openSession()
          MaxSend,   \* bound on send(), over all sessions
          MaxNote    \* bound on the updates of the front, of whose
                     \* requests each counts for two

ASSUME ConnectionAssumption ==
    /\ {Resumes, CanClose} \cup Owned \subseteq BOOLEAN
    /\ MaxOpen \in Nat \ {0}
    /\ {MaxSend, MaxNote} \subseteq Nat

VARIABLES owned,     \* this front is one session's
          ready,     \* initialize: "asked", "yes", "no"
          noteSid,   \* noteSid[n]: the session of the n-th update read
          queue,     \* the updates the client holds for the drain loop
          exitSeen,  \* the client's exit handler has run
          disposed,  \* close() was called
          drain,     \* the drain loop: "idle", "delivering", "ended"
          current,   \* the update it delivers, and the handle it took for it
          handled,   \* of the DeliveryTracker
          sessions,  \* the map of that name: the handle registered for an id
          early,     \* the map of that name
          handles,   \* what became of each openSession()
          sends,     \* what became of each send()
          asks       \* what became of each request of the front

frontVars  == <<owned, ready, asks>>
clientVars == <<noteSid, queue, exitSeen, disposed>>
drainVars  == <<drain, current, handled>>
mapVars    == <<sessions, early>>
vars == <<frontVars, clientVars, drainVars, mapVars, handles, sends>>

None    == 0
Sid     == 1..MaxOpen    \* session ids
Handles == 1..Len(handles)
Sends   == 1..Len(sends)
Notes   == 1..Len(noteSid)
Asks    == 1..Len(asks)

received == Len(noteSid)    \* receivedNotificationCount

Nothing == [note |-> None, handle |-> None]

-----------------------------------------------------------------------------

Init ==
    /\ owned \in Owned
    /\ ready = "asked"
    /\ noteSid = <<>>
    /\ queue = <<>>
    /\ exitSeen = FALSE
    /\ disposed = FALSE
    /\ drain = "idle"
    /\ current = Nothing
    /\ handled = 0
    /\ sessions = [sid \in Sid |-> None]
    /\ early = [sid \in Sid |-> <<>>]
    /\ handles = <<>>
    /\ sends = <<>>
    /\ asks = <<>>

\* A request is refused behind dispose(), and fails on the broken pipe.
Refused == disposed \/ exitSeen

\* The answer to initialize; behind an error the client is disposed.
Initialized ==
    /\ ready = "asked"
    /\ \E answer \in {"yes", "no"} :
          /\ ready' = answer
          /\ disposed' = (disposed \/ answer = "no")
    /\ UNCHANGED <<owned, asks, noteSid, queue, exitSeen, drainVars, mapVars, handles, sends>>

-----------------------------------------------------------------------------
(* openSession() *)

\* The front gives a new session the next id.  One that is resumed is not being
\* opened elsewhere at the same time.
Used == {handles[h].sid : h \in Handles}

Opened(sid) == [state |-> IF Refused THEN "failed" ELSE "asked", sid |-> sid, flushed |-> 0,
                published |-> <<>>, shut |-> FALSE, ended |-> FALSE, aborted |-> FALSE,
                leave |-> "no", done |-> "no", replaced |-> FALSE]

OpenSession ==
    /\ ~owned
    /\ ready = "yes"
    /\ Len(handles) < MaxOpen
    /\ \E sid \in Used \cup {Cardinality(Used) + 1} :
          /\ \A h \in Handles : handles[h].sid = sid =>
                Resumes /\ handles[h].state \in {"open", "failed", "orphaned"}
          /\ handles' = Append(handles, Opened(sid))
    /\ UNCHANGED <<frontVars, clientVars, drainVars, mapVars, sends>>

\* openSessionViaAcp() spawns its front and goes on behind initialize.
OpenOwned ==
    /\ owned
    /\ ready = "yes"
    /\ handles = <<>>
    /\ handles' = <<Opened(1)>>
    /\ UNCHANGED <<frontVars, clientVars, drainVars, mapVars, sends>>

\* Behind the last response the id is registered: from here on the drain loop
\* delivers to this handle, and no more to one that had the id before (`replaced`,
\* a history field).  The session that owns its front is returned, and its drain
\* loop starts, at once.
Register(h) ==
    /\ handles[h].state = "answered"
    /\ handles' = [g \in Handles |->
                      IF g = h THEN [handles[g] EXCEPT !.state = IF owned THEN "open" ELSE "flushing"]
                      ELSE [handles[g] EXCEPT !.replaced = @ \/ sessions[handles[h].sid] = g]]
    /\ sessions' = [sessions EXCEPT ![handles[h].sid] = h]
    /\ UNCHANGED <<frontVars, clientVars, drainVars, early, sends>>

Push(h, e) == IF handles[h].shut THEN handles[h].published ELSE Append(handles[h].published, e)
Note(n)    == [kind |-> "note", of |-> n]
TurnEnd(k) == [kind |-> "turn-end", of |-> k]

\* What was held, one await at a time.
Flush(h) ==
    /\ handles[h].state = "flushing"
    /\ LET held == early[handles[h].sid]
           next == handles[h].flushed + 1 IN
       /\ next <= Len(held)
       /\ handles' = [handles EXCEPT ![h].flushed = next, ![h].published = Push(h, Note(held[next]))]
    /\ UNCHANGED <<frontVars, clientVars, drainVars, mapVars, sends>>

\* The handle is returned.
OpenReturns(h) ==
    /\ handles[h].state = "flushing"
    /\ handles[h].flushed = Len(early[handles[h].sid])
    /\ early' = [early EXCEPT ![handles[h].sid] = <<>>]
    /\ handles' = [handles EXCEPT ![h].state = "open", ![h].flushed = 0]
    /\ UNCHANGED <<frontVars, clientVars, drainVars, sessions, sends>>

-----------------------------------------------------------------------------
(* The handle's methods *)

SendOutcome(h) ==
    CASE handles[h].aborted                        -> "aborted"
      [] ~handles[h].aborted /\ handles[h].ended   -> "inputClosed"
      [] ~handles[h].aborted /\ ~handles[h].ended  -> IF Refused THEN "rejected" ELSE "posted"

Send(h) ==
    /\ handles[h].state = "open"
    /\ Len(sends) < MaxSend
    /\ sends' = Append(sends, [handle |-> h, state |-> SendOutcome(h), upto |-> 0, mark |-> 0])
    /\ UNCHANGED <<frontVars, clientVars, drainVars, mapVars, handles>>

\* leave(), once: the handle goes out of the map if it is still the one in it,
\* its queue is closed, and session/close is asked of the front.
LeaveAlways(h) ==    \* slip: without looking whose entry it is
    sessions' = [sessions EXCEPT ![handles[h].sid] = None]
LeaveMap(h) ==
    sessions' = IF sessions[handles[h].sid] = h
                THEN [sessions EXCEPT ![handles[h].sid] = None] ELSE sessions

Over(r) == [r EXCEPT !.leave = "left", !.done = IF @ = "no" THEN "left" ELSE @]

Left(r) ==
    LET leaving == [r EXCEPT !.shut = TRUE, !.leave = "asked"] IN
    IF r.leave # "no" THEN r ELSE IF CanClose /\ ~Refused THEN leaving ELSE Over(leaving)

LeavesOnce(h) ==
    IF handles[h].leave = "no" THEN LeaveMap(h) ELSE UNCHANGED sessions

\* A session that owns its front disposes it instead; its queue is closed at the
\* end of the drain loop.
Lifecycle(h, r) ==
    \/ /\ owned
       /\ handles' = [handles EXCEPT ![h] = r]
       /\ disposed' = TRUE
       /\ UNCHANGED sessions
    \/ /\ ~owned
       /\ handles' = [handles EXCEPT ![h] = Left(r)]
       /\ LeavesOnce(h)
       /\ UNCHANGED disposed

EndInput(h) ==
    /\ handles[h].state = "open"
    /\ ~handles[h].ended
    /\ Lifecycle(h, [handles[h] EXCEPT !.ended = TRUE])
    /\ UNCHANGED <<frontVars, noteSid, queue, exitSeen, drainVars, early, sends>>

\* session/cancel is written, too, and the prompt it cancels is answered.
Abort(h) ==
    /\ handles[h].state = "open"
    /\ ~handles[h].aborted
    /\ Lifecycle(h, [handles[h] EXCEPT !.aborted = TRUE])
    /\ UNCHANGED <<frontVars, noteSid, queue, exitSeen, drainVars, early, sends>>

\* close() of the connection disposes the client, which ends the front.
Close ==
    /\ ~owned
    /\ ready = "yes"
    /\ ~disposed
    /\ disposed' = TRUE
    /\ UNCHANGED <<frontVars, noteSid, queue, exitSeen, drainVars, mapVars, handles, sends>>

-----------------------------------------------------------------------------
(* The front, as the client reads it *)

\* The answer to session/new or session/load, then to each request that sets the
\* mode, the effort and the model ("setting"); which of them are sent depends on the
\* options and on what the answer declares.  An error throws: a front that is owned is
\* disposed, a shared one keeps the session it has opened, which no handle knows.
OpenAnswered(h) ==
    /\ handles[h].state \in {"asked", "setting"}
    /\ \E state \in {"answered", "fails"} \cup (IF Refused THEN {} ELSE {"setting"}) :
          /\ handles' = [handles EXCEPT ![h].state =
                            IF state # "fails" THEN state
                            ELSE IF handles[h].state = "asked" THEN "failed" ELSE "orphaned"]
          /\ disposed' = (disposed \/ (owned /\ state = "fails"))
    /\ UNCHANGED <<frontVars, noteSid, queue, exitSeen, drainVars, mapVars, sends>>

Known == {handles[h].sid : h \in {g \in Handles : handles[g].state # "failed"}}

UpdateRead ==
    /\ Len(noteSid) + 2 * Len(asks) < MaxNote
    /\ \E sid \in Known : noteSid' = Append(noteSid, sid)
    /\ queue' = Append(queue, Len(noteSid) + 1)
    /\ UNCHANGED <<frontVars, exitSeen, disposed, drainVars, mapVars, handles, sends>>

\* A request of the front goes to the handlers of its session, and is refused when
\* none is registered or no handler serves its method.  A session that owns its
\* front has the handlers in place from the start.
Inbound(h) == IF h = None THEN {"refused"} ELSE {"refused", "deciding"}

AskRead ==
    /\ Len(noteSid) + 2 * Len(asks) + 1 < MaxNote
    /\ \E sid \in Known :
          LET h == IF owned THEN 1 ELSE sessions[sid] IN
          \E state \in Inbound(h) :
             asks' = Append(asks, [sid |-> sid, handle |-> h, state |-> state, allowed |-> FALSE])
    /\ UNCHANGED <<owned, ready, clientVars, drainVars, mapVars, handles, sends>>

\* What is selected of the options that a permission request offers.
Menus == {<<>>, <<"reject">>, <<"other">>, <<"allow", "reject">>}

Picked(menu, allowed) ==
    LET Offers(kind) == \E i \in 1..Len(menu) : menu[i] = kind IN
    IF allowed /\ ~Offers("allow") /\ menu # <<>> THEN menu[1]
    ELSE IF allowed /\ Offers("allow") THEN "allow"
    ELSE IF ~allowed /\ Offers("reject") THEN "reject"
    ELSE "cancelled"

\* The callback has answered; one that throws, or is not there, allows nothing.
\* Nobody may hear the answer.
Decide(q) ==
    /\ asks[q].state = "deciding"
    /\ IF Refused THEN asks' = [asks EXCEPT ![q].state = "unheard"]
       ELSE \E menu \in Menus, allowed \in BOOLEAN :
               asks' = [asks EXCEPT ![q].allowed = allowed, ![q].state = Picked(menu, allowed)]
    /\ UNCHANGED <<owned, ready, clientVars, drainVars, mapVars, handles, sends>>

SendAnswered(k) ==
    /\ sends[k].state = "posted"
    /\ \E state \in {"answered", "undelivered"} :
          sends' = [sends EXCEPT ![k].state = state, ![k].upto = Len(noteSid)]
    /\ UNCHANGED <<frontVars, clientVars, drainVars, mapVars, handles>>

CloseAnswered(h) ==
    /\ handles[h].leave = "asked"
    /\ handles' = [handles EXCEPT ![h] = Over(@)]
    /\ UNCHANGED <<frontVars, clientVars, drainVars, mapVars, sends>>

Opening(h) == handles[h].state \in {"asked", "setting"}

\* The exit rejects every request.  It is an event of its own: the
\* continuations of a response read before it, and so the registration, have
\* run.
ExitSeen ==
    /\ ~exitSeen
    /\ \A h \in Handles : handles[h].state # "answered"
    /\ exitSeen' = TRUE
    /\ ready' = IF ready = "asked" THEN "no" ELSE ready
    /\ disposed' = (disposed \/ ready = "asked" \/ (owned /\ \E h \in Handles : Opening(h)))
    /\ handles' = [h \in Handles |->
                     IF Opening(h) THEN [handles[h] EXCEPT !.state = "failed"]
                     ELSE IF handles[h].leave = "asked" THEN Over(handles[h])
                     ELSE handles[h]]
    /\ sends' = [k \in Sends |->
                   IF sends[k].state = "posted" THEN [sends[k] EXCEPT !.state = "rejected"]
                   ELSE sends[k]]
    /\ UNCHANGED <<owned, asks, noteSid, queue, drainVars, mapVars>>

-----------------------------------------------------------------------------
(* The drain loop *)

\* The loop of a connection runs from the start, that of a session which owns its
\* front from its opening on.
Draining == owned => \E h \in Handles : handles[h].state = "open"

\* An update is taken with the entry its id has now; without one it is held.
HoldNever(n) == UNCHANGED early    \* slip: it is dropped
Hold(n) == early' = [early EXCEPT ![noteSid[n]] = Append(@, n)]

DrainTakes ==
    /\ Draining
    /\ drain = "idle"
    /\ queue # <<>>
    /\ queue' = Tail(queue)
    /\ LET n == Head(queue)
           h == sessions[noteSid[n]] IN
       \/ /\ h # None
          /\ drain' = "delivering"
          /\ current' = [note |-> n, handle |-> h]
          /\ UNCHANGED <<handled, early>>
       \/ /\ h = None
          /\ Hold(n)
          /\ handled' = handled + 1
          /\ UNCHANGED <<drain, current>>
    /\ UNCHANGED <<frontVars, noteSid, exitSeen, disposed, sessions, handles, sends>>

\* Behind the await of onEvent.
DrainDelivers ==
    /\ drain = "delivering"
    /\ handles' = [handles EXCEPT ![current.handle].published =
                       Push(current.handle, Note(current.note))]
    /\ drain' = "idle"
    /\ current' = Nothing
    /\ handled' = handled + 1
    /\ UNCHANGED <<frontVars, clientVars, mapVars, sends>>

\* The end of the loop closes what is registered.  A handle's `done` is the
\* race of its own `closed`, resolved here, with the status of the process,
\* which is asked for behind the loop and so comes second.
EndedUnraced(h) ==     \* slip: `done` is `closed`
    LET r == handles[h] IN
    IF sessions[r.sid] = h THEN [r EXCEPT !.shut = TRUE, !.done = IF @ = "no" THEN "left" ELSE @] ELSE r
Ended(h) ==
    LET r == handles[h] IN
    IF sessions[r.sid] = h
    THEN [r EXCEPT !.shut = TRUE, !.done = IF owned THEN "exit" ELSE IF @ = "no" THEN "left" ELSE @]
    ELSE IF r.state \in {"flushing", "open"} /\ r.done = "no" THEN [r EXCEPT !.done = "exit"]
    ELSE r

DrainEnds ==
    /\ Draining
    /\ drain = "idle"
    /\ queue = <<>>
    /\ exitSeen
    /\ drain' = "ended"
    /\ handles' = [h \in Handles |-> Ended(h)]
    /\ sessions' = [sid \in Sid |-> None]
    /\ UNCHANGED <<frontVars, clientVars, current, handled, early, sends>>

-----------------------------------------------------------------------------
(* The continuation of send() *)

\* Behind the response: everything the front wrote before it is counted now.
SendMarks(k) ==
    /\ sends[k].state = "answered"
    /\ sends' = [sends EXCEPT ![k].state = "waiting", ![k].mark = received]
    /\ UNCHANGED <<frontVars, clientVars, drainVars, mapVars, handles>>

\* DeliveryTracker.wait().
Reached(k) == handled >= sends[k].mark \/ drain = "ended"

SendEnds(k) ==
    /\ sends[k].state = "waiting"
    /\ Reached(k)
    /\ sends' = [sends EXCEPT ![k].state = "accepted"]
    /\ handles' = [handles EXCEPT ![sends[k].handle].published = Push(sends[k].handle, TurnEnd(k))]
    /\ UNCHANGED <<frontVars, clientVars, drainVars, mapVars>>

-----------------------------------------------------------------------------

Opens   == OpenSession \/ OpenOwned \/ \E h \in Handles : Register(h) \/ Flush(h) \/ OpenReturns(h)
Calls   == Close \/ \E h \in Handles : Send(h) \/ EndInput(h) \/ Abort(h)
Front   == Initialized \/ UpdateRead \/ AskRead \/ ExitSeen \/ (\E h \in Handles : OpenAnswered(h) \/ CloseAnswered(h))
           \/ \E k \in Sends : SendAnswered(k)
Drain   == DrainTakes \/ DrainDelivers \/ DrainEnds
Sending == \E k \in Sends : SendMarks(k) \/ SendEnds(k)

Asked   == \E q \in Asks : Decide(q)

Next == Opens \/ Asked \/ Calls \/ Front \/ Drain \/ Sending

Spec == Init /\ [][Next]_vars

\* The event loop runs what can run, every callback settles and a disposed front
\* exits, or reads on until dispose() has sent its signals (see Blocked in
\* AcpClient).  It may leave any request unanswered.
FairSpec ==
    /\ Spec
    /\ WF_vars(\E h \in Handles : Register(h) \/ Flush(h) \/ OpenReturns(h))
    /\ WF_vars(Drain)
    /\ WF_vars(Sending)
    /\ WF_vars(Asked)
    /\ WF_vars(ExitSeen /\ disposed)

-----------------------------------------------------------------------------
(* Properties *)

Entry == [kind : {"note"}, of : Notes] \cup [kind : {"turn-end"}, of : Sends]

TypeOK ==
    /\ owned \in Owned
    /\ ready \in {"asked", "yes", "no"}
    /\ noteSid \in Seq(Sid)
    /\ queue \in Seq(Notes)
    /\ {exitSeen, disposed} \subseteq BOOLEAN
    /\ drain \in {"idle", "delivering", "ended"}
    /\ current \in [note : {None} \cup Notes, handle : {None} \cup Handles]
    /\ handled \in 0..received
    /\ sessions \in [Sid -> {None} \cup Handles]
    /\ early \in [Sid -> Seq(Notes)]
    /\ handles \in Seq([state : {"asked", "setting", "answered", "flushing", "open",
                                 "failed", "orphaned"},
                        sid : Sid, flushed : Nat, published : Seq(Entry), shut : BOOLEAN,
                        ended : BOOLEAN, aborted : BOOLEAN,
                        leave : {"no", "asked", "left"}, replaced : BOOLEAN,
                        done : {"no", "left", "exit"}])
    /\ sends \in Seq([handle : Handles, upto : Nat, mark : 0..received,
                      state : {"posted", "answered", "waiting", "accepted",
                               "undelivered", "rejected", "aborted", "inputClosed"}])
    /\ asks \in Seq([sid : Sid, handle : {None} \cup Handles, allowed : BOOLEAN,
                     state : {"refused", "deciding", "unheard", "allow", "reject",
                              "other", "cancelled"}])

\* An id leads to a handle of that id that is open and has not left: an old
\* handle that leaves does not unregister the one that resumed its session
\* (adapter.ts:1124, 1131-1146).
MapIsLive ==
    \A sid \in Sid : sessions[sid] # None =>
        LET r == handles[sessions[sid]] IN
        r.sid = sid /\ r.state \in {"flushing", "open"} /\ r.leave = "no" /\ ~r.shut

\* While the loop runs, a handle that is open, was not left, and was not
\* replaced by one that resumed its session, is registered.
LiveIsMapped ==
    drain # "ended" => \A h \in Handles :
        /\ handles[h].state \in {"flushing", "open"}
        /\ handles[h].leave = "no"
        /\ ~handles[h].replaced
        => sessions[handles[h].sid] = h

\* When the loop has ended, the events of every handle that was not replaced
\* are complete (adapter.ts:1058-1062).
EventsComplete ==
    drain = "ended" => \A h \in Handles :
        handles[h].state \in {"flushing", "open"} =>
            handles[h].shut \/ handles[h].replaced

\* A request is decided by a handle of the session it names, and nothing is allowed
\* that its callback has not allowed, whatever is offered (adapter.ts:1005-1014,
\* permissions.ts:84-125).
AskedOfItsSession ==
    \A q \in Asks :
        /\ asks[q].handle # None => handles[asks[q].handle].sid = asks[q].sid
        /\ asks[q].handle = None => asks[q].state = "refused"
        /\ asks[q].state \in {"allow", "other"} => asks[q].allowed

\* The type invariant with the agreement of the map, the handles and the loop.
ConnectionInv == TypeOK /\ MapIsLive /\ LiveIsMapped /\ EventsComplete /\ AskedOfItsSession

Published(h) == {handles[h].published[i] : i \in 1..Len(handles[h].published)}

\* No update the front wrote before the response of a prompt comes behind that
\* prompt's turn-end, however far the drain loop lags (adapter.ts:574-613,
\* 710-723; FR-L59).
TurnEndLast ==
    \A h \in Handles : \A j \in 1..Len(handles[h].published) : \A i \in 1..(j - 1) :
        LET e == handles[h].published[i]
            f == handles[h].published[j] IN
        e.kind = "turn-end" /\ f.kind = "note" => f.of > sends[e.of].upto

\* Every update that was read is in one place: with the client, in the loop's
\* hands, held, or in the queue of one handle of its session.  None is lost
\* but to a handle whose queue is closed (adapter.ts:1040-1057, 1124-1126).
Held(sid) ==
    {early[sid][i] : i \in {j \in 1..Len(early[sid]) :
        \A h \in Handles : handles[h].sid = sid /\ handles[h].state = "flushing"
                              => j > handles[h].flushed}}

Takers(n) == {h \in Handles : Note(n) \in Published(h)}

NothingLost ==
    \A n \in 1..received :
        LET places == Cardinality(Takers(n))
                      + (IF \E i \in 1..Len(queue) : queue[i] = n THEN 1 ELSE 0)
                      + (IF current.note = n THEN 1 ELSE 0)
                      + (IF n \in Held(noteSid[n]) THEN 1 ELSE 0) IN
        /\ places <= 1
        /\ places = 0 => \E h \in Handles : handles[h].sid = noteSid[n] /\ handles[h].shut
        /\ \A h \in Takers(n) : handles[h].sid = noteSid[n]

\* A session's events are all its updates and nothing else, each turn-end behind
\* those of its turn (adapter.ts:574-613, 698-723, 1017-1057).
UpdatesFaithful == NothingLost /\ TurnEndLast

\* Once the front is gone or close() is called no send() waits for ever and every
\* session is done (adapter.ts:1058-1063, 1151-1164).
Settled ==
    /\ \A k \in Sends : sends[k].state \notin {"posted", "answered", "waiting"}
    /\ \A h \in Handles : handles[h].state \in {"failed", "orphaned"} \/ handles[h].done # "no"
    /\ \A q \in Asks : asks[q].state # "deciding"

ExitSettles == exitSeen \/ disposed ~> Settled

\* A session nobody ended reports the status of the process (adapter.ts:
\* 925-930).
DoneTellsExit == \A h \in Handles : handles[h].done = "left" => handles[h].leave # "no"

\* What was held is delivered ahead of what comes later (adapter.ts:961-966).
HeldFirst ==
    \A h \in Handles : \A j \in 1..Len(handles[h].published) : \A i \in 1..(j - 1) :
        LET e == handles[h].published[i]
            f == handles[h].published[j] IN
        e.kind = "note" /\ f.kind = "note" => e.of < f.of

=============================================================================
