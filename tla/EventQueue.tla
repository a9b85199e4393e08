----------------------------- MODULE EventQueue -----------------------------
(***************************************************************************)
(* SessionEventQueue (runtime/event-queue.ts), the queue behind every      *)
(* session's `events`, and its twin NotificationQueue                      *)
(* (codex/app-server-internals.ts).  Producers push, one consumer calls    *)
(* next() as often as it likes without awaiting the previous promise, and  *)
(* either side closes.  Every method body runs without an await, so each   *)
(* is one step.                                                            *)
(*                                                                         *)
(* `log` is a history variable: the events push() accepted.  `answers` is  *)
(* what the consumer holds, the promise of each next() call in call order. *)
(***************************************************************************)
EXTENDS Naturals, Sequences

CONSTANTS Event, Waiting, Finished,
          MaxPush,    \* bound on accepted events
          MaxNext     \* bound on next() calls

ASSUME QueueAssumption ==
    /\ Waiting \notin Event
    /\ Finished \notin Event
    /\ Waiting # Finished
    /\ MaxPush \in Nat
    /\ MaxNext \in Nat

VARIABLES items,      \* events pushed and not asked for yet
          resolvers,  \* the next() calls waiting, oldest first
          closed,
          iterated,   \* [Symbol.asyncIterator]() was called
          answers,
          log

queueVars == <<items, resolvers, closed, iterated, answers, log>>

-----------------------------------------------------------------------------

QueueInit ==
    /\ items = <<>>
    /\ resolvers = <<>>
    /\ closed = FALSE
    /\ iterated = FALSE
    /\ answers = <<>>
    /\ log = <<>>

-----------------------------------------------------------------------------
(* Slips: what a plausible slip in the code would make of an action.  None *)
(* is part of Next; each shows that a property below would notice it.      *)

\* An undelivered event is taken out by close().
CloseDropsItems ==
    /\ ~closed
    /\ closed' = TRUE
    /\ items' = <<>>
    /\ answers' = [k \in 1..Len(answers) |->
                      IF answers[k] = Waiting THEN Finished ELSE answers[k]]
    /\ resolvers' = <<>>
    /\ UNCHANGED <<iterated, log>>

\* next() pops the newest stored event and registers calls from zero.
CallNextMisindexed ==
    /\ Len(answers) < MaxNext
    /\ IF items # <<>>
       THEN /\ answers' = Append(answers, items[Len(items)])
            /\ items' = SubSeq(items, 1, Len(items) - 1)
            /\ UNCHANGED resolvers
       ELSE /\ answers' = Append(answers, IF closed THEN Finished ELSE Waiting)
            /\ resolvers' = IF closed THEN resolvers
                            ELSE Append(resolvers, Len(answers))
            /\ UNCHANGED items
    /\ UNCHANGED <<closed, iterated, log>>

-----------------------------------------------------------------------------
(* Operations *)

\* push(): the oldest waiting call takes the event, else it is stored.  A
\* push after close is dropped.
Push(e) ==
    /\ Len(log) < MaxPush
    /\ ~closed
    /\ log' = Append(log, e)
    /\ \/ /\ resolvers # <<>>
          /\ answers' = [answers EXCEPT ![Head(resolvers)] = e]
          /\ resolvers' = Tail(resolvers)
          /\ UNCHANGED items
       \/ /\ resolvers = <<>>
          /\ items' = Append(items, e)
          /\ UNCHANGED <<answers, resolvers>>
    /\ UNCHANGED <<closed, iterated>>

\* close(): every waiting call is answered done, the list is emptied.
Close ==
    /\ ~closed
    /\ closed' = TRUE
    /\ answers' = [k \in 1..Len(answers) |->
                      IF \E i \in 1..Len(resolvers) : resolvers[i] = k
                      THEN Finished ELSE answers[k]]
    /\ resolvers' = <<>>
    /\ UNCHANGED <<items, iterated, log>>

\* next(): a stored event first, even after close; then done; then wait.
CallNext ==
    /\ Len(answers) < MaxNext
    /\ \/ /\ items # <<>>
          /\ answers' = Append(answers, Head(items))
          /\ items' = Tail(items)
          /\ UNCHANGED resolvers
       \/ /\ items = <<>>
          /\ closed
          /\ answers' = Append(answers, Finished)
          /\ UNCHANGED <<items, resolvers>>
       \/ /\ items = <<>>
          /\ ~closed
          /\ answers' = Append(answers, Waiting)
          /\ resolvers' = Append(resolvers, Len(answers) + 1)
          /\ UNCHANGED items
    /\ UNCHANGED <<closed, iterated, log>>

\* return(): how a `for await` that breaks or throws leaves the queue.
Return == Close

\* [Symbol.asyncIterator](): the queue is its own iterator, once.  A second
\* call throws and changes nothing.
Iterate ==
    /\ ~iterated
    /\ iterated' = TRUE
    /\ UNCHANGED <<items, resolvers, closed, answers, log>>

QueueNext ==
    \/ \E e \in Event : Push(e)
    \/ Close
    \/ CallNext
    \/ Return
    \/ Iterate

QueueSpec == QueueInit /\ [][QueueNext]_queueVars

-----------------------------------------------------------------------------
(* Properties *)

\* Every variable has its type; the calls waiting are calls that were made.
QueueTypeOK ==
    /\ items \in Seq(Event)
    /\ resolvers \in Seq(1..Len(answers))
    /\ closed \in BOOLEAN
    /\ iterated \in BOOLEAN
    /\ answers \in Seq(Event \cup {Waiting, Finished})
    /\ log \in Seq(Event)

\* The events that went to a next() call; the rest of the log is stored.
Delivered == Len(log) - Len(items)

\* The stored events are the undelivered tail of the log, in its order.
StoredIsTail ==
    /\ Len(items) <= Len(log)
    /\ \A i \in 1..Len(items) : items[i] = log[Delivered + i]

\* No wakeup is lost: a call never waits while an event is stored or after
\* the queue was closed (event-queue.ts:51-74, 86-96).
NoStrandedCall ==
    resolvers # <<>> => items = <<>> /\ ~closed

\* The calls waiting are exactly the newest ones, in call order, and behind
\* every call that was answered with an event.
WaitersAreNewest ==
    /\ resolvers # <<>> => Len(answers) = Delivered + Len(resolvers)
    /\ \A i \in 1..Len(resolvers) : resolvers[i] = Delivered + i

\* The k-th call has the k-th event of the log: nothing lost, duplicated or
\* reordered between push() and next(), with several calls outstanding.
AnswersFollowLog ==
    /\ Delivered <= Len(answers)
    /\ \A k \in 1..Len(answers) :
          answers[k] = IF k <= Delivered THEN log[k]
                       ELSE IF closed THEN Finished ELSE Waiting
    /\ Len(answers) > Delivered =>
          items = <<>> /\ (closed \/ resolvers # <<>>)

\* The inductive invariant of SharedProofs.
QueueInv ==
    /\ QueueTypeOK
    /\ StoredIsTail
    /\ NoStrandedCall
    /\ WaitersAreNewest
    /\ AnswersFollowLog

\* The queue implements the abstract channel.
Channel == INSTANCE EventChannel

\* The queue behaves as the FIFO channel of EventChannel: the refinement of
\* the `events` promise by push(), close(), next() and return().
ImplementsChannel == Channel!Spec

=============================================================================
