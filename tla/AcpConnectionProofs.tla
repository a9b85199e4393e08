------------------------- MODULE AcpConnectionProofs -------------------------
(***************************************************************************)
(* What an ACP connection keeps for every number of sessions, sends,       *)
(* updates and requests: the map, the handles and the drain loop agree,    *)
(* every update is in one place and in the events of its own session, and  *)
(* a turn-end comes behind the updates of its turn.                        *)
(***************************************************************************)
EXTENDS AcpConnection, FiniteSetTheorems, FunctionTheorems, SequenceTheorems, TLAPS

\* Facts about sequences the steps below use.
LEMMA SequenceProperties ==
    ASSUME NEW S, NEW s \in Seq(S)
    PROVE  /\ Len(s) \in Nat
           /\ s = <<>> <=> Len(s) = 0
           /\ \A i \in 1..Len(s) : s[i] \in S
OBVIOUS

LEMMA FunctionIsSequence ==
    ASSUME NEW S, NEW n \in Nat, NEW f, f = [i \in 1..n |-> f[i]], \A i \in 1..n : f[i] \in S
    PROVE  f \in Seq(S) /\ Len(f) = n
OBVIOUS

LEMMA TailProperties ==
    ASSUME NEW S, NEW s \in Seq(S), s # <<>>
    PROVE  /\ Head(s) = s[1] /\ 1 \in 1..Len(s)
           /\ Tail(s) \in Seq(S)
           /\ Len(Tail(s)) = Len(s) - 1
           /\ \A i \in 1..Len(Tail(s)) : Tail(s)[i] = s[i + 1]
OBVIOUS

-----------------------------------------------------------------------------
(* Types, without the bounds that move: what a number counts is said below *)

Coming == {"asked", "setting", "answered"}
Live   == {"flushing", "open"}

Entries == [kind : {"note", "turn-end"}, of : Nat]
Record  == [state : Coming \cup Live \cup {"failed", "orphaned"},
            sid : Sid, flushed : Nat, published : Seq(Entries), shut : BOOLEAN,
            ended : BOOLEAN, aborted : BOOLEAN, leave : {"no", "asked", "left"},
            done : {"no", "left", "exit"}, replaced : BOOLEAN]
SendState  == {"posted", "answered", "waiting", "accepted", "undelivered", "rejected", "aborted",
               "inputClosed"}
SendRecord == [handle : Nat, state : SendState, upto : Nat, mark : Nat]
AskState   == {"refused", "deciding", "unheard", "allow", "reject", "other", "cancelled"}
AskRecord  == [sid : Sid, handle : Nat, state : AskState, allowed : BOOLEAN]

Shaped ==
    /\ owned \in Owned /\ owned \in BOOLEAN
    /\ ready \in {"asked", "yes", "no"}
    /\ noteSid \in Seq(Sid)
    /\ queue \in Seq(Nat)
    /\ exitSeen \in BOOLEAN /\ disposed \in BOOLEAN
    /\ drain \in {"idle", "delivering", "ended"}
    /\ current \in [note : Nat, handle : Nat]
    /\ handled \in Nat
    /\ sessions \in [Sid -> Nat]
    /\ early \in [Sid -> Seq(Nat)]
    /\ handles \in Seq(Record)
    /\ sends \in Seq(SendRecord)
    /\ asks \in Seq(AskRecord)

LEMMA Lengths ==
    ASSUME Shaped
    PROVE  /\ Len(handles) \in Nat /\ Len(sends) \in Nat /\ Len(asks) \in Nat
           /\ Len(noteSid) \in Nat /\ Len(queue) \in Nat
           /\ \A h \in Handles : handles[h] \in Record /\ Len(handles[h].published) \in Nat
           /\ \A k \in Sends : sends[k] \in SendRecord
           /\ \A q \in Asks : asks[q] \in AskRecord
           /\ \A n \in Notes : noteSid[n] \in Sid
           /\ \A sid \in Sid : early[sid] \in Seq(Nat) /\ Len(early[sid]) \in Nat
<1>1. /\ Len(handles) \in Nat /\ Len(sends) \in Nat /\ Len(asks) \in Nat
      /\ Len(noteSid) \in Nat /\ Len(queue) \in Nat
      /\ \A h \in Handles : handles[h] \in Record
      /\ \A k \in Sends : sends[k] \in SendRecord
      /\ \A q \in Asks : asks[q] \in AskRecord
      /\ \A n \in Notes : noteSid[n] \in Sid
  BY SequenceProperties DEF Shaped, Handles, Sends, Asks, Notes
<1>2. \A h \in Handles : Len(handles[h].published) \in Nat
  <2>1. \A h \in Handles : handles[h].published \in Seq(Entries)
    BY <1>1 DEF Record
  <2> QED BY <2>1, SequenceProperties
<1>3. \A sid \in Sid : early[sid] \in Seq(Nat) /\ Len(early[sid]) \in Nat
  <2>1. \A sid \in Sid : early[sid] \in Seq(Nat)
    BY DEF Shaped
  <2> QED BY <2>1, SequenceProperties
<1> QED BY <1>1, <1>2, <1>3

\* A session id is left for every openSession().
LEMMA NextSid ==
    ASSUME Shaped, Len(handles) < MaxOpen
    PROVE  Cardinality(Used) + 1 \in Sid /\ Used \subseteq Sid
<1> DEFINE f == [h \in Handles |-> handles[h].sid]
<1>1. f \in Surjection(Handles, Used)
  BY DEF Surjection, Used
<1>2. IsFiniteSet(Handles) /\ Cardinality(Handles) = Len(handles)
  <2>1. Len(handles) \in Nat
    BY Lengths
  <2>2. /\ IsFiniteSet(1..Len(handles))
        /\ Cardinality(1..Len(handles)) = IF 1 > Len(handles) THEN 0 ELSE Len(handles) - 1 + 1
    BY <2>1, FS_Interval
  <2> QED BY <2>1, <2>2 DEF Handles
<1>3. IsFiniteSet(Used) /\ Cardinality(Used) <= Len(handles)
  <2> HIDE DEF f
  <2> QED BY <1>1, <1>2, FS_Surjection
<1>4. Cardinality(Used) \in Nat
  BY <1>3, FS_CardinalityType
<1>5. Used \subseteq Sid
  BY Lengths DEF Used, Record
<1> QED BY <1>3, <1>4, <1>5, Lengths, ConnectionAssumption DEF Sid

\* The handles when one of them changes.
Changed(h, r) == handles' = [handles EXCEPT ![h] = r]

LEMMA ChangedHandles ==
    ASSUME Shaped, NEW h \in Handles, NEW r \in Record, Changed(h, r)
    PROVE  /\ handles' \in Seq(Record) /\ Len(handles') = Len(handles) /\ Handles' = Handles
           /\ handles'[h] = r
           /\ \A g \in Handles : g # h => handles'[g] = handles[g]
<1>1. handles \in Seq(Record) /\ h \in 1..Len(handles)
  BY DEF Shaped, Handles
<1>2. /\ handles' \in Seq(Record) /\ Len(handles') = Len(handles)
      /\ \A g \in 1..Len(handles) : handles'[g] = IF g = h THEN r ELSE handles[g]
  BY <1>1, ExceptSeq DEF Changed
<1> QED BY <1>1, <1>2 DEF Handles

LEMMA Pushed ==
    ASSUME Shaped, NEW h \in Handles, NEW e \in Entries
    PROVE  /\ Push(h, e) \in Seq(Entries)
           /\ IF handles[h].shut THEN Push(h, e) = handles[h].published
              ELSE /\ Len(Push(h, e)) = Len(handles[h].published) + 1
                   /\ Push(h, e)[Len(handles[h].published) + 1] = e
                   /\ \A i \in 1..Len(handles[h].published) : Push(h, e)[i] = handles[h].published[i]
<1>1. handles[h].published \in Seq(Entries) /\ handles[h].shut \in BOOLEAN
  BY Lengths DEF Record
<1> QED BY <1>1, AppendProperties DEF Push

LEMMA FlushMoves ==
    ASSUME Shaped, NEW h \in Handles, Flush(h)
    PROVE  \E m \in Nat, r \in Record :
              LET held == early[handles[h].sid] IN
              /\ handles[h].flushed + 1 \in 1..Len(held) /\ m = held[handles[h].flushed + 1]
              /\ Changed(h, r)
              /\ r.sid = handles[h].sid /\ r.state = handles[h].state /\ handles[h].state = "flushing"
              /\ r.flushed = handles[h].flushed + 1 /\ r.published = Push(h, Note(m))
              /\ r.shut = handles[h].shut /\ r.leave = handles[h].leave /\ r.replaced = handles[h].replaced
<1> DEFINE held == early[handles[h].sid]
           next == handles[h].flushed + 1
<1>1. handles[h] \in Record /\ handles[h].flushed \in Nat /\ handles[h].sid \in Sid
  BY Lengths DEF Record
<1>2. held \in Seq(Nat) /\ Len(held) \in Nat
  BY <1>1, Lengths
<1>3. next \in 1..Len(held) /\ held[next] \in Nat
  BY <1>1, <1>2, SequenceProperties DEF Flush
<1>4. Note(held[next]) \in Entries
  BY <1>3 DEF Note, Entries
<1>5. PICK p \in Seq(Entries) : p = Push(h, Note(held[next]))
  BY <1>4, Pushed
<1>6. PICK f \in Nat : f = next
  BY <1>1
<1>7. PICK r \in Record : r = [handles[h] EXCEPT !.flushed = f, !.published = p]
  BY <1>1, <1>5, <1>6 DEF Record
<1>8. Changed(h, r) /\ handles[h].state = "flushing"
  BY <1>5, <1>6, <1>7 DEF Flush, Changed
<1>9. /\ r.sid = handles[h].sid /\ r.state = handles[h].state /\ r.flushed = f /\ r.published = p
      /\ r.shut = handles[h].shut /\ r.leave = handles[h].leave /\ r.replaced = handles[h].replaced
  BY <1>1, <1>7 DEF Record
<1> QED BY <1>3, <1>5, <1>6, <1>8, <1>9

LEMMA OpenReturnsMoves ==
    ASSUME Shaped, NEW h \in Handles, OpenReturns(h)
    PROVE  LET r == [handles[h] EXCEPT !.state = "open", !.flushed = 0] IN
           r \in Record /\ Changed(h, r)
<1>1. handles[h] \in Record
  BY Lengths
<1> QED BY <1>1 DEF OpenReturns, Changed, Record, Live

\* leave() and the disposal of an owned front.
LEMMA LifecycleMoves ==
    ASSUME Shaped, NEW h \in Handles, NEW q \in Record, Lifecycle(h, q), q.leave = handles[h].leave
    PROVE  \E r \in Record :
              /\ Changed(h, r)
              /\ r.state = q.state /\ r.sid = q.sid /\ r.flushed = q.flushed
              /\ r.published = q.published /\ r.replaced = q.replaced
              /\ \/ r.shut = q.shut /\ r.leave = q.leave /\ (owned \/ q.leave # "no")
                    /\ sessions' = sessions
                 \/ r.shut /\ r.leave # "no" /\ ~owned /\ LeaveMap(h)
<1>1. CASE owned
  BY <1>1 DEF Lifecycle, Changed
<1>2. CASE ~owned
  <2>1. Changed(h, Left(q)) /\ LeavesOnce(h)
    BY <1>2 DEF Lifecycle, Changed
  <2>2. CASE q.leave # "no"
    <3>1. Left(q) = q
      BY <2>2 DEF Left
    <3> QED BY <1>2, <2>1, <2>2, <3>1 DEF LeavesOnce
  <2>3. CASE q.leave = "no"
    <3>1. PICK r \in Record : r = Left(q)
      BY <2>3 DEF Left, Over, Record
    <3>2. /\ r.state = q.state /\ r.sid = q.sid /\ r.flushed = q.flushed /\ r.shut
          /\ r.published = q.published /\ r.replaced = q.replaced /\ r.leave # "no"
      BY <2>3, <3>1 DEF Left, Over, Record
    <3> QED BY <1>2, <2>1, <2>3, <3>1, <3>2 DEF LeavesOnce
  <2> QED BY <2>2, <2>3
<1> QED BY <1>1, <1>2

LEMMA EndInputMoves ==
    ASSUME Shaped, NEW h \in Handles, EndInput(h) \/ Abort(h)
    PROVE  \E r \in Record :
              /\ Changed(h, r)
              /\ handles[h].state = "open" /\ r.state = "open" /\ r.sid = handles[h].sid
              /\ r.flushed = handles[h].flushed
              /\ r.published = handles[h].published /\ r.replaced = handles[h].replaced
              /\ \/ r.shut = handles[h].shut /\ r.leave = handles[h].leave
                    /\ (owned \/ r.leave # "no") /\ sessions' = sessions
                 \/ r.shut /\ r.leave # "no" /\ ~owned /\ LeaveMap(h)
<1>1. handles[h] \in Record
  BY Lengths
<1>2. CASE EndInput(h)
  <2>1. PICK q \in Record : q = [handles[h] EXCEPT !.ended = TRUE]
    BY <1>1 DEF Record
  <2> QED BY <1>1, <1>2, <2>1, LifecycleMoves DEF EndInput, Record
<1>3. CASE Abort(h)
  <2>1. PICK q \in Record : q = [handles[h] EXCEPT !.aborted = TRUE]
    BY <1>1 DEF Record
  <2> QED BY <1>1, <1>3, <2>1, LifecycleMoves DEF Abort, Record
<1> QED BY <1>2, <1>3

LEMMA OpenAnsweredMoves ==
    ASSUME Shaped, NEW h \in Handles, OpenAnswered(h)
    PROVE  \E s \in {"setting", "answered", "failed", "orphaned"} :
              LET r == [handles[h] EXCEPT !.state = s] IN
              /\ r \in Record /\ Changed(h, r)
              /\ handles[h].state \in Coming
              /\ s = "setting" => ~Refused
<1>1. handles[h] \in Record
  BY Lengths
<1>2. PICK s \in {"setting", "answered", "failed", "orphaned"} :
         handles' = [handles EXCEPT ![h].state = s] /\ (s = "setting" => ~Refused)
  BY DEF OpenAnswered
<1> QED BY <1>1, <1>2 DEF OpenAnswered, Changed, Record, Coming

LEMMA CloseAnsweredMoves ==
    ASSUME Shaped, NEW h \in Handles, CloseAnswered(h)
    PROVE  Over(handles[h]) \in Record /\ Changed(h, Over(handles[h]))
<1>1. handles[h] \in Record
  BY Lengths
<1> QED BY <1>1 DEF CloseAnswered, Changed, Record, Over

\* The handles when each may change.
LEMMA MappedHandles ==
    ASSUME Shaped, NEW f, f = [h \in Handles |-> f[h]], \A h \in Handles : f[h] \in Record,
           handles' = f
    PROVE  /\ handles' \in Seq(Record) /\ Len(handles') = Len(handles) /\ Handles' = Handles
           /\ \A h \in Handles : handles'[h] = f[h]
<1>1. Len(handles) \in Nat
  BY Lengths
<1>2. f \in Seq(Record) /\ Len(f) = Len(handles)
  BY <1>1, FunctionIsSequence DEF Handles
<1> QED BY <1>2 DEF Handles

\* A handle whose id is registered for another.
Replaced(g, h) == [handles[g] EXCEPT !.replaced = @ \/ sessions[handles[h].sid] = g]

LEMMA RegisterMoves ==
    ASSUME Shaped, NEW h \in Handles, Register(h)
    PROVE  /\ handles' \in Seq(Record) /\ Len(handles') = Len(handles) /\ Handles' = Handles
           /\ handles[h].state = "answered"
           /\ handles'[h] = [handles[h] EXCEPT !.state = IF owned THEN "open" ELSE "flushing"]
           /\ \A g \in Handles : g # h => handles'[g] = Replaced(g, h)
<1> DEFINE f == [g \in Handles |->
                   IF g = h THEN [handles[g] EXCEPT !.state = IF owned THEN "open" ELSE "flushing"]
                   ELSE [handles[g] EXCEPT !.replaced = @ \/ sessions[handles[h].sid] = g]]
<1>1. handles' = f /\ handles[h].state = "answered"
  BY DEF Register
<1>2. ASSUME NEW g \in Handles PROVE f[g] \in Record
  <2>1. handles[g] \in Record
    BY Lengths
  <2>2. PICK b \in BOOLEAN : b = (handles[g].replaced \/ sessions[handles[h].sid] = g)
    OBVIOUS
  <2>3. [handles[g] EXCEPT !.replaced = b] \in Record
    BY <2>1 DEF Record
  <2>4. [handles[g] EXCEPT !.state = IF owned THEN "open" ELSE "flushing"] \in Record
    BY <2>1 DEF Record, Live
  <2> QED BY <2>2, <2>3, <2>4
<1>3. f = [g \in Handles |-> f[g]]
  OBVIOUS
<1>4. /\ f[h] = [handles[h] EXCEPT !.state = IF owned THEN "open" ELSE "flushing"]
      /\ \A g \in Handles : g # h => f[g] = Replaced(g, h)
  BY DEF Replaced
<1> HIDE DEF f
<1> QED BY <1>1, <1>2, <1>3, <1>4, MappedHandles

LEMMA ExitSeenMoves ==
    ASSUME Shaped, ExitSeen
    PROVE  /\ handles' \in Seq(Record) /\ Len(handles') = Len(handles) /\ Handles' = Handles
           /\ \A h \in Handles :
                 /\ handles[h].state # "answered"
                 /\ handles'[h] \in {[handles[h] EXCEPT !.state = "failed"], Over(handles[h]), handles[h]}
                 /\ handles[h].state \in Coming => handles'[h] = [handles[h] EXCEPT !.state = "failed"]
                 /\ handles[h].state \notin Coming => handles'[h] \in {Over(handles[h]), handles[h]}
                 /\ handles'[h] = Over(handles[h]) => handles[h].leave = "asked" \/ handles'[h] = handles[h]
<1> DEFINE f == [h \in Handles |->
                   IF Opening(h) THEN [handles[h] EXCEPT !.state = "failed"]
                   ELSE IF handles[h].leave = "asked" THEN Over(handles[h])
                   ELSE handles[h]]
<1>1. handles' = f /\ \A h \in Handles : handles[h].state # "answered"
  BY DEF ExitSeen
<1>2. ASSUME NEW h \in Handles PROVE f[h] \in Record
  <2>1. handles[h] \in Record
    BY Lengths
  <2>2. [handles[h] EXCEPT !.state = "failed"] \in Record /\ Over(handles[h]) \in Record
    BY <2>1 DEF Record, Over
  <2> QED BY <2>1, <2>2
<1>3. f = [h \in Handles |-> f[h]]
  OBVIOUS
<1>4. ASSUME NEW h \in Handles
      PROVE  /\ f[h] \in {[handles[h] EXCEPT !.state = "failed"], Over(handles[h]), handles[h]}
             /\ handles[h].state \in Coming => f[h] = [handles[h] EXCEPT !.state = "failed"]
             /\ handles[h].state \notin Coming => f[h] \in {Over(handles[h]), handles[h]}
             /\ f[h] = Over(handles[h]) => handles[h].leave = "asked" \/ f[h] = handles[h]
  <2>1. Opening(h) <=> handles[h].state \in Coming
    BY <1>1 DEF Opening, Coming
  <2>2. handles[h].state # Over(handles[h]).state => FALSE
    BY Lengths DEF Over, Record
  <2>3. Opening(h) => f[h].state = "failed" /\ handles[h].state # "failed"
    BY Lengths DEF Record, Opening
  <2> QED BY <2>1, <2>2, <2>3
<1> HIDE DEF f
<1> QED BY <1>1, <1>2, <1>3, <1>4, MappedHandles

LEMMA DrainEndsMoves ==
    ASSUME Shaped, DrainEnds
    PROVE  /\ handles' \in Seq(Record) /\ Len(handles') = Len(handles) /\ Handles' = Handles
           /\ \A h \in Handles : handles'[h] = Ended(h)
<1> DEFINE f == [h \in Handles |-> Ended(h)]
<1>1. handles' = f
  BY DEF DrainEnds
<1>2. ASSUME NEW h \in Handles PROVE f[h] \in Record
  <2>1. handles[h] \in Record
    BY Lengths
  <2> QED BY <2>1 DEF Ended, Record
<1>3. f = [h \in Handles |-> f[h]] /\ \A h \in Handles : f[h] = Ended(h)
  OBVIOUS
<1> HIDE DEF f
<1> QED BY <1>1, <1>2, <1>3, MappedHandles

\* A handle's events get one more, unless they are complete.
LEMMA PushMoves ==
    ASSUME Shaped, NEW h \in Handles, NEW e \in Entries,
           handles' = [handles EXCEPT ![h].published = Push(h, e)]
    PROVE  LET r == [handles[h] EXCEPT !.published = Push(h, e)] IN r \in Record /\ Changed(h, r)
<1>1. handles[h] \in Record
  BY Lengths
<1>2. PICK p \in Seq(Entries) : p = Push(h, e)
  BY Pushed
<1>3. [handles[h] EXCEPT !.published = p] \in Record
  BY <1>1 DEF Record
<1> QED BY <1>2, <1>3 DEF Changed

LEMMA OpensMoves ==
    ASSUME Shaped, OpenSession \/ OpenOwned
    PROVE  \E sid \in Sid :
              /\ Opened(sid) \in Record
              /\ handles' = Append(handles, Opened(sid))
              /\ handles' \in Seq(Record) /\ Len(handles') = Len(handles) + 1
              /\ handles'[Len(handles) + 1] = Opened(sid)
              /\ \A h \in Handles : handles'[h] = handles[h]
              /\ \A h \in Handles : handles[h].sid = sid => handles[h].state \in {"open", "failed", "orphaned"}
              /\ owned => handles = <<>>
<1>1. PICK sid \in Sid :
         /\ handles' = Append(handles, Opened(sid))
         /\ \A h \in Handles : handles[h].sid = sid => handles[h].state \in {"open", "failed", "orphaned"}
         /\ owned => handles = <<>>
  <2>1. CASE OpenSession
    <3>1. Cardinality(Used) + 1 \in Sid /\ Used \subseteq Sid
      BY <2>1, NextSid DEF OpenSession
    <3> QED BY <2>1, <3>1 DEF OpenSession
  <2>2. CASE OpenOwned
    <3>1. 1 \in Sid
      BY ConnectionAssumption DEF Sid
    <3>2. handles = <<>> /\ handles' = Append(handles, Opened(1)) /\ Handles = {}
      <4>1. handles = <<>> /\ handles' = <<Opened(1)>>
        BY <2>2 DEF OpenOwned
      <4> QED BY <4>1 DEF Handles
    <3> QED BY <3>1, <3>2
  <2> QED BY <2>1, <2>2
<1>2. Opened(sid) \in Record
  <2>1. <<>> \in Seq(Entries)
    OBVIOUS
  <2> QED BY <2>1 DEF Opened, Record, Coming
<1>3. handles \in Seq(Record)
  BY DEF Shaped
<1>4. /\ handles' \in Seq(Record) /\ Len(handles') = Len(handles) + 1
      /\ handles'[Len(handles) + 1] = Opened(sid)
      /\ \A h \in Handles : handles'[h] = handles[h]
  BY <1>1, <1>2, <1>3, AppendProperties DEF Handles
<1> QED BY <1>1, <1>2, <1>4

-----------------------------------------------------------------------------
(* The updates in sequence *)

\* The drain loop takes the updates as they were read, one at a time: those it
\* has handled, the one in its hands, those in the queue.
InHand == IF drain = "delivering" THEN 1 ELSE 0

Numbered ==
    /\ received = handled + InHand + Len(queue)
    /\ \A i \in 1..Len(queue) : queue[i] = handled + InHand + i
    /\ drain # "delivering" => current = Nothing
    /\ drain = "delivering" =>
          /\ current.note = handled + 1
          /\ current.handle \in Handles
          /\ handles[current.handle].sid = noteSid[current.note]
          /\ handles[current.handle].state \in Live

LEMMA InitShaped == Init => Shaped /\ Numbered
<1> SUFFICES ASSUME Init PROVE Shaped /\ Numbered
  OBVIOUS
<1>1. \A S : <<>> \in Seq(S)
  OBVIOUS
<1>2. Shaped
  BY <1>1, ConnectionAssumption DEF Init, Shaped, Nothing, None
<1>3. Len(noteSid) = 0 /\ Len(queue) = 0
  BY DEF Init
<1> QED BY <1>2, <1>3 DEF Init, Numbered, InHand, received

\* An update is in the loop's hands while its handle is registered.
LEMMA FrontShaped ==
    ASSUME Shaped, Numbered, Initialized \/ UpdateRead \/ AskRead \/ Asked \/ Close
    PROVE  Shaped'
<1>1. CASE Initialized \/ Close
  BY <1>1 DEF Initialized, Close, Shaped, drainVars, mapVars, frontVars
<1>2. CASE UpdateRead
  <2>1. PICK sid \in Known : noteSid' = Append(noteSid, sid)
    BY <1>2 DEF UpdateRead
  <2>2. sid \in Sid /\ Len(noteSid) + 1 \in Nat
    BY <2>1, Lengths DEF Known, Record
  <2>3. noteSid' \in Seq(Sid) /\ queue' \in Seq(Nat)
    BY <1>2, <2>1, <2>2, AppendProperties DEF UpdateRead, Shaped
  <2> QED BY <1>2, <2>3 DEF UpdateRead, Shaped, drainVars, mapVars, frontVars
<1>3. CASE AskRead
  <2>1. PICK sid \in Known, state \in {"refused", "deciding"} :
           asks' = Append(asks, [sid |-> sid, handle |-> IF owned THEN 1 ELSE sessions[sid],
                                 state |-> state, allowed |-> FALSE])
    BY <1>3 DEF AskRead, Inbound
  <2>2. sid \in Sid
    BY <2>1, Lengths DEF Known, Record
  <2>3. [sid |-> sid, handle |-> IF owned THEN 1 ELSE sessions[sid], state |-> state,
         allowed |-> FALSE] \in AskRecord
    BY <2>2 DEF AskRecord, AskState, Shaped
  <2>4. asks' \in Seq(AskRecord)
    BY <2>1, <2>3, AppendProperties DEF Shaped
  <2> QED BY <1>3, <2>4 DEF AskRead, Shaped, drainVars, mapVars, clientVars
<1>4. CASE Asked
  <2>1. PICK q \in Asks : Decide(q)
    BY <1>4 DEF Asked
  <2>2. asks[q] \in AskRecord /\ asks \in Seq(AskRecord) /\ q \in 1..Len(asks)
    BY Lengths DEF Asks, Shaped
  <2>3. \A menu \in Menus, allowed \in BOOLEAN : Picked(menu, allowed) \in AskState
    BY DEF Picked, Menus, AskState
  <2>4. PICK r \in AskRecord : asks' = [asks EXCEPT ![q] = r]
    <3>1. CASE Refused
      <4>1. [asks[q] EXCEPT !.state = "unheard"] \in AskRecord
        BY <2>2 DEF AskRecord, AskState
      <4> QED BY <2>1, <3>1, <4>1 DEF Decide
    <3>2. CASE ~Refused
      <4>1. PICK menu \in Menus, allowed \in BOOLEAN :
               asks' = [asks EXCEPT ![q].allowed = allowed, ![q].state = Picked(menu, allowed)]
        BY <2>1, <3>2 DEF Decide
      <4>2. PICK s \in AskState : s = Picked(menu, allowed)
        BY <2>3
      <4>3. [asks[q] EXCEPT !.allowed = allowed, !.state = s] \in AskRecord
        BY <2>2 DEF AskRecord
      <4> QED BY <2>2, <4>1, <4>2, <4>3
    <3> QED BY <3>1, <3>2
  <2>5. asks' \in Seq(AskRecord)
    BY <2>2, <2>4, ExceptSeq
  <2> QED BY <2>1, <2>5 DEF Decide, Shaped, drainVars, mapVars, clientVars
<1> QED BY <1>1, <1>2, <1>3, <1>4

LEMMA HandlesShaped ==
    ASSUME Shaped, Numbered, NEW h \in Handles,
           Register(h) \/ Flush(h) \/ OpenReturns(h) \/ EndInput(h) \/ Abort(h) \/ OpenAnswered(h)
             \/ CloseAnswered(h)
    PROVE  Shaped'
<1>0. handles[h].sid \in Sid /\ h \in Nat /\ <<>> \in Seq(Nat)
  BY Lengths DEF Record, Handles
<1>1. CASE Register(h)
  BY <1>0, <1>1, RegisterMoves DEF Register, Shaped, frontVars, clientVars, drainVars
<1>2. CASE Flush(h)
  <2>1. handles' \in Seq(Record)
    BY <1>2, FlushMoves, ChangedHandles
  <2> QED BY <1>2, <2>1 DEF Flush, Shaped, frontVars, clientVars, drainVars, mapVars
<1>3. CASE OpenReturns(h)
  <2>1. handles' \in Seq(Record)
    BY <1>3, OpenReturnsMoves, ChangedHandles
  <2> QED BY <1>0, <1>3, <2>1 DEF OpenReturns, Shaped, frontVars, clientVars, drainVars
<1>4. CASE EndInput(h) \/ Abort(h)
  <2>1. PICK r \in Record : Changed(h, r) /\ (sessions' = sessions \/ LeaveMap(h))
    BY <1>4, EndInputMoves
  <2>2. handles' \in Seq(Record)
    BY <2>1, ChangedHandles
  <2>3. sessions' \in [Sid -> Nat]
    <3>1. sessions \in [Sid -> Nat] /\ [sessions EXCEPT ![handles[h].sid] = None] \in [Sid -> Nat]
      BY <1>0 DEF Shaped, None
    <3> QED BY <2>1, <3>1 DEF LeaveMap
  <2>4. disposed' \in BOOLEAN
    BY <1>4 DEF EndInput, Abort, Lifecycle, Shaped
  <2> QED BY <1>4, <2>2, <2>3, <2>4 DEF EndInput, Abort, Shaped, frontVars, drainVars
<1>5. CASE OpenAnswered(h)
  <2>1. handles' \in Seq(Record)
    BY <1>5, OpenAnsweredMoves, ChangedHandles
  <2> QED BY <1>5, <2>1 DEF OpenAnswered, Shaped, frontVars, drainVars, mapVars
<1>6. CASE CloseAnswered(h)
  <2>1. handles' \in Seq(Record)
    BY <1>6, CloseAnsweredMoves, ChangedHandles
  <2> QED BY <1>6, <2>1 DEF CloseAnswered, Shaped, frontVars, clientVars, drainVars, mapVars
<1> QED BY <1>1, <1>2, <1>3, <1>4, <1>5, <1>6

\* What becomes of one send().
LEMMA SendMoves ==
    ASSUME Shaped, NEW k \in Sends, SendAnswered(k) \/ SendMarks(k) \/ SendEnds(k)
    PROVE  \E r \in SendRecord :
              /\ sends' \in Seq(SendRecord) /\ Len(sends') = Len(sends) /\ Sends' = Sends
              /\ sends'[k] = r /\ r.handle = sends[k].handle
              /\ \A j \in Sends : j # k => sends'[j] = sends[j]
              /\ \/ sends[k].state = "posted" /\ r.state \in {"answered", "undelivered"}
                    /\ r.upto = received /\ r.mark = sends[k].mark /\ SendAnswered(k)
                 \/ sends[k].state = "answered" /\ r.state = "waiting" /\ r.upto = sends[k].upto
                    /\ r.mark = received /\ SendMarks(k)
                 \/ sends[k].state = "waiting" /\ r.state = "accepted" /\ r.upto = sends[k].upto
                    /\ r.mark = sends[k].mark /\ SendEnds(k)
<1>1. sends[k] \in SendRecord /\ sends \in Seq(SendRecord) /\ k \in 1..Len(sends) /\ received \in Nat
  BY Lengths DEF Shaped, Sends, received
<1>2. PICK r \in SendRecord :
         /\ sends' = [sends EXCEPT ![k] = r]
         /\ r.handle = sends[k].handle
         /\ \/ sends[k].state = "posted" /\ r.state \in {"answered", "undelivered"}
               /\ r.upto = received /\ r.mark = sends[k].mark /\ SendAnswered(k)
            \/ sends[k].state = "answered" /\ r.state = "waiting" /\ r.upto = sends[k].upto
               /\ r.mark = received /\ SendMarks(k)
            \/ sends[k].state = "waiting" /\ r.state = "accepted" /\ r.upto = sends[k].upto
               /\ r.mark = sends[k].mark /\ SendEnds(k)
  <2>1. CASE SendAnswered(k)
    <3>1. PICK s \in {"answered", "undelivered"} :
             sends' = [sends EXCEPT ![k].state = s, ![k].upto = received]
      BY <2>1 DEF SendAnswered, received
    <3>2. PICK r \in SendRecord : r = [sends[k] EXCEPT !.state = s, !.upto = received]
      BY <1>1 DEF SendRecord, SendState
    <3>3. r.handle = sends[k].handle /\ r.state = s /\ r.upto = received /\ r.mark = sends[k].mark
      BY <1>1, <3>2 DEF SendRecord
    <3>4. sends' = [sends EXCEPT ![k] = r]
      BY <1>1, <3>1, <3>2
    <3>5. sends[k].state = "posted"
      BY <2>1 DEF SendAnswered
    <3> QED BY <2>1, <3>3, <3>4, <3>5
  <2>2. CASE SendMarks(k)
    <3>1. [sends[k] EXCEPT !.state = "waiting", !.mark = received] \in SendRecord
      BY <1>1 DEF SendRecord, SendState
    <3> QED BY <1>1, <2>2, <3>1 DEF SendMarks, SendRecord
  <2>3. CASE SendEnds(k)
    <3>1. [sends[k] EXCEPT !.state = "accepted"] \in SendRecord
      BY <1>1 DEF SendRecord, SendState
    <3> QED BY <1>1, <2>3, <3>1 DEF SendEnds, SendRecord
  <2> QED BY <2>1, <2>2, <2>3
<1>3. /\ sends' \in Seq(SendRecord) /\ Len(sends') = Len(sends)
      /\ \A j \in 1..Len(sends) : sends'[j] = IF j = k THEN r ELSE sends[j]
  BY <1>1, <1>2, ExceptSeq
<1> QED BY <1>1, <1>2, <1>3 DEF Sends

LEMMA SendsShaped ==
    ASSUME Shaped, \A k \in Sends : sends[k].handle \in Handles,
           Sending \/ (\E h \in Handles : Send(h)) \/ (\E k \in Sends : SendAnswered(k))
    PROVE  Shaped'
<1>1. ASSUME NEW h \in Handles, Send(h) PROVE Shaped'
  <2>1. [handle |-> h, state |-> SendOutcome(h), upto |-> 0, mark |-> 0] \in SendRecord
    BY Lengths DEF SendRecord, SendOutcome, SendState, Handles, Record
  <2>2. sends' \in Seq(SendRecord)
    BY <1>1, <2>1, AppendProperties DEF Send, Shaped
  <2> QED BY <1>1, <2>2 DEF Send, Shaped, frontVars, clientVars, drainVars, mapVars
<1>2. ASSUME NEW k \in Sends, SendAnswered(k) \/ SendMarks(k) \/ SendEnds(k) PROVE Shaped'
  <2>1. sends' \in Seq(SendRecord)
    BY <1>2, SendMoves
  <2>2. handles' \in Seq(Record)
    <3>1. CASE SendAnswered(k) \/ SendMarks(k)
      BY <3>1 DEF SendAnswered, SendMarks, Shaped
    <3>2. CASE SendEnds(k)
      <4>1. PICK h \in Handles : h = sends[k].handle
        OBVIOUS
      <4>2. TurnEnd(k) \in Entries
        BY Lengths DEF TurnEnd, Entries, Sends
      <4>3. handles' = [handles EXCEPT ![h].published = Push(h, TurnEnd(k))]
        BY <3>2, <4>1 DEF SendEnds
      <4> QED BY <4>2, <4>3, PushMoves, ChangedHandles
    <3> QED BY <1>2, <3>1, <3>2
  <2> QED BY <1>2, <2>1, <2>2 DEF SendAnswered, SendMarks, SendEnds, Shaped, frontVars, clientVars,
                                  drainVars, mapVars
<1> QED BY <1>1, <1>2 DEF Sending

LEMMA DrainShaped == Shaped /\ Numbered /\ Drain => Shaped'
<1> SUFFICES ASSUME Shaped, Numbered, Drain PROVE Shaped'
  OBVIOUS
<1>1. CASE DrainTakes
  <2>1. PICK n : n = Head(queue)
    OBVIOUS
  <2>2. n \in Notes /\ noteSid[n] \in Sid /\ queue' \in Seq(Nat) /\ n \in Nat
    <3>1. queue \in Seq(Nat) /\ queue # <<>>
      BY <1>1 DEF DrainTakes, Shaped
    <3>2. n = queue[1] /\ 1 \in 1..Len(queue) /\ queue' = Tail(queue) /\ Tail(queue) \in Seq(Nat)
      BY <1>1, <2>1, <3>1, TailProperties DEF DrainTakes
    <3>3. n = handled + InHand + 1
      BY <3>2 DEF Numbered
    <3>4. /\ handled \in Nat /\ InHand \in Nat /\ Len(queue) \in Nat /\ received \in Nat
          /\ received = handled + InHand + Len(queue)
      BY Lengths DEF Shaped, InHand, received, Numbered
    <3>5. n \in 1..received
      BY <3>2, <3>3, <3>4
    <3> QED BY <3>2, <3>5, Lengths DEF Notes, received
  <2>3. current' \in [note : Nat, handle : Nat]
    BY <1>1, <2>1, <2>2 DEF DrainTakes, Shaped
  <2>4. early' \in [Sid -> Seq(Nat)]
    <3>1. Append(early[noteSid[n]], n) \in Seq(Nat)
      BY <2>2, Lengths, AppendProperties
    <3> QED BY <1>1, <2>1, <2>2, <3>1 DEF DrainTakes, Hold, Shaped
  <2>5. drain' \in {"idle", "delivering", "ended"} /\ handled' \in Nat
    BY <1>1 DEF DrainTakes, Shaped
  <2>6. /\ UNCHANGED <<owned, ready, asks, noteSid, exitSeen, disposed, sessions, handles, sends>>
    BY <1>1 DEF DrainTakes, frontVars
  <2> QED BY <2>2, <2>3, <2>4, <2>5, <2>6 DEF Shaped
<1>2. CASE DrainDelivers
  <2>1. PICK h \in Handles, e \in Entries : handles' = [handles EXCEPT ![h].published = Push(h, e)]
    BY <1>2 DEF DrainDelivers, Numbered, Note, Entries, Shaped
  <2>2. handles' \in Seq(Record)
    BY <2>1, PushMoves, ChangedHandles
  <2> QED BY <1>2, <2>2 DEF DrainDelivers, Shaped, Nothing, None, frontVars, clientVars, mapVars
<1>3. CASE DrainEnds
  BY <1>3, DrainEndsMoves DEF DrainEnds, Shaped, None, frontVars, clientVars
<1> QED BY <1>1, <1>2, <1>3 DEF Drain

LEMMA ExitShaped == Shaped /\ ExitSeen => Shaped'
<1> SUFFICES ASSUME Shaped, ExitSeen PROVE Shaped'
  OBVIOUS
<1> DEFINE f == [k \in Sends |->
                   IF sends[k].state = "posted" THEN [sends[k] EXCEPT !.state = "rejected"]
                   ELSE sends[k]]
<1>1. sends' = f
  BY DEF ExitSeen
<1>2. \A k \in Sends : f[k] \in SendRecord
  BY Lengths DEF SendRecord, SendState
<1>3. f = [k \in 1..Len(sends) |-> f[k]] /\ Len(sends) \in Nat
  BY Lengths DEF Sends
<1>4. sends' \in Seq(SendRecord)
  <2> HIDE DEF f
  <2> QED BY <1>1, <1>2, <1>3, FunctionIsSequence DEF Sends
<1>5. handles' \in Seq(Record)
  BY ExitSeenMoves
<1> QED BY <1>4, <1>5 DEF ExitSeen, Shaped, drainVars, mapVars

LEMMA ShapedStep ==
    Shaped /\ Numbered /\ (\A k \in Sends : sends[k].handle \in Handles) /\ [Next]_vars => Shaped'
<1> SUFFICES ASSUME Shaped, Numbered, \A k \in Sends : sends[k].handle \in Handles, [Next]_vars
             PROVE  Shaped'
  OBVIOUS
<1>1. CASE OpenSession \/ OpenOwned
  BY <1>1, OpensMoves DEF OpenSession, OpenOwned, Shaped, frontVars, clientVars, drainVars, mapVars
<1>2. CASE UNCHANGED vars
  BY <1>2 DEF vars, Shaped, frontVars, clientVars, drainVars, mapVars
<1> QED BY <1>1, <1>2, FrontShaped, HandlesShaped, SendsShaped, DrainShaped, ExitShaped
           DEF Next, Opens, Calls, Front

-----------------------------------------------------------------------------
(* What no step takes from a handle *)

SendsOwned == \A k \in Sends : sends[k].handle \in Handles /\ handles[sends[k].handle].state = "open"

Registered == \A sid \in Sid : sessions[sid] \in {None} \cup Handles

\* A handle that was not returned has no events and did not leave; one that left is closed.
Fits(r) ==
    /\ r.state \notin Live => ~r.shut /\ r.flushed = 0 /\ r.published = <<>> /\ ~r.replaced
    /\ r.state # "open" => r.leave = "no"
    /\ r.leave # "no" => r.shut

\* What a step may make of a handle.
Kept(r, s) ==
    /\ s.sid = r.sid
    /\ r.state \in Live => s.state \in Live
    /\ r.state = "open" => s.state = "open"
    /\ s.state \in Coming => r.state \in Coming
    /\ s.state = "flushing" => r.state \in {"answered", "flushing"}
    /\ s.state \in Live => r.state \in Live \cup {"answered"}
    /\ r.shut => s.shut
    /\ r.replaced => s.replaced
    /\ r.leave # "no" => s.leave # "no"
    /\ Fits(r) => Fits(s)

\* A step that leaves the state of a handle as it is.
LEMMA SameLife ==
    ASSUME NEW r \in Record, NEW s \in Record, s.sid = r.sid, s.state = r.state,
           r.shut => s.shut, r.replaced => s.replaced,
           r.leave # "no" => s.leave # "no",
           s.leave # "no" => s.leave = r.leave \/ (r.state = "open" /\ s.shut) \/ r.leave # "no",
           r.state \notin Live => s.shut = r.shut /\ s.flushed = r.flushed
                                   /\ s.published = r.published /\ s.replaced = r.replaced
    PROVE  Kept(r, s)
<1>1. Fits(r) => Fits(s)
  BY DEF Fits, Record
<1> QED BY <1>1 DEF Kept, Live, Coming

LEMMA NewState ==
    ASSUME NEW r \in Record, NEW t, NEW n \in Nat,
           \/ r.state = "answered" /\ t \in Live /\ n = r.flushed
           \/ r.state = "flushing" /\ t = "open"
           \/ r.state \in Coming /\ t \in {"setting", "answered", "failed", "orphaned"} /\ n = r.flushed
    PROVE  Kept(r, [r EXCEPT !.state = t, !.flushed = n])
<1> DEFINE s == [r EXCEPT !.state = t, !.flushed = n]
<1>1. /\ s.sid = r.sid /\ s.state = t /\ s.flushed = n /\ s.shut = r.shut /\ s.replaced = r.replaced
      /\ s.leave = r.leave /\ s.published = r.published
  BY DEF Record
<1> HIDE DEF s
<1>2. Fits(r) => Fits(s)
  BY <1>1 DEF Fits, Live, Coming
<1>3. Kept(r, s)
  BY <1>1, <1>2 DEF Kept, Live, Coming
<1> QED BY <1>3 DEF s

LEMMA KeptBy ==
    ASSUME Shaped, NEW h \in Handles, NEW r \in Record, Changed(h, r), Kept(handles[h], r)
    PROVE  Handles' = Handles /\ \A g \in Handles : Kept(handles[g], handles'[g])
BY ChangedHandles DEF Kept

LEMMA HandlesKept ==
    ASSUME Shaped, Numbered, SendsOwned, Registered, MapIsLive, [Next]_vars
    PROVE  /\ Handles \subseteq Handles' /\ \A h \in Handles : Kept(handles[h], handles'[h])
           /\ Handles' = Handles \/ OpenSession \/ OpenOwned
<1> DEFINE Goal == /\ Handles \subseteq Handles'
                   /\ Handles' = Handles \/ OpenSession \/ OpenOwned
                   /\ \A g \in Handles : Kept(handles[g], handles'[g])
<1>0. \A h \in Handles : handles[h] \in Record /\ handles[h].sid \in Sid /\ handles[h].flushed \in Nat
  BY Lengths DEF Record
<1>1. CASE OpenSession \/ OpenOwned
  BY <1>0, <1>1, OpensMoves, Lengths, SameLife DEF Handles
<1>2. ASSUME NEW h \in Handles, Register(h) PROVE Goal
  <2>1. PICK t \in Live : handles'[h] = [handles[h] EXCEPT !.state = t]
    BY <1>2, RegisterMoves DEF Live
  <2>2. Handles' = Handles /\ handles[h].state = "answered"
    BY <1>2, RegisterMoves
  <2>3. Kept(handles[h], handles'[h])
    <3>1. [handles[h] EXCEPT !.state = t] = [handles[h] EXCEPT !.state = t, !.flushed = handles[h].flushed]
      BY <1>0 DEF Record
    <3>2. Kept(handles[h], [handles[h] EXCEPT !.state = t, !.flushed = handles[h].flushed])
      BY <1>0, <2>2, NewState
    <3> QED BY <2>1, <3>1, <3>2
  <2>4. ASSUME NEW g \in Handles, g # h PROVE Kept(handles[g], handles'[g])
    <3>1. handles'[g] = Replaced(g, h)
      BY <1>2, <2>4, RegisterMoves
    <3>2. PICK b \in BOOLEAN : b <=> handles[g].replaced \/ sessions[handles[h].sid] = g
      OBVIOUS
    <3>3. PICK s \in Record : s = [handles[g] EXCEPT !.replaced = b]
      BY <1>0 DEF Record
    <3>4. handles'[g] = s
      BY <1>0, <3>1, <3>2, <3>3 DEF Record, Replaced
    <3>5. handles[g].state \notin Live => (b <=> handles[g].replaced)
      BY <1>0, <3>2 DEF MapIsLive, Live, None, Handles
    <3>6. Kept(handles[g], s)
      BY <1>0, <3>2, <3>3, <3>5, SameLife DEF Record
    <3> QED BY <3>4, <3>6
  <2> QED BY <2>2, <2>3, <2>4
<1>3. ASSUME NEW h \in Handles, Flush(h) PROVE Goal
  <2>1. PICK r \in Record :
           /\ Changed(h, r) /\ handles[h].state = "flushing"
           /\ r.sid = handles[h].sid /\ r.state = handles[h].state /\ r.shut = handles[h].shut
           /\ r.replaced = handles[h].replaced /\ r.leave = handles[h].leave
    BY <1>3, FlushMoves
  <2>2. Kept(handles[h], r)
    BY <1>0, <2>1, SameLife DEF Live
  <2> QED BY <2>1, <2>2, KeptBy
<1>4. ASSUME NEW h \in Handles, OpenReturns(h) PROVE Goal
  <2>1. handles[h].state = "flushing"
    BY <1>4 DEF OpenReturns
  <2>2. PICK r \in Record : r = [handles[h] EXCEPT !.state = "open", !.flushed = 0] /\ Changed(h, r)
    BY <1>4, OpenReturnsMoves
  <2>3. Kept(handles[h], r)
    BY <1>0, <2>1, <2>2, NewState
  <2> QED BY <2>2, <2>3, KeptBy
<1>5. ASSUME NEW h \in Handles, EndInput(h) \/ Abort(h) PROVE Goal
  <2>1. PICK r \in Record :
              /\ Changed(h, r)
              /\ handles[h].state = "open" /\ r.state = "open" /\ r.sid = handles[h].sid
              /\ r.flushed = handles[h].flushed
              /\ r.published = handles[h].published /\ r.replaced = handles[h].replaced
              /\ \/ r.shut = handles[h].shut /\ r.leave = handles[h].leave
                 \/ r.shut /\ r.leave # "no"
    BY <1>5, EndInputMoves
  <2>2. Kept(handles[h], r)
    BY <1>0, <2>1, SameLife DEF Live
  <2> QED BY <2>1, <2>2, KeptBy
<1>6. ASSUME NEW h \in Handles, OpenAnswered(h) PROVE Goal
  <2>1. PICK t \in {"setting", "answered", "failed", "orphaned"} :
              LET r == [handles[h] EXCEPT !.state = t] IN
              /\ r \in Record /\ Changed(h, r)
              /\ handles[h].state \in Coming
    BY <1>6, OpenAnsweredMoves
  <2>2. [handles[h] EXCEPT !.state = t] = [handles[h] EXCEPT !.state = t, !.flushed = handles[h].flushed]
    BY <1>0 DEF Record
  <2>3. Kept(handles[h], [handles[h] EXCEPT !.state = t])
    BY <1>0, <2>1, <2>2, NewState
  <2> QED BY <2>1, <2>3, KeptBy
<1>7. ASSUME NEW h \in Handles, NEW r \in Record, r = Over(handles[h]), handles[h].leave # "no"
      PROVE  Kept(handles[h], r)
  <2>1. /\ r.sid = handles[h].sid /\ r.state = handles[h].state /\ r.shut = handles[h].shut
        /\ r.replaced = handles[h].replaced /\ r.published = handles[h].published
        /\ r.flushed = handles[h].flushed /\ r.leave # "no"
    BY <1>0, <1>7 DEF Record, Over
  <2> QED BY <1>0, <1>7, <2>1, SameLife
<1>8. ASSUME NEW h \in Handles, CloseAnswered(h) PROVE Goal
  <2>1. PICK r \in Record : r = Over(handles[h]) /\ Changed(h, r)
    BY <1>8, CloseAnsweredMoves
  <2>2. Kept(handles[h], r)
    BY <1>7, <1>8, <2>1 DEF CloseAnswered
  <2> QED BY <2>1, <2>2, KeptBy
<1>9. CASE ExitSeen
  <2>1. Handles' = Handles
    BY <1>9, ExitSeenMoves
  <2>2. ASSUME NEW h \in Handles PROVE Kept(handles[h], handles'[h])
    <3>1. CASE handles[h].state \in Coming
      <4>1. handles'[h] = [handles[h] EXCEPT !.state = "failed"]
        BY <1>9, <3>1, ExitSeenMoves
      <4>2. handles'[h] = [handles[h] EXCEPT !.state = "failed", !.flushed = handles[h].flushed]
        BY <1>0, <4>1 DEF Record
      <4>3. Kept(handles[h], [handles[h] EXCEPT !.state = "failed", !.flushed = handles[h].flushed])
        BY <1>0, <3>1, NewState
      <4> QED BY <4>2, <4>3
    <3>2. CASE handles[h].state \notin Coming
      <4>1. /\ handles'[h] \in {Over(handles[h]), handles[h]}
            /\ handles'[h] = Over(handles[h]) => handles[h].leave = "asked" \/ handles'[h] = handles[h]
        BY <1>9, <3>2, ExitSeenMoves
      <4>2. Over(handles[h]) \in Record
        BY <1>0 DEF Over, Record
      <4>3. Kept(handles[h], handles[h])
        BY <1>0, SameLife
      <4> QED BY <1>7, <4>1, <4>2, <4>3
    <3> QED BY <3>1, <3>2
  <2> QED BY <2>1, <2>2
<1>10. ASSUME NEW h \in Handles, NEW e \in Entries, handles[h].state \in Live,
              handles' = [handles EXCEPT ![h].published = Push(h, e)]
      PROVE  Goal
  <2>1. PICK p \in Seq(Entries) : p = Push(h, e)
    BY Pushed
  <2>2. PICK r \in Record : Changed(h, r) /\ r = [handles[h] EXCEPT !.published = p]
    BY <1>10, <2>1, PushMoves
  <2>3. Kept(handles[h], r)
    BY <1>0, <1>10, <2>2, SameLife DEF Record
  <2> QED BY <2>2, <2>3, KeptBy
<1>11. CASE DrainDelivers
  <2>1. PICK h \in Handles, e \in Entries :
           handles[h].state \in Live /\ handles' = [handles EXCEPT ![h].published = Push(h, e)]
    BY <1>11 DEF DrainDelivers, Numbered, Note, Entries, Shaped
  <2> QED BY <1>10, <2>1
<1>12. CASE DrainEnds
  <2>1. ASSUME NEW h \in Handles PROVE Kept(handles[h], Ended(h))
    <3>1. PICK s \in Record : s = Ended(h)
      BY <1>0 DEF Ended, Record
    <3>2. /\ s.sid = handles[h].sid /\ s.state = handles[h].state
          /\ s.shut = handles[h].shut \/ (s.shut /\ sessions[handles[h].sid] = h)
          /\ s.replaced = handles[h].replaced /\ s.published = handles[h].published
          /\ s.flushed = handles[h].flushed /\ s.leave = handles[h].leave
      BY <1>0, <3>1 DEF Record, Ended
    <3>3. sessions[handles[h].sid] = h => handles[h].state \in Live
      BY <1>0 DEF MapIsLive, Live, None, Handles
    <3> QED BY <1>0, <3>1, <3>2, <3>3, SameLife
  <2> QED BY <1>12, <2>1, DrainEndsMoves
<1>13. ASSUME NEW k \in Sends, SendEnds(k) PROVE Goal
  <2>1. PICK h \in Handles : h = sends[k].handle /\ handles[h].state \in Live
    BY DEF SendsOwned, Live
  <2>2. TurnEnd(k) \in Entries
    BY Lengths DEF TurnEnd, Entries, Sends
  <2>3. handles' = [handles EXCEPT ![h].published = Push(h, TurnEnd(k))]
    BY <1>13, <2>1 DEF SendEnds
  <2> QED BY <1>10, <2>1, <2>2, <2>3
<1>14. CASE UNCHANGED handles
  BY <1>0, <1>14, SameLife DEF Handles
<1>15. Initialized \/ UpdateRead \/ AskRead \/ Asked \/ Close \/ DrainTakes
         \/ (\E h \in Handles : Send(h)) \/ (\E k \in Sends : SendAnswered(k) \/ SendMarks(k)) \/ UNCHANGED vars
       => UNCHANGED handles
  BY DEF Initialized, UpdateRead, AskRead, Asked, Decide, Close, DrainTakes, Send, SendAnswered, SendMarks, vars
<1> HIDE DEF Goal
<1>16. Goal
  BY <1>1, <1>14, <1>9, <1>11, <1>12, <1>2, <1>3, <1>4, <1>5, <1>6, <1>8, <1>13, <1>15
     DEF Next, Opens, Calls, Front, Drain, Sending, Goal
<1> QED BY <1>16 DEF Goal

-----------------------------------------------------------------------------
(* The life of a handle *)

Unique ==
    \A g, h \in Handles :
        /\ handles[g].sid = handles[h].sid
        /\ {handles[g].state, handles[h].state} \subseteq Coming \cup {"flushing"}
        => g = h

Lives ==
    /\ exitSeen => \A h \in Handles : handles[h].state \notin Coming
    /\ drain = "ended" => exitSeen
    /\ owned => Len(handles) <= 1
    /\ \A h \in Handles : Fits(handles[h])
    /\ Unique

LEMMA LivesStep ==
    Shaped /\ Numbered /\ SendsOwned /\ Registered /\ MapIsLive /\ Lives /\ [Next]_vars => Lives'
<1> SUFFICES ASSUME Shaped, Numbered, SendsOwned, Registered, MapIsLive, Lives, [Next]_vars PROVE Lives'
  OBVIOUS
<1>0. /\ Handles \subseteq Handles' /\ \A h \in Handles : Kept(handles[h], handles'[h])
      /\ Handles' = Handles \/ OpenSession \/ OpenOwned
      /\ \A h \in Handles : handles[h] \in Record
  BY HandlesKept, Lengths
<1>1. CASE OpenSession \/ OpenOwned
  <2>1. PICK sid \in Sid :
              /\ Opened(sid) \in Record
              /\ Len(handles') = Len(handles) + 1
              /\ handles'[Len(handles) + 1] = Opened(sid)
              /\ \A h \in Handles : handles'[h] = handles[h]
              /\ \A h \in Handles : handles[h].sid = sid => handles[h].state \in {"open", "failed", "orphaned"}
              /\ owned => handles = <<>>
    BY <1>1, OpensMoves
  <2>2. UNCHANGED <<exitSeen, disposed, drain, owned>>
    BY <1>1 DEF OpenSession, OpenOwned, frontVars, clientVars, drainVars
  <2>3. Handles' = Handles \cup {Len(handles) + 1} /\ Len(handles) + 1 \notin Handles /\ Len(handles) \in Nat
    BY <2>1, Lengths DEF Handles
  <2>4. /\ Opened(sid).sid = sid /\ Opened(sid).state \in {"asked", "failed"}
        /\ Opened(sid).state = "asked" => ~exitSeen
        /\ Fits(Opened(sid))
    BY DEF Opened, Refused, Fits, Live
  <2>5. owned' => Len(handles') <= 1
    <3>1. handles = <<>> => Len(handles) = 0
      OBVIOUS
    <3> QED BY <2>1, <2>2, <2>3, <3>1
  <2>6. exitSeen' => \A h \in Handles' : handles'[h].state \notin Coming
    BY <2>1, <2>2, <2>3, <2>4 DEF Lives, Coming
  <2>7. \A h \in Handles' : Fits(handles'[h])
    BY <2>1, <2>3, <2>4 DEF Lives
  <2>8. Unique'
    <3> SUFFICES ASSUME NEW g \in Handles', NEW h \in Handles', handles'[g].sid = handles'[h].sid,
                        {handles'[g].state, handles'[h].state} \subseteq Coming \cup {"flushing"}
                 PROVE  g = h
      BY DEF Unique
    <3>1. CASE g \in Handles /\ h \in Handles
      BY <2>1, <3>1 DEF Lives, Unique
    <3>2. CASE g \in Handles /\ h = Len(handles) + 1
      <4>1. handles[g].sid = sid /\ handles[g].state \in Coming \cup {"flushing"}
        BY <2>1, <2>4, <3>2
      <4> QED BY <2>1, <3>2, <4>1 DEF Coming
    <3>3. CASE h \in Handles /\ g = Len(handles) + 1
      <4>1. handles[h].sid = sid /\ handles[h].state \in Coming \cup {"flushing"}
        BY <2>1, <2>4, <3>3
      <4> QED BY <2>1, <3>3, <4>1 DEF Coming
    <3> QED BY <2>3, <3>1, <3>2, <3>3
  <2> QED BY <2>2, <2>5, <2>6, <2>7, <2>8 DEF Lives
<1>2. CASE Handles' = Handles
  <2>1. Len(handles') = Len(handles)
    <3>1. Shaped'
      BY ShapedStep DEF SendsOwned
    <3>2. Len(handles) \in Nat /\ Len(handles') \in Nat
      <4>1. handles' \in Seq(Record)
        BY <3>1 DEF Shaped
      <4> QED BY <4>1, Lengths, SequenceProperties
    <3> QED BY <1>2, <3>2 DEF Handles
  <2>2. owned' = owned
    BY DEF Next, Opens, Calls, Front, Drain, Sending, Asked, Decide, OpenSession, OpenOwned, Register, Flush,
         OpenReturns, Close, Send, EndInput, Abort, Initialized, AskRead, ExitSeen, OpenAnswered, UpdateRead,
         CloseAnswered, SendAnswered, SendMarks, SendEnds, DrainTakes, DrainDelivers, DrainEnds, frontVars, vars
  <2>3. exitSeen' = exitSeen \/ ExitSeen
    BY DEF Next, Opens, Calls, Front, Drain, Sending, Asked, Decide, OpenSession, OpenOwned, Register, Flush,
         OpenReturns, Close, Send, EndInput, Abort, Initialized, AskRead, OpenAnswered, UpdateRead,
         CloseAnswered, SendAnswered, SendMarks, SendEnds, DrainTakes, DrainDelivers, DrainEnds, clientVars, vars
  <2>4. (drain' = "ended" => drain = "ended") \/ DrainEnds
    BY DEF Next, Opens, Calls, Front, Drain, Sending, Asked, Decide, OpenSession, OpenOwned, Register, Flush,
         OpenReturns, Close, Send, EndInput, Abort, Initialized, AskRead, ExitSeen, OpenAnswered, UpdateRead,
         CloseAnswered, SendAnswered, SendMarks, SendEnds, DrainTakes, DrainDelivers, drainVars, vars
  <2>5. ExitSeen => exitSeen' /\ \A h \in Handles : handles'[h].state \notin Coming
    <3>1. ASSUME ExitSeen, NEW h \in Handles PROVE handles'[h].state \notin Coming
      <4>1. CASE handles[h].state \in Coming
        <5>1. handles'[h] = [handles[h] EXCEPT !.state = "failed"]
          BY <3>1, <4>1, ExitSeenMoves
        <5> QED BY <1>0, <5>1 DEF Record, Coming
      <4>2. CASE handles[h].state \notin Coming
        BY <1>0, <4>2 DEF Kept
      <4> QED BY <4>1, <4>2
    <3> QED BY <3>1 DEF ExitSeen
  <2>6. exitSeen' => \A h \in Handles' : handles'[h].state \notin Coming
    BY <1>0, <1>2, <2>3, <2>5 DEF Lives, Kept
  <2>7. drain' = "ended" => exitSeen'
    BY <2>3, <2>4, <2>5 DEF Lives, DrainEnds
  <2>8. \A h \in Handles' : Fits(handles'[h])
    BY <1>0, <1>2 DEF Lives, Kept
  <2>9. Unique'
    BY <1>0, <1>2 DEF Lives, Kept, Unique, Coming
  <2> QED BY <2>1, <2>2, <2>6, <2>7, <2>8, <2>9 DEF Lives
<1> QED BY <1>0, <1>1, <1>2

-----------------------------------------------------------------------------
(* The map, the handles and the drain loop *)

Agreed == Registered /\ MapIsLive /\ LiveIsMapped /\ EventsComplete

\* A step that opens, leaves and closes nothing.
Still(r, s) ==
    /\ s.shut => r.shut
    /\ s.leave # "no" => r.leave # "no"
    /\ s.state \in Live => r.state \in Live

LEMMA StillAgreed ==
    ASSUME Shaped, Numbered, SendsOwned, Agreed, [Next]_vars,
           sessions' = sessions, drain' = "ended" <=> drain = "ended",
           \A h \in Handles : Still(handles[h], handles'[h]),
           \A h \in Handles' : h \in Handles \/ handles'[h].state \notin Live
    PROVE  Agreed'
<1>0. Handles \subseteq Handles' /\ \A h \in Handles : Kept(handles[h], handles'[h])
  BY HandlesKept DEF Agreed
<1>1. \A h \in Handles : handles[h] \in Record /\ handles[h].sid \in Sid
  BY Lengths DEF Record
<1>2. Registered'
  BY <1>0 DEF Agreed, Registered
<1>3. MapIsLive'
  <2> SUFFICES ASSUME NEW sid \in Sid, sessions[sid] # None
               PROVE  LET r == handles'[sessions[sid]] IN
                      r.sid = sid /\ r.state \in Live /\ r.leave = "no" /\ ~r.shut
    BY DEF MapIsLive, Live
  <2>1. PICK h \in Handles : h = sessions[sid]
    BY DEF Agreed, Registered
  <2>2. /\ handles[h].sid = sid /\ handles[h].state \in Live
        /\ handles[h].leave = "no" /\ ~handles[h].shut
    BY <2>1 DEF Agreed, MapIsLive, Live
  <2> QED BY <1>0, <2>1, <2>2 DEF Kept, Still
<1>4. LiveIsMapped'
  BY <1>0 DEF Agreed, LiveIsMapped, Kept, Still, Live
<1>5. EventsComplete'
  <2> SUFFICES ASSUME drain = "ended", NEW h \in Handles, handles[h].state \in Live
               PROVE  handles'[h].shut \/ handles'[h].replaced
    BY DEF EventsComplete, Live, Still
  <2>1. handles[h].shut \/ handles[h].replaced
    BY DEF Agreed, EventsComplete, Live
  <2> QED BY <1>0, <2>1 DEF Kept
<1> QED BY <1>2, <1>3, <1>4, <1>5 DEF Agreed

LEMMA StillBy ==
    ASSUME Shaped, NEW h \in Handles, NEW r \in Record, Changed(h, r), Still(handles[h], r)
    PROVE  Handles' = Handles /\ \A g \in Handles : Still(handles[g], handles'[g])
BY ChangedHandles DEF Still

LEMMA AgreedStep ==
    Shaped /\ Numbered /\ SendsOwned /\ Lives /\ Agreed /\ [Next]_vars => Agreed'
<1> SUFFICES ASSUME Shaped, Numbered, SendsOwned, Lives, Agreed, [Next]_vars PROVE Agreed'
  OBVIOUS
<1> DEFINE Goal == /\ \A g \in Handles : Still(handles[g], handles'[g])
                   /\ \A g \in Handles' : g \in Handles \/ handles'[g].state \notin Live
<1>0. /\ Handles \subseteq Handles' /\ \A h \in Handles : Kept(handles[h], handles'[h])
      /\ \A h \in Handles : handles[h] \in Record /\ handles[h].sid \in Sid /\ handles[h].flushed \in Nat
      /\ \A h \in Handles : h \in Nat \ {0}
  BY HandlesKept, Lengths DEF Agreed, Record, Handles
<1>1. ASSUME Goal, sessions' = sessions, drain' = "ended" <=> drain = "ended" PROVE Agreed'
  BY <1>1, StillAgreed
<1>2. CASE OpenSession \/ OpenOwned
  <2>1. PICK sid \in Sid :
              /\ Len(handles') = Len(handles) + 1
              /\ handles'[Len(handles) + 1] = Opened(sid)
              /\ \A h \in Handles : handles'[h] = handles[h]
    BY <1>2, OpensMoves
  <2>2. Handles' = Handles \cup {Len(handles) + 1} /\ Opened(sid).state \notin Live
    BY <2>1, Lengths DEF Handles, Opened, Live
  <2>3. UNCHANGED <<sessions, drain>>
    BY <1>2 DEF OpenSession, OpenOwned, mapVars, drainVars
  <2>4. Goal
    BY <2>1, <2>2 DEF Still
  <2> QED BY <1>1, <2>3, <2>4
<1>3. ASSUME NEW h \in Handles, Register(h) PROVE Agreed'
  <2>1. PICK t \in Live : handles'[h] = [handles[h] EXCEPT !.state = t]
    BY <1>3, RegisterMoves DEF Live
  <2>2. Handles' = Handles /\ handles[h].state = "answered"
    BY <1>3, RegisterMoves
  <2>3. sessions' = [sessions EXCEPT ![handles[h].sid] = h] /\ drain' = drain
    BY <1>3 DEF Register, drainVars
  <2>4. ASSUME NEW g \in Handles, g # h
        PROVE  /\ handles'[g].sid = handles[g].sid /\ handles'[g].state = handles[g].state
               /\ handles'[g].shut = handles[g].shut /\ handles'[g].leave = handles[g].leave
               /\ handles'[g].replaced <=> handles[g].replaced \/ sessions[handles[h].sid] = g
    <3>1. handles'[g] = Replaced(g, h)
      BY <1>3, <2>4, RegisterMoves
    <3> QED BY <1>0, <3>1 DEF Record, Replaced
  <2>5. /\ handles'[h].sid = handles[h].sid /\ handles'[h].state \in Live
        /\ ~handles'[h].shut /\ handles'[h].leave = "no"
    BY <1>0, <2>1, <2>2 DEF Record, Lives, Fits, Live
  <2>6. sessions \in [Sid -> Nat]
    BY DEF Shaped
  <2>7. \A sid \in Sid : sessions'[sid] = IF sid = handles[h].sid THEN h ELSE sessions[sid]
    BY <2>3, <2>6
  <2>8. Registered'
    BY <2>2, <2>7 DEF Agreed, Registered
  <2>9. MapIsLive'
    BY <2>2, <2>4, <2>5, <2>7 DEF Agreed, Registered, MapIsLive, Live
  <2>10. LiveIsMapped'
    <3> SUFFICES ASSUME drain # "ended", NEW g \in Handles, handles'[g].state \in Live,
                        handles'[g].leave = "no", ~handles'[g].replaced
                 PROVE  sessions'[handles'[g].sid] = g
      BY <2>2, <2>3 DEF LiveIsMapped, Live
    <3>1. CASE g = h
      BY <1>0, <2>5, <2>7, <3>1
    <3>2. CASE g # h
      <4>1. /\ handles'[g].sid = handles[g].sid /\ handles'[g].state = handles[g].state
            /\ handles'[g].leave = handles[g].leave
            /\ ~handles[g].replaced /\ sessions[handles[h].sid] # g
        BY <2>4, <3>2
      <4>2. sessions[handles[g].sid] = g
        BY <4>1 DEF Agreed, LiveIsMapped, Live
      <4> QED BY <1>0, <2>7, <4>1, <4>2
    <3> QED BY <3>1, <3>2
  <2>11. EventsComplete'
    BY <2>2, <2>3 DEF EventsComplete, Lives, Coming
  <2> QED BY <2>8, <2>9, <2>10, <2>11 DEF Agreed
<1>4. ASSUME NEW h \in Handles, Flush(h) PROVE Agreed'
  <2>1. PICK r \in Record :
           /\ Changed(h, r) /\ r.state = handles[h].state /\ r.shut = handles[h].shut
           /\ r.leave = handles[h].leave
    BY <1>4, FlushMoves
  <2>2. Still(handles[h], r)
    BY <2>1 DEF Still
  <2>3. UNCHANGED <<sessions, drain>>
    BY <1>4 DEF Flush, mapVars, drainVars
  <2> QED BY <1>1, <2>1, <2>2, <2>3, StillBy
<1>5. ASSUME NEW h \in Handles, OpenReturns(h) PROVE Agreed'
  <2>1. PICK r \in Record : r = [handles[h] EXCEPT !.state = "open", !.flushed = 0] /\ Changed(h, r)
    BY <1>5, OpenReturnsMoves
  <2>2. handles[h].state \in Live
    BY <1>5 DEF OpenReturns, Live
  <2>3. Still(handles[h], r)
    BY <1>0, <2>1, <2>2 DEF Record, Still
  <2>4. UNCHANGED <<sessions, drain>>
    BY <1>5 DEF OpenReturns, drainVars
  <2> QED BY <1>1, <2>1, <2>3, <2>4, StillBy
<1>6. ASSUME NEW h \in Handles, EndInput(h) \/ Abort(h) PROVE Agreed'
  <2>1. PICK r \in Record :
              /\ Changed(h, r)
              /\ handles[h].state = "open" /\ r.state = "open" /\ r.sid = handles[h].sid
              /\ r.replaced = handles[h].replaced
              /\ \/ r.shut = handles[h].shut /\ r.leave = handles[h].leave /\ sessions' = sessions
                 \/ r.shut /\ r.leave # "no" /\ LeaveMap(h)
    BY <1>6, EndInputMoves
  <2>2. drain' = drain
    BY <1>6 DEF EndInput, Abort, drainVars
  <2>3. CASE r.shut = handles[h].shut /\ r.leave = handles[h].leave /\ sessions' = sessions
    <3>1. Still(handles[h], r)
      BY <2>1, <2>3 DEF Still, Live
    <3> QED BY <1>1, <2>1, <2>2, <2>3, <3>1, StillBy
  <2>4. CASE r.shut /\ r.leave # "no" /\ LeaveMap(h)
    <3>1. /\ Handles' = Handles /\ handles'[h] = r
          /\ \A g \in Handles : g # h => handles'[g] = handles[g]
      BY <2>1, ChangedHandles
    <3>2. sessions \in [Sid -> Nat]
      BY DEF Shaped
    <3>3. \A sid \in Sid : sessions'[sid] = IF sid = handles[h].sid /\ sessions[sid] = h
                                           THEN None ELSE sessions[sid]
      BY <1>0, <2>4, <3>2 DEF LeaveMap
    <3>4. Registered'
      BY <3>1, <3>3 DEF Agreed, Registered
    <3>5. MapIsLive'
      <4> SUFFICES ASSUME NEW sid \in Sid, sessions'[sid] # None
                   PROVE  LET q == handles'[sessions'[sid]] IN
                          q.sid = sid /\ q.state \in Live /\ q.leave = "no" /\ ~q.shut
        BY DEF MapIsLive, Live
      <4>1. sessions'[sid] = sessions[sid] /\ sessions[sid] \in Handles
        BY <3>3 DEF Agreed, Registered
      <4>2. handles[sessions[sid]].sid = sid /\ handles[sessions[sid]].state \in Live
             /\ handles[sessions[sid]].leave = "no" /\ ~handles[sessions[sid]].shut
        BY <4>1 DEF Agreed, MapIsLive, Live
      <4>3. sessions[sid] # h
        BY <3>3, <4>1, <4>2
      <4> QED BY <3>1, <4>1, <4>2, <4>3
    <3>6. LiveIsMapped'
      <4> SUFFICES ASSUME drain # "ended", NEW g \in Handles, handles'[g].state \in Live,
                          handles'[g].leave = "no", ~handles'[g].replaced
                   PROVE  sessions'[handles'[g].sid] = g
        BY <2>2, <3>1 DEF LiveIsMapped, Live
      <4>1. g # h /\ handles'[g] = handles[g]
        BY <2>4, <3>1
      <4>2. sessions[handles[g].sid] = g
        BY <4>1 DEF Agreed, LiveIsMapped, Live
      <4> QED BY <1>0, <3>3, <4>1, <4>2
    <3>7. EventsComplete'
      BY <2>1, <2>2, <2>4, <3>1 DEF Agreed, EventsComplete
    <3> QED BY <3>4, <3>5, <3>6, <3>7 DEF Agreed
  <2> QED BY <2>1, <2>3, <2>4
<1>7. ASSUME NEW h \in Handles, OpenAnswered(h) PROVE Agreed'
  <2>1. PICK t \in {"setting", "answered", "failed", "orphaned"} :
              LET r == [handles[h] EXCEPT !.state = t] IN r \in Record /\ Changed(h, r)
    BY <1>7, OpenAnsweredMoves
  <2>2. Still(handles[h], [handles[h] EXCEPT !.state = t])
    BY <1>0, <2>1 DEF Record, Still, Live
  <2>3. UNCHANGED <<sessions, drain>>
    BY <1>7 DEF OpenAnswered, mapVars, drainVars
  <2> QED BY <1>1, <2>1, <2>2, <2>3, StillBy
<1>8. ASSUME NEW h \in Handles, CloseAnswered(h) PROVE Agreed'
  <2>1. PICK r \in Record : r = Over(handles[h]) /\ Changed(h, r)
    BY <1>8, CloseAnsweredMoves
  <2>2. Still(handles[h], r)
    BY <1>0, <1>8, <2>1 DEF Record, Still, Over, CloseAnswered
  <2>3. UNCHANGED <<sessions, drain>>
    BY <1>8 DEF CloseAnswered, mapVars, drainVars
  <2> QED BY <1>1, <2>1, <2>2, <2>3, StillBy
<1>9. CASE ExitSeen
  <2>1. Handles' = Handles
    BY <1>9, ExitSeenMoves
  <2>2. ASSUME NEW h \in Handles PROVE Still(handles[h], handles'[h])
    <3>1. /\ handles'[h] \in {[handles[h] EXCEPT !.state = "failed"], Over(handles[h]), handles[h]}
          /\ handles'[h] = Over(handles[h]) => handles[h].leave = "asked" \/ handles'[h] = handles[h]
      BY <1>9, ExitSeenMoves
    <3>2. CASE handles'[h] = [handles[h] EXCEPT !.state = "failed"]
      BY <1>0, <3>2 DEF Record, Still, Live
    <3>3. CASE handles'[h] = Over(handles[h]) /\ handles[h].leave = "asked"
      BY <1>0, <3>3 DEF Record, Still, Over
    <3> QED BY <3>1, <3>2, <3>3 DEF Still
  <2>3. UNCHANGED <<sessions, drain>>
    BY <1>9 DEF ExitSeen, mapVars, drainVars
  <2> QED BY <1>1, <2>1, <2>2, <2>3
<1>10. ASSUME NEW h \in Handles, NEW e \in Entries, handles' = [handles EXCEPT ![h].published = Push(h, e)],
              sessions' = sessions, drain' = "ended" <=> drain = "ended"
       PROVE  Agreed'
  <2>1. PICK p \in Seq(Entries) : p = Push(h, e)
    BY Pushed
  <2>2. PICK r \in Record : Changed(h, r) /\ r = [handles[h] EXCEPT !.published = p]
    BY <1>10, <2>1, PushMoves
  <2>3. Still(handles[h], r)
    BY <1>0, <2>2 DEF Record, Still
  <2> QED BY <1>1, <1>10, <2>2, <2>3, StillBy
<1>11. CASE DrainDelivers
  <2>1. PICK h \in Handles, e \in Entries : handles' = [handles EXCEPT ![h].published = Push(h, e)]
    BY <1>11 DEF DrainDelivers, Numbered, Note, Entries, Shaped
  <2>2. sessions' = sessions /\ drain' = "idle" /\ drain = "delivering"
    BY <1>11 DEF DrainDelivers, mapVars
  <2> QED BY <1>10, <2>1, <2>2
<1>12. CASE DrainEnds
  <2>1. Handles' = Handles /\ \A h \in Handles : handles'[h] = Ended(h)
    BY <1>12, DrainEndsMoves
  <2>2. \A sid \in Sid : sessions'[sid] = None
    BY <1>12 DEF DrainEnds
  <2>3. drain' = "ended" /\ drain # "ended"
    BY <1>12 DEF DrainEnds
  <2>4. EventsComplete'
    <3> SUFFICES ASSUME NEW h \in Handles, handles'[h].state \in Live
                 PROVE  handles'[h].shut \/ handles'[h].replaced
      BY <2>1 DEF EventsComplete, Live
    <3>1. CASE sessions[handles[h].sid] = h
      <4>1. Ended(h).shut
        BY <1>0, <3>1 DEF Ended, Record
      <4> QED BY <2>1, <4>1
    <3>2. CASE sessions[handles[h].sid] # h
      <4>1. Ended(h).state = handles[h].state
        BY <1>0 DEF Ended, Record
      <4>2. handles[h].leave # "no" \/ handles[h].replaced
        BY <2>1, <2>3, <3>2, <4>1 DEF Agreed, LiveIsMapped, Live
      <4> QED BY <1>0, <4>2 DEF Lives, Fits, Kept
    <3> QED BY <3>1, <3>2
  <2> QED BY <2>1, <2>2, <2>3, <2>4 DEF Agreed, Registered, MapIsLive, LiveIsMapped
<1>13. ASSUME NEW k \in Sends, SendEnds(k) PROVE Agreed'
  <2>1. PICK h \in Handles : h = sends[k].handle
    BY DEF SendsOwned
  <2>2. TurnEnd(k) \in Entries
    BY Lengths DEF TurnEnd, Entries, Sends
  <2>3. handles' = [handles EXCEPT ![h].published = Push(h, TurnEnd(k))] /\ UNCHANGED <<sessions, drain>>
    BY <1>13, <2>1 DEF SendEnds, mapVars, drainVars
  <2> QED BY <1>10, <2>2, <2>3
<1>14. ASSUME handles' = handles, sessions' = sessions, drain' = "ended" <=> drain = "ended" PROVE Agreed'
  <2>1. Goal
    BY <1>14 DEF Handles, Still
  <2> QED BY <1>1, <1>14, <2>1
<1>15. Initialized \/ UpdateRead \/ AskRead \/ Asked \/ Close \/ DrainTakes
         \/ (\E h \in Handles : Send(h)) \/ (\E k \in Sends : SendAnswered(k) \/ SendMarks(k)) \/ UNCHANGED vars
       => handles' = handles /\ sessions' = sessions /\ (drain' = "ended" <=> drain = "ended")
  BY DEF Initialized, UpdateRead, AskRead, Asked, Decide, Close, DrainTakes, Send, SendAnswered, SendMarks,
         mapVars, drainVars, vars
<1> HIDE DEF Goal
<1> QED
  BY <1>2, <1>3, <1>4, <1>5, <1>6, <1>7, <1>8, <1>9, <1>11, <1>12, <1>13, <1>14, <1>15
     DEF Next, Opens, Calls, Front, Drain, Sending

-----------------------------------------------------------------------------
(* The updates in sequence: a step *)

LEMMA TakesHead ==
    ASSUME Shaped, Numbered, DrainTakes
    PROVE  /\ Head(queue) = handled + 1 /\ Head(queue) \in Notes /\ noteSid[Head(queue)] \in Sid
           /\ drain = "idle" /\ queue' = Tail(queue) /\ Len(queue') = Len(queue) - 1
           /\ \A i \in 1..Len(queue') : queue'[i] = queue[i + 1] /\ i + 1 \in 1..Len(queue)
<1>1. queue \in Seq(Nat) /\ queue # <<>> /\ queue' = Tail(queue) /\ drain = "idle"
  BY DEF DrainTakes, Shaped
<1>2. /\ Head(queue) = queue[1] /\ 1 \in 1..Len(queue)
      /\ Len(queue') = Len(queue) - 1
      /\ \A i \in 1..Len(queue') : queue'[i] = queue[i + 1]
  BY <1>1, TailProperties
<1>3. Head(queue) = handled + 1 /\ handled + 1 \in 1..received
  BY <1>1, <1>2, Lengths DEF Numbered, InHand, Shaped, received
<1> QED BY <1>1, <1>2, <1>3, Lengths DEF Notes, received

LEMMA NumberedStep ==
    Shaped /\ Numbered /\ SendsOwned /\ Registered /\ MapIsLive /\ [Next]_vars => Numbered'
<1> SUFFICES ASSUME Shaped, Numbered, SendsOwned, Registered, MapIsLive, [Next]_vars PROVE Numbered'
  OBVIOUS
<1>0. /\ Handles \subseteq Handles' /\ \A h \in Handles : Kept(handles[h], handles'[h])
      /\ Len(queue) \in Nat /\ handled \in Nat /\ received \in Nat /\ Len(noteSid) = received
  BY HandlesKept, Lengths DEF Shaped, received
<1>1. CASE UNCHANGED <<noteSid, queue, drain, current, handled>>
  BY <1>0, <1>1 DEF Numbered, InHand, received, Kept
<1>2. CASE UpdateRead
  <2>1. PICK sid \in Known : noteSid' = Append(noteSid, sid)
    BY <1>2 DEF UpdateRead
  <2>2. sid \in Sid
    BY <2>1, Lengths DEF Known, Record
  <2>3. received' = received + 1 /\ \A n \in 1..received : noteSid'[n] = noteSid[n]
    BY <1>0, <2>1, <2>2, AppendProperties DEF Shaped, received
  <2>4. queue' = Append(queue, received + 1) /\ UNCHANGED <<drain, current, handled, handles>>
    BY <1>2 DEF UpdateRead, received, drainVars
  <2>5. /\ Len(queue') = Len(queue) + 1 /\ queue'[Len(queue) + 1] = received + 1
        /\ \A i \in 1..Len(queue) : queue'[i] = queue[i]
    BY <1>0, <2>4, AppendProperties DEF Shaped
  <2>6. InHand' = InHand /\ handled' = handled /\ InHand \in Nat
    BY <2>4 DEF InHand
  <2>7. received' = handled' + InHand' + Len(queue') /\ \A i \in 1..Len(queue') : queue'[i] = handled' + InHand' + i
    <3>1. /\ received = handled + InHand + Len(queue)
          /\ \A i \in 1..Len(queue) : queue[i] = handled + InHand + i
      BY DEF Numbered
    <3>2. received' = handled' + InHand' + Len(queue')
      BY <1>0, <2>3, <2>5, <2>6, <3>1
    <3>3. ASSUME NEW i \in 1..Len(queue') PROVE queue'[i] = handled' + InHand' + i
      <4>1. CASE i \in 1..Len(queue)
        BY <2>5, <2>6, <3>1, <4>1
      <4>2. CASE i = Len(queue) + 1
        BY <1>0, <2>5, <2>6, <3>1, <4>2
      <4> QED BY <1>0, <2>5, <4>1, <4>2
    <3> QED BY <3>2, <3>3
  <2>8. drain = "delivering" => current.note \in 1..received
    BY <1>0 DEF Numbered, InHand
  <2>9. drain' = "delivering" => noteSid'[current'.note] = noteSid[current.note]
    BY <2>3, <2>4, <2>8
  <2> QED BY <2>4, <2>7, <2>9 DEF Numbered, Handles
<1>3. CASE DrainTakes
  <2> DEFINE n == Head(queue)
             h == sessions[noteSid[n]]
  <2>1. /\ n = handled + 1 /\ noteSid[n] \in Sid /\ drain = "idle" /\ Len(queue') = Len(queue) - 1
        /\ \A i \in 1..Len(queue') : queue'[i] = queue[i + 1] /\ i + 1 \in 1..Len(queue)
    BY <1>3, TakesHead
  <2>2. UNCHANGED <<noteSid, handles>>
    BY <1>3 DEF DrainTakes
  <2>3. /\ received = handled + Len(queue)
        /\ \A i \in 1..Len(queue) : queue[i] = handled + i
        /\ current = Nothing
    BY <1>0, <2>1 DEF Numbered, InHand
  <2>4. CASE h # None /\ drain' = "delivering" /\ current' = [note |-> n, handle |-> h] /\ handled' = handled
    <3>1. h \in Handles /\ handles[h].sid = noteSid[n] /\ handles[h].state \in Live
      BY <2>1, <2>4 DEF Registered, MapIsLive, Live
    <3>2. InHand' = 1
      BY <2>4 DEF InHand
    <3>3. received' = handled' + InHand' + Len(queue') /\ \A i \in 1..Len(queue') : queue'[i] = handled' + InHand' + i
      <4>1. received' = received
        BY <2>2 DEF received
      <4>2. \A i \in 1..Len(queue') : queue'[i] = handled + (i + 1)
        BY <2>1, <2>3
      <4>3. /\ Len(queue') = Len(queue) - 1 /\ received = handled + Len(queue) /\ handled' = handled
            /\ Len(queue) \in Nat /\ handled \in Nat
        BY <1>0, <2>1, <2>3, <2>4
      <4> HIDE DEF n, h
      <4>4. received' = handled' + InHand' + Len(queue')
        BY <3>2, <4>1, <4>3
      <4>5. \A i \in 1..Len(queue') : queue'[i] = handled' + InHand' + i
        BY <3>2, <4>2, <4>3
      <4> QED BY <4>4, <4>5
    <3>4. current'.note = handled' + 1 /\ current'.handle = h /\ noteSid'[current'.note] = noteSid[n]
      BY <2>1, <2>2, <2>4
    <3> HIDE DEF n, h
    <3> QED BY <2>2, <2>4, <3>1, <3>3, <3>4 DEF Numbered, Handles
  <2>5. CASE drain' = drain /\ current' = current /\ handled' = handled + 1
    <3>1. InHand' = 0
      BY <2>1, <2>5 DEF InHand
    <3>2. received' = received
      BY <2>2 DEF received
    <3>3. \A i \in 1..Len(queue') : queue'[i] = handled + (i + 1)
      BY <2>1, <2>3
    <3> HIDE DEF n, h
    <3>4. received' = handled' + InHand' + Len(queue') /\ \A i \in 1..Len(queue') : queue'[i] = handled' + InHand' + i
      <4>1. /\ Len(queue') = Len(queue) - 1 /\ received = handled + Len(queue) /\ handled' = handled + 1
            /\ Len(queue) \in Nat /\ handled \in Nat
        BY <1>0, <2>1, <2>3, <2>5
      <4>2. received' = handled' + InHand' + Len(queue')
        BY <3>1, <3>2, <4>1
      <4>3. \A i \in 1..Len(queue') : queue'[i] = handled' + InHand' + i
        BY <3>1, <3>3, <4>1
      <4> QED BY <4>2, <4>3
    <3> QED BY <2>1, <2>3, <2>5, <3>4 DEF Numbered
  <2> QED BY <1>3, <2>4, <2>5 DEF DrainTakes
<1>4. CASE DrainDelivers
  <2>1. drain = "delivering" /\ drain' = "idle" /\ current' = Nothing /\ handled' = handled + 1
        /\ UNCHANGED <<noteSid, queue>>
    BY <1>4 DEF DrainDelivers, clientVars
  <2>2. InHand = 1 /\ InHand' = 0
    BY <2>1 DEF InHand
  <2> QED BY <1>0, <2>1, <2>2 DEF Numbered, received
<1>5. CASE DrainEnds
  <2>1. drain = "idle" /\ drain' = "ended" /\ UNCHANGED <<current, handled, noteSid, queue>>
    BY <1>5 DEF DrainEnds, clientVars
  <2>2. InHand = 0 /\ InHand' = 0
    BY <2>1 DEF InHand
  <2> QED BY <1>0, <2>1, <2>2 DEF Numbered, received
<1>6. \/ UpdateRead \/ Drain
      \/ UNCHANGED <<noteSid, queue, drain, current, handled>>
  BY DEF Next, Opens, Calls, Front, Drain, Sending, Asked, Decide, OpenSession, OpenOwned, Register, Flush,
         OpenReturns, Close, Send, EndInput, Abort, Initialized, AskRead, ExitSeen, OpenAnswered,
         CloseAnswered, SendAnswered, SendMarks, SendEnds, clientVars, drainVars, vars
<1> QED BY <1>1, <1>2, <1>3, <1>4, <1>5, <1>6 DEF Drain

-----------------------------------------------------------------------------
(* The requests of the front *)

AsksOwned == \A q \in Asks : asks[q].handle \in {None} \cup Handles

LEMMA AsksStep ==
    Shaped /\ Numbered /\ SendsOwned /\ Lives /\ Agreed /\ AsksOwned /\ AskedOfItsSession /\ [Next]_vars
      => AsksOwned' /\ AskedOfItsSession'
<1> SUFFICES ASSUME Shaped, Numbered, SendsOwned, Lives, Agreed, AsksOwned, AskedOfItsSession, [Next]_vars
             PROVE  AsksOwned' /\ AskedOfItsSession'
  OBVIOUS
<1>0. /\ Handles \subseteq Handles' /\ \A h \in Handles : Kept(handles[h], handles'[h])
      /\ Len(handles) \in Nat /\ Len(asks) \in Nat
      /\ \A q \in Asks : asks[q] \in AskRecord
      /\ asks \in Seq(AskRecord)
  BY HandlesKept, Lengths DEF Agreed, Shaped
<1>1. CASE AskRead
  <2>1. PICK g \in Handles, state \in {"refused", "deciding"} :
           LET h == IF owned THEN 1 ELSE sessions[handles[g].sid] IN
           /\ asks' = Append(asks, [sid |-> handles[g].sid, handle |-> h, state |-> state, allowed |-> FALSE])
           /\ h = None => state = "refused"
    BY <1>1 DEF AskRead, Inbound, Known
  <2>2. PICK h : h = IF owned THEN 1 ELSE sessions[handles[g].sid]
    OBVIOUS
  <2>3. handles[g].sid \in Sid
    BY Lengths DEF Record
  <2>4. h \in {None} \cup Handles /\ (h # None => handles[h].sid = handles[g].sid)
    <3>1. CASE owned
      BY <1>0, <2>2, <3>1 DEF Lives, Handles
    <3>2. CASE ~owned
      BY <2>2, <2>3, <3>2 DEF Agreed, Registered, MapIsLive
    <3> QED BY <3>1, <3>2
  <2>5. [sid |-> handles[g].sid, handle |-> h, state |-> state, allowed |-> FALSE] \in AskRecord
    BY <1>0, <2>3, <2>4 DEF AskRecord, AskState, None, Handles
  <2>6. /\ Len(asks') = Len(asks) + 1
        /\ asks'[Len(asks) + 1] = [sid |-> handles[g].sid, handle |-> h, state |-> state, allowed |-> FALSE]
        /\ \A q \in Asks : asks'[q] = asks[q]
    BY <1>0, <2>1, <2>2, <2>5, AppendProperties DEF Asks
  <2>7. Asks' = Asks \cup {Len(asks) + 1} /\ handles' = handles /\ Handles' = Handles
    BY <1>0, <1>1, <2>6 DEF Asks, AskRead, Handles
  <2>8. AsksOwned'
    BY <2>4, <2>6, <2>7 DEF AsksOwned
  <2>9. AskedOfItsSession'
    <3> SUFFICES ASSUME NEW i \in Asks'
                 PROVE  /\ asks'[i].handle # None => handles[asks'[i].handle].sid = asks'[i].sid
                        /\ asks'[i].handle = None => asks'[i].state = "refused"
                        /\ asks'[i].state \in {"allow", "other"} => asks'[i].allowed
      BY <2>7 DEF AskedOfItsSession
    <3>1. CASE i = Len(asks) + 1
      BY <2>1, <2>2, <2>4, <2>6, <3>1
    <3>2. CASE i \in Asks
      BY <2>6, <3>2 DEF AskedOfItsSession
    <3> QED BY <2>7, <3>1, <3>2
  <2> QED BY <2>8, <2>9
<1>2. CASE Asked
  <2>1. PICK q \in Asks : Decide(q)
    BY <1>2 DEF Asked
  <2>2. asks[q] \in AskRecord /\ q \in 1..Len(asks) /\ asks[q].state = "deciding"
    BY <1>0, <2>1 DEF Asks, Decide
  <2>3. \A menu \in Menus, allowed \in BOOLEAN :
           Picked(menu, allowed) \in AskState /\ (Picked(menu, allowed) \in {"allow", "other"} => allowed)
    BY DEF Picked, Menus, AskState
  <2>4. PICK r \in AskRecord :
           /\ asks' = [asks EXCEPT ![q] = r]
           /\ r.handle = asks[q].handle /\ r.sid = asks[q].sid
           /\ r.state \in {"allow", "other"} => r.allowed
    <3>1. CASE Refused
      <4>1. [asks[q] EXCEPT !.state = "unheard"] \in AskRecord
        BY <2>2 DEF AskRecord, AskState
      <4> QED BY <2>1, <2>2, <3>1, <4>1 DEF Decide, AskRecord
    <3>2. CASE ~Refused
      <4>1. PICK menu \in Menus, allowed \in BOOLEAN :
               asks' = [asks EXCEPT ![q].allowed = allowed, ![q].state = Picked(menu, allowed)]
        BY <2>1, <3>2 DEF Decide
      <4>2. PICK s \in AskState : s = Picked(menu, allowed) /\ (s \in {"allow", "other"} => allowed)
        BY <2>3
      <4>3. PICK r \in AskRecord : r = [asks[q] EXCEPT !.allowed = allowed, !.state = s]
        BY <2>2 DEF AskRecord
      <4>4. /\ r.handle = asks[q].handle /\ r.sid = asks[q].sid /\ (r.state \in {"allow", "other"} => r.allowed)
        BY <2>2, <4>2, <4>3 DEF AskRecord
      <4>5. asks' = [asks EXCEPT ![q] = r]
        BY <1>0, <2>2, <4>1, <4>2, <4>3
      <4> QED BY <4>4, <4>5
    <3> QED BY <3>1, <3>2
  <2>5. /\ Len(asks') = Len(asks)
        /\ \A i \in 1..Len(asks) : asks'[i] = IF i = q THEN r ELSE asks[i]
    BY <1>0, <2>2, <2>4, ExceptSeq
  <2>6. handles' = handles /\ Handles' = Handles /\ Asks' = Asks
    BY <2>1, <2>5 DEF Decide, Handles, Asks
  <2>7. AsksOwned'
    BY <2>4, <2>5, <2>6 DEF AsksOwned, Asks
  <2>8. AskedOfItsSession'
    <3> SUFFICES ASSUME NEW i \in Asks
                 PROVE  /\ asks'[i].handle # None => handles[asks'[i].handle].sid = asks'[i].sid
                        /\ asks'[i].handle = None => asks'[i].state = "refused"
                        /\ asks'[i].state \in {"allow", "other"} => asks'[i].allowed
      BY <2>6 DEF AskedOfItsSession
    <3>1. CASE i = q
      BY <2>2, <2>4, <2>5, <3>1 DEF AskedOfItsSession, Asks
    <3>2. CASE i # q
      BY <2>5, <3>2 DEF AskedOfItsSession, Asks
    <3> QED BY <3>1, <3>2
  <2> QED BY <2>7, <2>8
<1>3. CASE asks' = asks
  <2>1. AsksOwned'
    BY <1>0, <1>3 DEF AsksOwned, Asks
  <2>2. AskedOfItsSession'
    BY <1>0, <1>3 DEF AsksOwned, AskedOfItsSession, Asks, Kept
  <2> QED BY <2>1, <2>2
<1>4. AskRead \/ Asked \/ asks' = asks
  BY DEF Next, Opens, Calls, Front, Drain, Sending, OpenSession, OpenOwned, Register, Flush,
         OpenReturns, Close, Send, EndInput, Abort, Initialized, ExitSeen, OpenAnswered, UpdateRead,
         CloseAnswered, SendAnswered, SendMarks, SendEnds, DrainTakes, DrainDelivers, DrainEnds, frontVars, vars
<1> QED BY <1>1, <1>2, <1>3, <1>4

-----------------------------------------------------------------------------
(* Where an update is *)

Takes(h, n) == Note(n) \in Published(h)
Waits(n)    == n \in Held(noteSid[n])

\* What is held is an update of that session that the loop has handled, and is held once.
EarlyOwn ==
    \A sid \in Sid : \A i \in 1..Len(early[sid]) :
        /\ early[sid][i] \in 1..handled
        /\ noteSid[early[sid][i]] = sid
        /\ \A j \in 1..Len(early[sid]) : early[sid][i] = early[sid][j] => i = j

FlushFits == \A h \in Handles : handles[h].state = "flushing" =>
                 handles[h].flushed <= Len(early[handles[h].sid])

TakenOwn == \A h \in Handles, n \in Nat : Takes(h, n) => n \in 1..handled /\ noteSid[n] = handles[h].sid

OnePlace(n) ==
    /\ \A g, h \in Handles : Takes(g, n) /\ Takes(h, n) => g = h
    /\ Waits(n) => \A h \in Handles : ~Takes(h, n)
    /\ \/ Waits(n)
       \/ \E h \in Handles : Takes(h, n)
       \/ \E h \in Handles : handles[h].sid = noteSid[n] /\ handles[h].shut

AllPlaced == \A n \in 1..handled : OnePlace(n)

Placed == EarlyOwn /\ FlushFits /\ TakenOwn /\ AllPlaced

LEMMA WaitsIs ==
    ASSUME NEW n
    PROVE  Waits(n) <=> LET sid == noteSid[n] IN
                        \E i \in 1..Len(early[sid]) :
                           /\ early[sid][i] = n
                           /\ \A h \in Handles : handles[h].sid = sid /\ handles[h].state = "flushing"
                                                    => i > handles[h].flushed
BY DEF Waits, Held

\* What the events of a handle are when one is added.
LEMMA TakesMore ==
    ASSUME Shaped, NEW h \in Handles, NEW e \in Entries, NEW n
    PROVE  Note(n) \in {Push(h, e)[i] : i \in 1..Len(Push(h, e))}
              <=> Takes(h, n) \/ (~handles[h].shut /\ Note(n) = e)
<1>0. handles[h].published \in Seq(Entries) /\ Len(handles[h].published) \in Nat
      /\ handles[h].shut \in BOOLEAN
  BY Lengths DEF Record
<1>1. CASE handles[h].shut
  <2>1. Push(h, e) = handles[h].published
    BY <1>1 DEF Push
  <2> QED BY <1>1, <2>1 DEF Takes, Published
<1>2. CASE ~handles[h].shut
  <2> DEFINE p == handles[h].published
             q == Push(h, e)
  <2>1. /\ Len(q) = Len(p) + 1 /\ q[Len(p) + 1] = e
        /\ \A i \in 1..Len(p) : q[i] = p[i]
    BY <1>2, Pushed
  <2>2. Takes(h, n) <=> \E i \in 1..Len(p) : p[i] = Note(n)
    BY DEF Takes, Published
  <2> HIDE DEF p, q
  <2>3. (\E i \in 1..Len(q) : q[i] = Note(n)) <=> (\E i \in 1..Len(p) : p[i] = Note(n)) \/ Note(n) = e
    <3>1. Len(p) \in Nat
      BY <1>0 DEF p
    <3>2. ASSUME NEW i \in 1..Len(q), q[i] = Note(n) PROVE (\E j \in 1..Len(p) : p[j] = Note(n)) \/ Note(n) = e
      BY <2>1, <3>1, <3>2
    <3>3. ASSUME NEW i \in 1..Len(p), p[i] = Note(n) PROVE \E j \in 1..Len(q) : q[j] = Note(n)
      BY <2>1, <3>1, <3>3
    <3>4. ASSUME Note(n) = e PROVE \E j \in 1..Len(q) : q[j] = Note(n)
      <4>1. Len(p) + 1 \in 1..Len(q)
        BY <2>1, <3>1
      <4> QED BY <2>1, <3>4, <4>1
    <3> QED BY <3>2, <3>3, <3>4
  <2> QED BY <1>2, <2>2, <2>3 DEF q
<1> QED BY <1>0, <1>1, <1>2

\* A step that delivers nothing to a handle and returns none.
EntriesOf(p) == {p[i] : i \in 1..Len(p)}

Calm(r, s) ==
    /\ s.state = "flushing" => IF r.state = "flushing" THEN s.flushed = r.flushed ELSE s.flushed = 0
    /\ r.state = "flushing" => s.state = "flushing"
    /\ \A n \in Nat : Note(n) \in EntriesOf(s.published) <=> Note(n) \in EntriesOf(r.published)

Before == handled <= received

LEMMA PlacedTypes ==
    ASSUME Shaped, Before
    PROVE  /\ \A h \in Handles : handles[h].sid \in Sid /\ handles[h].flushed \in Nat
           /\ \A sid \in Sid : Len(early[sid]) \in Nat
           /\ handled \in Nat /\ received \in Nat /\ \A n \in 1..handled : n \in Notes /\ noteSid[n] \in Sid
<1>1. handled \in Nat /\ received \in Nat /\ handled <= received
  BY Lengths DEF Shaped, Before, received
<1>2. 1..handled \subseteq Notes
  BY <1>1 DEF Notes, received
<1> QED BY <1>1, <1>2, Lengths DEF Record

LEMMA CalmPlaced ==
    ASSUME Shaped, Placed, Before, handled' = handled, early' = early,
           \A n \in Notes : noteSid'[n] = noteSid[n],
           Handles \subseteq Handles',
           \A h \in Handles : Kept(handles[h], handles'[h]) /\ Calm(handles[h], handles'[h]),
           \A h \in Handles' : h \in Handles \/ (handles'[h].state # "flushing" /\ handles'[h].published = <<>>)
    PROVE  Placed'
<1>0. /\ \A h \in Handles : handles[h].sid \in Sid /\ handles[h].flushed \in Nat
      /\ \A sid \in Sid : Len(early[sid]) \in Nat
      /\ handled \in Nat /\ received \in Nat /\ \A n \in 1..handled : n \in Notes /\ noteSid[n] \in Sid
  BY PlacedTypes
<1>1. \A h \in Handles' \ Handles, n \in Nat : ~Takes(h, n)'
  BY DEF Takes, Published
<1>2. \A h \in Handles, n \in Nat : Takes(h, n)' <=> Takes(h, n)
  BY DEF Takes, Published, Calm, EntriesOf
<1>3. \A n \in 1..handled : Waits(n)' <=> Waits(n)
  <2> SUFFICES ASSUME NEW n \in 1..handled PROVE Waits(n)' <=> Waits(n)
    OBVIOUS
  <2> DEFINE sid == noteSid[n]
             Free(i)  == \A h \in Handles : handles[h].sid = sid /\ handles[h].state = "flushing"
                                               => i > handles[h].flushed
             FreeN(i) == \A h \in Handles' : handles'[h].sid = sid /\ handles'[h].state = "flushing"
                                               => i > handles'[h].flushed
  <2>1. sid \in Sid /\ noteSid'[n] = sid
    BY <1>0
  <2>2. \A i \in 1..Len(early[sid]) : Free(i) <=> FreeN(i)
    BY <1>0, <2>1 DEF Calm, Kept
  <2>3. Waits(n) <=> \E i \in 1..Len(early[sid]) : early[sid][i] = n /\ Free(i)
    BY WaitsIs
  <2>4. Waits(n)' <=> \E i \in 1..Len(early[sid]) : early[sid][i] = n /\ FreeN(i)
    BY <2>1 DEF Waits, Held
  <2> QED BY <2>2, <2>3, <2>4
<1>4. EarlyOwn'
  BY <1>0 DEF Placed, EarlyOwn
<1>5. FlushFits'
  <2> SUFFICES ASSUME NEW h \in Handles', handles'[h].state = "flushing"
               PROVE  handles'[h].flushed <= Len(early[handles'[h].sid])
    BY DEF FlushFits
  <2>1. h \in Handles
    OBVIOUS
  <2> QED BY <1>0, <2>1 DEF Placed, FlushFits, Calm, Kept
<1>6. TakenOwn'
  <2> SUFFICES ASSUME NEW h \in Handles', NEW n \in Nat, Takes(h, n)'
               PROVE  n \in 1..handled /\ noteSid'[n] = handles'[h].sid
    BY DEF TakenOwn
  <2>1. h \in Handles /\ Takes(h, n)
    BY <1>1, <1>2
  <2> QED BY <1>0, <2>1 DEF Placed, TakenOwn, Kept
<1>7. AllPlaced'
  <2> SUFFICES ASSUME NEW n \in 1..handled PROVE OnePlace(n)'
    BY DEF AllPlaced
  <2>1. OnePlace(n) /\ n \in Nat /\ noteSid'[n] = noteSid[n]
    BY <1>0 DEF Placed, AllPlaced
  <2>2. \A h \in Handles' : Takes(h, n)' <=> h \in Handles /\ Takes(h, n)
    BY <1>1, <1>2, <2>1
  <2>3. Waits(n)' <=> Waits(n)
    BY <1>3
  <2>4. \A g, h \in Handles' : Takes(g, n)' /\ Takes(h, n)' => g = h
    BY <2>1, <2>2 DEF OnePlace
  <2>5. Waits(n)' => \A h \in Handles' : ~Takes(h, n)'
    BY <2>1, <2>2, <2>3 DEF OnePlace
  <2>6. Waits(n)' \/ (\E h \in Handles' : Takes(h, n)') \/ \E h \in Handles' : handles'[h].sid = noteSid'[n] /\ handles'[h].shut
    BY <2>1, <2>2, <2>3 DEF OnePlace, Kept
  <2> QED BY <2>4, <2>5, <2>6 DEF OnePlace
<1> QED BY <1>4, <1>5, <1>6, <1>7 DEF Placed

LEMMA FlushPlaced ==
    ASSUME Shaped, Placed, Before, Unique, NEW h \in Handles, Flush(h)
    PROVE  Placed'
<1>0. /\ \A g \in Handles : handles[g].sid \in Sid /\ handles[g].flushed \in Nat
      /\ \A s \in Sid : Len(early[s]) \in Nat
      /\ handled \in Nat /\ received \in Nat /\ \A n \in 1..handled : n \in Notes /\ noteSid[n] \in Sid
  BY PlacedTypes
<1>1. handles[h].state = "flushing" /\ UNCHANGED <<early, handled, noteSid>>
  BY DEF Flush, clientVars, drainVars, mapVars
<1>20. PICK sid \in Sid, next \in Nat, m \in Nat, r \in Record :
         /\ sid = handles[h].sid /\ next = handles[h].flushed + 1 /\ m = early[sid][next]
         /\ next \in 1..Len(early[sid])
         /\ Changed(h, r)
         /\ r.sid = sid /\ r.state = "flushing" /\ r.flushed = next /\ r.published = Push(h, Note(m))
         /\ r.shut = handles[h].shut
  <2>1. PICK s \in Sid, x \in Nat : s = handles[h].sid /\ x = handles[h].flushed + 1
    BY <1>0
  <2> QED BY <2>1, FlushMoves
<1>2. next \in 1..Len(early[sid]) /\ m \in Nat
  BY <1>20
<1>3. PICK p : p = Push(h, Note(m)) /\ p \in Seq(Entries) /\ Note(m) \in Entries
  <2>1. Note(m) \in Entries
    BY <1>2 DEF Note, Entries
  <2> QED BY <2>1, Pushed
<1>5. /\ r.sid = sid /\ r.state = "flushing" /\ r.flushed = next /\ r.published = p
      /\ r.shut = handles[h].shut
  BY <1>20, <1>3
<1>6. Handles' = Handles /\ handles'[h] = r /\ \A g \in Handles : g # h => handles'[g] = handles[g]
  BY <1>20, ChangedHandles
<1>7. \A n : Takes(h, n)' <=> Takes(h, n) \/ (~handles[h].shut /\ n = m)
  <2>1. \A n : Takes(h, n)' <=> Note(n) \in {p[i] : i \in 1..Len(p)}
    BY <1>5, <1>6 DEF Takes, Published
  <2>2. \A n : Note(n) = Note(m) <=> n = m
    BY DEF Note
  <2>3. \A n : Note(n) \in {Push(h, Note(m))[i] : i \in 1..Len(Push(h, Note(m)))}
                 <=> Takes(h, n) \/ (~handles[h].shut /\ Note(n) = Note(m))
    BY <1>3, TakesMore
  <2> QED BY <1>3, <2>1, <2>2, <2>3
<1>8. \A n : \A g \in Handles : g # h => (Takes(g, n)' <=> Takes(g, n))
  BY <1>6 DEF Takes, Published
<1>9. /\ m \in 1..handled /\ noteSid[m] = sid
      /\ \A i \in 1..Len(early[sid]) : early[sid][i] = m => i = next
  BY <1>20, <1>0, <1>2 DEF Placed, EarlyOwn
<1>10. \A g \in Handles : handles[g].sid = sid /\ handles[g].state = "flushing" => g = h
  BY <1>20, <1>1 DEF Unique
<1>11. Waits(m) /\ ~Waits(m)'
  <2>1. \A g \in Handles : handles[g].sid = sid /\ handles[g].state = "flushing" => next > handles[g].flushed
    BY <1>20, <1>0, <1>10
  <2>2. Waits(m)
    BY <1>20, <1>2, <1>9, <2>1, WaitsIs
  <2>3. ASSUME Waits(m)' PROVE FALSE
    <3>1. PICK i \in 1..Len(early[sid]) : early[sid][i] = m /\ \A g \in Handles' :
              handles'[g].sid = sid /\ handles'[g].state = "flushing" => i > handles'[g].flushed
      BY <1>1, <1>9, <2>3 DEF Waits, Held
    <3>2. i = next
      BY <1>9, <3>1
    <3> QED BY <1>2, <1>5, <1>6, <3>1, <3>2
  <2> QED BY <2>2, <2>3
<1>12. ASSUME NEW n \in 1..handled, n # m PROVE Waits(n)' <=> Waits(n)
  <2> DEFINE s == noteSid[n]
             Free(i)  == \A g \in Handles : handles[g].sid = s /\ handles[g].state = "flushing"
                                               => i > handles[g].flushed
             FreeN(i) == \A g \in Handles' : handles'[g].sid = s /\ handles'[g].state = "flushing"
                                               => i > handles'[g].flushed
  <2>1. s \in Sid
    BY <1>0
  <2>2. \A i \in 1..Len(early[s]) : early[s][i] = n => (Free(i) <=> FreeN(i))
    <3> SUFFICES ASSUME NEW i \in 1..Len(early[s]), early[s][i] = n PROVE Free(i) <=> FreeN(i)
      OBVIOUS
    <3>1. CASE s = sid
      <4>1. i # next /\ i \in Nat
        BY <1>20, <1>0, <1>12, <2>1, <3>1
      <4>2. Free(i) <=> i > handles[h].flushed
        BY <1>20, <1>1, <1>10, <3>1
      <4>3. FreeN(i) <=> i > next
        BY <1>5, <1>6, <1>10, <3>1
      <4> QED BY <1>20, <1>0, <4>1, <4>2, <4>3
    <3>2. CASE s # sid
      BY <1>20, <1>5, <1>6, <3>2
    <3> QED BY <3>1, <3>2
  <2>3. Waits(n) <=> \E i \in 1..Len(early[s]) : early[s][i] = n /\ Free(i)
    BY WaitsIs
  <2>4. Waits(n)' <=> \E i \in 1..Len(early[s]) : early[s][i] = n /\ FreeN(i)
    BY <1>1 DEF Waits, Held
  <2> QED BY <2>2, <2>3, <2>4
<1>13. EarlyOwn'
  BY <1>1 DEF Placed, EarlyOwn
<1>14. FlushFits'
  <2> SUFFICES ASSUME NEW g \in Handles, handles'[g].state = "flushing"
               PROVE  handles'[g].flushed <= Len(early[handles'[g].sid])
    BY <1>1, <1>6 DEF FlushFits
  <2>1. CASE g = h
    BY <1>20, <1>0, <1>2, <1>5, <1>6, <2>1
  <2>2. CASE g # h
    BY <1>6, <2>2 DEF Placed, FlushFits
  <2> QED BY <2>1, <2>2
<1>15. TakenOwn'
  <2> SUFFICES ASSUME NEW g \in Handles, NEW n \in Nat, Takes(g, n)'
               PROVE  n \in 1..handled /\ noteSid[n] = handles'[g].sid
    BY <1>1, <1>6 DEF TakenOwn
  <2>1. CASE g = h
    BY <1>20, <1>5, <1>6, <1>7, <1>9, <2>1 DEF Placed, TakenOwn
  <2>2. CASE g # h
    BY <1>6, <1>8, <2>2 DEF Placed, TakenOwn
  <2> QED BY <2>1, <2>2
<1>16. AllPlaced'
  <2> SUFFICES ASSUME NEW n \in 1..handled PROVE OnePlace(n)'
    BY <1>1 DEF AllPlaced
  <2>1. OnePlace(n)
    BY DEF Placed, AllPlaced
  <2>2. CASE n = m
    <3>1. \A g \in Handles : ~Takes(g, n)
      BY <1>11, <2>1, <2>2 DEF OnePlace
    <3>2. \A g \in Handles : Takes(g, n)' => g = h /\ ~handles[h].shut
      BY <1>7, <1>8, <3>1
    <3>3. Takes(h, n)' \/ (handles'[h].sid = noteSid'[n] /\ handles'[h].shut)
      BY <1>1, <1>5, <1>6, <1>7, <1>9, <2>2, Lengths DEF Record
    <3> QED BY <1>6, <1>11, <2>2, <3>2, <3>3 DEF OnePlace
  <2>3. CASE n # m
    <3>1. \A g \in Handles : Takes(g, n)' <=> Takes(g, n)
      BY <1>7, <1>8, <2>3
    <3>2. Waits(n)' <=> Waits(n)
      BY <1>12, <2>3
    <3>3. \A g \in Handles : handles'[g].sid = handles[g].sid /\ handles'[g].shut = handles[g].shut
      BY <1>20, <1>5, <1>6
    <3> QED BY <1>1, <1>6, <2>1, <3>1, <3>2, <3>3 DEF OnePlace
  <2> QED BY <2>2, <2>3
<1> QED BY <1>13, <1>14, <1>15, <1>16 DEF Placed

LEMMA ReturnsPlaced ==
    ASSUME Shaped, Placed, Before, Unique, NEW h \in Handles, OpenReturns(h)
    PROVE  Placed'
<1> DEFINE sid == handles[h].sid
<1>0. /\ \A g \in Handles : handles[g].sid \in Sid /\ handles[g].flushed \in Nat
      /\ \A s \in Sid : Len(early[s]) \in Nat
      /\ handled \in Nat /\ received \in Nat /\ \A n \in 1..handled : n \in Notes /\ noteSid[n] \in Sid
  BY PlacedTypes
<1>1. /\ handles[h].state = "flushing" /\ handles[h].flushed = Len(early[sid]) /\ UNCHANGED <<handled, noteSid>>
      /\ early' = [early EXCEPT ![sid] = <<>>]
  BY DEF OpenReturns, clientVars, drainVars
<1>2. PICK r \in Record : Changed(h, r) /\ r = [handles[h] EXCEPT !.state = "open", !.flushed = 0]
  BY OpenReturnsMoves
<1>3. /\ r.sid = sid /\ r.state = "open" /\ r.published = handles[h].published /\ r.shut = handles[h].shut
  BY <1>2, Lengths DEF Record
<1>4. Handles' = Handles /\ handles'[h] = r /\ \A g \in Handles : g # h => handles'[g] = handles[g]
  BY <1>2, ChangedHandles
<1>5. \A n : \A g \in Handles : Takes(g, n)' <=> Takes(g, n)
  BY <1>3, <1>4 DEF Takes, Published
<1>6. \A s \in Sid : early'[s] = IF s = sid THEN <<>> ELSE early[s]
  BY <1>1 DEF Shaped
<1> HIDE DEF sid
<1>7. \A g \in Handles : handles[g].sid = sid /\ handles[g].state = "flushing" => g = h
  BY <1>1 DEF Unique, sid
<1>8. ASSUME NEW n \in 1..handled PROVE Waits(n)' <=> Waits(n)
  <2> DEFINE s == noteSid[n]
             Free(i)  == \A g \in Handles : handles[g].sid = s /\ handles[g].state = "flushing"
                                               => i > handles[g].flushed
             FreeN(i) == \A g \in Handles' : handles'[g].sid = s /\ handles'[g].state = "flushing"
                                               => i > handles'[g].flushed
  <2>1. s \in Sid
    BY <1>0
  <2>2. Waits(n) <=> \E i \in 1..Len(early[s]) : early[s][i] = n /\ Free(i)
    BY WaitsIs
  <2>3. Waits(n)' <=> \E i \in 1..Len(early'[s]) : early'[s][i] = n /\ FreeN(i)
    BY <1>1 DEF Waits, Held
  <2>4. CASE s = sid
    <3>1. ~Waits(n)
      BY <1>0, <1>1, <2>1, <2>2, <2>4 DEF sid
    <3>2. ~Waits(n)'
      BY <1>6, <2>1, <2>3, <2>4
    <3> QED BY <3>1, <3>2
  <2>5. CASE s # sid
    <3>1. \A i \in 1..Len(early[s]) : Free(i) <=> FreeN(i)
      BY <1>3, <1>4, <2>5 DEF sid
    <3> QED BY <1>6, <2>1, <2>2, <2>3, <2>5, <3>1
  <2> QED BY <2>4, <2>5
<1>9. EarlyOwn'
  <2> SUFFICES ASSUME NEW s \in Sid, NEW i \in 1..Len(early'[s])
               PROVE  /\ early'[s][i] \in 1..handled /\ noteSid[early'[s][i]] = s
                      /\ \A j \in 1..Len(early'[s]) : early'[s][i] = early'[s][j] => i = j
    BY <1>1 DEF EarlyOwn
  <2>1. early'[s] = early[s]
    BY <1>6
  <2> QED BY <2>1 DEF Placed, EarlyOwn
<1>10. FlushFits'
  <2> SUFFICES ASSUME NEW g \in Handles, handles'[g].state = "flushing"
               PROVE  handles'[g].flushed <= Len(early'[handles'[g].sid])
    BY <1>4 DEF FlushFits
  <2>1. g # h
    BY <1>3, <1>4
  <2>2. handles'[g] = handles[g] /\ handles[g].sid # sid
    BY <1>4, <1>7, <2>1
  <2> QED BY <1>0, <1>6, <2>2 DEF Placed, FlushFits
<1>11. \A g \in Handles : handles'[g].sid = handles[g].sid /\ handles'[g].shut = handles[g].shut
  BY <1>3, <1>4 DEF sid
<1>12. TakenOwn'
  BY <1>1, <1>4, <1>5, <1>11 DEF Placed, TakenOwn
<1>13. AllPlaced'
  <2> SUFFICES ASSUME NEW n \in 1..handled PROVE OnePlace(n)'
    BY <1>1 DEF AllPlaced
  <2>1. OnePlace(n) /\ (Waits(n)' <=> Waits(n))
    BY <1>8 DEF Placed, AllPlaced
  <2> QED BY <1>1, <1>4, <1>5, <1>11, <2>1 DEF OnePlace
<1> QED BY <1>9, <1>10, <1>12, <1>13 DEF Placed

\* An update is held behind those that were held before it.
LEMMA HoldPlaced ==
    ASSUME Shaped, Numbered, Placed, DrainTakes, sessions[noteSid[Head(queue)]] = None
    PROVE  Placed'
<1>1. PICK m \in Notes, sid \in Sid : m = Head(queue) /\ m = handled + 1 /\ sid = noteSid[m]
  BY TakesHead
<1>2. handled' = handled + 1 /\ early' = [early EXCEPT ![sid] = Append(@, m)] /\ UNCHANGED <<handles, noteSid>>
  BY <1>1 DEF DrainTakes, Hold
<1>3. handled \in Nat /\ received \in Nat /\ handled + 1 <= received /\ m \in Nat
  BY <1>1, Lengths DEF Shaped, Notes, received
<1>4. /\ \A g \in Handles : handles[g].sid \in Sid /\ handles[g].flushed \in Nat
      /\ \A s \in Sid : Len(early[s]) \in Nat /\ early[s] \in Seq(Nat)
      /\ \A n \in 1..handled : n \in Notes /\ noteSid[n] \in Sid
  <2>1. Before
    BY <1>3 DEF Before
  <2> QED BY <2>1, PlacedTypes, Lengths
<1>5. \A s \in Sid : s # sid => early'[s] = early[s]
  BY <1>2
<1>6. /\ Len(early'[sid]) = Len(early[sid]) + 1 /\ early'[sid][Len(early[sid]) + 1] = m
      /\ \A i \in 1..Len(early[sid]) : early'[sid][i] = early[sid][i]
  <2>1. early'[sid] = Append(early[sid], m)
    BY <1>2 DEF Shaped
  <2> QED BY <1>3, <1>4, <2>1, AppendProperties
<1>7. Handles' = Handles /\ \A n : \A g \in Handles : Takes(g, n)' <=> Takes(g, n)
  BY <1>2 DEF Handles, Takes, Published
<1>8. \A g \in Handles : ~Takes(g, m)
  BY <1>1, <1>3 DEF Placed, TakenOwn
<1>9. ASSUME NEW n \in 1..handled PROVE Waits(n)' <=> Waits(n)
  <2> DEFINE s == noteSid[n]
             Free(i)  == \A g \in Handles : handles[g].sid = s /\ handles[g].state = "flushing"
                                               => i > handles[g].flushed
  <2>1. s \in Sid /\ n # m
    BY <1>1, <1>3, <1>4
  <2>2. Waits(n) <=> \E i \in 1..Len(early[s]) : early[s][i] = n /\ Free(i)
    BY WaitsIs
  <2>3. Waits(n)' <=> \E i \in 1..Len(early'[s]) : early'[s][i] = n /\ Free(i)
    BY <1>2, <1>7 DEF Waits, Held
  <2>4. CASE s = sid
    <3>1. \A i \in 1..Len(early'[s]) : early'[s][i] = n => i \in 1..Len(early[s])
      BY <1>4, <1>6, <2>1, <2>4
    <3>2. \A i \in 1..Len(early[s]) : i \in 1..Len(early'[s]) /\ early'[s][i] = early[s][i]
      BY <1>4, <1>6, <2>1, <2>4
    <3> HIDE DEF Free, s
    <3> QED BY <2>2, <2>3, <3>1, <3>2
  <2>5. CASE s # sid
    BY <1>5, <2>1, <2>2, <2>3, <2>5
  <2> QED BY <2>4, <2>5
<1>10. Waits(m)'
  <2>1. \A g \in Handles : handles[g].sid = sid /\ handles[g].state = "flushing"
                              => Len(early[sid]) + 1 > handles[g].flushed
    BY <1>4 DEF Placed, FlushFits
  <2>2. Len(early[sid]) + 1 \in 1..Len(early'[sid])
    BY <1>4, <1>6
  <2>3. noteSid'[m] = sid
    BY <1>1, <1>2
  <2> QED BY <1>2, <1>6, <1>7, <2>1, <2>2, <2>3 DEF Waits, Held
<1>11. EarlyOwn'
  <2> SUFFICES ASSUME NEW s \in Sid, NEW i \in 1..Len(early'[s])
               PROVE  /\ early'[s][i] \in 1..(handled + 1) /\ noteSid[early'[s][i]] = s
                      /\ \A j \in 1..Len(early'[s]) : early'[s][i] = early'[s][j] => i = j
    BY <1>2 DEF EarlyOwn
  <2>1. CASE s # sid
    BY <1>3, <1>5, <2>1 DEF Placed, EarlyOwn
  <2>2. CASE s = sid
    <3>1. \A j \in 1..Len(early[sid]) : early[sid][j] \in 1..handled /\ noteSid[early[sid][j]] = sid
                                        /\ early'[sid][j] = early[sid][j] /\ early[sid][j] # m
      BY <1>1, <1>3, <1>6 DEF Placed, EarlyOwn
    <3>2. early'[s][i] \in 1..(handled + 1) /\ noteSid[early'[s][i]] = s
      <4>1. CASE i \in 1..Len(early[sid])
        BY <1>3, <2>2, <3>1, <4>1
      <4>2. CASE i = Len(early[sid]) + 1
        BY <1>1, <1>3, <1>6, <2>2, <4>2
      <4> QED BY <1>4, <1>6, <2>2, <4>1, <4>2
    <3>3. ASSUME NEW j \in 1..Len(early'[s]), early'[s][i] = early'[s][j] PROVE i = j
      <4>1. CASE i \in 1..Len(early[sid]) /\ j \in 1..Len(early[sid])
        <5>1. early[sid][i] = early[sid][j]
          BY <2>2, <3>1, <3>3, <4>1
        <5> QED BY <4>1, <5>1 DEF Placed, EarlyOwn
      <4>2. CASE i = Len(early[sid]) + 1 \/ j = Len(early[sid]) + 1
        BY <1>4, <1>6, <2>2, <3>1, <3>3, <4>2
      <4> QED BY <1>4, <1>6, <2>2, <4>1, <4>2
    <3> QED BY <3>2, <3>3
  <2> QED BY <2>1, <2>2
<1>12. FlushFits'
  <2>1. ASSUME NEW s \in Sid PROVE Len(early[s]) <= Len(early'[s])
    <3>1. CASE s = sid
      BY <1>4, <1>6, <3>1
    <3>2. CASE s # sid
      BY <1>4, <1>5, <3>2
    <3> QED BY <3>1, <3>2
  <2>2. \A s \in Sid : Len(early'[s]) \in Nat
    <3>1. \A s \in Sid : early'[s] = early[s] \/ Len(early'[s]) = Len(early[s]) + 1
      BY <1>5, <1>6
    <3> QED BY <1>4, <3>1
  <2> QED BY <1>2, <1>4, <1>7, <2>1, <2>2 DEF Placed, FlushFits
<1>13. TakenOwn'
  BY <1>2, <1>3, <1>7 DEF Placed, TakenOwn
<1>14. AllPlaced'
  <2> SUFFICES ASSUME NEW n \in 1..(handled + 1) PROVE OnePlace(n)'
    BY <1>2 DEF AllPlaced
  <2>1. CASE n = m
    BY <1>7, <1>8, <1>10, <2>1 DEF OnePlace
  <2>2. CASE n \in 1..handled
    <3>1. OnePlace(n) /\ (Waits(n)' <=> Waits(n))
      BY <1>9, <2>2 DEF Placed, AllPlaced
    <3> QED BY <1>2, <1>7, <3>1 DEF OnePlace
  <2> QED BY <1>1, <1>3, <2>1, <2>2
<1> QED BY <1>11, <1>12, <1>13, <1>14 DEF Placed

LEMMA DeliversPlaced ==
    ASSUME Shaped, Numbered, Placed, DrainDelivers
    PROVE  Placed'
<1>1. PICK m \in Nat, h \in Handles :
         /\ m = current.note /\ m = handled + 1 /\ h = current.handle /\ handles[h].sid = noteSid[m]
  BY DEF DrainDelivers, Numbered, Shaped
<1>2. /\ handles' = [handles EXCEPT ![h].published = Push(h, Note(m))]
      /\ handled' = handled + 1 /\ UNCHANGED <<early, noteSid>>
  BY <1>1 DEF DrainDelivers, clientVars, mapVars
<1>3. handled \in Nat /\ received \in Nat /\ handled + 1 <= received
  BY Lengths DEF Numbered, InHand, DrainDelivers, Shaped, received
<1>4. /\ \A g \in Handles : handles[g].sid \in Sid /\ handles[g].flushed \in Nat
      /\ \A s \in Sid : Len(early[s]) \in Nat
      /\ \A n \in 1..handled : n \in Notes /\ noteSid[n] \in Sid
  <2>1. Before
    BY <1>3 DEF Before
  <2> QED BY <2>1, PlacedTypes, Lengths
<1>5. Note(m) \in Entries
  BY DEF Note, Entries
<1>6. PICK p \in Seq(Entries) : p = Push(h, Note(m))
  BY <1>5, Pushed
<1>7. PICK r \in Record : Changed(h, r) /\ r = [handles[h] EXCEPT !.published = p]
  BY <1>2, <1>5, <1>6, PushMoves
<1>8. /\ r.sid = handles[h].sid /\ r.state = handles[h].state /\ r.flushed = handles[h].flushed
      /\ r.published = p /\ r.shut = handles[h].shut
  BY <1>7, Lengths DEF Record
<1>9. Handles' = Handles /\ handles'[h] = r /\ \A g \in Handles : g # h => handles'[g] = handles[g]
  BY <1>7, ChangedHandles
<1>10. \A g \in Handles : /\ handles'[g].sid = handles[g].sid /\ handles'[g].state = handles[g].state
                          /\ handles'[g].flushed = handles[g].flushed /\ handles'[g].shut = handles[g].shut
  BY <1>8, <1>9
<1>11. \A n : Takes(h, n)' <=> Takes(h, n) \/ (~handles[h].shut /\ n = m)
  <2>1. \A n : Takes(h, n)' <=> Note(n) \in {p[i] : i \in 1..Len(p)}
    BY <1>8, <1>9 DEF Takes, Published
  <2>2. \A n : Note(n) = Note(m) <=> n = m
    BY DEF Note
  <2>3. \A n : Note(n) \in {Push(h, Note(m))[i] : i \in 1..Len(Push(h, Note(m)))}
                 <=> Takes(h, n) \/ (~handles[h].shut /\ Note(n) = Note(m))
    BY <1>5, TakesMore
  <2> QED BY <1>6, <2>1, <2>2, <2>3
<1>12. \A n : \A g \in Handles : g # h => (Takes(g, n)' <=> Takes(g, n))
  BY <1>9 DEF Takes, Published
<1>13. \A g \in Handles : ~Takes(g, m)
  BY <1>1, <1>3 DEF Placed, TakenOwn
<1>14. \A n : Waits(n)' <=> Waits(n)
  BY <1>2, <1>9, <1>10 DEF Waits, Held
<1>15. ~Waits(m)
  <2>1. noteSid[m] \in Sid
    BY <1>1, <1>4
  <2> QED BY <1>1, <1>3, <2>1, WaitsIs DEF Placed, EarlyOwn
<1>16. EarlyOwn'
  BY <1>2, <1>3 DEF Placed, EarlyOwn
<1>17. FlushFits'
  BY <1>2, <1>9, <1>10 DEF Placed, FlushFits
<1>18. TakenOwn'
  <2> SUFFICES ASSUME NEW g \in Handles, NEW n \in Nat, Takes(g, n)'
               PROVE  n \in 1..(handled + 1) /\ noteSid[n] = handles[g].sid
    BY <1>2, <1>9, <1>10 DEF TakenOwn
  <2>1. Takes(g, n) \/ (g = h /\ n = m)
    BY <1>11, <1>12
  <2> QED BY <1>1, <1>3, <2>1 DEF Placed, TakenOwn
<1>19. AllPlaced'
  <2> SUFFICES ASSUME NEW n \in 1..(handled + 1) PROVE OnePlace(n)'
    BY <1>2 DEF AllPlaced
  <2>1. CASE n = m
    <3>1. \A g \in Handles : Takes(g, m)' <=> g = h /\ ~handles[h].shut
      BY <1>11, <1>12, <1>13
    <3>2. Takes(h, m)' \/ (handles'[h].sid = noteSid'[m] /\ handles'[h].shut)
      BY <1>1, <1>2, <1>10, <3>1
    <3> QED BY <1>9, <1>14, <1>15, <2>1, <3>1, <3>2 DEF OnePlace
  <2>2. CASE n \in 1..handled
    <3>1. OnePlace(n) /\ (Waits(n)' <=> Waits(n)) /\ n # m
      BY <1>1, <1>3, <1>14, <2>2 DEF Placed, AllPlaced
    <3>2. \A g \in Handles : Takes(g, n)' <=> Takes(g, n)
      BY <1>11, <1>12, <3>1
    <3> QED BY <1>2, <1>9, <1>10, <3>1, <3>2 DEF OnePlace
  <2> QED BY <1>1, <1>3, <2>1, <2>2
<1> QED BY <1>16, <1>17, <1>18, <1>19 DEF Placed

\* Nor are its events changed.
Quiet(r, s) ==
    /\ s.state = "flushing" => IF r.state = "flushing" THEN s.flushed = r.flushed ELSE s.flushed = 0
    /\ r.state = "flushing" => s.state = "flushing"
    /\ s.published = r.published

LEMMA QuietBy ==
    ASSUME Shaped, NEW h \in Handles, NEW r \in Record, Changed(h, r), Quiet(handles[h], r)
    PROVE  \A g \in Handles : Quiet(handles[g], handles'[g])
BY ChangedHandles DEF Quiet

\* A record whose events and state, as far as flushing goes, are as they were is calm.
LEMMA QuietWhen ==
    ASSUME NEW r \in Record, NEW s, s.published = r.published,
           \/ s.state = r.state /\ s.flushed = r.flushed
           \/ s.state # "flushing" /\ r.state # "flushing"
           \/ s.state = "flushing" /\ r.state # "flushing" /\ s.flushed = 0
    PROVE  Quiet(r, s)
BY DEF Quiet

LEMMA QuietIsCalm ==
    ASSUME NEW r, NEW s, Quiet(r, s)
    PROVE  Calm(r, s)
BY DEF Quiet, Calm, EntriesOf

Special ==
    \/ DrainTakes \/ DrainDelivers
    \/ \E h \in Handles : Flush(h) \/ OpenReturns(h)
    \/ \E k \in Sends : SendEnds(k)

LEMMA QuietStep ==
    ASSUME Shaped, Numbered, SendsOwned, Lives, Agreed, [Next]_vars, ~Special
    PROVE  /\ handled' = handled /\ early' = early
           /\ \A n \in Notes : noteSid'[n] = noteSid[n]
           /\ \A h \in Handles : Quiet(handles[h], handles'[h])
           /\ \A h \in Handles' : h \in Handles \/ (handles'[h].state # "flushing" /\ handles'[h].published = <<>>)
<1> DEFINE Goal == /\ \A h \in Handles : Quiet(handles[h], handles'[h])
                   /\ \A h \in Handles' : h \in Handles \/ (handles'[h].state # "flushing" /\ handles'[h].published = <<>>)
<1>0. /\ \A h \in Handles : handles[h] \in Record /\ handles[h].sid \in Sid /\ handles[h].flushed \in Nat
      /\ Handles' = Handles \/ OpenSession \/ OpenOwned
  BY HandlesKept, Lengths DEF Agreed, Record
<1>1. handled' = handled /\ early' = early
  BY DEF Next, Opens, Calls, Front, Drain, Sending, Asked, Decide, OpenSession, OpenOwned, Register,
         Close, Send, EndInput, Abort, Initialized, AskRead, ExitSeen, OpenAnswered, UpdateRead, Special,
         CloseAnswered, SendAnswered, SendMarks, DrainEnds, drainVars, mapVars, vars
<1>2. \A n \in Notes : noteSid'[n] = noteSid[n]
  <2>1. CASE UpdateRead
    <3>1. PICK sid \in Known : noteSid' = Append(noteSid, sid)
      BY <2>1 DEF UpdateRead
    <3>2. sid \in Sid /\ noteSid \in Seq(Sid)
      BY <3>1, Lengths DEF Known, Record, Shaped
    <3> QED BY <3>1, <3>2, AppendProperties DEF Notes
  <2>2. CASE ~UpdateRead
    <3>1. noteSid' = noteSid
      BY <2>2 DEF Next, Opens, Calls, Front, Drain, Sending, Asked, Decide, OpenSession, OpenOwned, Register,
         Close, Send, EndInput, Abort, Initialized, AskRead, ExitSeen, OpenAnswered, Special,
         CloseAnswered, SendAnswered, SendMarks, DrainEnds, clientVars, vars
    <3> QED BY <3>1
  <2> QED BY <2>1, <2>2
<1>3. CASE OpenSession \/ OpenOwned
  <2>1. PICK sid \in Sid :
              /\ Len(handles') = Len(handles) + 1
              /\ handles'[Len(handles) + 1] = Opened(sid)
              /\ \A h \in Handles : handles'[h] = handles[h]
    BY <1>3, OpensMoves
  <2>2. Handles' = Handles \cup {Len(handles) + 1} /\ Opened(sid).state # "flushing" /\ Opened(sid).published = <<>>
    BY <2>1, Lengths DEF Handles, Opened
  <2>3. Goal
    BY <1>0, <2>1, <2>2, QuietWhen
  <2> QED BY <1>1, <1>2, <2>3
<1>4. ASSUME NEW h \in Handles, Register(h) PROVE Goal
  <2>1. PICK t \in Live : handles'[h] = [handles[h] EXCEPT !.state = t]
    BY <1>4, RegisterMoves DEF Live
  <2>2. Handles' = Handles /\ handles[h].state = "answered"
    BY <1>4, RegisterMoves
  <2>3. Quiet(handles[h], handles'[h])
    <3>1. /\ handles'[h].published = handles[h].published /\ handles'[h].state = t
          /\ handles'[h].flushed = 0
      BY <1>0, <2>1, <2>2 DEF Record, Lives, Fits, Live
    <3> QED BY <1>0, <2>2, <3>1, QuietWhen
  <2>4. ASSUME NEW g \in Handles, g # h PROVE Quiet(handles[g], handles'[g])
    <3>1. handles'[g] = Replaced(g, h)
      BY <1>4, <2>4, RegisterMoves
    <3>2. /\ handles'[g].published = handles[g].published /\ handles'[g].state = handles[g].state
          /\ handles'[g].flushed = handles[g].flushed
      BY <1>0, <3>1 DEF Record, Replaced
    <3> QED BY <1>0, <3>2, QuietWhen
  <2> QED BY <2>2, <2>3, <2>4
<1>5. ASSUME NEW h \in Handles, EndInput(h) \/ Abort(h) PROVE Goal
  <2>1. PICK r \in Record :
              /\ Changed(h, r)
              /\ handles[h].state = "open" /\ r.state = "open" /\ r.published = handles[h].published
    BY <1>5, EndInputMoves
  <2>2. Quiet(handles[h], r)
    BY <1>0, <2>1, QuietWhen
  <2> QED BY <2>1, <2>2, QuietBy, ChangedHandles
<1>6. ASSUME NEW h \in Handles, OpenAnswered(h) PROVE Goal
  <2>1. PICK t \in {"setting", "answered", "failed", "orphaned"} :
              LET r == [handles[h] EXCEPT !.state = t] IN
              r \in Record /\ Changed(h, r) /\ handles[h].state \in Coming
    BY <1>6, OpenAnsweredMoves
  <2>2. PICK r \in Record : r = [handles[h] EXCEPT !.state = t] /\ Changed(h, r)
    BY <2>1
  <2>3. r.state = t /\ r.published = handles[h].published /\ handles[h].state # "flushing" /\ t # "flushing"
    BY <1>0, <2>1, <2>2 DEF Record, Coming
  <2>4. Quiet(handles[h], r)
    BY <1>0, <2>3, QuietWhen
  <2> QED BY <2>2, <2>4, QuietBy, ChangedHandles
<1>7. ASSUME NEW h \in Handles PROVE Quiet(handles[h], Over(handles[h])) /\ Quiet(handles[h], handles[h])
  <2>1. /\ Over(handles[h]).published = handles[h].published /\ Over(handles[h]).state = handles[h].state
        /\ Over(handles[h]).flushed = handles[h].flushed
    BY <1>0 DEF Record, Over
  <2> QED BY <1>0, <2>1, QuietWhen
<1>8. ASSUME NEW h \in Handles, CloseAnswered(h) PROVE Goal
  BY <1>7, <1>8, CloseAnsweredMoves, QuietBy, ChangedHandles
<1>9. CASE ExitSeen
  <2>1. ASSUME NEW h \in Handles PROVE Quiet(handles[h], handles'[h])
    <3>1. CASE handles[h].state \in Coming
      <4>1. handles'[h] = [handles[h] EXCEPT !.state = "failed"]
        BY <1>9, <3>1, ExitSeenMoves
      <4>2. handles'[h].state = "failed" /\ handles'[h].published = handles[h].published
            /\ handles[h].state # "flushing"
        BY <1>0, <3>1, <4>1 DEF Record, Coming
      <4> QED BY <1>0, <4>2, QuietWhen
    <3>2. CASE handles[h].state \notin Coming
      BY <1>7, <1>9, <3>2, ExitSeenMoves
    <3> QED BY <3>1, <3>2
  <2>2. Handles' = Handles
    BY <1>9, ExitSeenMoves
  <2> QED BY <1>1, <1>2, <2>1, <2>2
<1>10. CASE DrainEnds
  <2>1. ASSUME NEW h \in Handles PROVE Quiet(handles[h], Ended(h))
    <3>1. /\ Ended(h).published = handles[h].published /\ Ended(h).state = handles[h].state
          /\ Ended(h).flushed = handles[h].flushed
      BY <1>0 DEF Record, Ended
    <3> QED BY <1>0, <3>1, QuietWhen
  <2>2. Handles' = Handles /\ \A h \in Handles : handles'[h] = Ended(h)
    BY <1>10, DrainEndsMoves
  <2> QED BY <1>1, <1>2, <2>1, <2>2
<1>12. CASE handles' = handles
  BY <1>1, <1>2, <1>7, <1>12 DEF Handles
<1>13. Initialized \/ UpdateRead \/ AskRead \/ Asked \/ Close
         \/ (\E h \in Handles : Send(h)) \/ (\E k \in Sends : SendAnswered(k) \/ SendMarks(k)) \/ UNCHANGED vars
       => handles' = handles
  BY DEF Initialized, UpdateRead, AskRead, Asked, Decide, Close, Send, SendAnswered, SendMarks, vars
<1> HIDE DEF Goal
<1>14. Goal
  BY <1>3, <1>4, <1>5, <1>6, <1>8, <1>9, <1>10, <1>12, <1>13
     DEF Next, Opens, Calls, Front, Drain, Sending, Special, Goal
<1> QED BY <1>1, <1>2, <1>14 DEF Goal

LEMMA EndsCalm ==
    ASSUME Shaped, NEW k \in Sends, sends[k].handle \in Handles, SendEnds(k)
    PROVE  \E h \in Handles, r \in Record :
              /\ h = sends[k].handle /\ Changed(h, r) /\ Calm(handles[h], r)
              /\ r.state = handles[h].state /\ r.published = Push(h, TurnEnd(k))
<1>1. PICK h \in Handles : h = sends[k].handle
  OBVIOUS
<1>2. TurnEnd(k) \in Entries
  BY Lengths DEF TurnEnd, Entries, Sends
<1>3. handles' = [handles EXCEPT ![h].published = Push(h, TurnEnd(k))]
  BY <1>1 DEF SendEnds
<1>4. PICK p \in Seq(Entries) : p = Push(h, TurnEnd(k))
  BY <1>2, Pushed
<1>5. PICK r \in Record : Changed(h, r) /\ r = [handles[h] EXCEPT !.published = p]
  BY <1>2, <1>3, <1>4, PushMoves
<1>6. r.state = handles[h].state /\ r.flushed = handles[h].flushed /\ r.published = p
  BY Lengths, <1>5 DEF Record
<1>7. \A n \in Nat : Note(n) \in EntriesOf(p) <=> Note(n) \in EntriesOf(handles[h].published)
  <2>1. \A n : Note(n) # TurnEnd(k)
    BY DEF Note, TurnEnd
  <2>2. \A n : Note(n) \in {Push(h, TurnEnd(k))[i] : i \in 1..Len(Push(h, TurnEnd(k)))}
                  <=> Takes(h, n) \/ (~handles[h].shut /\ Note(n) = TurnEnd(k))
    BY <1>2, TakesMore
  <2> QED BY <1>4, <2>1, <2>2 DEF Takes, Published, EntriesOf
<1>8. Calm(handles[h], r)
  BY <1>6, <1>7 DEF Calm
<1> QED BY <1>1, <1>4, <1>5, <1>6, <1>8

LEMMA PlacedStep ==
    Shaped /\ Numbered /\ SendsOwned /\ Lives /\ Agreed /\ Placed /\ [Next]_vars => Placed'
<1> SUFFICES ASSUME Shaped, Numbered, SendsOwned, Lives, Agreed, Placed, [Next]_vars PROVE Placed'
  OBVIOUS
<1>1. Before /\ Unique
  BY Lengths DEF Numbered, InHand, Before, Shaped, received, Lives
<1>2. CASE ~Special
  BY <1>1, <1>2, QuietStep, QuietIsCalm, HandlesKept, CalmPlaced DEF Agreed
<1>3. CASE DrainDelivers
  BY <1>3, DeliversPlaced
<1>4. CASE DrainTakes
  <2>1. CASE sessions[noteSid[Head(queue)]] = None
    BY <1>4, <2>1, HoldPlaced
  <2>2. CASE sessions[noteSid[Head(queue)]] # None
    <3>1. UNCHANGED <<handled, early, noteSid, handles>>
      BY <1>4, <2>2 DEF DrainTakes
    <3>2. \A h \in Handles : Calm(handles[h], handles[h])
      BY DEF Calm
    <3>3. Handles' = Handles
      BY <3>1 DEF Handles
    <3> QED BY <1>1, <3>1, <3>2, <3>3, HandlesKept, CalmPlaced DEF Agreed
  <2> QED BY <2>1, <2>2
<1>5. ASSUME NEW h \in Handles, Flush(h) \/ OpenReturns(h) PROVE Placed'
  BY <1>1, <1>5, FlushPlaced, ReturnsPlaced
<1>6. ASSUME NEW k \in Sends, SendEnds(k) PROVE Placed'
  <2>1. PICK h \in Handles, r \in Record : Changed(h, r) /\ Calm(handles[h], r)
    BY <1>6, EndsCalm DEF SendsOwned
  <2>2. Handles' = Handles /\ \A g \in Handles : Calm(handles[g], handles'[g])
    BY <2>1, ChangedHandles DEF Calm
  <2>3. UNCHANGED <<handled, early, noteSid>>
    BY <1>6 DEF SendEnds, clientVars, drainVars, mapVars
  <2> QED BY <1>1, <2>2, <2>3, HandlesKept, CalmPlaced DEF Agreed
<1> QED BY <1>2, <1>3, <1>4, <1>5, <1>6 DEF Special

-----------------------------------------------------------------------------
(* The sends *)

\* What a send waits for is what was read when its response came, and counts the
\* updates read before the response.
SendsCounted ==
    \A k \in Sends :
        /\ sends[k].upto <= received
        /\ sends[k].mark <= received
        /\ sends[k].state \in {"waiting", "accepted"} => sends[k].upto <= sends[k].mark

LEMMA ReceivedGrows ==
    ASSUME Shaped, [Next]_vars
    PROVE  received \in Nat /\ received' \in Nat /\ received <= received'
<1>1. CASE UpdateRead
  <2>1. PICK sid \in Known : noteSid' = Append(noteSid, sid)
    BY <1>1 DEF UpdateRead
  <2>2. sid \in Sid /\ noteSid \in Seq(Sid)
    BY <2>1, Lengths DEF Known, Record, Shaped
  <2>3. Len(noteSid') = Len(noteSid) + 1
    BY <2>1, <2>2, AppendProperties
  <2> QED BY <2>3, Lengths DEF received
<1>2. CASE ~UpdateRead
  <2>1. noteSid' = noteSid
    BY <1>2 DEF Next, Opens, Calls, Front, Drain, Sending, Asked, Decide, OpenSession, OpenOwned, Register, Flush,
         OpenReturns, Close, Send, EndInput, Abort, Initialized, AskRead, ExitSeen, OpenAnswered,
         CloseAnswered, SendAnswered, SendMarks, SendEnds, DrainTakes, DrainDelivers, DrainEnds, clientVars, vars
  <2> QED BY <2>1, Lengths DEF received
<1> QED BY <1>1, <1>2

LEMMA SendsStep ==
    ASSUME Shaped, Numbered, SendsOwned, SendsCounted, Registered, MapIsLive, [Next]_vars
    PROVE  /\ SendsOwned' /\ SendsCounted'
           /\ Sends \subseteq Sends'
           /\ \A k \in Sends : sends[k].state = "accepted" =>
                 sends'[k].state = "accepted" /\ sends'[k].upto = sends[k].upto
<1> DEFINE Goal == /\ SendsOwned' /\ SendsCounted'
                   /\ Sends \subseteq Sends'
                   /\ \A k \in Sends : sends[k].state = "accepted" =>
                         sends'[k].state = "accepted" /\ sends'[k].upto = sends[k].upto
<1>0. /\ Handles \subseteq Handles' /\ \A h \in Handles : Kept(handles[h], handles'[h])
      /\ received \in Nat /\ received' \in Nat /\ received <= received'
      /\ Len(sends) \in Nat /\ sends \in Seq(SendRecord)
      /\ \A k \in Sends : sends[k] \in SendRecord /\ sends[k].upto \in Nat /\ sends[k].mark \in Nat
  BY HandlesKept, ReceivedGrows, Lengths DEF Shaped, SendRecord
<1>1. ASSUME NEW h \in Handles, Send(h) PROVE Goal
  <2> DEFINE s == [handle |-> h, state |-> SendOutcome(h), upto |-> 0, mark |-> 0]
  <2>1. handles[h].state = "open" /\ sends' = Append(sends, s)
    BY <1>1 DEF Send
  <2>2. handles[h].aborted \in BOOLEAN /\ handles[h].ended \in BOOLEAN /\ h \in Nat
    BY Lengths DEF Record, Handles
  <2>3. SendOutcome(h) \in {"aborted", "inputClosed", "rejected", "posted"}
    BY <2>2 DEF SendOutcome
  <2>4. s \in SendRecord
    BY <2>2, <2>3 DEF SendRecord, SendState
  <2>5. /\ Len(sends') = Len(sends) + 1 /\ sends'[Len(sends) + 1] = s
        /\ \A k \in Sends : sends'[k] = sends[k]
    <3> HIDE DEF s
    <3> QED BY <1>0, <2>1, <2>4, AppendProperties DEF Sends
  <2>6. Sends' = Sends \cup {Len(sends) + 1}
    BY <1>0, <2>5 DEF Sends
  <2>7. SendsOwned'
    <3> SUFFICES ASSUME NEW k \in Sends'
                 PROVE  sends'[k].handle \in Handles' /\ handles'[sends'[k].handle].state = "open"
      BY DEF SendsOwned
    <3>1. CASE k = Len(sends) + 1
      BY <1>0, <2>1, <2>5, <3>1 DEF Kept
    <3>2. CASE k \in Sends
      BY <1>0, <2>5, <3>2 DEF SendsOwned, Kept
    <3> QED BY <2>6, <3>1, <3>2
  <2>8. SendsCounted'
    <3> SUFFICES ASSUME NEW k \in Sends'
                 PROVE  /\ sends'[k].upto <= received' /\ sends'[k].mark <= received'
                        /\ sends'[k].state \in {"waiting", "accepted"} => sends'[k].upto <= sends'[k].mark
      BY DEF SendsCounted
    <3>1. CASE k = Len(sends) + 1
      BY <1>0, <2>5, <3>1
    <3>2. CASE k \in Sends
      BY <1>0, <2>5, <3>2 DEF SendsCounted
    <3> QED BY <2>6, <3>1, <3>2
  <2> QED BY <2>5, <2>6, <2>7, <2>8
<1>2. ASSUME NEW k \in Sends, SendAnswered(k) \/ SendMarks(k) \/ SendEnds(k) PROVE Goal
  <2>1. PICK r \in SendRecord :
              /\ Sends' = Sends /\ sends'[k] = r /\ r.handle = sends[k].handle
              /\ \A j \in Sends : j # k => sends'[j] = sends[j]
              /\ \/ sends[k].state = "posted" /\ r.state \in {"answered", "undelivered"}
                    /\ r.upto = received /\ r.mark = sends[k].mark
                 \/ sends[k].state = "answered" /\ r.state = "waiting" /\ r.upto = sends[k].upto
                    /\ r.mark = received
                 \/ sends[k].state = "waiting" /\ r.state = "accepted" /\ r.upto = sends[k].upto
                    /\ r.mark = sends[k].mark
    BY <1>2, SendMoves
  <2>2. SendsOwned'
    BY <1>0, <2>1 DEF SendsOwned, Kept
  <2>3. SendsCounted'
    <3> SUFFICES ASSUME NEW j \in Sends
                 PROVE  /\ sends'[j].upto <= received' /\ sends'[j].mark <= received'
                        /\ sends'[j].state \in {"waiting", "accepted"} => sends'[j].upto <= sends'[j].mark
      BY <2>1 DEF SendsCounted
    <3>1. /\ sends[j].upto <= received /\ sends[j].mark <= received
          /\ sends[j].state \in {"waiting", "accepted"} => sends[j].upto <= sends[j].mark
      BY DEF SendsCounted
    <3>2. CASE j = k
      BY <1>0, <2>1, <3>1, <3>2
    <3>3. CASE j # k
      BY <1>0, <2>1, <3>1, <3>3
    <3> QED BY <3>2, <3>3
  <2> QED BY <2>1, <2>2, <2>3
<1>3. CASE ExitSeen
  <2>1. sends' = [k \in Sends |->
                   IF sends[k].state = "posted" THEN [sends[k] EXCEPT !.state = "rejected"]
                   ELSE sends[k]]
    BY <1>3 DEF ExitSeen
  <2>2. Sends' = Sends
    <3>1. Len(sends') = Len(sends)
      BY <1>0, <2>1 DEF Sends
    <3> QED BY <3>1 DEF Sends
  <2>3. ASSUME NEW k \in Sends
        PROVE  /\ sends'[k].handle = sends[k].handle /\ sends'[k].upto = sends[k].upto
               /\ sends'[k].mark = sends[k].mark
               /\ sends'[k].state = sends[k].state \/ (sends[k].state = "posted" /\ sends'[k].state = "rejected")
    BY <1>0, <2>1 DEF SendRecord
  <2>4. SendsOwned'
    BY <1>0, <2>2, <2>3 DEF SendsOwned, Kept
  <2>5. SendsCounted'
    <3> SUFFICES ASSUME NEW j \in Sends
                 PROVE  /\ sends'[j].upto <= received' /\ sends'[j].mark <= received'
                        /\ sends'[j].state \in {"waiting", "accepted"} => sends'[j].upto <= sends'[j].mark
      BY <2>2 DEF SendsCounted
    <3> QED BY <1>0, <2>3 DEF SendsCounted
  <2> QED BY <2>2, <2>3, <2>4, <2>5
<1>4. CASE sends' = sends
  <2>1. Sends' = Sends
    BY <1>4 DEF Sends
  <2>2. SendsOwned'
    BY <1>0, <1>4, <2>1 DEF SendsOwned, Kept
  <2>3. SendsCounted'
    <3> SUFFICES ASSUME NEW j \in Sends
                 PROVE  /\ sends[j].upto <= received' /\ sends[j].mark <= received'
                        /\ sends[j].state \in {"waiting", "accepted"} => sends[j].upto <= sends[j].mark
      BY <1>4, <2>1 DEF SendsCounted
    <3> QED BY <1>0 DEF SendsCounted
  <2> QED BY <1>4, <2>1, <2>2, <2>3
<1>5. \/ (\E h \in Handles : Send(h)) \/ (\E k \in Sends : SendAnswered(k) \/ SendMarks(k) \/ SendEnds(k))
      \/ ExitSeen \/ sends' = sends
  BY DEF Next, Opens, Calls, Front, Drain, Sending, Asked, Decide, OpenSession, OpenOwned, Register, Flush,
         OpenReturns, Close, EndInput, Abort, Initialized, AskRead, OpenAnswered, UpdateRead,
         CloseAnswered, DrainTakes, DrainDelivers, DrainEnds, vars
<1> HIDE DEF Goal
<1>6. Goal
  BY <1>1, <1>2, <1>3, <1>4, <1>5 DEF Goal
<1> QED BY <1>6 DEF Goal

-----------------------------------------------------------------------------
(* The turn-ends *)

\* A turn-end is that of a send that was accepted, behind the updates it waited for.
EndFits(h, e) ==
    e.kind = "turn-end" =>
        /\ handles[h].state = "open"
        /\ e.of \in Sends
        /\ sends[e.of].state = "accepted"
        /\ handled >= sends[e.of].upto \/ drain = "ended"

EndsFit == \A h \in Handles : \A i \in 1..Len(handles[h].published) : EndFits(h, handles[h].published[i])

\* What the events of a handle become.
Grows(h) ==
    \/ handles'[h].published = handles[h].published
    \/ \E n \in Nat : /\ handles'[h].published = Append(handles[h].published, Note(n))
                      /\ \/ handles[h].state = "flushing"
                         \/ drain # "ended" /\ n = handled + 1
    \/ \E k \in Sends : /\ handles'[h].published = Append(handles[h].published, TurnEnd(k))
                        /\ SendEnds(k) /\ h = sends[k].handle

LEMMA PushIs ==
    ASSUME Shaped, NEW h \in Handles, NEW e
    PROVE  Push(h, e) = handles[h].published \/ Push(h, e) = Append(handles[h].published, e)
BY DEF Push

LEMMA GrowsStep ==
    ASSUME Shaped, Numbered, SendsOwned, Lives, Agreed, [Next]_vars, NEW h \in Handles
    PROVE  Grows(h)
<1>1. CASE ~Special
  BY <1>1, QuietStep DEF Quiet, Grows
<1>2. CASE DrainTakes
  <2>1. handles' = handles
    BY <1>2 DEF DrainTakes
  <2> QED BY <2>1 DEF Grows
<1>3. CASE DrainDelivers
  <2>1. PICK m \in Nat, g \in Handles :
         /\ m = current.note /\ m = handled + 1 /\ g = current.handle
    BY <1>3 DEF DrainDelivers, Numbered, Shaped
  <2>2. handles' = [handles EXCEPT ![g].published = Push(g, Note(m))] /\ drain = "delivering"
    BY <1>3, <2>1 DEF DrainDelivers
  <2>3. Note(m) \in Entries
    BY DEF Note, Entries
  <2>4. PICK p \in Seq(Entries) : p = Push(g, Note(m))
    BY <2>3, Pushed
  <2>5. PICK r \in Record : Changed(g, r) /\ r = [handles[g] EXCEPT !.published = p]
    BY <2>2, <2>3, <2>4, PushMoves
  <2>6. r.published = p
    BY <2>5, Lengths DEF Record
  <2>7. CASE h = g
    <3>1. handles'[h].published = Push(h, Note(m))
      BY <2>4, <2>5, <2>6, <2>7, ChangedHandles
    <3> QED BY <2>1, <2>2, <3>1, PushIs DEF Grows
  <2>8. CASE h # g
    <3>1. handles'[h] = handles[h]
      BY <2>5, <2>8, ChangedHandles
    <3> QED BY <3>1 DEF Grows
  <2> QED BY <2>7, <2>8
<1>4. ASSUME NEW g \in Handles, Flush(g) PROVE Grows(h)
  <2>1. PICK m \in Nat, r \in Record :
           Changed(g, r) /\ r.published = Push(g, Note(m)) /\ handles[g].state = "flushing"
    BY <1>4, FlushMoves
  <2>2. CASE h = g
    <3>1. handles'[h].published = Push(h, Note(m)) /\ handles[h].state = "flushing"
      BY <2>1, <2>2, ChangedHandles
    <3> QED BY <3>1, PushIs DEF Grows
  <2>3. CASE h # g
    <3>1. handles'[h] = handles[h]
      BY <2>1, <2>3, ChangedHandles
    <3> QED BY <3>1 DEF Grows
  <2> QED BY <2>2, <2>3
<1>5. ASSUME NEW g \in Handles, OpenReturns(g) PROVE Grows(h)
  <2>1. PICK r \in Record : r = [handles[g] EXCEPT !.state = "open", !.flushed = 0] /\ Changed(g, r)
    BY <1>5, OpenReturnsMoves
  <2>2. r.published = handles[g].published
    BY <2>1, Lengths DEF Record
  <2>3. handles'[h].published = handles[h].published
    BY <2>1, <2>2, ChangedHandles
  <2> QED BY <2>3 DEF Grows
<1>6. ASSUME NEW k \in Sends, SendEnds(k) PROVE Grows(h)
  <2>1. PICK g \in Handles, r \in Record :
              g = sends[k].handle /\ Changed(g, r) /\ r.published = Push(g, TurnEnd(k))
    BY <1>6, EndsCalm DEF SendsOwned
  <2>2. CASE h = g
    <3>1. handles'[h].published = Push(h, TurnEnd(k))
      BY <2>1, <2>2, ChangedHandles
    <3> QED BY <1>6, <2>1, <2>2, <3>1, PushIs DEF Grows
  <2>3. CASE h # g
    <3>1. handles'[h] = handles[h]
      BY <2>1, <2>3, ChangedHandles
    <3> QED BY <3>1 DEF Grows
  <2> QED BY <2>2, <2>3
<1> QED BY <1>1, <1>2, <1>3, <1>4, <1>5, <1>6 DEF Special

LEMMA Later ==
    ASSUME Shaped, Numbered, [Next]_vars
    PROVE  /\ handled \in Nat /\ handled' \in Nat /\ handled <= handled'
           /\ drain = "ended" => drain' = "ended"
<1>1. handled \in Nat
  BY DEF Shaped
<1>2. handled' = handled \/ handled' = handled + 1
  BY DEF Next, Opens, Calls, Front, Drain, Sending, Asked, Decide, OpenSession, OpenOwned, Register, Flush,
         OpenReturns, Close, Send, EndInput, Abort, Initialized, AskRead, ExitSeen, OpenAnswered, UpdateRead,
         CloseAnswered, SendAnswered, SendMarks, SendEnds, DrainTakes, DrainDelivers, DrainEnds, drainVars, vars
<1>3. drain = "ended" => drain' = "ended"
  BY DEF Next, Opens, Calls, Front, Drain, Sending, Asked, Decide, OpenSession, OpenOwned, Register, Flush,
         OpenReturns, Close, Send, EndInput, Abort, Initialized, AskRead, ExitSeen, OpenAnswered, UpdateRead,
         CloseAnswered, SendAnswered, SendMarks, SendEnds, DrainTakes, DrainDelivers, DrainEnds, drainVars, vars
<1> QED BY <1>1, <1>2, <1>3

LEMMA EntryIs ==
    ASSUME NEW n \in Nat
    PROVE  /\ Note(n) \in Entries /\ Note(n).kind = "note" /\ Note(n).of = n
           /\ TurnEnd(n) \in Entries /\ TurnEnd(n).kind = "turn-end" /\ TurnEnd(n).of = n
BY DEF Note, TurnEnd, Entries

\* EndFits() behind the step.
NextFits(h, e) ==
    e.kind = "turn-end" =>
        /\ handles'[h].state = "open"
        /\ e.of \in Sends'
        /\ sends'[e.of].state = "accepted"
        /\ handled' >= sends'[e.of].upto \/ drain' = "ended"

LEMMA EndsStep ==
    ASSUME Shaped, Numbered, SendsOwned, SendsCounted, Lives, Agreed, EndsFit, TurnEndLast, [Next]_vars
    PROVE  EndsFit' /\ TurnEndLast'
<1>0. /\ Handles \subseteq Handles' /\ \A h \in Handles : Kept(handles[h], handles'[h])
      /\ Handles' = Handles \/ OpenSession \/ OpenOwned
      /\ \A h \in Handles : handles[h].published \in Seq(Entries) /\ Len(handles[h].published) \in Nat
      /\ \A k \in Sends : sends[k].upto \in Nat /\ sends[k].mark \in Nat
      /\ handled \in Nat /\ handled' \in Nat /\ handled <= handled' /\ (drain = "ended" => drain' = "ended")
  BY HandlesKept, Lengths, Later DEF Agreed, Record, SendRecord
<1>1. /\ Sends \subseteq Sends'
      /\ \A k \in Sends : sends[k].state = "accepted" =>
            sends'[k].state = "accepted" /\ sends'[k].upto = sends[k].upto
  BY SendsStep DEF Agreed
<1>2. ASSUME NEW h \in Handles, NEW e, EndFits(h, e), e.kind = "turn-end"
      PROVE  NextFits(h, e) /\ e.of \in Sends /\ sends'[e.of].upto = sends[e.of].upto
  BY <1>0, <1>1, <1>2 DEF EndFits, NextFits, Kept
<1>3. \A h \in Handles' : h \in Handles \/ handles'[h].published = <<>>
  <2>1. CASE OpenSession \/ OpenOwned
    <3>1. PICK sid \in Sid :
              /\ Len(handles') = Len(handles) + 1
              /\ handles'[Len(handles) + 1] = Opened(sid)
      BY <2>1, OpensMoves
    <3>2. Handles' = Handles \cup {Len(handles) + 1} /\ Opened(sid).published = <<>>
      BY <3>1, Lengths DEF Handles, Opened
    <3> QED BY <3>1, <3>2
  <2> QED BY <1>0, <2>1
\* The entries of a handle behind the step, and the two facts of each.
<1>4. ASSUME NEW h \in Handles, NEW i \in 1..Len(handles'[h].published)
      PROVE  NextFits(h, handles'[h].published[i])
  <2> DEFINE p == handles[h].published
             q == handles'[h].published
  <2>1. \A x \in 1..Len(p) : EndFits(h, p[x])
    BY DEF EndsFit
  <2>2. CASE q = p
    <3>1. EndFits(h, p[i]) /\ q[i] = p[i]
      BY <2>1, <2>2
    <3>2. PICK e : e = p[i]
      OBVIOUS
    <3>3. CASE e.kind = "turn-end"
      <4>1. NextFits(h, e)
        BY <1>2, <3>1, <3>2, <3>3
      <4> QED BY <3>1, <3>2, <4>1
    <3>4. CASE e.kind # "turn-end"
      BY <3>1, <3>2, <3>4 DEF NextFits
    <3> QED BY <3>3, <3>4
  <2>3. ASSUME NEW e \in Entries, q = Append(p, e), NextFits(h, e) PROVE NextFits(h, q[i])
    <3>1. /\ Len(q) = Len(p) + 1 /\ q[Len(p) + 1] = e
          /\ \A x \in 1..Len(p) : q[x] = p[x]
      <4> HIDE DEF q
      <4> QED BY <1>0, <2>3, AppendProperties
    <3>2. CASE i = Len(p) + 1
      BY <2>3, <3>1, <3>2
    <3>3. CASE i \in 1..Len(p)
      <4>1. PICK d : d = p[i]
        OBVIOUS
      <4>2. EndFits(h, d) /\ q[i] = d
        BY <2>1, <3>1, <3>3, <4>1
      <4>3. CASE d.kind = "turn-end"
        <5>1. NextFits(h, d)
          BY <1>2, <4>2, <4>3
        <5> HIDE DEF q
        <5> QED BY <4>2, <5>1
      <4>4. CASE d.kind # "turn-end"
        BY <4>2, <4>4 DEF NextFits
      <4> QED BY <4>3, <4>4
    <3> QED BY <1>0, <3>1, <3>2, <3>3
  <2>4. ASSUME NEW n \in Nat, q = Append(p, Note(n)) PROVE NextFits(h, q[i])
    <3>1. PICK e \in Entries : e = Note(n) /\ e.kind = "note"
      BY EntryIs
    <3>2. NextFits(h, e)
      BY <3>1 DEF NextFits
    <3> QED BY <2>3, <2>4, <3>1, <3>2
  <2>5. ASSUME NEW k \in Sends, q = Append(p, TurnEnd(k)), SendEnds(k), h = sends[k].handle
        PROVE NextFits(h, q[i])
    <3>1. PICK e \in Entries : e = TurnEnd(k) /\ e.kind = "turn-end" /\ e.of = k
      <4>1. k \in Nat
        BY Lengths DEF Sends
      <4> QED BY <4>1, EntryIs
    <3>2. handles'[h].state = "open"
      BY <1>0, <2>5 DEF SendsOwned, Kept
    <3>3. k \in Sends' /\ sends'[k].state = "accepted" /\ sends'[k].upto = sends[k].upto
      <4>1. /\ Sends' = Sends /\ sends'[k].upto = sends[k].upto /\ sends'[k].state = "accepted"
        <5>1. sends[k].state = "waiting"
          BY <2>5 DEF SendEnds
        <5> QED BY <2>5, <5>1, SendMoves
      <4> QED BY <4>1
    <3>4. handled' >= sends[k].upto \/ drain' = "ended"
      <4>1. sends[k].upto <= sends[k].mark
        BY <2>5 DEF SendsCounted, SendEnds
      <4>2. handled >= sends[k].mark \/ drain = "ended"
        BY <2>5 DEF SendEnds, Reached
      <4> QED BY <1>0, <4>1, <4>2
    <3>5. NextFits(h, e)
      BY <3>1, <3>2, <3>3, <3>4 DEF NextFits
    <3> QED BY <2>3, <2>5, <3>1, <3>5
  <2> QED BY <2>2, <2>4, <2>5, GrowsStep DEF Grows
<1>5. EndsFit'
  <2>1. \A h \in Handles' : \A i \in 1..Len(handles'[h].published) : NextFits(h, handles'[h].published[i])
    BY <1>3, <1>4
  <2> QED BY <2>1 DEF EndsFit, EndFits, NextFits
<1>6. ASSUME NEW h \in Handles, NEW j \in 1..Len(handles'[h].published), NEW i \in 1..(j - 1),
             handles'[h].published[i].kind = "turn-end", handles'[h].published[j].kind = "note"
      PROVE  handles'[h].published[j].of > sends'[handles'[h].published[i].of].upto
  <2> DEFINE p == handles[h].published
             q == handles'[h].published
  <2>1. ASSUME j \in 1..Len(p), q[i] = p[i], q[j] = p[j] PROVE q[j].of > sends'[q[i].of].upto
    <3>1. i \in 1..Len(p)
      BY <1>0, <2>1
    <3>2. PICK e : e = p[i] /\ EndFits(h, e) /\ e.kind = "turn-end"
      BY <1>6, <2>1, <3>1 DEF EndsFit
    <3>3. p[j].of > sends[e.of].upto
      BY <1>6, <2>1, <3>2 DEF TurnEndLast
    <3>4. sends'[e.of].upto = sends[e.of].upto
      BY <1>2, <3>2
    <3> QED BY <2>1, <3>2, <3>3, <3>4
  <2>2. CASE q = p
    BY <2>1, <2>2
  <2>3. ASSUME NEW d \in Entries, q = Append(p, d)
        PROVE  /\ Len(q) = Len(p) + 1 /\ q[Len(p) + 1] = d
               /\ \A x \in 1..Len(p) : q[x] = p[x]
               /\ i \in 1..Len(p)
    <3>1. /\ Len(q) = Len(p) + 1 /\ q[Len(p) + 1] = d
          /\ \A x \in 1..Len(p) : q[x] = p[x]
      <4> HIDE DEF q
      <4> QED BY <1>0, <2>3, AppendProperties
    <3> QED BY <1>0, <3>1
  <2>4. ASSUME NEW n \in Nat, q = Append(p, Note(n)),
               handles[h].state = "flushing" \/ (drain # "ended" /\ n = handled + 1)
        PROVE  q[j].of > sends'[q[i].of].upto
    <3>1. PICK d \in Entries : d = Note(n) /\ d.of = n
      BY EntryIs
    <3>2. /\ Len(q) = Len(p) + 1 /\ q[Len(p) + 1] = d
          /\ \A x \in 1..Len(p) : q[x] = p[x]
          /\ i \in 1..Len(p)
      BY <2>3, <2>4, <3>1
    <3>3. CASE j \in 1..Len(p)
      BY <2>1, <3>2, <3>3
    <3>4. CASE j = Len(p) + 1
      <4>1. PICK e : e = p[i] /\ EndFits(h, e) /\ e.kind = "turn-end"
        BY <1>6, <3>2 DEF EndsFit
      <4>2. handles[h].state = "open" /\ e.of \in Sends /\ (handled >= sends[e.of].upto \/ drain = "ended")
        BY <4>1 DEF EndFits
      <4>3. sends'[e.of].upto = sends[e.of].upto
        BY <1>2, <4>1
      <4>4. n > sends[e.of].upto
        BY <1>0, <2>4, <4>2
      <4>5. q[j].of = n /\ q[i] = e
        BY <3>1, <3>2, <3>4, <4>1
      <4> QED BY <4>3, <4>4, <4>5
    <3>5. j \in 1..Len(p) \/ j = Len(p) + 1
      BY <1>0, <3>2
    <3> QED BY <3>3, <3>4, <3>5
  <2>5. ASSUME NEW k \in Sends, q = Append(p, TurnEnd(k)) PROVE q[j].of > sends'[q[i].of].upto
    <3>1. PICK d \in Entries : d = TurnEnd(k) /\ d.kind = "turn-end"
      <4>1. k \in Nat
        BY Lengths DEF Sends
      <4> QED BY <4>1, EntryIs
    <3>2. /\ Len(q) = Len(p) + 1 /\ q[Len(p) + 1] = d
          /\ \A x \in 1..Len(p) : q[x] = p[x]
          /\ i \in 1..Len(p)
      BY <2>3, <2>5, <3>1
    <3>3. j # Len(p) + 1
      BY <1>6, <3>1, <3>2
    <3>4. j \in 1..Len(p)
      BY <1>0, <3>2, <3>3
    <3> QED BY <2>1, <3>2, <3>4
  <2> QED BY <2>2, <2>4, <2>5, GrowsStep DEF Grows
<1>7. TurnEndLast'
  BY <1>3, <1>6 DEF TurnEndLast
<1> QED BY <1>5, <1>7

-----------------------------------------------------------------------------
(* The invariant *)

ConnectionInd ==
    /\ Shaped
    /\ Numbered
    /\ SendsOwned /\ SendsCounted
    /\ Lives
    /\ Agreed
    /\ AsksOwned /\ AskedOfItsSession
    /\ Placed
    /\ EndsFit /\ TurnEndLast

LEMMA InitInd == Init => ConnectionInd
<1> SUFFICES ASSUME Init PROVE ConnectionInd
  OBVIOUS
<1>1. Shaped /\ Numbered
  BY InitShaped
<1>2. /\ handles = <<>> /\ sends = <<>> /\ asks = <<>> /\ exitSeen = FALSE /\ drain = "idle" /\ handled = 0
      /\ \A sid \in Sid : sessions[sid] = None /\ early[sid] = <<>>
  BY DEF Init
<1>3. Handles = {} /\ Sends = {} /\ Asks = {} /\ Len(handles) = 0
  BY <1>2 DEF Handles, Sends, Asks
<1>4. SendsOwned /\ SendsCounted
  BY <1>3 DEF SendsOwned, SendsCounted
<1>5. Lives
  BY <1>2, <1>3 DEF Lives, Unique
<1>6. Agreed
  BY <1>2, <1>3 DEF Agreed, Registered, MapIsLive, LiveIsMapped, EventsComplete
<1>7. AsksOwned /\ AskedOfItsSession
  BY <1>3 DEF AsksOwned, AskedOfItsSession
<1>8. Placed
  <2>1. \A sid \in Sid : Len(early[sid]) = 0
    BY <1>2
  <2> QED BY <1>2, <1>3, <2>1 DEF Placed, EarlyOwn, FlushFits, TakenOwn, AllPlaced
<1>9. EndsFit /\ TurnEndLast
  BY <1>3 DEF EndsFit, TurnEndLast
<1> QED BY <1>1, <1>4, <1>5, <1>6, <1>7, <1>8, <1>9 DEF ConnectionInd

LEMMA IndStep == ConnectionInd /\ [Next]_vars => ConnectionInd'
<1> SUFFICES ASSUME ConnectionInd, [Next]_vars PROVE ConnectionInd'
  OBVIOUS
<1> USE DEF ConnectionInd
<1>1. Shaped'
  BY ShapedStep DEF SendsOwned
<1>2. Numbered'
  BY NumberedStep DEF Agreed
<1>3. SendsOwned' /\ SendsCounted'
  BY SendsStep DEF Agreed
<1>4. Lives'
  BY LivesStep DEF Agreed
<1>5. Agreed'
  BY AgreedStep
<1>6. AsksOwned' /\ AskedOfItsSession'
  BY AsksStep
<1>7. Placed'
  BY PlacedStep
<1>8. EndsFit' /\ TurnEndLast'
  BY EndsStep
<1> QED BY <1>1, <1>2, <1>3, <1>4, <1>5, <1>6, <1>7, <1>8

LEMMA Tighter ==
    ASSUME NEW S, NEW T, NEW s \in Seq(S), \A i \in 1..Len(s) : s[i] \in T
    PROVE  s \in Seq(T)
OBVIOUS

LEMMA IndTypeOK == ConnectionInd => TypeOK
<1> SUFFICES ASSUME ConnectionInd PROVE TypeOK
  OBVIOUS
<1>0. /\ Shaped /\ Numbered /\ SendsOwned /\ SendsCounted /\ Agreed /\ AsksOwned /\ Placed /\ EndsFit
      /\ received = Len(noteSid) /\ received \in Nat /\ handled \in Nat /\ Len(queue) \in Nat
      /\ Len(handles) \in Nat /\ Len(sends) \in Nat
  BY Lengths DEF ConnectionInd, received, Shaped
<1>1. handled + InHand <= received /\ handled \in 0..received /\ InHand \in 0..1
  BY <1>0 DEF Numbered, InHand
<1>2. queue \in Seq(Notes)
  <2>1. \A i \in 1..Len(queue) : queue[i] \in Notes
    BY <1>0, <1>1 DEF Numbered, Notes
  <2> QED BY <1>0, <2>1, Tighter DEF Shaped
<1>3. current \in [note : {None} \cup Notes, handle : {None} \cup Handles]
  <2>1. CASE drain = "delivering"
    <3>1. current.note \in Notes /\ current.handle \in Handles /\ current \in [note : Nat, handle : Nat]
      BY <1>0, <1>1, <2>1 DEF Numbered, InHand, Notes, Shaped
    <3> QED BY <3>1
  <2>2. CASE drain # "delivering"
    BY <1>0, <2>2 DEF Numbered, Nothing
  <2> QED BY <2>1, <2>2
<1>4. sessions \in [Sid -> {None} \cup Handles]
  BY <1>0 DEF Agreed, Registered, Shaped
<1>5. early \in [Sid -> Seq(Notes)]
  <2>1. ASSUME NEW sid \in Sid PROVE early[sid] \in Seq(Notes)
    <3>1. \A i \in 1..Len(early[sid]) : early[sid][i] \in Notes
      BY <1>0, <1>1 DEF Placed, EarlyOwn, Notes
    <3> QED BY <1>0, <3>1, Tighter DEF Shaped
  <2> QED BY <1>0, <2>1 DEF Shaped
<1>6. \A h \in Handles : handles[h].published \in Seq(Entry)
  <2> SUFFICES ASSUME NEW h \in Handles PROVE handles[h].published \in Seq(Entry)
    OBVIOUS
  <2>1. handles[h].published \in Seq(Entries)
    BY <1>0, Lengths DEF Record
  <2>2. ASSUME NEW i \in 1..Len(handles[h].published) PROVE handles[h].published[i] \in Entry
    <3>1. PICK e \in Entries : e = handles[h].published[i]
      BY <2>1
    <3>2. CASE e.kind = "note"
      <4>1. e = Note(e.of) /\ e.of \in Nat
        BY <3>2 DEF Entries, Note
      <4>2. Takes(h, e.of)
        BY <3>1, <4>1 DEF Takes, Published
      <4>3. e.of \in 1..handled
        BY <1>0, <4>1, <4>2 DEF Placed, TakenOwn
      <4>4. e.of \in Notes
        BY <1>0, <1>1, <4>3 DEF Notes
      <4> QED BY <3>1, <4>1, <4>4 DEF Entry, Note
    <3>3. CASE e.kind = "turn-end"
      <4>1. e.of \in Sends
        BY <1>0, <3>1, <3>3 DEF EndsFit, EndFits
      <4> QED BY <3>1, <3>3, <4>1 DEF Entry, Entries
    <3> QED BY <3>2, <3>3 DEF Entries
  <2> QED BY <2>1, <2>2, Tighter
<1>7. handles \in Seq([state : {"asked", "setting", "answered", "flushing", "open", "failed", "orphaned"},
                       sid : Sid, flushed : Nat, published : Seq(Entry), shut : BOOLEAN,
                       ended : BOOLEAN, aborted : BOOLEAN,
                       leave : {"no", "asked", "left"}, replaced : BOOLEAN,
                       done : {"no", "left", "exit"}])
  <2> DEFINE T == [state : {"asked", "setting", "answered", "flushing", "open", "failed", "orphaned"},
                   sid : Sid, flushed : Nat, published : Seq(Entry), shut : BOOLEAN,
                   ended : BOOLEAN, aborted : BOOLEAN,
                   leave : {"no", "asked", "left"}, replaced : BOOLEAN,
                   done : {"no", "left", "exit"}]
  <2>1. \A h \in 1..Len(handles) : handles[h] \in T
    <3>1. \A h \in Handles : handles[h] \in Record
      BY <1>0, Lengths
    <3> QED BY <1>6, <3>1 DEF Record, Coming, Live, Handles
  <2> HIDE DEF T
  <2>2. handles \in Seq(T)
    BY <1>0, <2>1, Tighter DEF Shaped
  <2> QED BY <2>2 DEF T
<1>8. sends \in Seq([handle : Handles, upto : Nat, mark : 0..received,
                     state : {"posted", "answered", "waiting", "accepted",
                              "undelivered", "rejected", "aborted", "inputClosed"}])
  <2>1. \A k \in 1..Len(sends) :
           sends[k] \in [handle : Handles, upto : Nat, mark : 0..received,
                         state : {"posted", "answered", "waiting", "accepted",
                              "undelivered", "rejected", "aborted", "inputClosed"}]
    <3>1. \A k \in Sends : sends[k] \in SendRecord
      BY <1>0, Lengths
    <3> QED BY <1>0, <3>1 DEF SendRecord, SendState, SendsOwned, SendsCounted, Sends
  <2> QED BY <1>0, <2>1, Tighter DEF Shaped
<1>9. asks \in Seq([sid : Sid, handle : {None} \cup Handles, allowed : BOOLEAN,
                    state : {"refused", "deciding", "unheard", "allow", "reject", "other", "cancelled"}])
  <2>1. \A q \in 1..Len(asks) :
           asks[q] \in [sid : Sid, handle : {None} \cup Handles, allowed : BOOLEAN,
                        state : {"refused", "deciding", "unheard", "allow", "reject", "other", "cancelled"}]
    <3>1. \A q \in Asks : asks[q] \in AskRecord
      BY <1>0, Lengths
    <3> QED BY <1>0, <3>1 DEF AskRecord, AskState, AsksOwned, Asks
  <2> QED BY <1>0, <2>1, Tighter DEF Shaped
<1> QED BY <1>0, <1>1, <1>2, <1>3, <1>4, <1>5, <1>7, <1>8, <1>9 DEF TypeOK, Shaped

LEMMA IndNothingLost == ConnectionInd => NothingLost
<1> SUFFICES ASSUME ConnectionInd, NEW n \in 1..received
             PROVE  LET places == Cardinality(Takers(n))
                                  + (IF \E i \in 1..Len(queue) : queue[i] = n THEN 1 ELSE 0)
                                  + (IF current.note = n THEN 1 ELSE 0)
                                  + (IF n \in Held(noteSid[n]) THEN 1 ELSE 0) IN
                    /\ places <= 1
                    /\ places = 0 => \E h \in Handles : handles[h].sid = noteSid[n] /\ handles[h].shut
                    /\ \A h \in Takers(n) : handles[h].sid = noteSid[n]
  BY DEF NothingLost
<1>0. /\ Shaped /\ Numbered /\ Placed /\ received \in Nat /\ handled \in Nat /\ Len(queue) \in Nat
      /\ n \in Nat /\ InHand \in 0..1 /\ received = handled + InHand + Len(queue)
  <2>1. Shaped /\ Numbered /\ Placed /\ InHand \in 0..1
    BY DEF ConnectionInd, InHand
  <2>2. received \in Nat /\ handled \in Nat /\ Len(queue) \in Nat
    BY <2>1, Lengths DEF Shaped, received
  <2>3. received = handled + InHand + Len(queue)
    BY <2>1 DEF Numbered
  <2> QED BY <2>1, <2>2, <2>3
<1>1. Takers(n) = {h \in Handles : Takes(h, n)}
  BY DEF Takers, Takes
<1>2. \A h \in Takers(n) : n \in 1..handled /\ handles[h].sid = noteSid[n]
  BY <1>0, <1>1 DEF Placed, TakenOwn
<1>3. Waits(n) => n \in 1..handled
  <2>1. n \in Notes
    BY DEF Notes, received
  <2>2. noteSid[n] \in Sid
    BY <1>0, <2>1, Lengths
  <2> QED BY <1>0, <2>2, WaitsIs DEF Placed, EarlyOwn
<1>4. (\E i \in 1..Len(queue) : queue[i] = n) <=> n > handled + InHand
  <2>1. ASSUME NEW i \in 1..Len(queue), queue[i] = n PROVE n > handled + InHand
    BY <1>0, <2>1 DEF Numbered
  <2>2. ASSUME n > handled + InHand PROVE \E i \in 1..Len(queue) : queue[i] = n
    <3>1. PICK i \in 1..Len(queue) : n = handled + InHand + i
      <4>1. n - (handled + InHand) \in 1..Len(queue) /\ n = handled + InHand + (n - (handled + InHand))
        BY <1>0, <2>2
      <4> QED BY <4>1
    <3> QED BY <1>0, <3>1 DEF Numbered
  <2> QED BY <2>1, <2>2
<1>5. current.note = n <=> InHand = 1 /\ n = handled + 1
  BY <1>0 DEF Numbered, InHand, Nothing, None
<1>6. Cardinality({}) = 0 /\ \A h : Cardinality({h}) = 1
  BY FS_EmptySet, FS_Singleton
<1>7. CASE n \in 1..handled
  <2>1. OnePlace(n)
    BY <1>0, <1>7 DEF Placed, AllPlaced
  <2>2. ~(\E i \in 1..Len(queue) : queue[i] = n) /\ current.note # n
    BY <1>0, <1>4, <1>5, <1>7
  <2>3. CASE Takers(n) = {}
    <3>1. Cardinality(Takers(n)) = 0
      BY <1>6, <2>3
    <3>2. Waits(n) \/ \E h \in Handles : handles[h].sid = noteSid[n] /\ handles[h].shut
      BY <1>1, <2>1, <2>3 DEF OnePlace
    <3> QED BY <2>2, <2>3, <3>1, <3>2 DEF Waits
  <2>4. CASE Takers(n) # {}
    <3>1. PICK h : h \in Takers(n)
      BY <2>4
    <3>2. Takers(n) = {h}
      BY <1>1, <2>1, <3>1 DEF OnePlace
    <3>3. ~Waits(n)
      BY <1>1, <2>1, <3>1 DEF OnePlace
    <3>4. Cardinality(Takers(n)) = 1
      BY <1>6, <3>2
    <3> QED BY <1>2, <2>2, <3>3, <3>4 DEF Waits
  <2> QED BY <2>3, <2>4
<1>8. CASE n \notin 1..handled
  <2>1. Takers(n) = {} /\ ~Waits(n)
    BY <1>2, <1>3, <1>8
  <2>2. Cardinality(Takers(n)) = 0
    BY <1>6, <2>1
  <2>3. CASE n > handled + InHand
    <3>1. current.note # n
      BY <1>0, <1>5, <2>3
    <3> QED BY <1>4, <2>1, <2>2, <2>3, <3>1 DEF Waits
  <2>4. CASE ~(n > handled + InHand)
    <3>1. current.note = n
      BY <1>0, <1>5, <1>8, <2>4
    <3> QED BY <1>4, <2>1, <2>2, <2>4, <3>1 DEF Waits
  <2> QED BY <2>3, <2>4
<1> QED BY <1>7, <1>8

\* The map of sessions, their handles and the drain loop agree, and a request of the
\* front is decided by its own session, however sessions are opened, resumed, ended
\* and lost with the front (adapter.ts:1001-1164).
THEOREM ConnectionInvariant == Spec => []ConnectionInv
<1>1. ConnectionInd => ConnectionInv
  BY IndTypeOK DEF ConnectionInd, ConnectionInv, Agreed
<1> QED BY <1>1, InitInd, IndStep, PTL DEF Spec

\* Every update is in one place, reaches its own session once, and is ahead of the
\* turn-end of its turn, however many sessions share the front (adapter.ts:574-613,
\* 698-723, 1017-1057).
THEOREM UpdatesAreFaithful == Spec => []UpdatesFaithful
<1>1. ConnectionInd => UpdatesFaithful
  BY IndNothingLost DEF ConnectionInd, UpdatesFaithful
<1> QED BY <1>1, InitInd, IndStep, PTL DEF Spec

=============================================================================
