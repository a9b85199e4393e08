-------------------------- MODULE CodexSessionProofs --------------------------
(***************************************************************************)
(* What a Codex session keeps for every number of sends and turns, however *)
(* the responses, which go to send(), overtake the notifications, which go *)
(* to the pump: no send is forgotten, `activeTurnId` lags behind the       *)
(* server by the lines on the wire and no more, every completed turn has   *)
(* its one turn-end, and the handle keeps the contract of RuntimeSession.  *)
(***************************************************************************)
EXTENDS CodexSession, FiniteSetTheorems, SequenceTheorems, TLAPS

\* Facts about sequences the steps below use.
LEMMA TailProperties ==
    ASSUME NEW S, NEW s \in Seq(S), s # <<>>
    PROVE  /\ Head(s) = s[1] /\ 1 \in 1..Len(s)
           /\ Tail(s) \in Seq(S)
           /\ Len(Tail(s)) = Len(s) - 1
           /\ \A i \in 1..Len(Tail(s)) : Tail(s)[i] = s[i + 1]
OBVIOUS

LEMMA SequenceProperties ==
    ASSUME NEW S, NEW s \in Seq(S)
    PROVE  /\ Len(s) \in Nat
           /\ s = <<>> <=> Len(s) = 0
           /\ \A i \in 1..Len(s) : s[i] \in S
           /\ \A T : S \subseteq T => s \in Seq(T)
OBVIOUS

LEMMA FunctionIsSequence ==
    ASSUME NEW S, NEW n \in Nat, NEW f, f = [i \in 1..n |-> f[i]], \A i \in 1..n : f[i] \in S
    PROVE  f \in Seq(S) /\ Len(f) = n
OBVIOUS

\* The records of a session with n sends.
SendRecord ==
    [outcome : {"pending", "accepted", "undelivered", "aborted", "inputClosed"},
     expected : {Null} \cup Turns, turn : {Null} \cup Turns,
     known : {Null} \cup Turns, late : BOOLEAN]
Requests(n) == [send : 1..n, expected : {Null} \cup Turns]
Replies(n) == [kind : {"response", "refused"}, send : 1..n, turn : {Null} \cup Turns]
Notes == [kind : {"started", "bare", "completed"}, send : {Null}, turn : Turns]
Published == [kind : {"started", "completed", "turn-end"}, turn : Turns]

LEMMA Typed ==
    ASSUME TypeOK
    PROVE  /\ sends \in Seq(SendRecord) /\ Len(sends) \in Nat
           /\ outbox \in Seq(Requests(Len(sends))) /\ Len(outbox) \in Nat
           /\ wire \in Seq(Replies(Len(sends)) \cup Notes) /\ Len(wire) \in Nat
           /\ published \in Seq(Published) /\ Len(published) \in Nat
           /\ \A i \in 1..Len(wire) :
                 \/ IsReply(wire[i]) /\ wire[i] \in Replies(Len(sends))
                 \/ ~IsReply(wire[i]) /\ wire[i] \in Notes
           /\ \A i \in 1..Len(outbox) : outbox[i] \in Requests(Len(sends))
           /\ \A s \in Sends : sends[s] \in SendRecord
<1>1. /\ sends \in Seq(SendRecord) /\ outbox \in Seq(Requests(Len(sends)))
      /\ wire \in Seq(Replies(Len(sends)) \cup Notes) /\ published \in Seq(Published)
  BY DEF TypeOK, SendRecord, Requests, Replies, Notes, Published, Sends
<1>2. /\ Len(sends) \in Nat /\ Len(outbox) \in Nat /\ Len(wire) \in Nat /\ Len(published) \in Nat
      /\ \A i \in 1..Len(wire) : wire[i] \in Replies(Len(sends)) \cup Notes
      /\ \A i \in 1..Len(outbox) : outbox[i] \in Requests(Len(sends))
      /\ \A s \in Sends : sends[s] \in SendRecord
  BY <1>1, SequenceProperties DEF Sends
<1>3. /\ \A l \in Replies(Len(sends)) : IsReply(l)
      /\ \A l \in Notes : ~IsReply(l)
  BY DEF IsReply, Replies, Notes
<1>4. \A i \in 1..Len(wire) : \/ IsReply(wire[i]) /\ wire[i] \in Replies(Len(sends))
                              \/ ~IsReply(wire[i]) /\ wire[i] \in Notes
  BY <1>2, <1>3
<1> HIDE DEF IsReply
<1> QED BY <1>1, <1>2, <1>4

\* The session and the server have one more send, or the same.
LEMMA Widened ==
    ASSUME TypeOK, NEW n \in Nat, Len(sends) <= n
    PROVE  outbox \in Seq(Requests(n)) /\ wire \in Seq(Replies(n) \cup Notes)
<1>1. Requests(Len(sends)) \subseteq Requests(n) /\ Replies(Len(sends)) \subseteq Replies(n)
  BY Typed DEF Requests, Replies
<1> QED BY <1>1, Typed, SequenceProperties

\* What the promises of send() become.
LEMMA SettledSends ==
    ASSUME TypeOK, NEW S, NEW o \in {"accepted", "undelivered"}, NEW t \in {Null} \cup Turns,
           sends' = Settled(S, o, t)
    PROVE  /\ sends' \in Seq(SendRecord) /\ Len(sends') = Len(sends) /\ Sends' = Sends
           /\ \A s \in Sends : sends'[s].outcome = IF s \in S THEN o ELSE sends[s].outcome
<1> DEFINE f == [s \in Sends |-> IF s \in S THEN [sends[s] EXCEPT !.outcome = o, !.turn = t]
                                 ELSE sends[s]]
<1>1. sends' = f
  BY DEF Settled
<1>2. \A s \in Sends : f[s] \in SendRecord /\
         f[s].outcome = IF s \in S THEN o ELSE sends[s].outcome
  BY Typed DEF SendRecord
<1>3. f = [i \in 1..Len(sends) |-> f[i]]
  BY DEF Sends
<1> HIDE DEF f
<1>4. f \in Seq(SendRecord) /\ Len(f) = Len(sends)
  BY <1>2, <1>3, Typed, FunctionIsSequence DEF Sends
<1> QED BY <1>1, <1>2, <1>4 DEF Sends

\* A line leaves the wire, the k-th: what stays keeps its order.
Kept(k, i) == IF i < k THEN i ELSE i + 1

Removed(k) ==
    /\ k \in 1..Len(wire)
    /\ Len(wire') = Len(wire) - 1
    /\ \A i \in 1..Len(wire') : Kept(k, i) \in 1..Len(wire) /\ wire'[i] = wire[Kept(k, i)]

LEMMA Removal ==
    ASSUME TypeOK, NEW k \in 1..Len(wire), wire' = Without(k) \/ (k = 1 /\ wire' = Tail(wire))
    PROVE  wire' \in Seq(Replies(Len(sends)) \cup Notes) /\ Removed(k)
<1> DEFINE S == Replies(Len(sends)) \cup Notes
           f == [j \in 1..(Len(wire) - 1) |-> IF j < k THEN wire[j] ELSE wire[j + 1]]
<1>1. wire \in Seq(S) /\ Len(wire) \in Nat /\ (\A i \in 1..Len(wire) : wire[i] \in S)
  BY Typed
<1>2. CASE wire' = Without(k)
  <2>1. wire' = f
    BY <1>2 DEF Without
  <2>2. \A i \in 1..(Len(wire) - 1) : f[i] = wire[Kept(k, i)] /\ Kept(k, i) \in 1..Len(wire)
    BY <1>1 DEF Kept
  <2>3. \A i \in 1..(Len(wire) - 1) : f[i] \in S
    <3> HIDE DEF f, S
    <3> QED BY <1>1, <2>2
  <2>4. f = [i \in 1..(Len(wire) - 1) |-> f[i]] /\ Len(wire) - 1 \in Nat
    BY <1>1
  <2> HIDE DEF f, S
  <2>5. f \in Seq(S) /\ Len(f) = Len(wire) - 1
    BY <2>3, <2>4, FunctionIsSequence
  <2>6. Removed(k)
    BY <1>1, <2>1, <2>2, <2>5 DEF Removed
  <2> QED BY <2>1, <2>5, <2>6 DEF S
<1>3. CASE k = 1 /\ wire' = Tail(wire)
  <2> HIDE DEF S
  <2>1. wire # <<>>
    BY <1>1, SequenceProperties
  <2>2. wire' \in Seq(S) /\ Len(wire') = Len(wire) - 1
        /\ \A i \in 1..Len(wire') : wire'[i] = wire[i + 1]
    BY <1>1, <1>3, <2>1, TailProperties
  <2>3. \A i \in 1..Len(wire') : Kept(k, i) = i + 1 /\ i + 1 \in 1..Len(wire)
    BY <1>1, <1>3, <2>2 DEF Kept
  <2>4. Removed(k)
    BY <1>1, <2>2, <2>3 DEF Removed
  <2> QED BY <2>2, <2>4 DEF S
<1> QED BY <1>2, <1>3

\* Nothing but that line is gone, and no two lines have changed places.
LEMMA RemovalOrder ==
    ASSUME TypeOK, NEW k, Removed(k)
    PROVE  /\ \A i \in 1..Len(wire) : i # k => \E m \in 1..Len(wire') : Kept(k, m) = i /\ wire'[m] = wire[i]
           /\ \A i, j \in 1..Len(wire') : i < j <=> Kept(k, i) < Kept(k, j)
           /\ \A i \in 1..Len(wire') : Kept(k, i) # k
<1>1. Len(wire) \in Nat
  BY Typed
<1>2. ASSUME NEW i \in 1..Len(wire), i # k
      PROVE  \E m \in 1..Len(wire') : Kept(k, m) = i /\ wire'[m] = wire[i]
  <2>1. CASE i < k
    <3>1. i \in 1..Len(wire') /\ Kept(k, i) = i
      BY <1>1, <2>1 DEF Kept, Removed
    <3> QED BY <3>1 DEF Removed
  <2>2. CASE i > k
    <3>1. i - 1 \in 1..Len(wire') /\ Kept(k, i - 1) = i
      BY <1>1, <2>2 DEF Kept, Removed
    <3> QED BY <3>1 DEF Removed
  <2> QED BY <1>1, <1>2, <2>1, <2>2 DEF Removed
<1>3. \A i, j \in 1..Len(wire') : i < j <=> Kept(k, i) < Kept(k, j)
  BY <1>1 DEF Kept, Removed
<1>4. \A i \in 1..Len(wire') : Kept(k, i) # k
  BY <1>1 DEF Kept, Removed
<1> QED BY <1>2, <1>3, <1>4

-----------------------------------------------------------------------------
(* Types *)

LEMMA InitTyped == Init => TypeOK
<1> SUFFICES ASSUME Init PROVE TypeOK
  OBVIOUS
<1>1. \A S : <<>> \in Seq(S)
  OBVIOUS
<1>2. 0 \in 0..MaxTurn
  BY SessionAssumption
<1> QED BY <1>1, <1>2 DEF Init, TypeOK

\* What the handle's methods leave to others.
LEMMA HandleTyped == TypeOK /\ (Opening \/ Handle) => TypeOK'
<1> SUFFICES ASSUME TypeOK, Opening \/ Handle PROVE TypeOK'
  OBVIOUS
<1>1. CASE Opening \/ EndInput \/ Abort \/ SignalFires
  BY <1>1 DEF Opening, OpenAnswered, OpenFails, EndInput, Abort, SignalFires, TypeOK, flagVars,
              serverVars, endVars, streamVars, Sends
<1>2. CASE Send
  <2>1. Known \in {Null} \cup Turns
    BY DEF Known, TypeOK
  <2>2. \A o \in {"pending", "undelivered", "aborted", "inputClosed"} : Called(o) \in SendRecord
    BY <2>1 DEF Called, SendRecord, TypeOK
  <2>3. \E o \in {"pending", "undelivered", "aborted", "inputClosed"} :
           sends' = Append(sends, Called(o))
    BY <1>2 DEF Send, Refusal
  <2>4. sends' \in Seq(SendRecord) /\ Len(sends') = Len(sends) + 1
    BY <2>2, <2>3, Typed, AppendProperties
  <2>5. /\ outbox \in Seq(Requests(Len(sends'))) /\ wire \in Seq(Replies(Len(sends')) \cup Notes)
        /\ Len(sends') \in Nat /\ Len(sends) + 1 \in 1..Len(sends')
    <3>1. Len(sends') \in Nat /\ Len(sends) <= Len(sends') /\ Len(sends) + 1 \in 1..Len(sends')
      BY <2>4, Typed
    <3> QED BY <3>1, Widened
  <2>6. outbox' \in Seq(Requests(Len(sends')))
    <3> DEFINE r == [send |-> Len(sends) + 1, expected |-> activeTurnId]
    <3>1. r \in Requests(Len(sends'))
      BY <2>5 DEF Requests, TypeOK
    <3>2. outbox' \in {outbox, Append(outbox, r)}
      BY <1>2 DEF Send
    <3> QED BY <2>5, <3>1, <3>2, AppendProperties
  <2>7. /\ UNCHANGED <<phase, ended, sessionAborted, signalled, activeTurnId, wire, turn, turns,
                       announced, child, clientDone, done, pump, published>>
    BY <1>2 DEF Send, flagVars, serverVars, endVars, streamVars
  <2> QED BY <2>4, <2>5, <2>6, <2>7 DEF TypeOK, SendRecord, Requests, Replies, Notes, Sends
<1> QED BY <1>1, <1>2 DEF Handle

LEMMA ServerTyped == TypeOK /\ Server => TypeOK'
<1> SUFFICES ASSUME TypeOK, Server PROVE TypeOK'
  OBVIOUS
<1> USE SessionAssumption
<1>1. /\ UNCHANGED <<phase, ended, sessionAborted, signalled, activeTurnId, sends, clientDone,
                     done, pump, published>>
      /\ child' \in {"running", "exited"}
  BY DEF Server, ServerTakes, ServerStarts, ServerCompletes, ChildExits, TypeOK, flagVars,
         serverVars, endVars, streamVars
<1>2. wire' \in Seq(Replies(Len(sends)) \cup Notes) /\ outbox' \in Seq(Requests(Len(sends)))
  <2>1. CASE ServerTakes
    <3>1. /\ outbox # <<>> /\ outbox' = Tail(outbox) /\ Head(outbox) = outbox[1]
          /\ outbox[1] \in Requests(Len(sends)) /\ outbox' \in Seq(Requests(Len(sends)))
      BY <2>1, Typed, TailProperties DEF ServerTakes
    <3> DEFINE s == outbox[1].send
    <3>2. s \in 1..Len(sends)
      BY <3>1 DEF Requests
    <3>3. \A t \in {Null} \cup Turns :
             Response(s, t) \in Replies(Len(sends)) /\ Refused(s) \in Replies(Len(sends))
      BY <3>2 DEF Response, Refused, Replies, Null
    <3>4. turn \in {Null} \cup Turns /\ turns \in Nat /\ (turns < MaxTurn => turns + 1 \in Turns)
      BY DEF TypeOK, Turns
    <3>5. \E l \in Replies(Len(sends)) : wire' = Append(wire, l)
      BY <2>1, <3>1, <3>3, <3>4 DEF ServerTakes, TakesStart, TakesSteer, Answers
    <3> QED BY <3>1, <3>5, Typed, AppendProperties
  <2>2. CASE ServerStarts
    <3>1. turn \in Turns
      BY <2>2 DEF ServerStarts, TypeOK
    <3>2. \E k \in {"started", "bare"} : wire' = Append(wire, Note(k, turn))
      BY <2>2 DEF ServerStarts, Answers
    <3>3. \A k \in {"started", "bare"} : Note(k, turn) \in Notes
      BY <3>1 DEF Note, Notes
    <3> QED BY <2>2, <3>2, <3>3, Typed, AppendProperties DEF ServerStarts
  <2>3. CASE ServerCompletes
    <3>1. turn \in Turns /\ wire' = Append(wire, Note("completed", turn))
      BY <2>3 DEF ServerCompletes, Answers, TypeOK
    <3>2. Note("completed", turn) \in Notes
      BY <3>1 DEF Note, Notes
    <3> QED BY <2>3, <3>1, <3>2, Typed, AppendProperties DEF ServerCompletes
  <2>4. CASE ChildExits
    BY <2>4, Typed DEF ChildExits
  <2> QED BY <2>1, <2>2, <2>3, <2>4 DEF Server
<1>3. turn' \in {Null} \cup Turns /\ turns' \in 0..MaxTurn /\ announced' \in BOOLEAN
  <2>1. CASE ServerTakes
    <3>1. \/ UNCHANGED <<turn, turns, announced>>
          \/ turns < MaxTurn /\ turns' = turns + 1 /\ turn' = turns + 1 /\ announced' = FALSE
      BY <2>1 DEF ServerTakes, TakesStart, TakesSteer, serverVars
    <3>2. /\ turn \in {Null} \cup Turns /\ turns \in 0..MaxTurn /\ announced \in BOOLEAN
          /\ turns < MaxTurn => turns + 1 \in Turns /\ turns + 1 \in 0..MaxTurn
      BY DEF TypeOK, Turns
    <3> QED BY <3>1, <3>2
  <2>2. CASE ServerStarts \/ ServerCompletes \/ ChildExits
    BY <2>2 DEF ServerStarts, ServerCompletes, ChildExits, TypeOK, serverVars
  <2> QED BY <2>1, <2>2 DEF Server
<1> QED BY <1>1, <1>2, <1>3 DEF TypeOK, SendRecord, Requests, Replies, Notes, Sends

LEMMA TasksTyped == TypeOK /\ Tasks => TypeOK'
<1> SUFFICES ASSUME TypeOK, Tasks PROVE TypeOK'
  OBVIOUS
<1>0. Len(wire) \in Nat /\ (wire # <<>> => 1 \in 1..Len(wire) /\ Head(wire) = wire[1])
  BY Typed, SequenceProperties, TailProperties
<1>1. CASE OpenThrows \/ PumpEnds \/ Done
  BY <1>1 DEF OpenThrows, PumpEnds, Done, TypeOK, flagVars, serverVars, endVars, streamVars, Sends
<1>2. CASE Resume
  <2>1. PICK k \in 1..Len(wire) :
           /\ FirstReply(k)
           /\ wire' = Without(k)
           /\ sends' = Settled({wire[k].send},
                               IF wire[k].kind = "response" THEN "accepted" ELSE "undelivered",
                               wire[k].turn)
           /\ activeTurnId' = Promoted(wire[k])
    BY <1>2 DEF Resume
  <2>2. wire[k].turn \in {Null} \cup Turns
    BY Typed DEF Replies, Notes
  <2>3. wire' \in Seq(Replies(Len(sends)) \cup Notes)
    BY <2>1, Removal
  <2>4. sends' \in Seq(SendRecord) /\ Len(sends') = Len(sends)
    <3> DEFINE o == IF wire[k].kind = "response" THEN "accepted" ELSE "undelivered"
    <3>1. o \in {"accepted", "undelivered"} /\ sends' = Settled({wire[k].send}, o, wire[k].turn)
      BY <2>1
    <3> HIDE DEF o
    <3> QED BY <2>2, <3>1, SettledSends
  <2>5. activeTurnId' \in {Null} \cup Turns
    BY <2>1, <2>2 DEF Promoted, TypeOK
  <2>6. UNCHANGED <<phase, ended, sessionAborted, signalled, outbox, turn, turns, announced, child,
                    clientDone, done, pump, published>>
    BY <1>2 DEF Resume, flagVars, serverVars, endVars, streamVars
  <2> QED BY <2>3, <2>4, <2>5, <2>6 DEF TypeOK, SendRecord, Requests, Replies, Notes, Sends
<1>3. CASE Pump
  <2>1. /\ wire # <<>> /\ wire' = Tail(wire) /\ wire[1] \in Notes /\ wire[1].kind # "bare"
        /\ activeTurnId' = Tracked(wire[1]) /\ published' = published \o Events(wire[1])
    BY <1>0, <1>3, Typed DEF Pump, FirstNote
  <2>2. wire' \in Seq(Replies(Len(sends)) \cup Notes)
    BY <1>0, <2>1, Removal
  <2>3. activeTurnId' \in {Null} \cup Turns
    BY <2>1 DEF Tracked, Notes
  <2>4. Events(wire[1]) \in Seq(Published)
    <3>1. [kind |-> wire[1].kind, turn |-> wire[1].turn] \in Published
          /\ [kind |-> "turn-end", turn |-> wire[1].turn] \in Published
      BY <2>1 DEF Notes, Published
    <3>2. /\ <<[kind |-> wire[1].kind, turn |-> wire[1].turn]>> \in Seq(Published)
          /\ <<[kind |-> "turn-end", turn |-> wire[1].turn]>> \in Seq(Published)
          /\ <<>> \in Seq(Published)
      BY <3>1
    <3> QED BY <3>2 DEF Events
  <2>5. published' \in Seq(Published)
    BY <2>1, <2>4, Typed
  <2>6. UNCHANGED <<phase, ended, sessionAborted, signalled, sends, outbox, turn, turns, announced,
                    child, clientDone, done, pump>>
    BY <1>3 DEF Pump, flagVars, serverVars, endVars
  <2> QED BY <2>2, <2>3, <2>5, <2>6 DEF TypeOK, SendRecord, Requests, Replies, Notes, Published, Sends
<1>4. CASE PumpThrows \/ NotesDrop
  <2>1. wire # <<>> /\ wire' = Tail(wire) /\ pump' \in {"running", "ended", "thrown"}
    BY <1>4 DEF PumpThrows, NotesDrop, streamVars, TypeOK
  <2>2. wire' \in Seq(Replies(Len(sends)) \cup Notes)
    BY <1>0, <2>1, Removal
  <2>3. UNCHANGED <<phase, ended, sessionAborted, signalled, activeTurnId, sends, outbox, turn,
                    turns, announced, child, clientDone, done, published>>
    BY <1>4 DEF PumpThrows, NotesDrop, flagVars, serverVars, endVars, streamVars
  <2> QED BY <2>1, <2>2, <2>3 DEF TypeOK, SendRecord, Requests, Replies, Notes, Sends
<1>5. CASE ClientDone
  <2>1. sends' = Settled(Unanswered, "undelivered", Null) /\ outbox' = <<>> /\ clientDone' = TRUE
    BY <1>5 DEF ClientDone
  <2>2. sends' \in Seq(SendRecord) /\ Len(sends') = Len(sends)
    BY <2>1, SettledSends
  <2>3. outbox' \in Seq(Requests(Len(sends)))
    BY <2>1
  <2>4. UNCHANGED <<phase, ended, sessionAborted, signalled, activeTurnId, wire, turn, turns,
                    announced, child, done, pump, published>>
    BY <1>5 DEF ClientDone, flagVars, serverVars, streamVars
  <2> QED BY <2>1, <2>2, <2>3, <2>4 DEF TypeOK, SendRecord, Requests, Replies, Notes, Sends
<1> QED BY <1>1, <1>2, <1>3, <1>4, <1>5 DEF Tasks

LEMMA TypeStep == TypeOK /\ [Next]_vars => TypeOK'
<1> SUFFICES ASSUME TypeOK, UNCHANGED vars PROVE TypeOK'
  BY HandleTyped, ServerTyped, TasksTyped DEF Next
<1> QED BY DEF vars, flagVars, serverVars, endVars, streamVars, TypeOK, Sends

-----------------------------------------------------------------------------
(* The sends in flight *)

\* A send is with the server or on its way back once.
FlightOnce ==
    /\ \A i, j \in 1..Len(outbox) : outbox[i].send = outbox[j].send => i = j
    /\ \A i, j \in 1..Len(wire) :
          IsReply(wire[i]) /\ IsReply(wire[j]) /\ wire[i].send = wire[j].send => i = j
    /\ \A i \in 1..Len(outbox), j \in 1..Len(wire) :
          IsReply(wire[j]) => outbox[i].send # wire[j].send

Flight == PendingIsInFlight /\ FlightOnce

\* On its way to the server, and on its way back.
Sent(s) == \E i \in 1..Len(outbox) : outbox[i].send = s
Back(s) == \E i \in 1..Len(wire) : IsReply(wire[i]) /\ wire[i].send = s

LEMMA PendingSends ==
    PendingIsInFlight <=> \A s \in Sends : sends[s].outcome = "pending" <=> Sent(s) \/ Back(s)
BY DEF PendingIsInFlight, Sent, Back

LEMMA PendingSendsNext ==
    ASSUME \A s \in Sends' : sends'[s].outcome = "pending" <=> Sent(s)' \/ Back(s)'
    PROVE  PendingIsInFlight'
BY DEF PendingIsInFlight, Sent, Back, IsReply

\* What a server step adds to the wire.
LEMMA ServerWrites ==
    ASSUME TypeOK, Server, wire' # wire
    PROVE  \E l \in Replies(Len(sends)) \cup Notes :
              /\ wire' = Append(wire, l)
              /\ \/ l \in Notes /\ outbox' = outbox
                 \/ /\ outbox # <<>> /\ l \in Replies(Len(sends))
                    /\ l.send = Head(outbox).send /\ outbox' = Tail(outbox)
<1>1. CASE ServerTakes
  <2>1. /\ outbox # <<>> /\ outbox' = Tail(outbox)
        /\ Head(outbox) \in Requests(Len(sends))
    BY <1>1, Typed, TailProperties DEF ServerTakes
  <2> DEFINE s == Head(outbox).send
  <2>2. s \in 1..Len(sends)
    BY <2>1 DEF Requests
  <2>3. \A t \in {Null} \cup Turns :
           /\ Response(s, t) \in Replies(Len(sends)) /\ Response(s, t).send = s
           /\ Refused(s) \in Replies(Len(sends)) /\ Refused(s).send = s
    BY <2>2 DEF Response, Refused, Replies, Null
  <2>4. turn \in {Null} \cup Turns /\ turns \in Nat /\ (turns < MaxTurn => turns + 1 \in Turns)
    BY SessionAssumption DEF TypeOK, Turns
  <2>5. \E l \in Replies(Len(sends)) : l.send = s /\ wire' = Append(wire, l)
    BY <1>1, <2>3, <2>4 DEF ServerTakes, TakesStart, TakesSteer, Answers
  <2> QED BY <2>1, <2>5
<1>2. CASE ServerStarts \/ ServerCompletes
  <2>1. turn \in Turns /\ outbox' = outbox
    BY <1>2 DEF ServerStarts, ServerCompletes, TypeOK
  <2>2. \E k \in {"started", "bare", "completed"} : wire' = Append(wire, Note(k, turn))
    BY <1>2 DEF ServerStarts, ServerCompletes, Answers
  <2>3. \A k \in {"started", "bare", "completed"} : Note(k, turn) \in Notes
    BY <2>1 DEF Note, Notes
  <2> QED BY <2>1, <2>2, <2>3
<1> QED BY <1>1, <1>2 DEF Server, ChildExits

LEMMA SendInFlight == TypeOK /\ Flight /\ Send => Flight'
<1> SUFFICES ASSUME TypeOK, Flight, Send PROVE Flight'
  OBVIOUS
<1> PICK n : n = Len(sends) + 1
  OBVIOUS
<1> DEFINE r == [send |-> n, expected |-> activeTurnId]
<1>1. PICK o \in {"pending", "undelivered", "aborted", "inputClosed"} :
         /\ sends' = Append(sends, Called(o))
         /\ outbox' = IF o = "pending" THEN Append(outbox, r) ELSE outbox
  BY DEF Send, Refusal
<1>2. /\ Len(sends') = n /\ (\A s \in Sends : sends'[s] = sends[s]) /\ sends'[n].outcome = o
      /\ Sends' = Sends \cup {n} /\ n \notin Sends /\ n \in Nat
  <2>1. Called(o) \in SendRecord
    <3>1. Known \in {Null} \cup Turns
      BY DEF Known, TypeOK
    <3> QED BY <3>1 DEF Called, SendRecord, TypeOK
  <2>2. Len(sends') = n /\ (\A s \in Sends : sends'[s] = sends[s]) /\ sends'[n] = Called(o)
    BY <1>1, <2>1, Typed, AppendProperties DEF Sends
  <2> QED BY <2>2, Typed DEF Called, Sends
<1>3. wire' = wire
  BY DEF Send
<1>4. /\ \A i \in 1..Len(outbox) : outbox[i].send \in Sends
      /\ \A i \in 1..Len(wire) : IsReply(wire[i]) => wire[i].send \in Sends
  BY Typed DEF Requests, Replies, Sends
<1>5. CASE o # "pending"
  <2>1. FlightOnce' /\ (\A s \in Sends' : Sent(s)' = Sent(s) /\ Back(s)' = Back(s))
    BY <1>1, <1>3, <1>5 DEF Flight, FlightOnce, IsReply, Sent, Back
  <2>2. ~Sent(n) /\ ~Back(n)
    BY <1>2, <1>4 DEF Sent, Back
  <2>3. \A s \in Sends' : sends'[s].outcome = "pending" <=> Sent(s)' \/ Back(s)'
    BY <1>2, <1>5, <2>1, <2>2, PendingSends DEF Flight
  <2> QED BY <2>1, <2>3, PendingSendsNext DEF Flight
<1>6. CASE o = "pending"
  <2>1. r \in Requests(n)
    BY <1>2 DEF Requests, TypeOK
  <2>2. outbox \in Seq(Requests(n)) /\ Len(outbox) \in Nat
    <3>1. Len(sends) \in Nat /\ n \in Nat /\ Len(sends) <= n
      BY Typed
    <3> QED BY <3>1, Typed, Widened
  <2>3. /\ Len(outbox') = Len(outbox) + 1 /\ outbox'[Len(outbox) + 1].send = n
        /\ \A i \in 1..Len(outbox) : outbox'[i] = outbox[i]
    BY <1>1, <1>6, <2>1, <2>2, AppendProperties
  <2>4. 1..Len(outbox') = 1..Len(outbox) \cup {Len(outbox) + 1}
    BY <2>2, <2>3
  <2>5. FlightOnce'
    BY <1>2, <1>3, <1>4, <2>3, <2>4 DEF Flight, FlightOnce, IsReply
  <2>6. PendingIsInFlight'
    <3>1. \A s \in Sends : Sent(s)' = Sent(s)
      BY <1>2, <2>3, <2>4 DEF Sent
    <3>2. \A s \in Sends' : Back(s)' = Back(s)
      BY <1>3 DEF Back, IsReply
    <3>3. Sent(n)'
      <4>1. Len(outbox) + 1 \in 1..Len(outbox')
        BY <2>2, <2>3
      <4> QED BY <2>3, <4>1 DEF Sent
    <3>4. \A s \in Sends' : sends'[s].outcome = "pending" <=> Sent(s)' \/ Back(s)'
      BY <1>2, <1>6, <3>1, <3>2, <3>3, PendingSends DEF Flight
    <3> QED BY <3>4, PendingSendsNext
  <2> QED BY <2>5, <2>6 DEF Flight
<1> QED BY <1>5, <1>6

LEMMA ServerInFlight == TypeOK /\ Flight /\ Server => Flight'
<1> SUFFICES ASSUME TypeOK, Flight, Server PROVE Flight'
  OBVIOUS
<1>1. sends' = sends
  BY DEF Server, ServerTakes, ServerStarts, ServerCompletes, ChildExits
<1>2. CASE wire' = wire
  <2>1. outbox' = outbox
    <3>1. CASE ServerTakes
      <4>1. \E l \in Replies(Len(sends)) \cup {Refused(s) : s \in Nat} \cup {Response(s, t) : s \in Nat, t \in Nat} :
               wire' = Append(wire, l)
        <5>1. Head(outbox).send \in Nat /\ turn \in Nat /\ turns + 1 \in Nat
          BY <3>1, Typed, TailProperties, SessionAssumption DEF ServerTakes, Requests, TypeOK, Turns, Null
        <5> QED BY <3>1, <5>1 DEF ServerTakes, TakesStart, TakesSteer, Answers
      <4>2. Len(wire') = Len(wire) + 1
        BY <4>1, Typed
      <4> QED BY <1>2, <4>2, Typed
    <3> QED BY <3>1 DEF Server, ServerStarts, ServerCompletes, ChildExits
  <2> QED BY <1>1, <1>2, <2>1 DEF Flight, FlightOnce, PendingIsInFlight, IsReply, Sends
<1>3. CASE wire' # wire
  <2>1. PICK l \in Replies(Len(sends)) \cup Notes :
           /\ wire' = Append(wire, l)
           /\ \/ l \in Notes /\ outbox' = outbox
              \/ /\ outbox # <<>> /\ l \in Replies(Len(sends))
                 /\ l.send = Head(outbox).send /\ outbox' = Tail(outbox)
    BY <1>3, ServerWrites
  <2>2. /\ Len(wire) \in Nat /\ Len(wire') = Len(wire) + 1 /\ wire'[Len(wire) + 1] = l
        /\ \A i \in 1..Len(wire) : wire'[i] = wire[i]
    BY <2>1, Typed, AppendProperties
  <2>3. 1..Len(wire') = 1..Len(wire) \cup {Len(wire) + 1} /\ Len(wire) + 1 \notin 1..Len(wire)
    BY <2>2
  <2>4. CASE l \in Notes /\ outbox' = outbox
    <3>1. ~IsReply(l)
      BY <2>4 DEF Notes, IsReply
    <3>2. FlightOnce'
      BY <2>2, <2>3, <2>4, <3>1 DEF Flight, FlightOnce, IsReply
    <3>3. PendingIsInFlight'
      BY <1>1, <2>2, <2>3, <2>4, <3>1 DEF Flight, PendingIsInFlight, IsReply, Sends
    <3> QED BY <3>2, <3>3 DEF Flight
  <2>5. CASE outbox # <<>> /\ l \in Replies(Len(sends)) /\ l.send = Head(outbox).send
             /\ outbox' = Tail(outbox)
    <3>1. IsReply(l) /\ l.send = outbox[1].send
      BY <2>5, Typed, TailProperties DEF Replies, IsReply
    <3>2. /\ Len(outbox) \in Nat /\ Len(outbox') = Len(outbox) - 1 /\ 1 \in 1..Len(outbox)
          /\ \A i \in 1..Len(outbox') : outbox'[i] = outbox[i + 1] /\ i + 1 \in 1..Len(outbox)
      BY <2>5, Typed, TailProperties
    <3>3. \A i \in 1..Len(outbox) : i = 1 \/ (i - 1 \in 1..Len(outbox') /\ outbox'[i - 1] = outbox[i])
      BY <3>2
    <3>4. FlightOnce'
      <4>1. \A i, j \in 1..Len(outbox') : outbox'[i].send = outbox'[j].send => i = j
        BY <3>2 DEF Flight, FlightOnce
      <4>2. \A i \in 1..Len(outbox') : outbox'[i].send # l.send
        BY <3>1, <3>2 DEF Flight, FlightOnce
      <4>3. \A i \in 1..Len(wire) : IsReply(wire[i]) => wire[i].send # l.send
        BY <3>1, <3>2 DEF Flight, FlightOnce
      <4>4. \A i \in 1..Len(outbox'), j \in 1..Len(wire) : IsReply(wire[j]) => outbox'[i].send # wire[j].send
        BY <3>2 DEF Flight, FlightOnce
      <4>5. \A i, j \in 1..Len(wire') :
               IsReply(wire'[i]) /\ IsReply(wire'[j]) /\ wire'[i].send = wire'[j].send => i = j
        BY <2>2, <2>3, <4>3 DEF Flight, FlightOnce
      <4> QED BY <2>2, <2>3, <4>1, <4>2, <4>4, <4>5 DEF FlightOnce, IsReply
    <3>5. PendingIsInFlight'
      <4>1. ASSUME NEW s \in Sends
            PROVE  (\E i \in 1..Len(outbox) : outbox[i].send = s) <=>
                      s = l.send \/ \E i \in 1..Len(outbox') : outbox'[i].send = s
        BY <3>1, <3>2, <3>3
      <4>2. ASSUME NEW s \in Sends
            PROVE  (\E i \in 1..Len(wire') : IsReply(wire'[i]) /\ wire'[i].send = s) <=>
                      s = l.send \/ \E i \in 1..Len(wire) : IsReply(wire[i]) /\ wire[i].send = s
        BY <2>2, <2>3, <3>1
      <4> QED BY <1>1, <4>1, <4>2 DEF Flight, PendingIsInFlight, IsReply, Sends
    <3> QED BY <3>4, <3>5 DEF Flight
  <2> QED BY <2>1, <2>4, <2>5
<1> QED BY <1>2, <1>3

\* A line leaves the wire: a reply with its send settled, or a notification.
LEMMA TakenInFlight ==
    ASSUME TypeOK, Flight, NEW k, Removed(k), outbox' = outbox, Sends' = Sends,
           IF IsReply(wire[k])
           THEN \A s \in Sends : IF s = wire[k].send THEN sends'[s].outcome # "pending"
                                 ELSE sends'[s].outcome = sends[s].outcome
           ELSE sends' = sends
    PROVE  Flight'
<1>1. FlightOnce'
  <2>1. \A i, j \in 1..Len(wire') : Kept(k, i) = Kept(k, j) => i = j
    BY Typed DEF Kept, Removed
  <2>2. \A i \in 1..Len(wire') : Kept(k, i) \in 1..Len(wire) /\ wire'[i] = wire[Kept(k, i)]
    BY DEF Removed
  <2> QED BY <2>1, <2>2 DEF Flight, FlightOnce, IsReply
<1>2. PendingIsInFlight'
  <2>1. ASSUME NEW s \in Sends, ~(IsReply(wire[k]) /\ s = wire[k].send)
        PROVE  Back(s)' <=> Back(s)
    <3>1. ASSUME NEW i \in 1..Len(wire), IsReply(wire[i]), wire[i].send = s PROVE Back(s)'
      <4>1. PICK m \in 1..Len(wire') : wire'[m] = wire[i]
        BY <2>1, <3>1, RemovalOrder
      <4> QED BY <3>1, <4>1 DEF Back, IsReply
    <3>2. ASSUME NEW i \in 1..Len(wire'), IsReply(wire'[i]), wire'[i].send = s PROVE Back(s)
      BY <3>2 DEF Back, Removed
    <3> QED BY <3>1, <3>2 DEF Back, IsReply
  <2>2. ASSUME NEW s \in Sends, IsReply(wire[k]), s = wire[k].send
        PROVE  ~Back(s)' /\ ~Sent(s)
    <3>1. k \in 1..Len(wire)
      BY DEF Removed
    <3>2. ~Sent(s)
      BY <2>2, <3>1 DEF Flight, FlightOnce, Sent
    <3>3. ASSUME NEW i \in 1..Len(wire'), IsReply(wire'[i]), wire'[i].send = s PROVE FALSE
      <4>1. Kept(k, i) \in 1..Len(wire) /\ wire'[i] = wire[Kept(k, i)] /\ Kept(k, i) # k
        BY RemovalOrder DEF Removed
      <4> QED BY <2>2, <3>1, <3>3, <4>1 DEF Flight, FlightOnce
    <3> QED BY <3>2, <3>3 DEF Back, IsReply
  <2>3. \A s \in Sends : Sent(s)' = Sent(s)
    BY DEF Sent
  <2>4. \A s \in Sends : sends'[s].outcome = "pending" <=> Sent(s)' \/ Back(s)'
    BY <2>1, <2>2, <2>3, PendingSends DEF Flight
  <2> QED BY <2>4, PendingSendsNext
<1> QED BY <1>1, <1>2 DEF Flight

LEMMA TasksInFlight == TypeOK /\ Flight /\ Tasks => Flight'
<1> SUFFICES ASSUME TypeOK, Flight, Tasks PROVE Flight'
  OBVIOUS
<1>0. Len(wire) \in Nat /\ (wire # <<>> => 1 \in 1..Len(wire) /\ Head(wire) = wire[1])
  BY Typed, SequenceProperties, TailProperties
<1>1. CASE OpenThrows \/ PumpEnds \/ Done
  BY <1>1 DEF OpenThrows, PumpEnds, Done, Flight, FlightOnce, PendingIsInFlight, IsReply, Sends, endVars,
              streamVars
<1>2. CASE Resume
  <2>1. PICK k \in 1..Len(wire) :
           /\ FirstReply(k)
           /\ wire' = Without(k)
           /\ sends' = Settled({wire[k].send},
                               IF wire[k].kind = "response" THEN "accepted" ELSE "undelivered",
                               wire[k].turn)
    BY <1>2 DEF Resume
  <2>2. IsReply(wire[k])
    BY <2>1 DEF FirstReply
  <2>3. /\ Sends' = Sends
        /\ \A s \in Sends : IF s = wire[k].send THEN sends'[s].outcome # "pending"
                           ELSE sends'[s].outcome = sends[s].outcome
    <3>1. wire[k].turn \in {Null} \cup Turns
      BY Typed DEF Replies, Notes
    <3>2. PICK S : S = {wire[k].send}
      OBVIOUS
    <3>3. PICK o \in {"accepted", "undelivered"}, t \in {Null} \cup Turns : sends' = Settled(S, o, t)
      BY <2>1, <3>1, <3>2
    <3>4. Sends' = Sends /\ \A s \in Sends : sends'[s].outcome = IF s \in S THEN o ELSE sends[s].outcome
      BY <3>3, SettledSends, Zenon
    <3> QED BY <3>2, <3>4
  <2>4. Removed(k) /\ outbox' = outbox
    BY <1>2, <2>1, Removal DEF Resume
  <2> QED BY <2>2, <2>3, <2>4, TakenInFlight
<1>3. CASE Pump \/ PumpThrows \/ NotesDrop
  <2>1. wire # <<>> /\ wire' = Tail(wire) /\ sends' = sends /\ outbox' = outbox
    BY <1>3 DEF Pump, PumpThrows, NotesDrop
  <2>2. ~IsReply(wire[1])
    BY <1>0, <1>3, <2>1 DEF Pump, PumpThrows, NotesDrop, FirstNote, IsReply
  <2>3. Removed(1)
    BY <1>0, <2>1, Removal
  <2> QED BY <2>1, <2>2, <2>3, TakenInFlight DEF Sends
<1>4. CASE ClientDone
  <2>1. /\ sends' = Settled(Unanswered, "undelivered", Null) /\ outbox' = <<>> /\ wire' = wire
        /\ \A k \in 1..Len(wire) : ~IsReply(wire[k])
    BY <1>4 DEF ClientDone
  <2>2. Sends' = Sends /\ \A s \in Sends : sends'[s].outcome # "pending"
    <3>1. PICK S : S = Unanswered /\ sends' = Settled(S, "undelivered", Null)
      BY <2>1
    <3>2. /\ Sends' = Sends
          /\ \A s \in Sends : sends'[s].outcome = IF s \in S THEN "undelivered" ELSE sends[s].outcome
      BY <3>1, SettledSends
    <3> QED BY <3>1, <3>2 DEF Unanswered
  <2>3. Len(outbox') = 0
    BY <2>1
  <2> QED BY <2>1, <2>2, <2>3 DEF Flight, FlightOnce, PendingIsInFlight, IsReply
<1> QED BY <1>1, <1>2, <1>3, <1>4 DEF Tasks

LEMMA FlightStep == TypeOK /\ Flight /\ [Next]_vars => Flight'
<1> SUFFICES ASSUME TypeOK, Flight, UNCHANGED <<sends, outbox, wire>> PROVE Flight'
  BY SendInFlight, ServerInFlight, TasksInFlight
     DEF Next, Opening, Handle, OpenAnswered, OpenFails, EndInput, Abort, SignalFires, vars
<1> QED BY DEF Flight, FlightOnce, PendingIsInFlight, IsReply, Sends

-----------------------------------------------------------------------------
(* The subprocess, the client and the pump *)

\* What is over stays over: the client is done when the subprocess is and every
\* reply had its effect, the pump ends behind the client, `done` behind the pump.
Ends ==
    /\ clientDone => child = "exited" /\ \A i \in 1..Len(wire) : ~IsReply(wire[i])
    /\ phase = "failed" => clientDone
    /\ sessionAborted => ended
    /\ pump = "ended" => clientDone /\ wire = <<>>
    /\ done = "resolved" => pump = "ended"
    /\ done = "waiting" \/ clientDone
    /\ turn <= turns

\* A task takes a line from the wire, or leaves the wire alone.
Takes(k) == Removed(k) /\ (k = 1 \/ IsReply(wire[k]))

LEMMA TasksTake ==
    ASSUME TypeOK, Resume \/ Pump \/ PumpThrows \/ NotesDrop
    PROVE  \E k \in 1..Len(wire) : Takes(k)
<1>0. Len(wire) \in Nat /\ (wire # <<>> => 1 \in 1..Len(wire) /\ Head(wire) = wire[1])
  BY Typed, SequenceProperties, TailProperties
<1>1. CASE Resume
  <2>1. PICK k \in 1..Len(wire) : IsReply(wire[k]) /\ wire' = Without(k)
    BY <1>1 DEF Resume, FirstReply
  <2> QED BY <2>1, Removal DEF Takes
<1>2. CASE Pump \/ PumpThrows \/ NotesDrop
  <2>1. wire # <<>> /\ wire' = Tail(wire)
    BY <1>2 DEF Pump, PumpThrows, NotesDrop
  <2>2. ~IsReply(wire[1])
    BY <1>0, <1>2, <2>1 DEF Pump, PumpThrows, NotesDrop, FirstNote, IsReply
  <2>3. Removed(1)
    BY <1>0, <2>1, Removal
  <2> QED BY <1>0, <2>1, <2>2, <2>3 DEF Takes
<1> QED BY <1>1, <1>2

LEMMA EndsStep == TypeOK /\ Ends /\ [Next]_vars => Ends'
<1> SUFFICES ASSUME TypeOK, Ends, [Next]_vars PROVE Ends'
  OBVIOUS
<1>1. CASE UNCHANGED vars \/ Opening \/ Handle \/ OpenThrows \/ PumpEnds \/ Done \/ ClientDone
  <2>1. wire' = wire /\ turn' = turn /\ turns' = turns /\ child' = child
    BY <1>1 DEF vars, Opening, Handle, OpenAnswered, OpenFails, Send, EndInput, Abort, SignalFires,
                OpenThrows, PumpEnds, Done, ClientDone, serverVars, endVars, streamVars
  <2>2. clientDone' => child = "exited" /\ \A i \in 1..Len(wire) : ~IsReply(wire[i])
    BY <1>1 DEF vars, Opening, Handle, OpenAnswered, OpenFails, Send, EndInput, Abort, SignalFires,
                OpenThrows, PumpEnds, Done, ClientDone, endVars, Ends
  <2>3. /\ phase' = "failed" => clientDone'
        /\ sessionAborted' => ended'
        /\ pump' = "ended" => clientDone' /\ wire = <<>>
        /\ done' = "resolved" => pump' = "ended"
        /\ done' = "waiting" \/ clientDone'
    BY <1>1 DEF vars, Opening, Handle, OpenAnswered, OpenFails, Send, EndInput, Abort, SignalFires,
                OpenThrows, Reaped, PumpEnds, Drained, Done, ClientDone, flagVars, endVars, streamVars,
                Ends, TypeOK
  <2> QED BY <2>1, <2>2, <2>3 DEF Ends, IsReply
<1>2. CASE Server
  <2>1. /\ child = "running" /\ ~clientDone
        /\ UNCHANGED <<phase, ended, sessionAborted, clientDone, pump, done>>
    BY <1>2 DEF Server, ServerTakes, ServerStarts, ServerCompletes, ChildExits, flagVars, endVars,
                streamVars, Ends
  <2>2. turn' <= turns'
    BY <1>2, SessionAssumption DEF Server, ServerTakes, TakesStart, TakesSteer, ServerStarts,
       ServerCompletes, ChildExits, serverVars, Ends, TypeOK, Null
  <2> QED BY <2>1, <2>2 DEF Ends
<1>3. CASE Resume \/ Pump \/ PumpThrows \/ NotesDrop
  <2>1. /\ UNCHANGED <<phase, ended, sessionAborted, clientDone, child, done, turn, turns>>
        /\ pump' = pump \/ (pump = "running" /\ pump' = "thrown")
    <3>1. CASE Resume
      BY <3>1 DEF Resume, flagVars, endVars, serverVars, streamVars
    <3>2. CASE Pump \/ PumpThrows \/ NotesDrop
      BY <3>2 DEF Pump, PumpThrows, NotesDrop, flagVars, endVars, serverVars, streamVars
    <3> QED BY <1>3, <3>1, <3>2
  <2>2. PICK k \in 1..Len(wire) : Removed(k)
    BY <1>3, TasksTake DEF Takes
  <2>3. clientDone => \A i \in 1..Len(wire') : ~IsReply(wire'[i])
    BY <2>2 DEF Removed, Ends
  <2>4. pump' # "ended"
    BY <2>1, <2>2, Typed, SequenceProperties DEF Ends
  <2> QED BY <2>1, <2>3, <2>4 DEF Ends, IsReply
<1> QED BY <1>1, <1>2, <1>3 DEF Next, Tasks

-----------------------------------------------------------------------------
(* The turns *)

\* A line of one of the kinds K about turn t, behind the i-th.
Behind(i, K, t) == \E j \in 1..Len(wire) : i < j /\ wire[j].kind \in K /\ wire[j].turn = t

\* What a server step tells of its turns.
Tells(l) ==
    \/ l.kind = "refused" /\ UNCHANGED serverVars
    \/ /\ l.kind = "response"
       /\ l.turn = turn' /\ turn' # Null
       /\ \/ UNCHANGED serverVars
          \/ turn = Null /\ turns' = turns + 1 /\ turn' = turns + 1 /\ announced' = FALSE
    \/ /\ l.kind \in {"started", "bare"}
       /\ l.turn = turn /\ turn # Null
       /\ announced' = TRUE /\ UNCHANGED <<turn, turns>>
    \/ /\ l.kind = "completed"
       /\ l.turn = turn /\ turn # Null
       /\ turn' = Null /\ UNCHANGED <<turns, announced>>

LEMMA ServerTells ==
    ASSUME TypeOK, ServerTakes \/ ServerStarts \/ ServerCompletes
    PROVE  /\ UNCHANGED <<activeTurnId, pump, published>>
           /\ \E l \in Replies(Len(sends)) \cup Notes : wire' = Append(wire, l) /\ Tells(l)
<1>1. UNCHANGED <<activeTurnId, pump, published>>
  BY DEF ServerTakes, ServerStarts, ServerCompletes, streamVars
<1>2. CASE ServerTakes
  <2>1. Head(outbox) \in Requests(Len(sends))
    BY <1>2, Typed, TailProperties DEF ServerTakes
  <2> DEFINE s == Head(outbox).send
  <2>2. s \in 1..Len(sends)
    BY <2>1 DEF Requests
  <2>3. \A t \in {Null} \cup Turns :
           /\ Response(s, t) \in Replies(Len(sends)) /\ Refused(s) \in Replies(Len(sends))
           /\ Response(s, t).kind = "response" /\ Response(s, t).turn = t /\ Refused(s).kind = "refused"
    BY <2>2 DEF Response, Refused, Replies, Null
  <2>4. turn \in {Null} \cup Turns /\ turns \in Nat /\ (turns < MaxTurn => turns + 1 \in Turns)
        /\ turns + 1 # Null
    BY SessionAssumption DEF TypeOK, Turns, Null
  <2>5. CASE \E t \in {turn} : t # Null /\ UNCHANGED serverVars /\ wire' = Append(wire, Response(s, t))
    BY <1>1, <2>3, <2>4, <2>5 DEF Tells, serverVars
  <2>6. CASE UNCHANGED serverVars /\ wire' = Append(wire, Refused(s))
    BY <1>1, <2>3, <2>4, <2>6 DEF Tells
  <2>7. CASE /\ turn = Null /\ turns < MaxTurn /\ turns' = turns + 1 /\ turn' = turns + 1
             /\ announced' = FALSE /\ wire' = Append(wire, Response(s, turns + 1))
    BY <1>1, <2>3, <2>4, <2>7 DEF Tells
  <2>8. \/ turn # Null /\ UNCHANGED serverVars /\ wire' = Append(wire, Response(s, turn))
        \/ UNCHANGED serverVars /\ wire' = Append(wire, Refused(s))
        \/ /\ turn = Null /\ turns < MaxTurn /\ turns' = turns + 1 /\ turn' = turns + 1
           /\ announced' = FALSE /\ wire' = Append(wire, Response(s, turns + 1))
    BY <1>2 DEF ServerTakes, TakesStart, TakesSteer, Answers
  <2> QED BY <1>1, <2>5, <2>6, <2>7, <2>8
<1>3. CASE ServerStarts
  <2>1. turn \in Turns /\ turn # Null
    BY <1>3 DEF ServerStarts, TypeOK
  <2>2. PICK k \in {"started", "bare"} : wire' = Append(wire, Note(k, turn))
    BY <1>3 DEF ServerStarts, Answers
  <2>3. Note(k, turn) \in Notes /\ Note(k, turn).kind = k /\ Note(k, turn).turn = turn
    BY <2>1 DEF Note, Notes
  <2>4. announced' = TRUE /\ UNCHANGED <<turn, turns>>
    BY <1>3 DEF ServerStarts
  <2> QED BY <1>1, <2>1, <2>2, <2>3, <2>4 DEF Tells
<1>4. CASE ServerCompletes
  <2>1. turn \in Turns /\ turn # Null /\ wire' = Append(wire, Note("completed", turn))
    BY <1>4 DEF ServerCompletes, Answers, TypeOK
  <2>2. /\ Note("completed", turn) \in Notes
        /\ Note("completed", turn).kind = "completed" /\ Note("completed", turn).turn = turn
    BY <2>1 DEF Note, Notes
  <2>3. turn' = Null /\ UNCHANGED <<turns, announced>>
    BY <1>4 DEF ServerCompletes
  <2> QED BY <1>1, <2>1, <2>2, <2>3 DEF Tells
<1> QED BY <1>2, <1>3, <1>4

\* What a new line, and the loss of one, leave of the wire.
LEMMA WireGrows ==
    ASSUME TypeOK, NEW l \in Replies(Len(sends)) \cup Notes, wire' = Append(wire, l)
    PROVE  /\ Len(wire) \in Nat
           /\ 1..Len(wire') = 1..Len(wire) \cup {Len(wire) + 1} /\ Len(wire) + 1 \notin 1..Len(wire)
           /\ wire'[Len(wire) + 1] = l
           /\ \A i \in 1..Len(wire) : wire'[i] = wire[i]
           /\ \A c, t : OnWire(c, t)' <=> OnWire(c, t) \/ (l.kind = c /\ l.turn = t)
           /\ \A i \in 1..Len(wire) : \A K, t :
                 Behind(i, K, t)' <=> Behind(i, K, t) \/ (l.kind \in K /\ l.turn = t)
<1>1. /\ Len(wire) \in Nat /\ Len(wire') = Len(wire) + 1 /\ wire'[Len(wire) + 1] = l
      /\ \A i \in 1..Len(wire) : wire'[i] = wire[i]
  BY Typed, AppendProperties
<1>2. 1..Len(wire') = 1..Len(wire) \cup {Len(wire) + 1} /\ Len(wire) + 1 \notin 1..Len(wire)
  BY <1>1
<1>3. ASSUME NEW c, NEW t PROVE OnWire(c, t)' <=> OnWire(c, t) \/ (l.kind = c /\ l.turn = t)
  BY <1>1, <1>2 DEF OnWire
<1>4. ASSUME NEW i \in 1..Len(wire), NEW K, NEW t
      PROVE  Behind(i, K, t)' <=> Behind(i, K, t) \/ (l.kind \in K /\ l.turn = t)
  <2>1. i < Len(wire) + 1
    BY <1>1
  <2> QED BY <1>1, <1>2, <2>1 DEF Behind
<1> QED BY <1>1, <1>2, <1>3, <1>4

LEMMA WireShrinks ==
    ASSUME TypeOK, NEW k, Takes(k)
    PROVE  /\ \A c, t : OnWire(c, t) <=> OnWire(c, t)' \/ (wire[k].kind = c /\ wire[k].turn = t)
           /\ \A i \in 1..Len(wire') : \A t :
                 /\ Behind(Kept(k, i), {"completed"}, t) => Behind(i, {"completed"}, t)'
                 /\ Behind(Kept(k, i), {"started", "bare"}, t) => Behind(i, {"started", "bare"}, t)'
           /\ \A t : /\ Behind(k, {"completed"}, t) => OnWire("completed", t)'
                     /\ Behind(k, {"started", "bare"}, t) => OnWire("started", t)' \/ OnWire("bare", t)'
<1>1. Removed(k) /\ k \in 1..Len(wire) /\ Len(wire) \in Nat
  BY Typed DEF Takes, Removed
<1>2. ASSUME NEW c, NEW t
      PROVE  OnWire(c, t) <=> OnWire(c, t)' \/ (wire[k].kind = c /\ wire[k].turn = t)
  <2>1. ASSUME NEW i \in 1..Len(wire), wire[i].kind = c, wire[i].turn = t, i # k PROVE OnWire(c, t)'
    <3>1. PICK m \in 1..Len(wire') : wire'[m] = wire[i]
      BY <1>1, <2>1, RemovalOrder
    <3> QED BY <2>1, <3>1 DEF OnWire
  <2>2. ASSUME NEW i \in 1..Len(wire'), wire'[i].kind = c, wire'[i].turn = t PROVE OnWire(c, t)
    BY <1>1, <2>2 DEF OnWire, Removed
  <2> QED BY <1>1, <2>1, <2>2 DEF OnWire
<1>3. ASSUME NEW i \in 1..Len(wire'), NEW K, NEW t, K \cap {"response", "refused"} = {},
             Behind(Kept(k, i), K, t)
      PROVE  Behind(i, K, t)'
  <2>1. PICK j \in 1..Len(wire) : Kept(k, i) < j /\ wire[j].kind \in K /\ wire[j].turn = t
    BY <1>3 DEF Behind
  <2>2. Kept(k, i) \in 1..Len(wire)
    BY <1>1 DEF Removed
  <2>3. j # k
    BY <1>1, <1>3, <2>1, <2>2 DEF Takes, IsReply
  <2>4. PICK m \in 1..Len(wire') : Kept(k, m) = j /\ wire'[m] = wire[j]
    BY <1>1, <2>3, RemovalOrder
  <2>5. i < m
    BY <1>1, <2>1, <2>4, RemovalOrder
  <2> QED BY <2>1, <2>4, <2>5 DEF Behind
<1>4. ASSUME NEW K, NEW t, Behind(k, K, t)
      PROVE  \E c \in K : OnWire(c, t)'
  <2>1. PICK j \in 1..Len(wire) : k < j /\ wire[j].kind \in K /\ wire[j].turn = t
    BY <1>4 DEF Behind
  <2>2. PICK m \in 1..Len(wire') : wire'[m] = wire[j]
    BY <1>1, <2>1, RemovalOrder
  <2> QED BY <2>1, <2>2 DEF OnWire
<1>5. ASSUME NEW i \in 1..Len(wire'), NEW t
      PROVE  /\ Behind(Kept(k, i), {"completed"}, t) => Behind(i, {"completed"}, t)'
             /\ Behind(Kept(k, i), {"started", "bare"}, t) => Behind(i, {"started", "bare"}, t)'
  <2>1. {"completed"} \cap {"response", "refused"} = {} /\ {"started", "bare"} \cap {"response", "refused"} = {}
    OBVIOUS
  <2> QED BY <1>3, <2>1
<1>6. ASSUME NEW t
      PROVE  /\ Behind(k, {"completed"}, t) => OnWire("completed", t)'
             /\ Behind(k, {"started", "bare"}, t) => OnWire("started", t)' \/ OnWire("bare", t)'
  BY <1>4
<1> QED BY <1>2, <1>5, <1>6

\* The end of turn t is published.
EndOf(t) == [kind |-> "turn-end", turn |-> t]
Told(t) == \E i \in 1..Len(published) : published[i] = EndOf(t)

\* Until the pump throws, a turn that is over is on the wire or told, and once.
CompletedOnce ==
    \A i, j \in 1..Len(wire) :
        wire[i].kind = "completed" /\ wire[j].kind = "completed" /\ wire[i].turn = wire[j].turn => i = j
ToldOnce ==
    \A i, j \in 1..Len(published) :
        published[i].kind = "turn-end" /\ published[j] = published[i] => i = j
Accounted ==
    \A t \in Turns : /\ OnWire("completed", t) \/ Told(t) <=> t <= turns /\ t # turn
                     /\ ~(OnWire("completed", t) /\ Told(t))
TurnsEnd == pump # "thrown" => CompletedOnce /\ ToldOnce /\ Accounted

\* The steps that touch neither the wire nor the turns.
Elsewhere == /\ UNCHANGED <<wire, turn, turns, announced, activeTurnId, published>>
             /\ pump' = pump \/ (pump = "running" /\ pump' = "ended")

LEMMA SessionSteps ==
    ASSUME [Next]_vars
    PROVE  \/ Elsewhere \/ ServerTakes \/ ServerStarts \/ ServerCompletes
           \/ Resume \/ Pump \/ PumpThrows \/ NotesDrop
<1>1. CASE UNCHANGED vars \/ Opening \/ Handle
  BY <1>1 DEF vars, Opening, Handle, OpenAnswered, OpenFails, Send, EndInput, Abort, SignalFires,
              serverVars, streamVars, Elsewhere
<1>2. CASE ChildExits \/ OpenThrows \/ PumpEnds \/ Done \/ ClientDone
  BY <1>2 DEF ChildExits, OpenThrows, PumpEnds, Done, ClientDone, serverVars, streamVars, Elsewhere
<1> QED BY <1>1, <1>2 DEF Next, Server, Tasks

\* What one notification adds to the events.
LEMMA PumpPublishes ==
    ASSUME TypeOK, Pump
    PROVE  LET note == wire[1]
               n == Len(published)
           IN  /\ note \in Notes /\ note.kind \in {"started", "completed"} /\ n \in Nat
               /\ published'[n + 1] = [kind |-> note.kind, turn |-> note.turn]
               /\ \A i \in 1..n : published'[i] = published[i]
               /\ IF note.kind = "completed"
                  THEN Len(published') = n + 2 /\ published'[n + 2] = EndOf(note.turn)
                  ELSE Len(published') = n + 1
<1> DEFINE note == wire[1]
<1>1. /\ wire # <<>> /\ published' = published \o Events(note)
      /\ note \in Notes /\ note.kind # "bare"
  <2>1. wire # <<>> /\ Head(wire) = wire[1] /\ 1 \in 1..Len(wire) /\ ~IsReply(wire[1])
    BY Typed, TailProperties, SequenceProperties DEF Pump, FirstNote
  <2>2. published' = published \o Events(note) /\ note.kind # "bare" /\ note \in Notes
    BY <2>1, Typed DEF Pump
  <2> QED BY <2>1, <2>2
<1>2. note.kind \in {"started", "completed"} /\ note.turn \in Turns
  BY <1>1 DEF Notes
<1>3. PICK e : e = [kind |-> note.kind, turn |-> note.turn]
  OBVIOUS
<1>4. PICK f : f = EndOf(note.turn)
  OBVIOUS
<1>5. e \in Published /\ f \in Published
  BY <1>2, <1>3, <1>4 DEF Published, EndOf
<1>6. published' = published \o (<<e>> \o IF note.kind = "completed" THEN <<f>> ELSE <<>>)
  BY <1>1, <1>3, <1>4 DEF Events, EndOf
<1>7. CASE note.kind = "completed"
  <2>1. PICK g : g = <<e>> \o <<f>>
    OBVIOUS
  <2>2. g \in Seq(Published) /\ Len(g) = 2 /\ g[1] = e /\ g[2] = f
    BY <1>5, <2>1
  <2>3. published' = published \o g /\ published \in Seq(Published)
    BY <1>6, <1>7, <2>1, Typed
  <2>4. /\ Len(published') = Len(published) + 2 /\ published'[Len(published) + 1] = e
        /\ published'[Len(published) + 2] = f
        /\ \A i \in 1..Len(published) : published'[i] = published[i]
    <3>1. /\ Len(published') = Len(published) + Len(g)
          /\ \A i \in 1..(Len(published) + Len(g)) : published'[i] =
                IF i <= Len(published) THEN published[i] ELSE g[i - Len(published)]
      BY <2>2, <2>3, ConcatProperties, Zenon
    <3> QED BY <2>2, <3>1, Typed
  <2> QED BY <1>1, <1>2, <1>3, <1>4, <1>7, <2>4, Typed
<1>8. CASE note.kind = "started"
  <2>1. published' = published \o <<e>>
    <3>1. <<e>> \o <<>> = <<e>>
      OBVIOUS
    <3> QED BY <1>6, <1>8, <3>1
  <2>2. published \in Seq(Published)
    BY Typed
  <2>3. /\ Len(published') = Len(published) + 1 /\ published'[Len(published) + 1] = e
        /\ \A i \in 1..Len(published) : published'[i] = published[i]
    BY <1>5, <2>1, <2>2
  <2> QED BY <1>1, <1>2, <1>3, <1>8, <2>3, Typed
<1> QED BY <1>2, <1>7, <1>8

LEMMA ServerTurnsEnd ==
    ASSUME TypeOK, Ends, TurnsEnd, ServerTakes \/ ServerStarts \/ ServerCompletes
    PROVE  TurnsEnd'
<1>1. PICK l \in Replies(Len(sends)) \cup Notes : wire' = Append(wire, l) /\ Tells(l)
  BY ServerTells
<1>2. pump' = pump /\ published' = published
  BY ServerTells
<1> SUFFICES ASSUME pump # "thrown" PROVE CompletedOnce' /\ ToldOnce' /\ Accounted'
  BY <1>2 DEF TurnsEnd
<1>3. CompletedOnce /\ ToldOnce /\ Accounted
  BY DEF TurnsEnd
<1>4. ToldOnce' /\ \A t : Told(t)' <=> Told(t)
  BY <1>2, <1>3 DEF ToldOnce, Told
<1>5. turn \in {Null} \cup Turns /\ turns \in Nat /\ Turns \subseteq Nat /\ Null \notin Turns /\ turn <= turns
  BY SessionAssumption DEF TypeOK, Turns, Null, Ends
<1>6. CASE l.kind # "completed"
  <2>1. \A t : OnWire("completed", t)' <=> OnWire("completed", t)
    BY <1>1, <1>6, WireGrows
  <2>2. CompletedOnce'
    BY <1>1, <1>3, <1>6, WireGrows DEF CompletedOnce
  <2>3. \A t \in Turns : t <= turns' /\ t # turn' <=> t <= turns /\ t # turn
    BY <1>1, <1>5, <1>6 DEF Tells, serverVars
  <2> QED BY <1>3, <1>4, <2>1, <2>2, <2>3 DEF Accounted
<1>7. CASE l.kind = "completed"
  <2>1. l.turn = turn /\ turn \in Turns /\ turn' = Null /\ turns' = turns
    BY <1>1, <1>5, <1>7 DEF Tells
  <2>2. \A t : OnWire("completed", t)' <=> OnWire("completed", t) \/ t = turn
    BY <1>1, <1>7, <2>1, WireGrows
  <2>3. ~OnWire("completed", turn) /\ ~Told(turn)
    BY <1>3, <2>1 DEF Accounted
  <2>4. CompletedOnce'
    BY <1>1, <1>3, <1>7, <2>1, <2>3, WireGrows DEF CompletedOnce, OnWire
  <2>5. Accounted'
    BY <1>3, <1>4, <1>5, <2>1, <2>2, <2>3 DEF Accounted
  <2> QED BY <1>4, <2>4, <2>5
<1> QED BY <1>6, <1>7

LEMMA TakenOnce ==
    ASSUME TypeOK, CompletedOnce, NEW k, Takes(k)
    PROVE  /\ CompletedOnce'
           /\ \A t : wire[k].kind = "completed" /\ wire[k].turn = t => ~OnWire("completed", t)'
<1>1. \A i \in 1..Len(wire') : Kept(k, i) \in 1..Len(wire) /\ wire'[i] = wire[Kept(k, i)] /\ Kept(k, i) # k
  BY RemovalOrder DEF Takes, Removed
<1>2. \A i, j \in 1..Len(wire') : Kept(k, i) = Kept(k, j) => i = j
  BY Typed DEF Kept, Takes, Removed
<1>3. k \in 1..Len(wire)
  BY DEF Takes, Removed
<1>4. CompletedOnce'
  BY <1>1, <1>2 DEF CompletedOnce
<1>5. ASSUME wire[k].kind = "completed", NEW i \in 1..Len(wire'), wire'[i].kind = "completed",
             wire'[i].turn = wire[k].turn
      PROVE  FALSE
  BY <1>1, <1>3, <1>5 DEF CompletedOnce
<1> QED BY <1>4, <1>5 DEF OnWire

LEMMA TasksTurnsEnd ==
    ASSUME TypeOK, Ends, TurnsEnd, Resume \/ Pump \/ PumpThrows \/ NotesDrop
    PROVE  TurnsEnd'
<1>1. CASE Resume
  <2>1. PICK k \in 1..Len(wire) : Takes(k) /\ IsReply(wire[k])
    <3>1. PICK k \in 1..Len(wire) : IsReply(wire[k]) /\ wire' = Without(k)
      BY <1>1 DEF Resume, FirstReply
    <3> QED BY <3>1, Removal DEF Takes
  <2>2. \A t : OnWire("completed", t)' <=> OnWire("completed", t)
    BY <2>1, WireShrinks DEF IsReply
  <2>3. UNCHANGED <<pump, published, turn, turns>>
    BY <1>1 DEF Resume, streamVars, serverVars
  <2>4. CompletedOnce => CompletedOnce'
    BY <2>1, TakenOnce
  <2> QED BY <2>2, <2>3, <2>4 DEF TurnsEnd, ToldOnce, Accounted, Told
<1>2. CASE Pump
  <2> DEFINE note == wire[1]
             n == Len(published)
  <2>1. /\ note \in Notes /\ note.kind \in {"started", "completed"} /\ n \in Nat
        /\ published'[n + 1] = [kind |-> note.kind, turn |-> note.turn]
        /\ \A i \in 1..n : published'[i] = published[i]
        /\ IF note.kind = "completed"
           THEN Len(published') = n + 2 /\ published'[n + 2] = EndOf(note.turn)
           ELSE Len(published') = n + 1
    BY <1>2, PumpPublishes
  <2>2. Takes(1)
    <3>1. wire # <<>> /\ wire' = Tail(wire) /\ 1 \in 1..Len(wire)
      BY <1>2, Typed, TailProperties DEF Pump
    <3> QED BY <3>1, Removal DEF Takes
  <2>3. /\ pump = "running" /\ UNCHANGED <<pump, turn, turns>>
        /\ CompletedOnce /\ ToldOnce /\ Accounted
    BY <1>2 DEF Pump, serverVars, TurnsEnd
  <2>4. CompletedOnce'
    BY <2>2, <2>3, TakenOnce
  <2>5. \A t : EndOf(t).kind = "turn-end" /\ EndOf(t).turn = t
    BY DEF EndOf
  <2>6. CASE note.kind = "started"
    <3>1. \A t : OnWire("completed", t)' <=> OnWire("completed", t)
      BY <2>2, <2>6, WireShrinks
    <3>2. /\ 1..Len(published') = 1..n \cup {n + 1}
          /\ published'[n + 1].kind = "started"
      BY <2>1, <2>6
    <3>3. \A t : Told(t)' <=> Told(t)
      BY <2>1, <2>5, <3>2 DEF Told
    <3>4. ToldOnce'
      BY <2>1, <2>3, <3>2 DEF ToldOnce
    <3> QED BY <2>3, <2>4, <3>1, <3>3, <3>4 DEF TurnsEnd, Accounted
  <2>7. CASE note.kind = "completed"
    <3>1. /\ 1..Len(published') = 1..n \cup {n + 1, n + 2} /\ n + 1 \notin 1..n /\ n + 2 \notin 1..n
          /\ published'[n + 1].kind = "completed" /\ published'[n + 2] = EndOf(note.turn)
      BY <2>1, <2>7
    <3>2. \A t : Told(t)' <=> Told(t) \/ t = note.turn
      <4>1. \A t : EndOf(note.turn) = EndOf(t) <=> t = note.turn
        BY <2>5
      <4> QED BY <2>1, <2>5, <3>1, <4>1 DEF Told
    <3>3. /\ \A t : OnWire("completed", t) <=> OnWire("completed", t)' \/ t = note.turn
          /\ \A t : t = note.turn => ~OnWire("completed", t)'
      BY <2>2, <2>3, <2>7, WireShrinks, TakenOnce
    <3>4. note.turn \in Turns
      BY <2>1 DEF Notes
    <3>5. ~Told(note.turn)
      <4>1. OnWire("completed", note.turn)
        BY <3>3
      <4> QED BY <2>3, <3>4, <4>1 DEF Accounted
    <3>6. ToldOnce'
      <4>1. ASSUME NEW i \in 1..Len(published'), NEW j \in 1..Len(published'),
                   published'[i].kind = "turn-end", published'[j] = published'[i]
            PROVE  i = j
        <5>1. i # n + 1 /\ j # n + 1
          BY <3>1, <4>1
        <5>2. i \in 1..n \/ i = n + 2
          BY <3>1, <5>1
        <5>3. j \in 1..n \/ j = n + 2
          BY <3>1, <5>1
        <5>4. \A m \in 1..n : published'[m] # EndOf(note.turn)
          BY <2>1, <3>5 DEF Told
        <5> QED BY <2>1, <2>3, <3>1, <4>1, <5>2, <5>3, <5>4 DEF ToldOnce
      <4> QED BY <4>1 DEF ToldOnce
    <3>7. ASSUME NEW t \in Turns
          PROVE  /\ OnWire("completed", t)' \/ Told(t)' <=> t <= turns' /\ t # turn'
                 /\ ~(OnWire("completed", t)' /\ Told(t)')
      <4>1. /\ OnWire("completed", t) \/ Told(t) <=> t <= turns /\ t # turn
            /\ ~(OnWire("completed", t) /\ Told(t))
        BY <2>3 DEF Accounted
      <4>2. Told(t)' <=> Told(t) \/ t = note.turn
        BY <3>2
      <4>3. OnWire("completed", t) <=> OnWire("completed", t)' \/ t = note.turn
        BY <3>3
      <4>4. t = note.turn => ~OnWire("completed", t)'
        BY <3>3
      <4> QED BY <2>3, <4>1, <4>2, <4>3, <4>4
    <3> QED BY <2>4, <3>6, <3>7 DEF TurnsEnd, Accounted
  <2> QED BY <2>1, <2>6, <2>7
<1>3. CASE PumpThrows \/ NotesDrop
  BY <1>3 DEF PumpThrows, NotesDrop, streamVars, TurnsEnd
<1> QED BY <1>1, <1>2, <1>3

LEMMA TurnsEndStep == TypeOK /\ Ends /\ TurnsEnd /\ [Next]_vars => TurnsEnd'
<1> SUFFICES ASSUME TypeOK, Ends, TurnsEnd, [Next]_vars, Elsewhere PROVE TurnsEnd'
  BY SessionSteps, ServerTurnsEnd, TasksTurnsEnd
<1>1. pump' # "thrown" => pump # "thrown"
  BY DEF Elsewhere
<1> QED BY <1>1 DEF Elsewhere, TurnsEnd, CompletedOnce, ToldOnce, Accounted, OnWire, Told

-----------------------------------------------------------------------------
(* The active turn *)

\* A line of the wire that names a turn names the active one, or one whose end
\* follows it; and once the active turn is announced, its announcement follows
\* the end of every earlier one.
Names(i) == wire[i].kind \in {"started", "bare", "response"}
NamedTurns ==
    \A i \in 1..Len(wire) :
        Names(i) => /\ wire[i].turn # Null
                    /\ \A t : t = wire[i].turn => t = turn \/ Behind(i, {"completed"}, t)
Announcements ==
    turn # Null /\ announced =>
        \A i \in 1..Len(wire) : wire[i].kind = "completed" =>
            \A t : t = turn => Behind(i, {"started", "bare"}, t)
Sequel == NamedTurns /\ Announcements

LEMMA ServerSequel ==
    ASSUME TypeOK, Sequel, ServerTakes \/ ServerStarts \/ ServerCompletes
    PROVE  Sequel'
<1>1. PICK l \in Replies(Len(sends)) \cup Notes : wire' = Append(wire, l) /\ Tells(l)
  BY ServerTells
<1>2. /\ Len(wire) \in Nat
      /\ 1..Len(wire') = 1..Len(wire) \cup {Len(wire) + 1} /\ Len(wire) + 1 \notin 1..Len(wire)
      /\ wire'[Len(wire) + 1] = l
      /\ \A i \in 1..Len(wire) : wire'[i] = wire[i]
      /\ \A i \in 1..Len(wire) : \A K, t :
            Behind(i, K, t)' <=> Behind(i, K, t) \/ (l.kind \in K /\ l.turn = t)
  BY <1>1, WireGrows
<1>3. NamedTurns'
  <2>1. l.kind \in {"started", "bare", "response"} => l.turn # Null /\ l.turn = turn'
    BY <1>1 DEF Tells
  <2>2. ASSUME NEW i \in 1..Len(wire), NEW t, Names(i), t = wire[i].turn
        PROVE  wire[i].turn # Null /\ (t = turn' \/ Behind(i, {"completed"}, t)')
    <3>1. t # Null /\ (t = turn \/ Behind(i, {"completed"}, t))
      BY <2>2 DEF Sequel, NamedTurns
    <3>2. CASE Behind(i, {"completed"}, t)
      BY <1>2, <2>2, <3>1, <3>2
    <3>3. CASE t = turn
      <4>1. turn' = turn \/ (l.kind = "completed" /\ l.turn = turn)
        BY <1>1, <3>1, <3>3 DEF Tells, serverVars
      <4> QED BY <1>2, <2>2, <3>1, <3>3, <4>1
    <3> QED BY <3>1, <3>2, <3>3
  <2> QED BY <1>2, <2>1, <2>2 DEF NamedTurns, Names
<1>4. Announcements'
  <2>1. SUFFICES ASSUME turn' # Null, announced', NEW i \in 1..Len(wire'), wire'[i].kind = "completed",
                        NEW t, t = turn'
                 PROVE  Behind(i, {"started", "bare"}, t)'
    BY DEF Announcements
  <2>2. /\ l.kind # "completed" /\ turn' = turn
        /\ announced \/ (l.kind \in {"started", "bare"} /\ l.turn = turn)
    BY <1>1, <2>1 DEF Tells, serverVars
  <2>3. i \in 1..Len(wire) /\ wire[i].kind = "completed"
    BY <1>2, <2>1, <2>2
  <2>4. announced => Behind(i, {"started", "bare"}, t)
    BY <2>1, <2>2, <2>3 DEF Sequel, Announcements
  <2> QED BY <1>2, <2>1, <2>2, <2>3, <2>4
<1> QED BY <1>3, <1>4 DEF Sequel

LEMMA TasksSequel ==
    ASSUME TypeOK, Sequel, Resume \/ Pump \/ PumpThrows \/ NotesDrop
    PROVE  Sequel'
<1>1. PICK k \in 1..Len(wire) : Takes(k)
  BY TasksTake
<1>2. UNCHANGED <<turn, turns, announced>>
  <2>1. CASE Resume
    BY <2>1 DEF Resume, serverVars
  <2>2. CASE Pump \/ PumpThrows \/ NotesDrop
    BY <2>2 DEF Pump, PumpThrows, NotesDrop, serverVars
  <2> QED BY <2>1, <2>2
<1>3. \A i \in 1..Len(wire') : Kept(k, i) \in 1..Len(wire) /\ wire'[i] = wire[Kept(k, i)]
  BY <1>1 DEF Takes, Removed
<1>4. \A i \in 1..Len(wire') : \A t :
         /\ Behind(Kept(k, i), {"completed"}, t) => Behind(i, {"completed"}, t)'
         /\ Behind(Kept(k, i), {"started", "bare"}, t) => Behind(i, {"started", "bare"}, t)'
  BY <1>1, WireShrinks
<1>5. NamedTurns'
  <2>1. ASSUME NEW i \in 1..Len(wire'), Names(i)', NEW t, t = wire'[i].turn
        PROVE  t # Null /\ (t = turn' \/ Behind(i, {"completed"}, t)')
    <3>1. PICK m \in 1..Len(wire) : m = Kept(k, i) /\ wire'[i] = wire[m]
      BY <1>3
    <3>2. t = wire[m].turn /\ Names(m)
      BY <2>1, <3>1 DEF Names
    <3>3. t # Null /\ (t = turn \/ Behind(m, {"completed"}, t))
      BY <3>2 DEF Sequel, NamedTurns
    <3> QED BY <1>2, <1>4, <3>1, <3>3
  <2> QED BY <2>1 DEF NamedTurns, Names
<1>6. Announcements'
  <2>1. SUFFICES ASSUME turn' # Null, announced', NEW i \in 1..Len(wire'), wire'[i].kind = "completed",
                        NEW t, t = turn'
                 PROVE  Behind(i, {"started", "bare"}, t)'
    BY DEF Announcements
  <2>2. PICK m \in 1..Len(wire) : m = Kept(k, i) /\ wire'[i] = wire[m]
    BY <1>3
  <2>3. Behind(m, {"started", "bare"}, t)
    BY <1>2, <2>1, <2>2 DEF Sequel, Announcements
  <2> QED BY <1>4, <2>2, <2>3
<1> QED BY <1>5, <1>6 DEF Sequel

LEMMA SequelStep == TypeOK /\ Sequel /\ [Next]_vars => Sequel'
<1> SUFFICES ASSUME TypeOK, Sequel, [Next]_vars, Elsewhere PROVE Sequel'
  BY SessionSteps, ServerSequel, TasksSequel
<1>1. UNCHANGED <<wire, turn, announced>>
  BY DEF Elsewhere
<1> QED BY <1>1 DEF Sequel, NamedTurns, Announcements, Names, Behind

\* ActiveTurnAgrees, with the turns as bound variables.
Agrees ==
    pump = "running" =>
        /\ \A t : t = activeTurnId /\ t # Null => t = turn \/ OnWire("completed", t)
        /\ \A t : t = turn /\ t # Null /\ announced =>
              activeTurnId = t \/ OnWire("started", t) \/ OnWire("bare", t)

LEMMA AgreesIsActiveTurnAgrees == Agrees <=> ActiveTurnAgrees
BY DEF Agrees, ActiveTurnAgrees

LEMMA ServerAgrees ==
    ASSUME TypeOK, Agrees, ServerTakes \/ ServerStarts \/ ServerCompletes
    PROVE  Agrees'
<1>1. PICK l \in Replies(Len(sends)) \cup Notes : wire' = Append(wire, l) /\ Tells(l)
  BY ServerTells
<1>2. \A c, t : OnWire(c, t)' <=> OnWire(c, t) \/ (l.kind = c /\ l.turn = t)
  BY <1>1, WireGrows
<1>3. UNCHANGED <<activeTurnId, pump, published>>
  BY ServerTells
<1> SUFFICES ASSUME pump = "running"
             PROVE  /\ \A t : t = activeTurnId' /\ t # Null => t = turn' \/ OnWire("completed", t)'
                    /\ \A t : t = turn' /\ t # Null /\ announced' =>
                          activeTurnId' = t \/ OnWire("started", t)' \/ OnWire("bare", t)'
  BY <1>3 DEF Agrees
<1>4. ASSUME NEW t, t = activeTurnId', t # Null PROVE t = turn' \/ OnWire("completed", t)'
  <2>1. t = turn \/ OnWire("completed", t)
    BY <1>3, <1>4 DEF Agrees
  <2>2. t = turn => turn' = turn \/ (l.kind = "completed" /\ l.turn = t)
    BY <1>1, <1>4 DEF Tells, serverVars
  <2> QED BY <1>2, <2>1, <2>2
<1>5. ASSUME NEW t, t = turn', t # Null, announced'
      PROVE  activeTurnId' = t \/ OnWire("started", t)' \/ OnWire("bare", t)'
  <2>1. turn' = turn /\ (announced \/ (l.kind \in {"started", "bare"} /\ l.turn = t))
    BY <1>1, <1>5 DEF Tells, serverVars
  <2>2. announced => activeTurnId = t \/ OnWire("started", t) \/ OnWire("bare", t)
    BY <1>5, <2>1 DEF Agrees
  <2> QED BY <1>2, <1>3, <2>1, <2>2
<1> QED BY <1>4, <1>5

\* An announcement of the active turn is on the wire whenever the end of an
\* earlier one is.
LEMMA EndsThenStarts ==
    ASSUME TypeOK, Sequel, NEW k, Takes(k), NEW u, Behind(k, {"completed"}, u), turn # Null, announced,
           NEW t, t = turn
    PROVE  Behind(k, {"started", "bare"}, t)
<1>1. PICK i \in 1..Len(wire) : k < i /\ wire[i].kind = "completed"
  BY DEF Behind
<1>2. Behind(i, {"started", "bare"}, t)
  BY <1>1 DEF Sequel, Announcements
<1>3. PICK j \in 1..Len(wire) : i < j /\ wire[j].kind \in {"started", "bare"} /\ wire[j].turn = t
  BY <1>2 DEF Behind
<1>4. k < j
  BY <1>1, <1>3, Typed DEF Takes, Removed
<1> QED BY <1>3, <1>4 DEF Behind

LEMMA ResumeAgrees == TypeOK /\ Sequel /\ Agrees /\ Resume => Agrees'
<1> SUFFICES ASSUME TypeOK, Sequel, Agrees, Resume, pump = "running"
             PROVE  /\ \A t : t = activeTurnId' /\ t # Null => t = turn' \/ OnWire("completed", t)'
                    /\ \A t : t = turn' /\ t # Null /\ announced' =>
                          activeTurnId' = t \/ OnWire("started", t)' \/ OnWire("bare", t)'
  BY DEF Agrees, Resume, streamVars
<1>1. PICK k \in 1..Len(wire) :
         IsReply(wire[k]) /\ wire' = Without(k) /\ activeTurnId' = Promoted(wire[k])
  BY DEF Resume, FirstReply
<1>2. Takes(k)
  BY <1>1, Removal DEF Takes
<1>3. \A t : /\ OnWire("completed", t)' <=> OnWire("completed", t)
             /\ OnWire("started", t)' <=> OnWire("started", t)
             /\ OnWire("bare", t)' <=> OnWire("bare", t)
  BY <1>1, <1>2, WireShrinks DEF IsReply
<1>4. UNCHANGED <<turn, announced>>
  BY DEF Resume, serverVars
<1>5. CASE activeTurnId' = activeTurnId
  BY <1>3, <1>4, <1>5 DEF Agrees
<1>6. CASE activeTurnId' # activeTurnId
  <2>1. wire[k].kind = "response" /\ activeTurnId' = wire[k].turn
    BY <1>1, <1>6 DEF Promoted, IsReply
  <2>2. \A t : t = activeTurnId' => t = turn \/ Behind(k, {"completed"}, t)
    BY <2>1 DEF Sequel, NamedTurns, Names
  <2>3. \A t : t = activeTurnId' => t = turn' \/ OnWire("completed", t)'
    BY <1>2, <1>4, <2>2, WireShrinks
  <2>4. ASSUME NEW t, t = turn', t # Null, announced', activeTurnId' # t
        PROVE  OnWire("started", t)' \/ OnWire("bare", t)'
    <3>1. PICK u : u = activeTurnId'
      OBVIOUS
    <3>2. Behind(k, {"completed"}, u)
      BY <1>4, <2>2, <2>4, <3>1
    <3>3. Behind(k, {"started", "bare"}, t)
      BY <1>2, <1>4, <2>4, <3>2, EndsThenStarts
    <3> QED BY <1>2, <3>3, WireShrinks
  <2> QED BY <2>3, <2>4
<1> QED BY <1>5, <1>6

LEMMA PumpAgrees == TypeOK /\ Sequel /\ Agrees /\ Pump => Agrees'
<1> SUFFICES ASSUME TypeOK, Sequel, Agrees, Pump
             PROVE  /\ \A t : t = activeTurnId' /\ t # Null => t = turn' \/ OnWire("completed", t)'
                    /\ \A t : t = turn' /\ t # Null /\ announced' =>
                          activeTurnId' = t \/ OnWire("started", t)' \/ OnWire("bare", t)'
  BY DEF Agrees
<1>1. /\ 1 \in 1..Len(wire) /\ wire' = Tail(wire) /\ activeTurnId' = Tracked(wire[1])
  BY Typed, TailProperties DEF Pump
<1>2. Takes(1)
  BY <1>1, Removal DEF Takes
<1>3. UNCHANGED <<turn, announced>> /\ pump = "running"
  BY DEF Pump, serverVars
<1>4. wire[1].kind \in {"started", "completed"}
  BY PumpPublishes
<1>5. CASE wire[1].kind = "started"
  <2>1. activeTurnId' = wire[1].turn
    BY <1>1, <1>5 DEF Tracked
  <2>2. \A t : t = activeTurnId' => t = turn \/ Behind(1, {"completed"}, t)
    BY <1>1, <1>5, <2>1 DEF Sequel, NamedTurns, Names
  <2>3. \A t : t = activeTurnId' => t = turn' \/ OnWire("completed", t)'
    BY <1>2, <1>3, <2>2, WireShrinks
  <2>4. ASSUME NEW t, t = turn', t # Null, announced', activeTurnId' # t
        PROVE  OnWire("started", t)' \/ OnWire("bare", t)'
    <3>1. PICK u : u = activeTurnId'
      OBVIOUS
    <3>2. Behind(1, {"completed"}, u)
      BY <1>3, <2>2, <2>4, <3>1
    <3>3. Behind(1, {"started", "bare"}, t)
      BY <1>2, <1>3, <2>4, <3>2, EndsThenStarts
    <3> QED BY <1>2, <3>3, WireShrinks
  <2> QED BY <2>3, <2>4
<1>6. CASE wire[1].kind = "completed"
  <2>1. activeTurnId' = Null
    BY <1>1, <1>6 DEF Tracked
  <2>2. ASSUME NEW t, t = turn', t # Null, announced'
        PROVE  OnWire("started", t)' \/ OnWire("bare", t)'
    <3>1. Behind(1, {"started", "bare"}, t)
      BY <1>1, <1>3, <1>6, <2>2 DEF Sequel, Announcements
    <3> QED BY <1>2, <3>1, WireShrinks
  <2> QED BY <2>1, <2>2
<1> QED BY <1>4, <1>5, <1>6

LEMMA AgreesStep == TypeOK /\ Sequel /\ Agrees /\ [Next]_vars => Agrees'
<1> SUFFICES ASSUME TypeOK, Sequel, Agrees, [Next]_vars, Elsewhere \/ PumpThrows \/ NotesDrop PROVE Agrees'
  BY SessionSteps, ServerAgrees, ResumeAgrees, PumpAgrees
<1>1. CASE Elsewhere
  BY <1>1 DEF Elsewhere, Agrees, OnWire
<1>2. CASE PumpThrows \/ NotesDrop
  BY <1>2 DEF PumpThrows, NotesDrop, streamVars, Agrees
<1> QED BY <1>1, <1>2

-----------------------------------------------------------------------------
(* The invariant *)

CodexInd == TypeOK /\ Flight /\ Ends /\ TurnsEnd /\ Sequel /\ Agrees

LEMMA InitInd == Init => CodexInd
<1> SUFFICES ASSUME Init PROVE CodexInd
  OBVIOUS
<1>1. TypeOK
  BY InitTyped
<1>2. /\ Len(sends) = 0 /\ Len(outbox) = 0 /\ Len(wire) = 0 /\ Len(published) = 0
      /\ wire = <<>> /\ turn = Null /\ turns = 0 /\ activeTurnId = Null /\ announced = FALSE
      /\ phase = "handshake" /\ clientDone = FALSE /\ pump = "running" /\ done = "waiting"
      /\ sessionAborted = FALSE
  BY DEF Init
<1>3. 1..0 = {}
  OBVIOUS
<1>4. Flight
  BY <1>2, <1>3 DEF Flight, PendingIsInFlight, FlightOnce, Sends
<1>5. Ends
  BY <1>2, <1>3 DEF Ends, Null
<1>6. TurnsEnd
  <2>1. \A t \in Turns : ~(t <= 0)
    BY SessionAssumption DEF Turns
  <2> QED BY <1>2, <1>3, <2>1 DEF TurnsEnd, CompletedOnce, ToldOnce, Accounted, OnWire, Told
<1>7. Sequel /\ Agrees
  BY <1>2, <1>3 DEF Sequel, NamedTurns, Announcements, Agrees
<1> QED BY <1>1, <1>4, <1>5, <1>6, <1>7 DEF CodexInd

LEMMA IndStep == CodexInd /\ [Next]_vars => CodexInd'
BY TypeStep, FlightStep, EndsStep, TurnsEndStep, SequelStep, AgreesStep DEF CodexInd

LEMMA IndHolds == Spec => []CodexInd
BY InitInd, IndStep, PTL DEF Spec

LEMMA TurnEndsCounted == CodexInd => TurnEndsMatch
<1> SUFFICES ASSUME CodexInd, pump = "ended", NEW t \in 1..turns
             PROVE  Cardinality({i \in 1..Len(published) : published[i] = EndOf(t)})
                       = IF t = turn THEN 0 ELSE 1
  BY DEF TurnEndsMatch, EndOf
<1> DEFINE S == {i \in 1..Len(published) : published[i] = EndOf(t)}
<1>1. /\ wire = <<>> /\ ToldOnce
      /\ OnWire("completed", t) \/ Told(t) <=> t # turn
  <2>1. t \in Turns /\ t <= turns
    BY SessionAssumption DEF CodexInd, TypeOK, Turns
  <2> QED BY <2>1 DEF CodexInd, Ends, TurnsEnd, Accounted
<1>2. Told(t) <=> t # turn
  BY <1>1 DEF OnWire
<1>3. CASE t = turn
  <2>1. S = {}
    BY <1>2, <1>3 DEF Told
  <2> QED BY <1>3, <2>1, FS_EmptySet
<1>4. CASE t # turn
  <2>1. PICK i \in 1..Len(published) : published[i] = EndOf(t)
    BY <1>2, <1>4 DEF Told
  <2>2. \A j \in S : j = i
    BY <1>1, <2>1 DEF ToldOnce, EndOf
  <2>3. S = {i}
    BY <2>1, <2>2
  <2> QED BY <1>4, <2>3, FS_Singleton
<1> QED BY <1>3, <1>4

\* No send is forgotten by both sides, a failed openCodexSession() leaves no
\* subprocess, and when the events are complete every turn the server completed
\* has its one turn-end, however many sends and turns there were.
THEOREM SessionInvariant == Spec => []SessionInv
<1>1. CodexInd => SessionInv
  BY TurnEndsCounted DEF CodexInd, Flight, Ends, SessionInv, FailedOpenReaps
<1> QED BY <1>1, IndHolds, PTL

\* `activeTurnId` lags behind the server by the lines on the wire and by nothing
\* else, whichever of responses and notifications the session handles first.
THEOREM TrackingIsSound == Spec => []ActiveTurnAgrees
<1>1. CodexInd => ActiveTurnAgrees
  BY AgreesIsActiveTurnAgrees DEF CodexInd
<1> QED BY <1>1, IndHolds, PTL

-----------------------------------------------------------------------------
(* The contract *)

AbstractPhase == IF sessionAborted THEN "aborted" ELSE IF ended THEN "ended" ELSE "open"
Outcomes == [s \in Sends |-> sends[s].outcome]
Kinds == [i \in 1..Len(published) |-> published[i].kind]

LEMMA InitRefines == Init => Contract!Init
<1> SUFFICES ASSUME Init PROVE Contract!Init
  OBVIOUS
<1>1. Outcomes = <<>> /\ Kinds = <<>>
  BY DEF Init, Outcomes, Kinds, Sends
<1> QED BY <1>1 DEF Init, Contract!Init, Outcomes, Kinds

\* The promises of send() and the kinds of the events, as sequences.
Sequences ==
    /\ Outcomes \in Seq({"pending", "accepted", "undelivered", "aborted", "inputClosed"})
    /\ Len(Outcomes) = Len(sends)
    /\ \A s \in Sends : Outcomes[s] = sends[s].outcome
    /\ Kinds \in Seq({"started", "completed", "turn-end"})
    /\ Len(Kinds) = Len(published)
    /\ \A i \in 1..Len(published) : Kinds[i] = published[i].kind

LEMMA Images == TypeOK => Sequences
<1> SUFFICES ASSUME TypeOK PROVE Sequences
  OBVIOUS
<1>1. /\ Outcomes = [i \in 1..Len(sends) |-> Outcomes[i]]
      /\ \A s \in Sends : Outcomes[s] = sends[s].outcome
  BY DEF Outcomes, Sends
<1>2. /\ Kinds = [i \in 1..Len(published) |-> Kinds[i]]
      /\ \A i \in 1..Len(published) : Kinds[i] = published[i].kind
  BY DEF Kinds
<1>3. \A s \in 1..Len(sends) :
         Outcomes[s] \in {"pending", "accepted", "undelivered", "aborted", "inputClosed"}
  BY <1>1, Typed DEF SendRecord, Sends
<1>4. \A i \in 1..Len(published) : published[i] \in Published
  BY Typed, SequenceProperties
<1>5. \A i \in 1..Len(published) : Kinds[i] \in {"started", "completed", "turn-end"}
  BY <1>2, <1>4 DEF Published
<1>6. Len(sends) \in Nat /\ Len(published) \in Nat
  BY Typed
<1>7. /\ Outcomes \in Seq({"pending", "accepted", "undelivered", "aborted", "inputClosed"})
      /\ Len(Outcomes) = Len(sends)
  BY <1>1, <1>3, <1>6, FunctionIsSequence
<1>8. /\ Kinds \in Seq({"started", "completed", "turn-end"})
      /\ Len(Kinds) = Len(published)
  BY <1>2, <1>5, <1>6, FunctionIsSequence
<1> QED BY <1>1, <1>2, <1>7, <1>8 DEF Sequences

\* A sequence that follows another and is longer by one, or by two.
LEMMA OneLonger ==
    ASSUME NEW T, NEW f \in Seq(T), NEW g \in Seq(T), NEW e \in T, Len(g) = Len(f) + 1,
           \A i \in 1..Len(f) : g[i] = f[i], g[Len(f) + 1] = e
    PROVE  g = Append(f, e)
<1>1. Append(f, e) \in Seq(T) /\ Len(Append(f, e)) = Len(f) + 1 /\ Len(f) \in Nat
      /\ (\A i \in 1..Len(f) : Append(f, e)[i] = f[i]) /\ Append(f, e)[Len(f) + 1] = e
  BY AppendProperties, LenProperties
<1>2. \A i \in 1..Len(g) : i \in 1..Len(f) \/ i = Len(f) + 1
  BY <1>1
<1>3. \A i \in 1..Len(g) : g[i] = Append(f, e)[i]
  BY <1>1, <1>2
<1> QED BY <1>1, <1>3, SeqEqual

LEMMA TwoLonger ==
    ASSUME NEW T, NEW f \in Seq(T), NEW g \in Seq(T), NEW d \in T, NEW e \in T, Len(g) = Len(f) + 2,
           \A i \in 1..Len(f) : g[i] = f[i], g[Len(f) + 1] = d, g[Len(f) + 2] = e
    PROVE  g = f \o <<d, e>>
<1>1. PICK h : h = <<d, e>>
  OBVIOUS
<1>2. h \in Seq(T) /\ Len(h) = 2 /\ h[1] = d /\ h[2] = e
  BY <1>1
<1>3. /\ f \o h \in Seq(T) /\ Len(f \o h) = Len(f) + Len(h)
      /\ \A i \in 1..(Len(f) + Len(h)) : (f \o h)[i] = IF i <= Len(f) THEN f[i] ELSE h[i - Len(f)]
  BY <1>2, ConcatProperties, Zenon
<1>4. Len(f) \in Nat
  BY LenProperties
<1>5. \A i \in 1..Len(g) : g[i] = (f \o h)[i]
  <2>1. ASSUME NEW i \in 1..Len(g) PROVE g[i] = IF i <= Len(f) THEN f[i] ELSE h[i - Len(f)]
    <3>1. i \in 1..Len(f) \/ i = Len(f) + 1 \/ i = Len(f) + 2
      BY <1>4
    <3> QED BY <1>2, <1>4, <3>1
  <2> QED BY <1>2, <1>3, <2>1
<1>6. Len(g) = Len(f \o h)
  BY <1>2, <1>3
<1>7. g = f \o h
  BY <1>3, <1>5, <1>6, SeqEqual
<1> QED BY <1>1, <1>7

\* The steps, as the contract sees them: what they do to the sends, to the events
\* and to the phase.
LEMMA SendRefines ==
    ASSUME TypeOK, TypeOK', Send
    PROVE  \E o \in CASE AbstractPhase = "aborted" -> {"aborted"}
                      [] AbstractPhase = "ended"   -> {"inputClosed"}
                      [] OTHER                     -> {"pending", "accepted", "undelivered"} :
              Outcomes' = Append(Outcomes, o)
<1>1. PICK o \in {"pending", "undelivered", "aborted", "inputClosed"} :
         /\ sends' = Append(sends, Called(o))
         /\ o \in CASE AbstractPhase = "aborted" -> {"aborted"}
                    [] AbstractPhase = "ended"   -> {"inputClosed"}
                    [] OTHER                     -> {"pending", "accepted", "undelivered"}
  <2>1. PICK o \in {"pending", "undelivered", "aborted", "inputClosed"} :
           sends' = Append(sends, Called(o)) /\ (o = Refusal \/ (Refusal = "none" /\ o = "pending"))
    BY DEF Send, Refusal
  <2>2. CASE sessionAborted
    <3>1. o = "aborted" /\ AbstractPhase = "aborted"
      BY <2>1, <2>2 DEF Refusal, AbstractPhase
    <3> QED BY <2>1, <3>1
  <2>3. CASE ~sessionAborted /\ ended
    <3>1. o = "inputClosed" /\ AbstractPhase = "ended"
      BY <2>1, <2>3 DEF Refusal, AbstractPhase
    <3> QED BY <2>1, <3>1
  <2>4. CASE ~sessionAborted /\ ~ended
    <3>1. o \in {"pending", "undelivered"} /\ AbstractPhase = "open"
      BY <2>1, <2>4 DEF Refusal, AbstractPhase
    <3> QED BY <2>1, <3>1
  <2> QED BY <2>2, <2>3, <2>4
<1>2. Sequences /\ Sequences'
  BY Images, PTL
<1>3. Called(o) \in SendRecord /\ Called(o).outcome = o
  <2>1. Known \in {Null} \cup Turns
    BY DEF Known, TypeOK
  <2> QED BY <2>1 DEF Called, SendRecord, TypeOK
<1>4. /\ Len(sends') = Len(sends) + 1 /\ sends'[Len(sends) + 1] = Called(o)
      /\ \A s \in 1..Len(sends) : sends'[s] = sends[s]
  BY <1>1, <1>3, Typed, AppendProperties
<1>5. /\ \A s \in 1..Len(sends) : Outcomes'[s] = Outcomes[s]
      /\ Outcomes'[Len(sends) + 1] = o
  <2>1. 1..Len(sends) \subseteq Sends' /\ Len(sends) + 1 \in Sends'
    BY <1>4, Typed DEF Sends
  <2> QED BY <1>2, <1>3, <1>4, <2>1 DEF Sequences, Sends
<1>6. Outcomes' = Append(Outcomes, o)
  BY <1>2, <1>4, <1>5, OneLonger DEF Sequences
<1> QED BY <1>1, <1>6

LEMMA SettleRefines ==
    ASSUME TypeOK, Flight, Resume \/ ClientDone
    PROVE  /\ DOMAIN Outcomes' = DOMAIN Outcomes
           /\ \A s \in DOMAIN Outcomes :
                 \/ Outcomes'[s] = Outcomes[s]
                 \/ Outcomes[s] = "pending" /\ Outcomes'[s] \in {"accepted", "undelivered"}
<1>1. CASE Resume
  <2>1. PICK k \in 1..Len(wire) :
           /\ FirstReply(k)
           /\ sends' = Settled({wire[k].send},
                               IF wire[k].kind = "response" THEN "accepted" ELSE "undelivered",
                               wire[k].turn)
    BY <1>1 DEF Resume
  <2>2. wire[k].turn \in {Null} \cup Turns
    BY Typed DEF Replies, Notes
  <2>3. PICK S : S = {wire[k].send}
    OBVIOUS
  <2>4. PICK o \in {"accepted", "undelivered"}, t \in {Null} \cup Turns : sends' = Settled(S, o, t)
    BY <2>1, <2>2, <2>3
  <2>5. \A s \in Sends : s = wire[k].send => sends[s].outcome = "pending"
    <3>1. Back(wire[k].send)
      BY <2>1 DEF Back, FirstReply
    <3> QED BY <3>1, PendingSends DEF Flight
  <2>6. Sends' = Sends /\ \A s \in Sends : sends'[s].outcome = IF s \in S THEN o ELSE sends[s].outcome
    BY <2>4, SettledSends, Zenon
  <2> QED BY <2>3, <2>5, <2>6 DEF Outcomes
<1>2. CASE ClientDone
  <2>1. PICK S : S = Unanswered /\ sends' = Settled(S, "undelivered", Null)
    BY <1>2 DEF ClientDone
  <2>2. /\ Sends' = Sends
        /\ \A s \in Sends : sends'[s].outcome = IF s \in S THEN "undelivered" ELSE sends[s].outcome
    BY <2>1, SettledSends
  <2> QED BY <2>1, <2>2 DEF Outcomes, Unanswered
<1> QED BY <1>1, <1>2

LEMMA PumpRefines ==
    ASSUME TypeOK, TypeOK', Pump
    PROVE  Kinds' = Append(Kinds, "started") \/ Kinds' = Kinds \o <<"completed", "turn-end">>
<1> DEFINE note == wire[1]
           n == Len(published)
<1>1. /\ note.kind \in {"started", "completed"} /\ n \in Nat
      /\ published'[n + 1] = [kind |-> note.kind, turn |-> note.turn]
      /\ \A i \in 1..n : published'[i] = published[i]
      /\ IF note.kind = "completed"
         THEN Len(published') = n + 2 /\ published'[n + 2] = EndOf(note.turn)
         ELSE Len(published') = n + 1
  BY PumpPublishes
<1>2. Sequences /\ Sequences'
  BY Images, PTL
<1>3. /\ \A i \in 1..n : Kinds'[i] = Kinds[i]
      /\ Kinds'[n + 1] = note.kind
      /\ note.kind = "completed" => Kinds'[n + 2] = "turn-end"
  <2>1. /\ 1..n \subseteq 1..Len(published') /\ n + 1 \in 1..Len(published')
        /\ note.kind = "completed" => n + 2 \in 1..Len(published')
    BY <1>1
  <2>2. \A i \in 1..n : Kinds'[i] = Kinds[i]
    BY <1>1, <1>2, <2>1 DEF Sequences
  <2>3. Kinds'[n + 1] = note.kind
    BY <1>1, <1>2, <2>1 DEF Sequences
  <2>4. note.kind = "completed" => Kinds'[n + 2] = "turn-end"
    <3>1. EndOf(note.turn).kind = "turn-end"
      BY DEF EndOf
    <3>2. note.kind = "completed" => Kinds'[n + 2] = published'[n + 2].kind
      BY <1>2, <2>1 DEF Sequences
    <3>3. note.kind = "completed" => published'[n + 2] = EndOf(note.turn)
      BY <1>1
    <3> QED BY <3>1, <3>2, <3>3
  <2> QED BY <2>2, <2>3, <2>4
<1>4. CASE note.kind = "started"
  <2>1. Kinds' = Append(Kinds, "started")
    BY <1>1, <1>2, <1>3, <1>4, OneLonger DEF Sequences
  <2> QED BY <2>1
<1>5. CASE note.kind = "completed"
  <2>1. Kinds' = Kinds \o <<"completed", "turn-end">>
    BY <1>1, <1>2, <1>3, <1>5, TwoLonger DEF Sequences
  <2> QED BY <2>1
<1> QED BY <1>1, <1>4, <1>5

LEMMA StepRefines ==
    CodexInd /\ CodexInd' /\ [Next]_vars => [Contract!Next]_Contract!contractVars
<1> SUFFICES ASSUME CodexInd, CodexInd', [Next]_vars
             PROVE  [Contract!Next]_Contract!contractVars
  OBVIOUS
<1> USE DEF Contract!Next, Contract!contractVars
<1>0. TypeOK /\ TypeOK' /\ Flight /\ Ends
  BY DEF CodexInd
<1>1. CASE Send
  <2>1. UNCHANGED <<sessionAborted, ended, published, pump, done>>
    BY <1>1 DEF Send, flagVars, endVars, streamVars
  <2>2. Contract!Send
    BY <1>0, <1>1, <2>1, SendRefines DEF Contract!Send, AbstractPhase, Outcomes
  <2> QED BY <2>2
<1>2. CASE Resume \/ ClientDone
  <2>1. UNCHANGED <<sessionAborted, ended, published, pump, done>>
    BY <1>2 DEF Resume, ClientDone, flagVars, endVars, streamVars
  <2>2. Contract!Settle
    BY <1>0, <1>2, <2>1, SettleRefines DEF Contract!Settle, Outcomes
  <2> QED BY <2>2
<1>3. CASE EndInput
  <2>1. ~ended /\ ~sessionAborted /\ ended' /\ UNCHANGED <<sessionAborted, sends, published, pump, done>>
    BY <1>0, <1>3 DEF EndInput, endVars, streamVars, Ends
  <2>2. Contract!EndInput
    BY <2>1 DEF Contract!EndInput, Sends
  <2> QED BY <2>2
<1>4. CASE Abort
  <2>1. ~sessionAborted /\ sessionAborted' /\ UNCHANGED <<sends, published, pump, done>>
    BY <1>4 DEF Abort, endVars, streamVars
  <2>2. Contract!Abort
    BY <2>1 DEF Contract!Abort, Sends
  <2> QED BY <2>2
<1>5. CASE Pump
  <2>1. pump = "running" /\ UNCHANGED <<sessionAborted, ended, sends, pump, done>>
    BY <1>5 DEF Pump, flagVars, endVars
  <2>2. Contract!Publish
    BY <1>0, <1>5, <2>1, PumpRefines DEF Contract!Publish, Kinds, Sends
  <2> QED BY <2>2
<1>6. CASE PumpThrows \/ PumpEnds
  <2>1. /\ pump = "running" /\ pump' # "running"
        /\ UNCHANGED <<sessionAborted, ended, sends, published, done>>
    BY <1>6 DEF PumpThrows, PumpEnds, flagVars, endVars
  <2>2. Contract!Complete
    BY <2>1 DEF Contract!Complete, Sends
  <2> QED BY <2>2
<1>7. CASE Done
  <2>1. /\ pump # "running" /\ done = "waiting" /\ done' \in {"resolved", "rejected"}
        /\ UNCHANGED <<sessionAborted, ended, sends, published, pump>>
    BY <1>7 DEF Done, flagVars, streamVars
  <2>2. CASE done' = "resolved"
    <3>1. Contract!Resolve
      BY <2>1, <2>2 DEF Contract!Resolve, Sends
    <3> QED BY <3>1
  <2>3. CASE done' = "rejected"
    BY <2>1, <2>3 DEF Sends
  <2> QED BY <2>1, <2>2, <2>3
<1>8. CASE UNCHANGED vars \/ Opening \/ SignalFires \/ Server \/ OpenThrows \/ NotesDrop
  <2>1. UNCHANGED <<sessionAborted, ended, sends, published, pump, done>>
    BY <1>8 DEF vars, Opening, OpenAnswered, OpenFails, SignalFires, Server, ServerTakes, ServerStarts,
                ServerCompletes, ChildExits, OpenThrows, NotesDrop, flagVars, endVars, streamVars
  <2> QED BY <2>1 DEF Sends
<1> QED BY <1>1, <1>2, <1>3, <1>4, <1>5, <1>6, <1>7, <1>8 DEF Next, Handle, Tasks

\* A Codex session is a RuntimeSession: its sends, events, endInput(), abort() and
\* `done` behave as runtime/session-types.ts promises of every adapter.
THEOREM SessionKeepsContract == Spec => ImplementsContract
BY InitRefines, StepRefines, IndHolds, PTL DEF Spec, ImplementsContract, Contract!Spec

=============================================================================
