-------------------------- MODULE AcpServicesProofs --------------------------
(***************************************************************************)
(* What the ACP client keeps for every number of requests and lines, and   *)
(* what its two users, the commands probe and the client's file system,    *)
(* keep over it.  Each promise is settled once and by its own response, no *)
(* notification is lost or reordered, and a front whose dispose() returned *)
(* is gone.  Each step of a user is a step of the client, or leaves the    *)
(* client alone.                                                           *)
(***************************************************************************)
EXTENDS AcpServices, TLAPS

-----------------------------------------------------------------------------
(* Sequences, and the settling of promises *)

\* Facts about sequences the steps below use.
LEMMA AppendProperties ==
    ASSUME NEW S, NEW s \in Seq(S), NEW e \in S
    PROVE  /\ Append(s, e) \in Seq(S)
           /\ Len(Append(s, e)) = Len(s) + 1
           /\ \A i \in 1..Len(s) : Append(s, e)[i] = s[i]
           /\ Append(s, e)[Len(s) + 1] = e
OBVIOUS

LEMMA TailProperties ==
    ASSUME NEW S, NEW s \in Seq(S), s # <<>>
    PROVE  Head(s) \in S /\ Tail(s) \in Seq(S)
OBVIOUS

LEMMA SequenceProperties ==
    ASSUME NEW S, NEW s \in Seq(S)
    PROVE  /\ Len(s) \in Nat
           /\ \A i \in 1..Len(s) : s[i] \in S
           /\ \A T : S \subseteq T => s \in Seq(T)
OBVIOUS

LEMMA FunctionIsSequence ==
    ASSUME NEW S, NEW n \in Nat, NEW f \in [1..n -> S]
    PROVE  f \in Seq(S) /\ Len(f) = n
OBVIOUS

\* A queue that takes at one end and gives at the other keeps what went through it.
LEMMA QueueProperties ==
    ASSUME NEW S, NEW out \in Seq(S), NEW in \in Seq(S), NEW e \in S
    PROVE  /\ Append(out \o in, e) = out \o Append(in, e)
           /\ Append(out \o <<>>, e) = Append(out, e) \o <<>>
           /\ in # <<>> => out \o in = Append(out, Head(in)) \o Tail(in)
<1>1. Append(out \o in, e) = out \o Append(in, e)
  OBVIOUS
<1>2. Append(out \o <<>>, e) = Append(out, e) \o <<>>
  OBVIOUS
<1>3. ASSUME in # <<>> PROVE out \o in = Append(out, Head(in)) \o Tail(in)
  BY <1>3
<1> QED BY <1>1, <1>2, <1>3

Answer == {"waiting", "rejected", "refused"} \cup Outcome

\* Settling promises answers the given ones that wait and leaves the others.
LEMMA SettleProperties ==
    ASSUME NEW S, NEW a \in Answer, answer \in Seq(Answer), Settle(S, a)
    PROVE  /\ answer' \in Seq(Answer)
           /\ Len(answer') = Len(answer)
           /\ Requests' = Requests
           /\ \A id \in Requests : answer'[id] =
                 IF id \in S /\ answer[id] = "waiting" THEN a ELSE answer[id]
<1> DEFINE new(id) == IF id \in S /\ answer[id] = "waiting" THEN a ELSE answer[id]
<1>1. answer' = [id \in 1..Len(answer) |-> new(id)]
  BY DEF Settle, Requests
<1>2. \A id \in 1..Len(answer) : new(id) \in Answer
  BY SequenceProperties
<1> HIDE DEF new
<1>3. answer' \in [1..Len(answer) -> Answer]
  BY <1>1, <1>2
<1>4. answer' \in Seq(Answer) /\ Len(answer') = Len(answer)
  BY <1>3, FunctionIsSequence, SequenceProperties
<1>5. \A id \in Requests : answer'[id] = new(id)
  BY <1>1 DEF Requests
<1> QED BY <1>4, <1>5 DEF new, Requests

-----------------------------------------------------------------------------
(* The invariant *)

\* Whoever waits for a notification finds none stored and the loop not closed.
WaiterIdle == consumer = "waiting" => queued = <<>> /\ ~closed

\* dispose() goes through its waits behind the flag, and beyond the exit only when
\* the front is gone.
DisposalOrder ==
    /\ disposed <=> disposer # "none"
    /\ disposer \in {"draining", "returned"} => child = "exited" /\ ~registered

\* The ids of the requests stay within their bound.
Bounded == Len(answer) <= MaxRequest

ClientInd == ClientInv /\ Bounded /\ WaiterIdle /\ DisposalOrder

LEMMA InitClientInd == Init => ClientInd
<1> SUFFICES ASSUME Init PROVE ClientInd
  OBVIOUS
<1>1. \A S : <<>> \in Seq(S)
  OBVIOUS
<1>2. Requests = {}
  BY DEF Init, Requests
<1>3. TypeOK
  <2>1. {killed, registered, closed, exitSeen, disposed} \subseteq BOOLEAN
    BY DEF Init
  <2>2. read \in 0..Len(sent) /\ writing \in Seq({Other} \cup Requests) /\ sent \in Seq(Line)
    BY <1>1 DEF Init
  <2>3. {received, queued, delivered} \subseteq Seq(1..read)
    BY <1>1 DEF Init
  <2>4. answer \in Seq({"waiting", "rejected", "refused"} \cup Outcome)
    BY <1>1 DEF Init
  <2> QED BY <2>1, <2>2, <2>3, <2>4 DEF Init, TypeOK
<1>4. PendingIsWaiting /\ AnswersMatch
  BY <1>2 DEF Init, PendingIsWaiting, AnswersMatch
<1>5. NotesInOrder /\ DisposedIsGone /\ WaiterIdle /\ DisposalOrder
  <2>1. <<>> = <<>> \o <<>>
    OBVIOUS
  <2> QED BY <2>1 DEF Init, NotesInOrder, DisposedIsGone, WaiterIdle, DisposalOrder
<1>6. Bounded
  BY ClientAssumption DEF Init, Bounded
<1> QED BY <1>3, <1>4, <1>5, <1>6 DEF ClientInd, ClientInv

-----------------------------------------------------------------------------
(* Type correctness *)

\* More requests, lines and lines read leave what refers to them in its type.
LEMMA Growth ==
    ASSUME TypeOK, answer' \in Seq(Answer), Len(answer') >= Len(answer),
           sent' \in Seq(Line), Len(sent') >= Len(sent), read' \in Nat, read' >= read
    PROVE  /\ Requests \subseteq Requests'
           /\ writing \in Seq({Other} \cup Requests')
           /\ held \subseteq Requests' /\ pending \subseteq Requests'
           /\ read \in 0..Len(sent') /\ read \in Nat
           /\ handling \subseteq 1..read'
           /\ {received, queued, delivered} \subseteq Seq(1..read')
<1>1. Len(answer) \in Nat /\ Len(answer') \in Nat /\ Len(sent) \in Nat /\ Len(sent') \in Nat
  BY SequenceProperties DEF TypeOK, Answer
<1>2. read \in Nat /\ read \in 0..Len(sent')
  BY <1>1 DEF TypeOK
<1>3. Requests \subseteq Requests'
  BY <1>1 DEF Requests
<1>4. 1..read \subseteq 1..read'
  BY <1>2
<1>5. writing \in Seq({Other} \cup Requests')
  BY <1>3, SequenceProperties DEF TypeOK
<1>6. {received, queued, delivered} \subseteq Seq(1..read')
  BY <1>4, SequenceProperties DEF TypeOK
<1> QED BY <1>2, <1>3, <1>4, <1>5, <1>6 DEF TypeOK

LEMMA CallsTyped == TypeOK /\ Calls => TypeOK'
<1> SUFFICES ASSUME TypeOK, Calls PROVE TypeOK'
  OBVIOUS
<1> USE DEF childVars, pipeVars, callVars, noteVars, stopVars
<1>1. CASE Request
  <2> answer \in Seq(Answer)
    BY DEF TypeOK, Answer
  <2>0. PICK a \in Answer : answer' = Append(answer, a)
    BY <1>1 DEF Request, Answer
  <2>1. answer' \in Seq(Answer) /\ Len(answer') = Len(answer) + 1 /\ Len(answer) \in Nat
    BY <2>0, AppendProperties, SequenceProperties
  <2>2. Len(answer) + 1 \in Requests'
    BY <2>1 DEF Requests
  <2>3. /\ Requests \subseteq Requests' /\ writing \in Seq({Other} \cup Requests')
        /\ held \subseteq Requests' /\ pending \subseteq Requests'
    BY <1>1, <2>1, Growth, SequenceProperties DEF Request, TypeOK
  <2>4. writing' \in Seq({Other} \cup Requests') /\ pending' \subseteq Requests'
    <3>1. CASE UNCHANGED <<pending, writing>>
      BY <2>3, <3>1
    <3>2. CASE /\ pending' = pending \cup {Len(answer) + 1}
               /\ writing' = Append(writing, Len(answer) + 1)
      <4>1. Append(writing, Len(answer) + 1) \in Seq({Other} \cup Requests')
        BY <2>2, <2>3, AppendProperties
      <4> QED BY <2>2, <2>3, <3>2, <4>1
    <3> QED BY <1>1, <3>1, <3>2 DEF Request
  <2> QED BY <1>1, <2>1, <2>3, <2>4 DEF Request, TypeOK, Answer
<1>2. CASE Notify
  <2>1. writing' \in Seq({Other} \cup Requests)
    BY <1>2, AppendProperties DEF Notify, TypeOK
  <2> QED BY <1>2, <2>1 DEF Notify, TypeOK, Requests
<1>3. CASE Dispose
  BY <1>3 DEF Dispose, TypeOK, Requests
<1>4. CASE HandlerSettles
  <2>1. PICK k \in handling : Reply(k)
    BY <1>4 DEF HandlerSettles
  <2>2. writing' \in Seq({Other} \cup Requests)
    BY <2>1, AppendProperties DEF Reply, TypeOK
  <2> QED BY <2>1, <2>2 DEF Reply, TypeOK, Requests
<1> QED BY <1>1, <1>2, <1>3, <1>4 DEF Calls

\* Settling leaves the types that depend on the number of requests.
LEMMA SettleTyped ==
    ASSUME TypeOK, NEW S, NEW a \in Answer, Settle(S, a)
    PROVE  answer' \in Seq(Answer) /\ Requests' = Requests
BY SettleProperties DEF TypeOK, Answer

LEMMA DropTyped ==
    ASSUME TypeOK, NEW S, Drop(S)
    PROVE  /\ answer' \in Seq(Answer) /\ Requests' = Requests
           /\ writing' \in Seq({Other} \cup Requests) /\ pending' \subseteq Requests
<1>1. Settle(S, "rejected") /\ writing' = <<>> /\ pending' = pending \ S
  BY DEF Drop
<1>2. "rejected" \in Answer
  BY DEF Answer
<1>3. answer' \in Seq(Answer) /\ Requests' = Requests
  BY <1>1, <1>2, SettleTyped
<1> QED BY <1>1, <1>3 DEF TypeOK

LEMMA FrontTyped == TypeOK /\ Bounded /\ Front => TypeOK'
<1> SUFFICES ASSUME TypeOK, Bounded, Front PROVE TypeOK'
  OBVIOUS
<1> USE DEF childVars, pipeVars, callVars, noteVars, stopVars
<1>1. CASE Flush
  <2>1. Head(writing) \in {Other} \cup Requests /\ Tail(writing) \in Seq({Other} \cup Requests)
    BY <1>1, TailProperties DEF Flush, TypeOK
  <2> QED BY <1>1, <2>1 DEF Flush, TypeOK, Requests
<1>2. ASSUME NEW line \in Line, FrontWrites(line), held' \subseteq held PROVE TypeOK'
  <2>1. sent' \in Seq(Line) /\ Len(sent') = Len(sent) + 1 /\ Len(sent) \in Nat
    BY <1>2, AppendProperties, SequenceProperties DEF FrontWrites, TypeOK
  <2>2. read \in 0..Len(sent')
    BY <2>1 DEF TypeOK
  <2> QED BY <1>2, <2>1, <2>2 DEF FrontWrites, TypeOK, Requests
<1>3. CASE FrontAnswers
  <2>1. PICK id \in held, outcome \in Outcome :
          /\ FrontWrites([kind |-> "response", id |-> id, outcome |-> outcome])
          /\ held' = held \ {id}
    BY <1>3 DEF FrontAnswers
  <2>2. id \in 1..MaxRequest
    BY <2>1, ClientAssumption, SequenceProperties DEF TypeOK, Bounded, Requests
  <2>3. [kind |-> "response", id |-> id, outcome |-> outcome] \in Line
    BY <2>2 DEF Line, Response
  <2> QED BY <1>2, <2>1, <2>3
<1>4. CASE FrontSpeaks
  <2>1. PICK k \in {"ask"} \cup Notes \cup Junk : FrontWrites([kind |-> k])
    BY <1>4 DEF FrontSpeaks
  <2>2. [kind |-> k] \in Line
    BY DEF Line
  <2> QED BY <1>2, <1>4, <2>1, <2>2 DEF FrontSpeaks
<1>5. CASE FrontExits
  BY <1>5 DEF FrontExits, TypeOK, Requests
<1>6. CASE FlushLast
  <2>1. Head(writing) \in {Other} \cup Requests /\ Drop(Unstarted)
    BY <1>6, TailProperties DEF FlushLast, TypeOK
  <2>2. /\ answer' \in Seq(Answer) /\ Requests' = Requests
        /\ writing' \in Seq({Other} \cup Requests) /\ pending' \subseteq Requests
    BY <2>1, DropTyped
  <2>3. held' \subseteq Requests
    BY <1>6, <2>1 DEF FlushLast, TypeOK
  <2> QED BY <1>6, <2>2, <2>3 DEF FlushLast, TypeOK, Answer
<1> QED BY <1>1, <1>3, <1>4, <1>5, <1>6 DEF Front

\* A line is read, whatever it is.
LEMMA ReadLineTyped == TypeOK /\ ReadLine => TypeOK'
<1> SUFFICES ASSUME TypeOK, ReadLine PROVE TypeOK'
  OBVIOUS
<1> DEFINE line == sent[read + 1]
<1> USE DEF childVars, pipeVars, callVars, noteVars, stopVars
<1>1. /\ pump = "reading" /\ read' = read + 1 /\ read + 1 \in 1..Len(sent) /\ read \in Nat
      /\ UNCHANGED <<childVars, pipeVars, exitSeen, stopVars>>
      /\ HandleResponse(line) \/ HandleAsk(line) \/ HandleNote(line) \/ HandleJunk(line)
  BY SequenceProperties DEF ReadLine, TypeOK
<1>2. line \in Line
  BY <1>1, SequenceProperties DEF TypeOK
<1>3. {received, queued, delivered} \subseteq Seq(1..read')
  BY <1>1, SequenceProperties DEF TypeOK
<1>4. /\ handling \subseteq 1..read' /\ read + 1 \in 1..read'
      /\ read' \in 0..Len(sent')
  BY <1>1 DEF TypeOK
<1> HIDE DEF line
<1>5. CASE HandleResponse(line)
  <2>1. line.outcome \in Answer
    BY <1>2, <1>5, ClientAssumption DEF HandleResponse, Line, Response, Notes, Answer
  <2>2. answer' \in Seq(Answer) /\ Requests' = Requests
    BY <1>5, <2>1, SettleTyped DEF HandleResponse
  <2> QED BY <1>1, <1>3, <1>4, <1>5, <2>2 DEF HandleResponse, TypeOK, Answer
<1>6. CASE HandleAsk(line)
  BY <1>1, <1>3, <1>4, <1>6 DEF HandleAsk, TypeOK, Requests
<1>7. CASE HandleNote(line)
  <2>1. {received', queued', delivered'} \subseteq Seq(1..read')
    <3> DEFINE S == 1..read'
    <3>1. /\ received \in Seq(S) /\ queued \in Seq(S) /\ delivered \in Seq(S) /\ read + 1 \in S
      BY <1>3, <1>4
    <3> HIDE DEF S
    <3>2. /\ Append(received, read + 1) \in Seq(S) /\ Append(queued, read + 1) \in Seq(S)
          /\ Append(delivered, read + 1) \in Seq(S)
      BY <3>1, AppendProperties
    <3>3. received' \in Seq(S) /\ queued' \in Seq(S) /\ delivered' \in Seq(S)
      BY <1>7, <3>1, <3>2 DEF HandleNote
    <3> QED BY <3>3 DEF S
  <2> QED BY <1>1, <1>3, <1>4, <1>7, <2>1 DEF HandleNote, TypeOK, Requests
<1>8. CASE HandleJunk(line)
  BY <1>1, <1>3, <1>4, <1>8 DEF HandleJunk, TypeOK, Requests
<1> QED BY <1>1, <1>5, <1>6, <1>7, <1>8

LEMMA TasksTyped == TypeOK /\ Tasks => TypeOK'
<1> SUFFICES ASSUME TypeOK, Tasks PROVE TypeOK'
  OBVIOUS
<1> USE DEF childVars, pipeVars, callVars, noteVars, stopVars
<1>1. CASE WriteFails
  BY <1>1, DropTyped DEF WriteFails, DropWriting, TypeOK, Requests, Answer
<1>2. CASE ReadLine
  BY <1>2, ReadLineTyped
<1>3. CASE PumpEnds
  BY <1>3 DEF PumpEnds, TypeOK, Requests
<1>4. CASE ExitSeen
  <2>1. "rejected" \in Answer
    BY DEF Answer
  <2>2. answer' \in Seq(Answer) /\ Requests' = Requests
    BY <1>4, <2>1, SettleTyped DEF ExitSeen
  <2> QED BY <1>4, <2>2 DEF ExitSeen, CloseNotifications, TypeOK, Answer
<1> QED BY <1>1, <1>2, <1>3, <1>4 DEF Tasks

LEMMA DisposalTyped == TypeOK /\ Disposal => TypeOK'
<1> SUFFICES ASSUME TypeOK, Disposal PROVE TypeOK'
  OBVIOUS
<1> USE DEF childVars, pipeVars, callVars, noteVars, stopVars
<1>1. CASE WriterAborts
  BY <1>1 DEF WriterAborts, TypeOK, Requests
<1>2. CASE WriterCloses
  BY <1>2 DEF WriterCloses, TypeOK, Requests
<1>3. CASE GraceEnds
  BY <1>3 DEF GraceEnds, TypeOK, Requests
<1>4. CASE FrontGone
  BY <1>4 DEF FrontGone, TypeOK, Requests
<1>5. CASE DisposeReturns
  BY <1>5 DEF DisposeReturns, CloseNotifications, TypeOK, Requests
<1> QED BY <1>1, <1>2, <1>3, <1>4, <1>5 DEF Disposal

LEMMA ConsumerTyped == TypeOK /\ Consumer => TypeOK'
<1> SUFFICES ASSUME TypeOK, Consumer PROVE TypeOK'
  OBVIOUS
<1> USE DEF childVars, pipeVars, callVars, noteVars, stopVars
<1>1. CASE ConsumerNext
  <2>1. {received', queued', delivered'} \subseteq Seq(1..read)
    <3>1. CASE queued # <<>>
      <4> DEFINE S == 1..read
      <4>1. received \in Seq(S) /\ queued \in Seq(S) /\ delivered \in Seq(S)
        BY DEF TypeOK
      <4> HIDE DEF S
      <4>2. /\ received' = received /\ queued' = Tail(queued)
            /\ delivered' = Append(delivered, Head(queued))
        BY <1>1, <3>1 DEF ConsumerNext
      <4>3. Head(queued) \in S /\ Tail(queued) \in Seq(S)
        BY <3>1, <4>1, TailProperties
      <4>4. Append(delivered, Head(queued)) \in Seq(S)
        BY <4>1, <4>3, AppendProperties
      <4> QED BY <4>1, <4>2, <4>3, <4>4 DEF S
    <3>2. CASE queued = <<>>
      BY <1>1, <3>2 DEF ConsumerNext, TypeOK
    <3> QED BY <3>1, <3>2
  <2> QED BY <1>1, <2>1 DEF ConsumerNext, TypeOK, Requests
<1>2. CASE ConsumerLeaves
  BY <1>2 DEF ConsumerLeaves, CloseNotifications, TypeOK, Requests
<1> QED BY <1>1, <1>2 DEF Consumer

LEMMA TypeStep == TypeOK /\ Bounded /\ [Next]_vars => TypeOK'
<1>1. ASSUME TypeOK, UNCHANGED vars PROVE TypeOK'
  BY <1>1 DEF vars, childVars, pipeVars, callVars, noteVars, stopVars, TypeOK, Requests
<1> QED BY <1>1, CallsTyped, FrontTyped, TasksTyped, DisposalTyped, ConsumerTyped DEF Next

-----------------------------------------------------------------------------
(* Promises *)

Promises == Bounded /\ PendingIsWaiting /\ AnswersMatch

\* Answers that are kept stay matched while more lines are read.
LEMMA AnswersKept ==
    ASSUME TypeOK, AnswersMatch, read' \in Nat, read' >= read,
           \A k \in 1..read : sent'[k] = sent[k],
           \A id \in Requests' : answer'[id] \in Outcome => id \in Requests /\ answer'[id] = answer[id]
    PROVE  AnswersMatch'
<1> SUFFICES ASSUME NEW id \in Requests', answer'[id] \in Outcome
             PROVE  \E k \in 1..read' : /\ IsResponse(sent'[k]) /\ sent'[k].id = id
                                        /\ sent'[k].outcome = answer'[id]
  BY DEF AnswersMatch, IsResponse
<1>1. PICK k \in 1..read : IsResponse(sent[k]) /\ sent[k].id = id /\ sent[k].outcome = answer[id]
  BY DEF AnswersMatch
<1>2. k \in 1..read' /\ sent'[k] = sent[k]
  BY SequenceProperties DEF TypeOK
<1> QED BY <1>1, <1>2 DEF IsResponse

\* Promises settled by no response, and those that are left alone.
LEMMA SettlePromises ==
    ASSUME TypeOK, Promises, NEW S, NEW a \in {"rejected", "refused"}, Settle(S, a),
           pending' = pending \ S, read' = read, sent' = sent
    PROVE  Promises'
<1>1. a \in Answer /\ a # "waiting" /\ a \notin Outcome
  BY DEF Answer, Outcome
<1>2. answer \in Seq(Answer) /\ read \in Nat
  BY SequenceProperties DEF TypeOK, Answer
<1>3. /\ Len(answer') = Len(answer) /\ Requests' = Requests
      /\ \A id \in Requests : answer'[id] = IF id \in S /\ answer[id] = "waiting" THEN a ELSE answer[id]
  BY <1>1, <1>2, SettleProperties
<1>4. PendingIsWaiting'
  BY <1>1, <1>3 DEF Promises, PendingIsWaiting
<1>5. AnswersMatch'
  BY <1>1, <1>2, <1>3, AnswersKept DEF Promises
<1> QED BY <1>3, <1>4, <1>5 DEF Promises, Bounded

LEMMA PromisesKept ==
    ASSUME TypeOK, Promises, UNCHANGED callVars, read' \in Nat, read' >= read,
           \A k \in 1..read : sent'[k] = sent[k]
    PROVE  Promises'
<1>1. Requests' = Requests /\ answer' = answer /\ pending' = pending
  BY DEF callVars, Requests
<1>2. AnswersMatch'
  BY <1>1, AnswersKept DEF Promises
<1> QED BY <1>1, <1>2 DEF Promises, Bounded, PendingIsWaiting

LEMMA DropPromises ==
    ASSUME TypeOK, Promises, NEW S, Drop(S), read' = read, sent' = sent
    PROVE  Promises'
BY SettlePromises DEF Drop

LEMMA RequestPromises ==
    ASSUME TypeOK, Promises, Request
    PROVE  Promises'
<1> USE DEF childVars, pipeVars, callVars, noteVars, stopVars
<1>1. answer \in Seq(Answer) /\ read \in Nat
  BY SequenceProperties DEF TypeOK, Answer
<1>2. PICK a \in {"refused", "waiting"} :
        /\ answer' = Append(answer, a)
        /\ pending' = IF a = "waiting" THEN pending \cup {Len(answer) + 1} ELSE pending
  BY DEF Request
<1>3. /\ Len(answer') = Len(answer) + 1 /\ Len(answer) \in Nat
      /\ \A id \in 1..Len(answer) : answer'[id] = answer[id]
      /\ answer'[Len(answer) + 1] = a
  <2>1. a \in Answer
    BY DEF Answer
  <2> QED BY <1>1, <1>2, <2>1, AppendProperties, SequenceProperties
<1>4. Requests' = Requests \cup {Len(answer) + 1} /\ Len(answer) + 1 \notin Requests
  BY <1>3 DEF Requests
<1>5. PendingIsWaiting'
  BY <1>2, <1>3, <1>4 DEF Promises, PendingIsWaiting, Requests
<1>6. AnswersMatch'
  <2>1. read' = read /\ sent' = sent
    BY DEF Request
  <2>2. \A id \in Requests' : answer'[id] \in Outcome => id \in Requests /\ answer'[id] = answer[id]
    BY <1>3, <1>4 DEF Outcome, Requests
  <2> QED BY <1>1, <2>1, <2>2, AnswersKept DEF Promises
<1>7. Bounded'
  BY <1>3, ClientAssumption DEF Bounded, Request
<1> QED BY <1>5, <1>6, <1>7 DEF Promises

\* A response settles the request of its id and no other.
LEMMA ResponsePromises ==
    ASSUME TypeOK, Promises, ReadLine, HandleResponse(sent[read + 1])
    PROVE  Promises'
<1> DEFINE line == sent[read + 1]
<1> USE DEF childVars, pipeVars, callVars, noteVars, stopVars
<1>1. /\ read' = read + 1 /\ read \in Nat /\ read + 1 \in 1..Len(sent) /\ sent' = sent
      /\ line \in Line /\ answer \in Seq(Answer)
  BY SequenceProperties DEF ReadLine, TypeOK, Answer
<1>2. line.kind = "response" /\ Settle({line.id} \cap pending, line.outcome) /\ pending' = pending \ {line.id}
  BY DEF HandleResponse
<1>3. line.outcome \in Outcome
  BY <1>1, <1>2, ClientAssumption DEF Line, Response, Notes
<1> HIDE DEF line
<1>4. line.outcome \in Answer /\ line.outcome # "waiting"
  BY <1>3 DEF Answer, Outcome
<1>5. /\ Len(answer') = Len(answer) /\ Requests' = Requests
      /\ \A id \in Requests : answer'[id] =
            IF id \in {line.id} \cap pending /\ answer[id] = "waiting" THEN line.outcome ELSE answer[id]
  BY <1>1, <1>2, <1>4, SettleProperties
<1>6. PendingIsWaiting'
  BY <1>2, <1>4, <1>5 DEF Promises, PendingIsWaiting
<1>7. AnswersMatch'
  <2> SUFFICES ASSUME NEW id \in Requests, answer'[id] \in Outcome
               PROVE  \E k \in 1..(read + 1) : /\ IsResponse(sent[k]) /\ sent[k].id = id
                                              /\ sent[k].outcome = answer'[id]
    BY <1>1, <1>5 DEF AnswersMatch, IsResponse
  <2>1. CASE answer'[id] = answer[id]
    <3>1. PICK k \in 1..read : IsResponse(sent[k]) /\ sent[k].id = id /\ sent[k].outcome = answer[id]
      BY <2>1 DEF Promises, AnswersMatch
    <3>2. k \in 1..(read + 1)
      BY <1>1
    <3> QED BY <2>1, <3>1, <3>2
  <2>2. CASE answer'[id] # answer[id]
    <3>1. line.id = id /\ answer'[id] = line.outcome
      BY <1>5, <2>2
    <3>2. read + 1 \in 1..(read + 1) /\ IsResponse(line)
      BY <1>1, <1>2 DEF IsResponse
    <3> QED BY <3>1, <3>2 DEF line
  <2> QED BY <2>1, <2>2
<1> QED BY <1>5, <1>6, <1>7 DEF Promises, Bounded

LEMMA PromisesStep == TypeOK /\ Promises /\ [Next]_vars => Promises'
<1> SUFFICES ASSUME TypeOK, Promises, [Next]_vars PROVE Promises'
  OBVIOUS
<1> USE DEF childVars, pipeVars, noteVars, stopVars
<1>1. read \in Nat /\ Len(sent) \in Nat /\ read <= Len(sent)
  BY SequenceProperties DEF TypeOK
<1>2. ASSUME UNCHANGED callVars, read' = read, sent' = sent PROVE Promises'
  BY <1>1, <1>2, PromisesKept
<1>3. CASE Request
  BY <1>3, RequestPromises
<1>4. CASE Notify \/ Dispose \/ HandlerSettles
  BY <1>2, <1>4 DEF Notify, Dispose, HandlerSettles, Reply
<1>5. CASE Flush \/ FrontExits
  BY <1>2, <1>5 DEF Flush, FrontExits
<1>6. CASE FrontAnswers \/ FrontSpeaks
  <2>1. PICK line \in Line : FrontWrites(line)
    <3>1. CASE FrontSpeaks
      BY <3>1 DEF FrontSpeaks, Line
    <3>2. CASE FrontAnswers
      <4>1. PICK id \in held, outcome \in Outcome :
              FrontWrites([kind |-> "response", id |-> id, outcome |-> outcome])
        BY <3>2 DEF FrontAnswers
      <4>2. id \in 1..MaxRequest
        BY ClientAssumption, SequenceProperties DEF TypeOK, Promises, Bounded, Requests
      <4>3. [kind |-> "response", id |-> id, outcome |-> outcome] \in Line
        BY <4>2 DEF Line, Response
      <4> QED BY <4>1, <4>3
    <3> QED BY <1>6, <3>1, <3>2
  <2>2. \A k \in 1..read : sent'[k] = sent[k]
    BY <1>1, <2>1, AppendProperties DEF FrontWrites, TypeOK
  <2> QED BY <1>1, <2>1, <2>2, PromisesKept DEF FrontWrites
<1>7. CASE WriteFails
  BY <1>7, DropPromises DEF WriteFails, DropWriting
<1>8. CASE ReadLine
  <2>1. read' = read + 1 /\ sent' = sent
    BY <1>8 DEF ReadLine
  <2>2. CASE HandleResponse(sent[read + 1])
    BY <1>8, <2>2, ResponsePromises
  <2>3. CASE UNCHANGED callVars
    BY <1>1, <2>1, <2>3, PromisesKept
  <2> QED BY <1>8, <2>2, <2>3 DEF ReadLine, HandleAsk, HandleNote, HandleJunk
<1>9. CASE ExitSeen
  <2>1. Settle(pending, "rejected") /\ pending' = pending \ pending /\ read' = read /\ sent' = sent
    BY <1>9 DEF ExitSeen
  <2> QED BY <2>1, SettlePromises
<1>10. CASE PumpEnds
  BY <1>2, <1>10 DEF PumpEnds
<1>11. CASE FlushLast
  BY <1>11, DropPromises DEF FlushLast
<1>12. CASE WriterAborts \/ WriterCloses \/ GraceEnds \/ FrontGone \/ DisposeReturns
  BY <1>2, <1>12 DEF WriterAborts, WriterCloses, GraceEnds, FrontGone, DisposeReturns
<1>13. CASE Consumer
  BY <1>2, <1>13 DEF Consumer, ConsumerNext, ConsumerLeaves
<1>14. CASE UNCHANGED vars
  BY <1>2, <1>14 DEF vars
<1> QED BY <1>3, <1>4, <1>5, <1>6, <1>7, <1>8, <1>9, <1>10, <1>11, <1>12, <1>13, <1>14
        DEF Next, Calls, Front, Tasks, Disposal

-----------------------------------------------------------------------------
(* Notifications *)

LEMMA NotesStep == TypeOK /\ NotesInOrder /\ WaiterIdle /\ [Next]_vars => NotesInOrder' /\ WaiterIdle'
<1> SUFFICES ASSUME TypeOK, NotesInOrder, WaiterIdle, [Next]_vars
             PROVE  NotesInOrder' /\ WaiterIdle'
  OBVIOUS
<1> USE DEF childVars, pipeVars, callVars, stopVars
<1> DEFINE S == 1..(read + 1)
<1>1. delivered \in Seq(S) /\ queued \in Seq(S)
  BY SequenceProperties DEF TypeOK
<1> HIDE DEF S
<1>2. ASSUME UNCHANGED noteVars PROVE NotesInOrder' /\ WaiterIdle'
  BY <1>2 DEF noteVars, NotesInOrder, WaiterIdle
<1>3. ASSUME CloseNotifications PROVE NotesInOrder' /\ WaiterIdle'
  BY <1>3 DEF CloseNotifications, NotesInOrder, WaiterIdle, TypeOK
<1>4. CASE ConsumerNext
  <2>1. CASE queued # <<>>
    <3>1. delivered \o queued = Append(delivered, Head(queued)) \o Tail(queued)
      BY <1>1, <2>1, QueueProperties, TailProperties
    <3> QED BY <1>4, <2>1, <3>1 DEF ConsumerNext, NotesInOrder, WaiterIdle
  <2>2. CASE queued = <<>>
    BY <1>4, <2>2 DEF ConsumerNext, NotesInOrder, WaiterIdle
  <2> QED BY <2>1, <2>2
<1>5. CASE ReadLine
  <2>1. ASSUME HandleNote(sent[read + 1]) PROVE NotesInOrder' /\ WaiterIdle'
    <3>1. read + 1 \in S
      BY SequenceProperties DEF TypeOK, S
    <3>2. received' = Append(delivered \o queued, read + 1) /\ closed' = closed
      BY <2>1 DEF HandleNote, NotesInOrder
    <3>3. CASE consumer = "waiting"
      <4>1. queued = <<>> /\ delivered' = Append(delivered, read + 1) /\ queued' = <<>> /\ consumer' = "ready"
        BY <2>1, <3>3 DEF HandleNote, WaiterIdle
      <4>2. Append(delivered \o <<>>, read + 1) = Append(delivered, read + 1) \o <<>>
        BY <1>1, <3>1, QueueProperties
      <4> QED BY <3>2, <4>1, <4>2 DEF NotesInOrder, WaiterIdle
    <3>4. CASE consumer # "waiting"
      <4>1. delivered' = delivered /\ queued' = Append(queued, read + 1) /\ consumer' = consumer
        BY <2>1, <3>4 DEF HandleNote
      <4>2. Append(delivered \o queued, read + 1) = delivered \o Append(queued, read + 1)
        BY <1>1, <3>1, QueueProperties
      <4> QED BY <3>2, <3>4, <4>1, <4>2 DEF NotesInOrder, WaiterIdle
    <3> QED BY <3>3, <3>4
  <2> QED BY <1>2, <1>5, <2>1 DEF ReadLine, HandleResponse, HandleAsk, HandleJunk
<1>6. CASE Calls
  BY <1>2, <1>6 DEF Calls, Request, Notify, Dispose, HandlerSettles, Reply
<1>7. CASE Front
  BY <1>2, <1>7 DEF Front, Flush, FlushLast, FrontAnswers, FrontSpeaks, FrontWrites, FrontExits
<1>8. CASE WriteFails \/ PumpEnds
  BY <1>2, <1>8 DEF WriteFails, PumpEnds
<1>9. CASE WriterAborts \/ WriterCloses \/ GraceEnds \/ FrontGone
  BY <1>2, <1>9 DEF WriterAborts, WriterCloses, GraceEnds, FrontGone
<1>10. CASE ExitSeen \/ DisposeReturns \/ ConsumerLeaves
  BY <1>3, <1>10 DEF ExitSeen, DisposeReturns, ConsumerLeaves
<1>11. CASE UNCHANGED vars
  BY <1>2, <1>11 DEF vars
<1> QED BY <1>4, <1>5, <1>6, <1>7, <1>8, <1>9, <1>10, <1>11 DEF Next, Tasks, Disposal, Consumer

-----------------------------------------------------------------------------
(* dispose() *)

Disposed == DisposedIsGone /\ DisposalOrder

LEMMA DisposedStep == TypeOK /\ Disposed /\ [Next]_vars => Disposed'
<1> SUFFICES ASSUME TypeOK, Disposed, [Next]_vars PROVE Disposed'
  OBVIOUS
<1> USE DEF childVars, pipeVars, callVars, Disposed, DisposedIsGone, DisposalOrder
<1>1. ASSUME UNCHANGED <<child, stopVars, closed>> PROVE Disposed'
  BY <1>1 DEF stopVars
<1>2. CASE Request \/ Notify \/ HandlerSettles
  BY <1>1, <1>2 DEF Request, Notify, HandlerSettles, Reply, noteVars
<1>3. CASE Dispose
  BY <1>3 DEF Dispose, noteVars
<1>4. CASE Flush \/ FlushLast \/ FrontAnswers \/ FrontSpeaks
  BY <1>1, <1>4 DEF Flush, FlushLast, FrontAnswers, FrontSpeaks, FrontWrites, noteVars
<1>5. CASE FrontExits
  BY <1>5 DEF FrontExits, stopVars, noteVars
<1>6. CASE WriteFails \/ PumpEnds
  BY <1>1, <1>6 DEF WriteFails, PumpEnds, noteVars
<1>7. CASE ReadLine
  <2>1. UNCHANGED <<childVars, stopVars>> /\ closed' = closed
    BY <1>7 DEF ReadLine, HandleResponse, HandleAsk, HandleNote, HandleJunk, noteVars
  <2> QED BY <1>1, <2>1
<1>8. CASE ExitSeen \/ ConsumerLeaves
  BY <1>8 DEF ExitSeen, ConsumerLeaves, CloseNotifications, stopVars
<1>9. CASE WriterAborts \/ WriterCloses \/ GraceEnds
  BY <1>9 DEF WriterAborts, WriterCloses, GraceEnds, noteVars
<1>10. CASE FrontGone
  BY <1>10 DEF FrontGone, Gone, noteVars
<1>11. CASE DisposeReturns
  BY <1>11 DEF DisposeReturns, CloseNotifications
<1>12. CASE ConsumerNext
  BY <1>1, <1>12 DEF ConsumerNext
<1>13. CASE UNCHANGED vars
  BY <1>1, <1>13 DEF vars, noteVars
<1> QED BY <1>2, <1>3, <1>4, <1>5, <1>6, <1>7, <1>8, <1>9, <1>10, <1>11, <1>12, <1>13
        DEF Next, Calls, Front, Tasks, Disposal, Consumer

-----------------------------------------------------------------------------

LEMMA ClientIndStep == ClientInd /\ [Next]_vars => ClientInd'
BY TypeStep, PromisesStep, NotesStep, DisposedStep DEF ClientInd, ClientInv, Promises, Disposed

\* Whatever the front writes, and whichever of a response, a failed write, the exit and
\* dispose() comes first, each promise is settled once and by its own response, the
\* notifications keep their order, and behind dispose() the front is gone
\* (runtime/acp/client.ts:230-434, 519-541).
THEOREM ClientIsFaithful == Spec => []ClientInv
<1>1. ClientInd => ClientInv
  BY DEF ClientInd
<1> QED BY <1>1, InitClientInd, ClientIndStep, PTL DEF Spec

-----------------------------------------------------------------------------
(* The users of the client *)

\* The probe and the file system use the client as any caller may.
LEMMA ServicesUseClient == ServicesNext /\ TypeOK => [Next]_vars
<1> SUFFICES ASSUME ServicesNext, TypeOK PROVE [Next]_vars
  OBVIOUS
<1>1. CASE ClientSteps
  BY <1>1 DEF ClientSteps, Next, Front, Calls
<1>2. CASE Probe
  BY <1>2 DEF Probe, ProbeGoesOn, ProbeRequests, ProbeWaits, ProbeFails, ProbeNext, ProbeFinds,
              ProbeTimesOut, ProbeAborts, ProbeCloses, ProbeReturns, Next, Calls, Consumer
<1>3. CASE Session
  <2>1. ASSUME NEW k \in Ops, FsStep(k) PROVE [Next]_vars
    BY <2>1 DEF FsStep
  <2>2. ASSUME NEW k \in Ops, FsSettles(k) PROVE [Next]_vars
    BY <2>2 DEF FsSettles, Reply, HandlerSettles, Next, Calls
  <2> QED BY <1>3, <2>1, <2>2 DEF Session, AgentReplaces, Next, Calls
<1> QED BY <1>1, <1>2, <1>3 DEF ServicesNext

LEMMA ClientStep == ClientInd /\ [ServicesNext]_allVars => ClientInd'
BY ServicesUseClient, ClientIndStep DEF ClientInd, ClientInv, allVars

-----------------------------------------------------------------------------
(* The probe *)

\* Only a probe moves what is the probe's, and each of its phases knows its answers.
ProbeTyped ==
    /\ probe \in {"initialize", "session", "waiting", "closing", "returned"}
    /\ result \in {"none", "commands", "timeout", "error"}
    /\ aborted \in BOOLEAN

ProbePhases ==
    /\ user # "probe" => probe = "initialize" /\ result = "none" /\ aborted = FALSE
    /\ user = "probe" /\ probe = "initialize" => Len(answer) <= 1
    /\ probe = "session" => Len(answer) = 2 /\ answer[1] = "result"
    /\ probe = "waiting" => answer = <<"result", "result">> /\ ~aborted

ProbeHonest ==
    /\ result = "commands" => Found /\ answer = <<"result", "result">>
    /\ aborted => result \in {"none", "timeout"}
    /\ result = "none" <=> probe \notin {"closing", "returned"}
    /\ probe = "returned" => disposed /\ (aborted \/ disposer = "returned")

ProbeInd == ProbeTyped /\ ProbePhases /\ ProbeHonest

LEMMA InitProbe == ServicesInit => ProbeInd
<1> SUFFICES ASSUME ServicesInit PROVE ProbeInd
  OBVIOUS
<1>1. answer = <<>> /\ Len(answer) = 0
  BY DEF ServicesInit, Init
<1>2. probe = "initialize" /\ result = "none" /\ aborted = FALSE
  BY DEF ServicesInit
<1>3. ProbeTyped
  BY <1>2 DEF ProbeTyped
<1>4. ProbePhases
  BY <1>1, <1>2 DEF ProbePhases
<1>5. ProbeHonest
  BY <1>2 DEF ProbeHonest
<1> QED BY <1>3, <1>4, <1>5 DEF ProbeInd

\* What the client does on its own: a settled promise and what was delivered stay.
ClientGoesOn ==
    /\ answer' \in Seq(Answer) /\ Len(answer') = Len(answer)
    /\ \A id \in Requests : answer[id] # "waiting" => answer'[id] = answer[id]
    /\ Found => Found'
    /\ disposed => disposed'
    /\ disposer = "returned" => disposer' = "returned"

\* What was found in the notifications is found there again when there are more.
LEMMA FoundStays ==
    ASSUME TypeOK, Found, sent' = sent \/ \E line \in Line : sent' = Append(sent, line),
           delivered' = delivered \/ \E i \in 1..read' : delivered' = Append(delivered, i),
           read' \in Nat, read' >= read
    PROVE  Found'
<1>1. PICK i \in DOMAIN delivered : sent[delivered[i]].kind = "commands"
  BY DEF Found
<1>2. /\ delivered \in Seq(1..read) /\ read \in Nat /\ read <= Len(sent) /\ Len(sent) \in Nat
      /\ sent \in Seq(Line)
  BY SequenceProperties DEF TypeOK
<1>3. i \in 1..Len(delivered) /\ Len(delivered) \in Nat /\ delivered[i] \in 1..read
  BY <1>1, <1>2, SequenceProperties
<1>4. delivered[i] \in 1..Len(sent)
  BY <1>2, <1>3
<1>5. sent'[delivered[i]] = sent[delivered[i]]
  BY <1>2, <1>4, AppendProperties
<1>6. i \in DOMAIN delivered' /\ delivered'[i] = delivered[i]
  <2>1. CASE delivered' = delivered
    BY <1>1, <2>1
  <2>2. ASSUME NEW j \in 1..read', delivered' = Append(delivered, j)
        PROVE  i \in DOMAIN delivered' /\ delivered'[i] = delivered[i]
    <3>1. delivered \in Seq(1..read')
      <4>1. 1..read \subseteq 1..read'
        BY <1>2
      <4> QED BY <1>2, <4>1, SequenceProperties
    <3>2. Len(delivered') = Len(delivered) + 1 /\ delivered'[i] = delivered[i]
      BY <1>3, <2>2, <3>1, AppendProperties
    <3>3. delivered' \in Seq(1..read')
      BY <2>2, <3>1, AppendProperties
    <3> QED BY <1>3, <3>2, <3>3
  <2> QED BY <2>1, <2>2
<1> QED BY <1>1, <1>5, <1>6 DEF Found

\* A settled promise keeps its answer when others are settled.
LEMMA SettleKeeps ==
    ASSUME TypeOK, NEW S, NEW a \in Answer, Settle(S, a)
    PROVE  /\ Len(answer') = Len(answer)
           /\ \A id \in Requests : answer[id] # "waiting" => answer'[id] = answer[id]
BY SettleProperties DEF TypeOK, Answer

LEMMA ClientAlone == TypeOK /\ TypeOK' /\ (Front \/ Tasks \/ Disposal \/ HandlerSettles) => ClientGoesOn
<1> SUFFICES ASSUME TypeOK, TypeOK', Front \/ Tasks \/ Disposal \/ HandlerSettles PROVE ClientGoesOn
  OBVIOUS
<1> USE DEF childVars, pipeVars, callVars, noteVars, stopVars
<1>1. answer' \in Seq(Answer) /\ read \in Nat /\ read' \in Nat /\ "rejected" \in Answer
  BY SequenceProperties DEF TypeOK, Answer
<1>2. ASSUME UNCHANGED <<sent, delivered, read>>, Found PROVE Found'
  BY <1>2 DEF Found
<1>3. ASSUME UNCHANGED <<callVars, sent, delivered, read, stopVars>> PROVE ClientGoesOn
  BY <1>1, <1>2, <1>3 DEF ClientGoesOn
<1>4. ASSUME NEW line \in Line, FrontWrites(line) PROVE ClientGoesOn
  <2>1. sent' = Append(sent, line) /\ UNCHANGED <<callVars, delivered, read, stopVars>>
    BY <1>4 DEF FrontWrites
  <2>2. Found => Found'
    <3>1. read' >= read
      BY <1>1, <2>1
    <3> QED BY <1>1, <2>1, <3>1, FoundStays
  <2> QED BY <1>1, <2>1, <2>2 DEF ClientGoesOn
<1>5. CASE Flush \/ FrontExits
  BY <1>3, <1>5 DEF Flush, FrontExits
<1>6. CASE FrontAnswers \/ FrontSpeaks
  <2>1. PICK line : FrontWrites(line)
    BY <1>6 DEF FrontAnswers, FrontSpeaks
  <2>2. line \in Line
    <3>1. sent' = Append(sent, line) /\ sent \in Seq(Line) /\ sent' \in Seq(Line)
      BY <2>1 DEF FrontWrites, TypeOK
    <3>2. sent'[Len(sent) + 1] = line /\ Len(sent) + 1 \in 1..Len(sent')
      BY <3>1
    <3> QED BY <3>1, <3>2, SequenceProperties
  <2> QED BY <1>4, <2>1, <2>2
<1>7. CASE ReadLine
  <2> DEFINE line == sent[read + 1]
  <2>1. /\ read' = read + 1 /\ sent' = sent /\ UNCHANGED stopVars /\ read + 1 \in 1..Len(sent)
        /\ HandleResponse(line) \/ HandleAsk(line) \/ HandleNote(line) \/ HandleJunk(line)
    BY <1>1, <1>7, SequenceProperties DEF ReadLine, TypeOK
  <2>2. line \in Line
    BY <2>1, SequenceProperties DEF TypeOK
  <2> HIDE DEF line
  <2>3. delivered' = delivered \/ \E i \in 1..read' : delivered' = Append(delivered, i)
    <3>1. read + 1 \in 1..read'
      BY <1>1, <2>1
    <3> QED BY <2>1, <3>1 DEF HandleResponse, HandleAsk, HandleNote, HandleJunk
  <2>4. Found => Found'
    <3>1. read' >= read
      BY <1>1, <2>1
    <3> QED BY <1>1, <2>1, <2>3, <3>1, FoundStays
  <2>5. /\ Len(answer') = Len(answer)
        /\ \A id \in Requests : answer[id] # "waiting" => answer'[id] = answer[id]
    <3>1. CASE HandleResponse(line)
      <4>1. line.outcome \in Answer
        BY <2>2, <3>1, ClientAssumption DEF HandleResponse, Line, Response, Notes, Answer
      <4> QED BY <3>1, <4>1, SettleKeeps DEF HandleResponse
    <3> QED BY <2>1, <3>1 DEF HandleAsk, HandleNote, HandleJunk
  <2> QED BY <1>1, <2>1, <2>4, <2>5 DEF ClientGoesOn
<1>8. CASE WriteFails
  <2>1. Settle(Unwritten, "rejected") /\ UNCHANGED <<sent, delivered, read, stopVars>>
    BY <1>8 DEF WriteFails, DropWriting, Drop
  <2> QED BY <1>1, <1>2, <2>1, SettleKeeps DEF ClientGoesOn
<1>9. CASE PumpEnds \/ HandlerSettles
  BY <1>3, <1>9 DEF PumpEnds, HandlerSettles, Reply
<1>10. CASE ExitSeen
  <2>1. Settle(pending, "rejected") /\ UNCHANGED <<sent, delivered, read, stopVars>>
    BY <1>10 DEF ExitSeen, CloseNotifications
  <2> QED BY <1>1, <1>2, <2>1, SettleKeeps DEF ClientGoesOn
<1>11. CASE FlushLast
  <2>1. Settle(Unstarted, "rejected") /\ UNCHANGED <<sent, delivered, read, stopVars>>
    BY <1>11 DEF FlushLast, Drop
  <2> QED BY <1>1, <1>2, <2>1, SettleKeeps DEF ClientGoesOn
<1>12. CASE WriterAborts \/ WriterCloses \/ GraceEnds \/ FrontGone \/ DisposeReturns
  <2>1. UNCHANGED <<callVars, sent, delivered, read, disposed>> /\ disposer # "returned"
    BY <1>12 DEF WriterAborts, WriterCloses, GraceEnds, FrontGone, DisposeReturns,
                 CloseNotifications
  <2> QED BY <1>1, <1>2, <2>1 DEF ClientGoesOn
<1> QED BY <1>5, <1>6, <1>7, <1>8, <1>9, <1>10, <1>11, <1>12 DEF Front, Tasks, Disposal

\* Nothing that the client does on its own takes the ground from under the probe.
LEMMA ProbeUndisturbed ==
    ASSUME TypeOK, ProbeInd, ClientGoesOn, UNCHANGED <<user, probeVars>>
    PROVE  ProbeInd'
<1> USE DEF probeVars
<1>1. answer \in Seq(Answer) /\ Len(answer) \in Nat
  BY SequenceProperties DEF TypeOK, Answer
<1>2. ProbeTyped'
  BY DEF ProbeInd, ProbeTyped
<1>3. ASSUME NEW id \in 1..Len(answer), answer[id] = "result" PROVE answer'[id] = "result"
  BY <1>3 DEF ClientGoesOn, Requests
<1>4. ASSUME answer = <<"result", "result">> PROVE answer' = <<"result", "result">>
  <2>1. Len(answer) = 2 /\ answer[1] = "result" /\ answer[2] = "result"
    BY <1>4
  <2>2. answer' \in Seq(Answer) /\ Len(answer') = 2 /\ answer'[1] = "result" /\ answer'[2] = "result"
    BY <1>3, <2>1 DEF ClientGoesOn
  <2> QED BY <2>2
<1>5. ProbePhases'
  <2>1. probe = "session" => Len(answer') = 2 /\ answer'[1] = "result"
    BY <1>3 DEF ProbeInd, ProbePhases, ClientGoesOn
  <2> QED BY <1>4, <2>1 DEF ProbeInd, ProbePhases, ClientGoesOn
<1>6. ProbeHonest'
  BY <1>4 DEF ProbeInd, ProbeHonest, ClientGoesOn
<1> QED BY <1>2, <1>5, <1>6 DEF ProbeInd

LEMMA ProbeStep == TypeOK /\ ProbeInd /\ user = "probe" /\ Probe /\ user' = user => ProbeInd'
<1> SUFFICES ASSUME TypeOK, ProbeInd, user = "probe", Probe, user' = user PROVE ProbeInd'
  OBVIOUS
<1> USE DEF probeVars, childVars, pipeVars, callVars, noteVars, stopVars
<1>1. /\ answer \in Seq(Answer) /\ Len(answer) \in Nat
      /\ ProbeTyped /\ ProbePhases /\ ProbeHonest
  BY SequenceProperties DEF TypeOK, Answer, ProbeInd
<1>2. CASE ProbeRequests
  <2>1. PICK a \in Answer : answer' = Append(answer, a)
    BY <1>2 DEF ProbeRequests, Request, Answer
  <2>2. Len(answer') = Len(answer) + 1 /\ \A i \in 1..Len(answer) : answer'[i] = answer[i]
    BY <1>1, <2>1, AppendProperties
  <2>3. result = "none" /\ probe = "initialize" /\ UNCHANGED <<result, aborted>>
    BY <1>1, <1>2 DEF ProbeRequests, ProbeHonest
  <2>4. \/ probe' = "initialize" /\ Len(answer') = 1
        \/ probe' = "session" /\ Len(answer') = 2 /\ answer'[1] = "result"
    BY <1>2, <2>2 DEF ProbeRequests
  <2>5. ProbeTyped'
    BY <1>1, <2>3, <2>4 DEF ProbeTyped
  <2>6. ProbePhases'
    <3>1. probe' # "waiting" /\ result' = "none" /\ aborted' = aborted
      BY <2>3, <2>4
    <3>2. user' = "probe" /\ probe' = "initialize" => Len(answer') <= 1
      <4>1. probe' = "initialize" => Len(answer') = 1
        BY <2>4
      <4>2. 1 <= 1
        OBVIOUS
      <4> QED BY <4>1, <4>2, Zenon
    <3>3. probe' = "session" => Len(answer') = 2 /\ answer'[1] = "result"
      BY <2>4
    <3> QED BY <3>1, <3>2, <3>3, Zenon DEF ProbePhases
  <2>7. ProbeHonest'
    BY <1>1, <2>3, <2>4 DEF ProbeTyped, ProbeHonest
  <2> QED BY <2>5, <2>6, <2>7 DEF ProbeInd
<1>3. CASE ProbeWaits
  <2>1. answer = <<"result", "result">> /\ UNCHANGED <<vars, aborted>> /\ result = "none"
    BY <1>1, <1>3 DEF ProbeWaits, ProbePhases, ProbeHonest
  <2>2. \/ aborted /\ probe' = "closing" /\ result' = "timeout"
        \/ ~aborted /\ probe' = "waiting" /\ result' = "none"
    BY <1>3, <2>1 DEF ProbeWaits
  <2>3. answer' = answer
    BY <2>1 DEF vars
  <2> QED BY <1>1, <2>1, <2>2, <2>3 DEF ProbeInd, ProbeTyped, ProbePhases, ProbeHonest
<1>4. CASE ProbeFails
  <2>1. /\ probe' = "closing" /\ UNCHANGED aborted
        /\ result' = IF aborted THEN "timeout" ELSE "error"
    BY <1>4 DEF ProbeFails, HandshakeError
  <2> QED BY <1>1, <2>1 DEF ProbeInd, ProbeTyped, ProbePhases, ProbeHonest
<1>5. CASE ProbeNext
  <2>1. UNCHANGED <<answer, probeVars, disposed, disposer>> /\ result # "commands"
    BY <1>1, <1>5 DEF ProbeNext, ConsumerNext, ProbeHonest
  <2> QED BY <1>1, <2>1 DEF ProbeInd, ProbeTyped, ProbePhases, ProbeHonest
<1>6. CASE ProbeFinds
  <2>1. /\ UNCHANGED <<answer, sent, delivered, aborted>> /\ ~aborted
        /\ answer = <<"result", "result">> /\ Found
        /\ probe' = "closing" /\ result' = "commands"
    BY <1>1, <1>6 DEF ProbeFinds, ConsumerLeaves, CloseNotifications, ProbePhases
  <2>2. Found'
    BY <2>1 DEF Found
  <2> QED BY <1>1, <2>1, <2>2 DEF ProbeInd, ProbeTyped, ProbePhases, ProbeHonest
<1>7. CASE ProbeTimesOut
  <2>1. probe' = "closing" /\ result' = "timeout" /\ UNCHANGED aborted
    BY <1>7 DEF ProbeTimesOut
  <2> QED BY <1>1, <2>1 DEF ProbeInd, ProbeTyped, ProbePhases, ProbeHonest
<1>8. CASE ProbeAborts
  <2>1. /\ UNCHANGED answer /\ aborted' = TRUE
        /\ \/ probe' = "closing" /\ result' = "timeout"
           \/ probe \in {"initialize", "session"} /\ UNCHANGED <<probe, result>>
    BY <1>8 DEF ProbeAborts, Dispose
  <2> QED BY <1>1, <2>1 DEF ProbeInd, ProbeTyped, ProbePhases, ProbeHonest
<1>9. CASE ProbeCloses
  <2>1. /\ UNCHANGED <<answer, sent, delivered, probeVars>> /\ probe = "closing"
    BY <1>9 DEF ProbeCloses, Dispose
  <2>2. Found => Found'
    BY <2>1 DEF Found
  <2> QED BY <1>1, <2>1, <2>2 DEF ProbeInd, ProbeTyped, ProbePhases, ProbeHonest
<1>10. CASE ProbeReturns
  <2>1. /\ UNCHANGED <<answer, sent, delivered, disposed, disposer, result, aborted>>
        /\ probe = "closing" /\ probe' = "returned" /\ disposed /\ (aborted \/ disposer = "returned")
    BY <1>10 DEF ProbeReturns, vars
  <2>2. Found => Found'
    BY <2>1 DEF Found
  <2> QED BY <1>1, <2>1, <2>2 DEF ProbeInd, ProbeTyped, ProbePhases, ProbeHonest
<1> QED BY <1>2, <1>3, <1>4, <1>5, <1>6, <1>7, <1>8, <1>9, <1>10 DEF Probe, ProbeGoesOn

LEMMA ProbeIndStep ==
    TypeOK /\ TypeOK' /\ ProbeInd /\ [ServicesNext]_allVars => ProbeInd'
<1> SUFFICES ASSUME TypeOK, TypeOK', ProbeInd, [ServicesNext]_allVars PROVE ProbeInd'
  OBVIOUS
<1>1. CASE user = "probe" /\ ClientSteps /\ user' = user
  <2>1. Front \/ Tasks \/ Disposal \/ HandlerSettles
    BY <1>1 DEF ClientSteps, Front
  <2>2. UNCHANGED <<user, probeVars>>
    BY <1>1 DEF ClientSteps
  <2> QED BY <2>1, <2>2, ClientAlone, ProbeUndisturbed
<1>2. CASE user = "probe" /\ Probe /\ user' = user
  BY <1>2, ProbeStep
<1>3. CASE user # "probe" /\ UNCHANGED <<user, probeVars>>
  BY <1>3 DEF ProbeInd, ProbeTyped, ProbePhases, ProbeHonest, probeVars
<1>4. CASE UNCHANGED allVars
  <2>1. UNCHANGED <<user, probeVars, answer, sent, delivered, disposed, disposer>>
    BY <1>4 DEF allVars, vars, childVars, callVars, noteVars, stopVars
  <2>2. Found' <=> Found
    BY <2>1 DEF Found
  <2> QED BY <2>1, <2>2 DEF ProbeInd, ProbeTyped, ProbePhases, ProbeHonest, probeVars
<1>5. CASE ServicesNext
  <2>1. user' = user /\ (ClientSteps => UNCHANGED probeVars)
    BY <1>5 DEF ServicesNext, ClientSteps
  <2> QED BY <1>1, <1>2, <1>3, <1>5, <2>1 DEF ServicesNext
<1> QED BY <1>4, <1>5

-----------------------------------------------------------------------------
(* The file system *)

FsTyped ==
    /\ user \in Users
    /\ op \in [Ops -> [path : Path, stage : Stage, seen : {"none", "old", "part", "whole"}]]
    /\ entry \in Files \cup {None, Link}
    /\ text \in [Files -> {"none", "old", "part", "whole"}]
    /\ temps \subseteq Ops

\* The files that no write makes stay as they are, and the entry is a whole file.
Settled ==
    /\ text[Outside] = "old" /\ text[Own] = "old"
    /\ entry \in Files => text[entry] \in {"old", "whole"}
    /\ entry \in Ops => op[entry].stage = "done"

\* What a request has behind it at each of its stages.
Progress(k) ==
    /\ op[k].seen \in {"none", "old", "whole"}
    /\ op[k].stage \in {"none", "checking", "resolving", "making", "creating", "refused"} =>
          text[k] = "none"
    /\ op[k].stage = "filling" => k \in temps
    /\ op[k].stage = "renaming" => k \in temps /\ text[k] = "whole"
    /\ k \in temps => k \in handling /\ op[k].stage \in {"filling", "renaming", "removing"}
    /\ op[k].path # "inside" =>
          /\ text[k] = "none"
          /\ op[k].stage \notin {"making", "creating", "filling", "renaming", "removing"}
    /\ op[k].path = "outside" => op[k].stage \notin {"checking", "resolving"}

FsInd ==
    /\ FsTyped
    /\ user # "session" => temps = {}
    /\ Settled
    /\ \A k \in Ops : Progress(k)

\* The names in the write root are told apart.
LEMMA FilesDiffer ==
    /\ Outside \notin Ops /\ Own \notin Ops /\ None \notin Files /\ Link \notin Files
    /\ None # Link /\ Outside # Own
    /\ Outside \in Files /\ Own \in Files /\ Ops \subseteq Files
BY ClientAssumption DEF Outside, Own, None, Link, Files, Ops

LEMMA InitFs == ServicesInit => FsInd
<1> SUFFICES ASSUME ServicesInit PROVE FsInd
  OBVIOUS
<1>1. /\ user \in Users /\ temps = {} /\ op = [k \in Ops |-> NoOp]
      /\ text = [f \in Files |-> IF f \in Ops THEN "none" ELSE "old"]
      /\ entry \in {None, Own, Outside, Link}
  BY DEF ServicesInit
<1>2. NoOp \in [path : Path, stage : Stage, seen : {"none", "old", "part", "whole"}]
  BY DEF NoOp, Path, Stage
<1>3. FsTyped
  BY <1>1, <1>2, FilesDiffer DEF FsTyped
<1>4. Settled
  BY <1>1, FilesDiffer DEF Settled
<1>5. ASSUME NEW k \in Ops PROVE Progress(k)
  BY <1>1, <1>5, FilesDiffer DEF Progress, NoOp
<1> QED BY <1>1, <1>3, <1>4, <1>5 DEF FsInd

\* A step of one request leaves the others where they are, and the files that are not its.
Alone(k) ==
    /\ \A j \in Ops \ {k} : op'[j] = op[j] /\ text'[j] = text[j] /\ (j \in temps' <=> j \in temps)
    /\ text'[Outside] = text[Outside] /\ text'[Own] = text[Own]
    /\ UNCHANGED <<user, handling>>

LEMMA OthersProgress ==
    ASSUME FsInd, NEW k \in Ops, Alone(k), Progress(k)'
    PROVE  \A j \in Ops : Progress(j)'
BY DEF FsInd, Alone, Progress

\* A stage, and with it a path, that a request takes.
LEMMA Restaged ==
    ASSUME FsTyped, NEW k \in Ops, NEW p \in Path, NEW s \in Stage,
           NEW t \in {"none", "old", "part", "whole"},
           op' = [op EXCEPT ![k] = [path |-> p, stage |-> s, seen |-> t]]
    PROVE  /\ op' \in [Ops -> [path : Path, stage : Stage, seen : {"none", "old", "part", "whole"}]]
           /\ op'[k] = [path |-> p, stage |-> s, seen |-> t]
           /\ \A j \in Ops \ {k} : op'[j] = op[j]
BY DEF FsTyped

LEMMA StagedIs ==
    ASSUME FsTyped, NEW k \in Ops, NEW s \in Stage, Staged(k, s)
    PROVE  /\ op' \in [Ops -> [path : Path, stage : Stage, seen : {"none", "old", "part", "whole"}]]
           /\ op'[k].stage = s /\ op'[k].path = op[k].path /\ op'[k].seen = op[k].seen
           /\ \A j \in Ops \ {k} : op'[j] = op[j]
BY DEF FsTyped, Staged

LEMMA FsStepInd ==
    ASSUME FsInd, user = "session", NEW k \in Ops, FsStep(k), user' = user
    PROVE  FsInd'
<1> DEFINE Records == [path : Path, stage : Stage, seen : {"none", "old", "part", "whole"}]
<1>1. /\ FsTyped /\ Settled /\ Progress(k) /\ handling' = handling /\ op[k] \in Records
  BY DEF FsInd, FsTyped, FsStep, vars
<1>2. ASSUME UNCHANGED <<text, temps>>, \A j \in Ops \ {k} : op'[j] = op[j] PROVE Alone(k)
  BY <1>1, <1>2 DEF Alone
\* What remains of a step: its types, its own progress, and an entry that stays or
\* becomes its complete file.
<1>3. ASSUME Alone(k), FsTyped', Progress(k)', op[k].stage # "done",
             entry' = entry \/ (entry' = k /\ op'[k].stage = "done" /\ text'[k] = "whole")
      PROVE  FsInd'
  <2>1. Settled'
    <3>1. text'[Outside] = "old" /\ text'[Own] = "old"
      BY <1>1, <1>3 DEF Settled, Alone
    <3>2. CASE entry' = k
      <4>1. entry # k
        BY <1>1, <1>3 DEF Settled
      <4>2. op'[k].stage = "done" /\ text'[k] = "whole"
        BY <1>3, <3>2, <4>1
      <4> QED BY <3>1, <3>2, <4>2 DEF Settled
    <3>3. CASE entry' = entry /\ entry # k
      <4>1. ASSUME entry \in Ops
            PROVE  op'[entry] = op[entry] /\ text'[entry] = text[entry]
        BY <1>3, <3>3, <4>1 DEF Alone
      <4>2. ASSUME entry \in Files, entry \notin Ops PROVE text'[entry] = text[entry]
        BY <1>3, <4>2 DEF Alone, Files
      <4> QED BY <1>1, <3>1, <3>3, <4>1, <4>2 DEF Settled
    <3> QED BY <1>3, <3>2, <3>3
  <2>2. \A j \in Ops : Progress(j)'
    BY <1>3, OthersProgress
  <2> QED BY <1>3, <2>1, <2>2 DEF FsInd
<1>4. CASE FsRead(k)
  <2>1. PICK p \in Path :
          LET f == IF p = "inside" /\ entry # Link THEN entry ELSE Outside IN
          op' = [op EXCEPT ![k] = IF f = None THEN [path |-> p, stage |-> "failed", seen |-> "none"]
                                  ELSE [path |-> p, stage |-> "done", seen |-> text[f]]]
    BY <1>4 DEF FsRead
  <2> DEFINE f == IF p = "inside" /\ entry # Link THEN entry ELSE Outside
  <2>2. k \in handling /\ op[k].stage = "none" /\ UNCHANGED <<entry, text, temps>>
    BY <1>4 DEF FsRead, At
  <2>3. f # None => text[f] \in {"old", "whole"}
    BY <1>1, FilesDiffer DEF FsTyped, Settled
  <2>4. PICK s \in {"failed", "done"}, t \in {"none", "old", "whole"} :
          op' = [op EXCEPT ![k] = [path |-> p, stage |-> s, seen |-> t]]
    <3>1. CASE f = None
      BY <2>1, <3>1
    <3>2. CASE f # None
      BY <2>1, <2>3, <3>2
    <3> QED BY <3>1, <3>2
  <2> HIDE DEF f
  <2>5. s \in Stage /\ t \in {"none", "old", "part", "whole"}
    BY DEF Stage
  <2>6. /\ op' \in [Ops -> Records]
        /\ op'[k] = [path |-> p, stage |-> s, seen |-> t]
        /\ \A j \in Ops \ {k} : op'[j] = op[j]
    BY <1>1, <2>4, <2>5, Restaged
  <2>7. Alone(k)
    BY <1>2, <2>2, <2>6
  <2>8. FsTyped'
    BY <1>1, <2>2, <2>6 DEF FsTyped
  <2>9. Progress(k)'
    BY <1>1, <2>2, <2>6 DEF Progress
  <2> QED BY <1>3, <2>2, <2>7, <2>8, <2>9
<1>5. CASE FsWrite(k)
  <2>1. PICK p \in Path, s \in {"refused", "checking"} :
          /\ op' = [op EXCEPT ![k].path = p, ![k].stage = s]
          /\ p = "outside" => s = "refused"
    BY <1>5 DEF FsWrite
  <2>2. k \in handling /\ op[k].stage = "none" /\ UNCHANGED <<entry, text, temps>>
    BY <1>5 DEF FsWrite, At
  <2>3. /\ op' \in [Ops -> [path : Path, stage : Stage, seen : {"none", "old", "part", "whole"}]]
        /\ op'[k].path = p /\ op'[k].stage = s /\ op'[k].seen = op[k].seen
        /\ \A j \in Ops \ {k} : op'[j] = op[j]
    BY <1>1, <2>1 DEF FsTyped, Stage
  <2>4. Alone(k)
    BY <1>2, <2>2, <2>3
  <2>5. FsTyped'
    BY <1>1, <2>2, <2>3 DEF FsTyped
  <2>6. Progress(k)'
    BY <1>1, <2>1, <2>2, <2>3 DEF Progress
  <2>7. op[k].stage # "done"
    BY <2>2
  <2>8. entry' = entry
    BY <2>2
  <2> QED BY <1>3, <2>4, <2>5, <2>6, <2>7, <2>8
<1>6. CASE FsCheck(k) \/ FsResolve(k) \/ FsMake(k)
  <2>1. PICK s \in {"refused", "resolving", "making", "creating", "failed"} : Staged(k, s)
    BY <1>6 DEF FsCheck, FsResolve, FsMake
  <2>2. /\ op[k].stage \in {"checking", "resolving", "making"} /\ k \in handling
        /\ UNCHANGED <<entry, text, temps>>
    BY <1>6 DEF FsCheck, FsResolve, FsMake, At
  <2>3. s \in Stage
    BY DEF Stage
  <2>4. /\ op' \in [Ops -> Records]
        /\ op'[k].stage = s /\ op'[k].path = op[k].path /\ op'[k].seen = op[k].seen
        /\ \A j \in Ops \ {k} : op'[j] = op[j]
    BY <1>1, <2>1, <2>3, StagedIs
  <2>5. s \in {"making", "creating"} => op[k].path = "inside"
    <3>1. CASE FsCheck(k)
      <4>1. op'[k].stage \in {"refused", "resolving"}
        <5>1. "refused" \in Stage /\ "resolving" \in Stage
          BY DEF Stage
        <5> QED BY <1>1, <3>1, <5>1, StagedIs DEF FsCheck
      <4> QED BY <2>4, <4>1
    <3>2. CASE FsResolve(k)
      <4>1. CASE op[k].path = "through"
        <5>1. Staged(k, "refused") /\ "refused" \in Stage
          BY <3>2, <4>1 DEF FsResolve, Stage
        <5> QED BY <1>1, <2>4, <5>1, StagedIs
      <4>2. op[k].path # "outside"
        BY <1>1, <3>2 DEF Progress, FsResolve, At
      <4> QED BY <1>1, <4>1, <4>2 DEF Path
    <3>3. CASE FsMake(k)
      BY <1>1, <3>3 DEF Progress, FsMake, At
    <3> QED BY <1>6, <3>1, <3>2, <3>3
  <2>6. s = "resolving" => op[k].path # "outside"
    <3>1. op[k].path = "outside" => op[k].stage = "making"
      BY <1>1, <2>2 DEF Progress
    <3> QED BY <1>1, <2>2, <3>1 DEF Progress
  <2>7. Progress(k)'
    BY <1>1, <2>2, <2>4, <2>5, <2>6 DEF Progress
  <2>8. Alone(k)
    BY <1>2, <2>2, <2>4
  <2>9. FsTyped'
    BY <1>1, <2>2, <2>4 DEF FsTyped
  <2> QED BY <1>3, <2>2, <2>7, <2>8, <2>9
\* The stages at which the temporary file is made, filled, renamed and removed.
<1>7. ASSUME op' \in [Ops -> Records], op'[k].path = op[k].path, op'[k].seen = op[k].seen,
             \A j \in Ops \ {k} : op'[j] = op[j],
             text' \in [Files -> {"none", "old", "part", "whole"}],
             \A f \in Files \ {k} : text'[f] = text[f],
             temps' \in {temps, temps \cup {k}, temps \ {k}},
             op[k].stage \in {"creating", "filling", "renaming", "removing"},
             op'[k].stage \in {"filling", "renaming", "removing", "done", "failed"},
             op'[k].stage \in {"filling", "renaming"} => k \in temps',
             op'[k].stage = "renaming" => text'[k] = "whole",
             k \in temps' => k \in handling /\ op'[k].stage \in {"filling", "renaming", "removing"},
             entry' = entry \/ (entry' = k /\ op'[k].stage = "done" /\ text'[k] = "whole")
      PROVE  FsInd'
  <2>1. FsTyped'
    <3>1. entry' \in Files \cup {None, Link}
      BY <1>1, <1>7, FilesDiffer DEF FsTyped
    <3>2. temps' \subseteq Ops
      BY <1>1, <1>7 DEF FsTyped
    <3> QED BY <1>1, <1>7, <3>1, <3>2 DEF FsTyped
  <2>2. Alone(k)
    <3>1. \A j \in Ops \ {k} : j \in temps' <=> j \in temps
      BY <1>7
    <3> QED BY <1>1, <1>7, <3>1, FilesDiffer DEF Alone
  <2>3. Progress(k)'
    <3>1. op[k].path = "inside"
      BY <1>1, <1>7 DEF Progress
    <3> QED BY <1>1, <1>7, <3>1 DEF Progress
  <2> QED BY <1>3, <1>7, <2>1, <2>2, <2>3
<1>8. /\ {"filling", "renaming", "removing", "done", "failed"} \subseteq Stage
      /\ text \in [Files -> {"none", "old", "part", "whole"}] /\ k \in Files
  BY <1>1, FilesDiffer DEF Stage, FsTyped
<1>9. CASE FsCreate(k)
  <2>1. k \in handling /\ op[k].stage = "creating" /\ entry' = entry /\ k \notin temps
    BY <1>1, <1>9 DEF FsCreate, At, Progress
  <2>2. CASE Staged(k, "filling") /\ temps' = temps \cup {k} /\ text' = [text EXCEPT ![k] = "part"]
    <3>1. /\ op' \in [Ops -> Records] /\ op'[k].stage = "filling"
          /\ op'[k].path = op[k].path /\ op'[k].seen = op[k].seen
          /\ \A j \in Ops \ {k} : op'[j] = op[j]
      BY <1>1, <1>8, <2>2, StagedIs
    <3> QED BY <1>7, <1>8, <2>1, <2>2, <3>1
  <2>3. CASE Staged(k, "removing") /\ UNCHANGED <<temps, text>>
    <3>1. /\ op' \in [Ops -> Records] /\ op'[k].stage = "removing"
          /\ op'[k].path = op[k].path /\ op'[k].seen = op[k].seen
          /\ \A j \in Ops \ {k} : op'[j] = op[j]
      BY <1>1, <1>8, <2>3, StagedIs
    <3> QED BY <1>7, <1>8, <2>1, <2>3, <3>1
  <2> QED BY <1>9, <2>2, <2>3 DEF FsCreate
<1>10. CASE FsFill(k)
  <2>1. k \in handling /\ op[k].stage = "filling" /\ UNCHANGED <<entry, temps>> /\ k \in temps
    BY <1>1, <1>10 DEF FsFill, At, Progress
  <2>2. CASE Staged(k, "renaming") /\ text' = [text EXCEPT ![k] = "whole"]
    <3>1. /\ op' \in [Ops -> Records] /\ op'[k].stage = "renaming"
          /\ op'[k].path = op[k].path /\ op'[k].seen = op[k].seen
          /\ \A j \in Ops \ {k} : op'[j] = op[j]
      BY <1>1, <1>8, <2>2, StagedIs
    <3> QED BY <1>7, <1>8, <2>1, <2>2, <3>1
  <2>3. CASE Staged(k, "removing") /\ UNCHANGED text
    <3>1. /\ op' \in [Ops -> Records] /\ op'[k].stage = "removing"
          /\ op'[k].path = op[k].path /\ op'[k].seen = op[k].seen
          /\ \A j \in Ops \ {k} : op'[j] = op[j]
      BY <1>1, <1>8, <2>3, StagedIs
    <3> QED BY <1>7, <1>8, <2>1, <2>3, <3>1
  <2> QED BY <1>10, <2>2, <2>3 DEF FsFill
<1>11. CASE FsRename(k)
  <2>1. /\ k \in handling /\ op[k].stage = "renaming" /\ UNCHANGED text /\ k \in temps
        /\ text[k] = "whole"
    BY <1>1, <1>11 DEF FsRename, At, Progress
  <2>2. CASE entry' = k /\ temps' = temps \ {k} /\ Staged(k, "done")
    <3>1. /\ op' \in [Ops -> Records] /\ op'[k].stage = "done"
          /\ op'[k].path = op[k].path /\ op'[k].seen = op[k].seen
          /\ \A j \in Ops \ {k} : op'[j] = op[j]
      BY <1>1, <1>8, <2>2, StagedIs
    <3> QED BY <1>7, <1>8, <2>1, <2>2, <3>1
  <2>3. CASE Staged(k, "removing") /\ UNCHANGED <<entry, temps>>
    <3>1. /\ op' \in [Ops -> Records] /\ op'[k].stage = "removing"
          /\ op'[k].path = op[k].path /\ op'[k].seen = op[k].seen
          /\ \A j \in Ops \ {k} : op'[j] = op[j]
      BY <1>1, <1>8, <2>3, StagedIs
    <3> QED BY <1>7, <1>8, <2>1, <2>3, <3>1
  <2> QED BY <1>11, <2>2, <2>3 DEF FsRename
<1>12. CASE FsRemove(k)
  <2>1. /\ op[k].stage = "removing" /\ UNCHANGED <<entry, text>>
        /\ temps' = temps \ {k} /\ Staged(k, "failed")
    BY <1>12 DEF FsRemove, At
  <2>2. /\ op' \in [Ops -> Records] /\ op'[k].stage = "failed"
        /\ op'[k].path = op[k].path /\ op'[k].seen = op[k].seen
        /\ \A j \in Ops \ {k} : op'[j] = op[j]
    BY <1>1, <1>8, <2>1, StagedIs
  <2> QED BY <1>7, <1>8, <2>1, <2>2
<1> QED BY <1>4, <1>5, <1>6, <1>9, <1>10, <1>11, <1>12 DEF FsStep

\* Nothing but the requests' own steps disturbs them, as long as those under way stay so.
LEMMA FsUndisturbed ==
    ASSUME FsInd, UNCHANGED <<user, fsVars>>, \A k \in temps : k \in handling'
    PROVE  FsInd'
BY DEF FsInd, FsTyped, Settled, Progress, fsVars

\* The client answers nothing by itself: the requests under way only grow in number.
LEMMA HandlingGrows ==
    ASSUME TypeOK, Front \/ Tasks \/ Disposal
    PROVE  handling \subseteq handling'
<1> USE DEF childVars, pipeVars, callVars, noteVars, stopVars
<1>1. CASE Front
  BY <1>1 DEF Front, Flush, FlushLast, FrontAnswers, FrontSpeaks, FrontExits, FrontWrites
<1>2. CASE ReadLine
  BY <1>2 DEF ReadLine, HandleResponse, HandleAsk, HandleNote, HandleJunk
<1>3. CASE WriteFails \/ PumpEnds \/ ExitSeen
  BY <1>3 DEF WriteFails, PumpEnds, ExitSeen
<1>4. CASE Disposal
  BY <1>4 DEF Disposal, WriterAborts, WriterCloses, GraceEnds, FrontGone, DisposeReturns
<1> QED BY <1>1, <1>2, <1>3, <1>4 DEF Tasks

LEMMA SessionStep ==
    ASSUME FsInd, user = "session", Session, user' = user
    PROVE  FsInd'
<1>1. CASE Dispose /\ UNCHANGED fsVars
  <2>1. handling' = handling
    BY <1>1 DEF Dispose
  <2>2. \A k \in temps : k \in handling'
    BY <2>1 DEF FsInd, FsTyped, Progress
  <2> QED BY <1>1, <2>2, FsUndisturbed
<1>2. ASSUME NEW k \in Ops, FsStep(k) PROVE FsInd'
  BY <1>2, FsStepInd
<1>3. ASSUME NEW k \in Ops, FsSettles(k) PROVE FsInd'
  <2>1. handling' = handling \ {k} /\ UNCHANGED fsVars
    BY <1>3 DEF FsSettles, Reply
  <2>2. k \notin temps
    BY <1>3 DEF FsInd, Progress, FsSettles
  <2>3. \A j \in temps : j \in handling'
    BY <2>1, <2>2 DEF FsInd, FsTyped, Progress
  <2> QED BY <2>1, <2>3, FsUndisturbed
<1>4. CASE AgentReplaces
  <2>1. UNCHANGED <<vars, op, text, temps>> /\ entry' \in {None, Own, Outside, Link}
    BY <1>4 DEF AgentReplaces
  <2>2. handling' = handling
    BY <2>1 DEF vars
  <2>3. Settled'
    BY <2>1, FilesDiffer DEF FsInd, Settled
  <2>4. FsTyped'
    BY <2>1, FilesDiffer DEF FsInd, FsTyped
  <2>5. \A j \in Ops : Progress(j)'
    BY <2>1, <2>2 DEF FsInd, Progress
  <2> QED BY <2>1, <2>3, <2>4, <2>5 DEF FsInd
<1> QED BY <1>1, <1>2, <1>3, <1>4 DEF Session

LEMMA FsIndStep == TypeOK /\ FsInd /\ [ServicesNext]_allVars => FsInd'
<1> SUFFICES ASSUME TypeOK, FsInd, [ServicesNext]_allVars PROVE FsInd'
  OBVIOUS
<1>1. CASE user # "session" /\ UNCHANGED <<user, fsVars>>
  <2>1. temps = {}
    BY <1>1 DEF FsInd
  <2> QED BY <1>1, <2>1, FsUndisturbed
<1>2. CASE user = "session" /\ ClientSteps /\ user' = user
  <2>1. (Front \/ Tasks \/ Disposal) /\ UNCHANGED <<user, fsVars>>
    BY <1>2 DEF ClientSteps, Front
  <2>2. \A k \in temps : k \in handling'
    BY <2>1, HandlingGrows DEF FsInd, FsTyped, Progress
  <2> QED BY <2>1, <2>2, FsUndisturbed
<1>3. CASE user = "session" /\ Session /\ user' = user
  BY <1>3, SessionStep
<1>4. CASE UNCHANGED allVars
  <2>1. UNCHANGED <<user, fsVars, handling>>
    BY <1>4 DEF allVars, vars
  <2>2. \A k \in temps : k \in handling'
    BY <2>1 DEF FsInd, FsTyped, Progress
  <2> QED BY <2>1, <2>2, FsUndisturbed
<1>5. CASE ServicesNext
  <2>1. user' = user /\ (ClientSteps => UNCHANGED fsVars)
    BY <1>5 DEF ServicesNext, ClientSteps
  <2> QED BY <1>1, <1>2, <1>3, <1>5, <2>1 DEF ServicesNext
<1> QED BY <1>4, <1>5

-----------------------------------------------------------------------------

\* The client's invariant, the probe's and the file system's, kept together.
ServicesInd == ClientInd /\ ProbeInd /\ FsInd

LEMMA InitServices == ServicesInit => ServicesInd
BY InitClientInd, InitProbe, InitFs DEF ServicesInit, ServicesInd

LEMMA ServicesIndStep == ServicesInd /\ [ServicesNext]_allVars => ServicesInd'
<1> SUFFICES ASSUME ServicesInd, [ServicesNext]_allVars PROVE ServicesInd'
  OBVIOUS
<1>1. ClientInd /\ ClientInd' /\ TypeOK /\ TypeOK'
  BY ClientStep DEF ServicesInd, ClientInd, ClientInv
<1> QED BY <1>1, ProbeIndStep, FsIndStep DEF ServicesInd

LEMMA ServicesKept == ServicesSpec => []ServicesInd
BY InitServices, ServicesIndStep, PTL DEF ServicesSpec

\* What a client promises it promises to the probe and to a session with a file system,
\* too: neither, at no step of its own, breaks the client's bookkeeping
\* (runtime/acp/client.ts:230-434, commands.ts:139-243, client-fs.ts:99-163).
THEOREM ServicesClientIsFaithful == ServicesSpec => []ClientInv
<1>1. ServicesInd => ClientInv
  BY DEF ServicesInd, ClientInd
<1> QED BY <1>1, ServicesKept, PTL

\* Commands are returned only where the front has pushed them behind its two answers, an
\* aborted probe reports the timeout and nothing else, and a probe that returned on its own
\* has its client disposed of (runtime/acp/commands.ts:139-243).
THEOREM ProbeIsTruthful == ServicesSpec => []ProbeTruthful
<1>1. ServicesInd => ProbeTruthful
  BY DEF ServicesInd, ClientInd, ClientInv, ProbeInd, ProbeTyped, ProbeHonest, FsInd, FsTyped,
         ProbeTruthful, ServicesTypeOK
<1> QED BY <1>1, ServicesKept, PTL

\* However many writes are under way and whatever the agent makes of the entry between two
\* of their steps, the file outside is never written, a reader finds no half a file, and a
\* settled request leaves no temporary one nor, if it was refused, any file
\* (runtime/acp/client-fs.ts:15-22, 99-163).
THEOREM WritesStayConfined == ServicesSpec => []WritesConfined
<1>1. ServicesInd => WritesConfined
  <2> SUFFICES ASSUME ServicesInd PROVE WritesConfined
    OBVIOUS
  <2>1. Settled /\ FsTyped /\ \A k \in Ops : Progress(k)
    BY DEF ServicesInd, FsInd
  <2>2. ASSUME NEW k \in Ops
        PROVE  /\ op[k].seen \in {"none", "old", "whole"}
               /\ k \in temps => k \in handling /\ entry # k
               /\ op[k].stage = "refused" => text[k] = "none"
               /\ op[k].path # "inside" => text[k] = "none"
    BY <2>1 DEF Settled, Progress
  <2> QED BY <2>1, <2>2 DEF Settled, WritesConfined
<1> QED BY <1>1, ServicesKept, PTL
=============================================================================
