------------------------ MODULE CursorSessionProofs ------------------------
(***************************************************************************)
(* SessionInv holds in every behaviour of CursorSession, for any number of *)
(* sends and lines, and from it: sends run in order and exactly once, at   *)
(* most one subprocess runs, an abort reaches it, and nothing starts after *)
(* an abort.                                                               *)
(***************************************************************************)
EXTENDS CursorSession, FiniteSetTheorems, TLAPS

\* Facts about sequences the steps below use.
LEMMA AppendFacts ==
    ASSUME NEW S, NEW s \in Seq(S), NEW e \in S
    PROVE  /\ Append(s, e) \in Seq(S)
           /\ Len(Append(s, e)) = Len(s) + 1
           /\ \A i \in 1..Len(s) : Append(s, e)[i] = s[i]
           /\ Append(s, e)[Len(s) + 1] = e
OBVIOUS

LEMMA TailFacts ==
    ASSUME NEW S, NEW s \in Seq(S), s # <<>>
    PROVE  /\ Head(s) \in S
           /\ Head(s) = s[1]
           /\ Tail(s) \in Seq(S)
           /\ Len(Tail(s)) = Len(s) - 1
           /\ \A i \in 1..Len(Tail(s)) : Tail(s)[i] = s[i + 1]
           /\ Len(s) \in Nat \ {0}
OBVIOUS

LEMMA LenFacts ==
    ASSUME NEW S, NEW s \in Seq(S)
    PROVE  /\ Len(s) \in Nat
           /\ s = <<>> <=> Len(s) = 0
           /\ \A i \in 1..Len(s) : s[i] \in S
OBVIOUS

\* The events the queue may hold.
Events == [event : {"init", "line", "send_failed"}, of : 0..MaxSend]

\* push() keeps the type of the log.
LEMMA PushedType ==
    ASSUME NEW e \in Events, log \in Seq(Events)
    PROVE  Pushed(e) \in Seq(Events)
BY AppendFacts DEF Pushed

\* The initial state satisfies the invariant.
LEMMA InitSessionInv == Init => SessionInv
<1>. SUFFICES ASSUME Init PROVE SessionInv
    OBVIOUS
<1>1. \A S : <<>> \in Seq(S)
    OBVIOUS
<1>2. /\ pending \in Seq(Message) /\ ran \in Seq(Message)
      /\ pipe \in Seq(Message) /\ log \in Seq(Events)
    BY <1>1 DEF Init
<1>3. /\ cli \in [Message -> {"none", "running", "ok"} \cup Failed]
      /\ lines \in [Message -> Nat]
      /\ sent \in 0..MaxSend
      /\ prompt \in BOOLEAN
    BY SessionAssumption DEF Init, Message
<1>4. lastStatus \in [exitCode : {"null", "0", "1", "143"},
                      signal : {"null", "SIGTERM"}]
    BY DEF Init, NoStatus
<1>5. TypeOK
    BY <1>2, <1>3, <1>4 DEF Init, TypeOK, Events
<1>6. Len(ran) = 0 /\ Len(pending) = 0
    BY DEF Init
<1>7. SendsInOrder
    BY <1>6 DEF Init, SendsInOrder
<1>8. OneAtATime /\ AbortReaches /\ NothingRunsUnopened
    BY DEF Init, OneAtATime, AbortReaches, NothingRunsUnopened
<1>9. PromptOnce
    BY DEF Init, PromptOnce
<1>. QED  BY <1>5, <1>7, <1>8, <1>9 DEF SessionInv

\* Opening sets the log and, if the signal fired, the flags.
LEMMA OpenSessionInv ==
    ASSUME SessionInv, Open \/ OpenFails \/ SignalEarly
    PROVE  SessionInv'
<1>. USE DEF SessionInv, inputVars, procVars, runVars, reportVars, streamVars,
             NothingRunsUnopened
<1>1. CASE Open
    <2>. USE <1>1 DEF Open
    <2>1. log' \in Seq(Events)
        BY SessionAssumption DEF Events
    <2>2. TypeOK'
        BY <2>1 DEF TypeOK, Events
    <2>3. SendsInOrder' /\ PromptOnce'
        BY DEF SendsInOrder, PromptOnce
    <2>4. OneAtATime' /\ AbortReaches'
        BY DEF OneAtATime, AbortReaches, Current, TypeOK
    <2>. QED  BY <2>2, <2>3, <2>4
<1>2. CASE OpenFails
    <2>1. TypeOK'
        BY <1>2 DEF OpenFails, TypeOK
    <2>. QED
        BY <1>2, <2>1 DEF OpenFails, SendsInOrder, OneAtATime, AbortReaches,
                          PromptOnce, Current
<1>3. CASE SignalEarly
    <2>1. TypeOK'
        BY <1>3 DEF SignalEarly, TypeOK
    <2>. QED
        BY <1>3, <2>1 DEF SignalEarly, SendsInOrder, OneAtATime, AbortReaches,
                          PromptOnce, Current
<1>. QED  BY <1>1, <1>2, <1>3

\* send() numbers the message and puts it behind the others.
LEMMA SendSessionInv ==
    ASSUME SessionInv, Send
    PROVE  SessionInv'
<1>. USE DEF SessionInv, Send, openVars, procVars, runVars, reportVars,
             streamVars
<1>1. /\ pending' \in Seq(Message)
      /\ Len(pending') = Len(pending) + 1
      /\ \A i \in 1..Len(pending) : pending'[i] = pending[i]
      /\ pending'[Len(pending) + 1] = sent + 1
      /\ sent' \in 0..MaxSend
    <2>1. sent + 1 \in Message /\ sent' \in 0..MaxSend
        BY SessionAssumption DEF TypeOK, Message
    <2>. QED  BY <2>1, AppendFacts DEF TypeOK, Enqueued
<1>2. TypeOK'
    BY <1>1 DEF TypeOK, Woken
<1>3. SendsInOrder'
    <2>1. Len(ran) \in Nat /\ Len(pending) \in Nat
        BY LenFacts DEF TypeOK
    <2>2. ran' = ran /\ sent' = sent + 1
        OBVIOUS
    <2>3. Len(ran') + Len(pending') = sent'
        BY <1>1, <2>1, <2>2 DEF SendsInOrder
    <2>4. ASSUME NEW i \in 1..Len(pending') PROVE pending'[i] = Len(ran') + i
        <3>1. CASE i \in 1..Len(pending)
            BY <1>1, <2>1, <2>2, <3>1 DEF SendsInOrder
        <3>2. CASE i = Len(pending) + 1
            BY <1>1, <2>1, <2>2, <3>2 DEF SendsInOrder
        <3>. QED  BY <1>1, <2>1, <2>4, <3>1, <3>2
    <2>. QED  BY <2>2, <2>3, <2>4 DEF SendsInOrder
<1>4. OneAtATime' /\ AbortReaches' /\ NothingRunsUnopened'
    BY DEF OneAtATime, AbortReaches, Woken, Current, NothingRunsUnopened, TypeOK
<1>5. PromptOnce'
    BY DEF PromptOnce
<1>. QED  BY <1>2, <1>3, <1>4, <1>5

\* endInput(), abort() and the consumer's return().
LEMMA CallerSessionInv ==
    ASSUME SessionInv, EndInput \/ Abort \/ ConsumerLeaves
    PROVE  SessionInv'
<1>. USE DEF SessionInv, openVars, inputVars, procVars, runVars, reportVars,
             streamVars
<1>1. CASE EndInput
    BY <1>1 DEF EndInput, TypeOK, SendsInOrder, OneAtATime, AbortReaches,
                PromptOnce, Current, Woken, NothingRunsUnopened
<1>2. CASE Abort
    <2>. USE <1>2 DEF Abort
    <2>1. termed' \in SUBSET Message
        <3>1. worker = "running" => Current \in Message
            BY LenFacts DEF TypeOK, OneAtATime, Current
        <3>. QED  BY <3>1 DEF Signalled, TypeOK
    <2>2. TypeOK'
        BY <2>1 DEF TypeOK, Woken
    <2>3. SendsInOrder' /\ PromptOnce' /\ NothingRunsUnopened'
        BY DEF SendsInOrder, PromptOnce, NothingRunsUnopened
    <2>4. OneAtATime' /\ AbortReaches'
        BY DEF OneAtATime, AbortReaches, Woken, Current, Signalled, TypeOK
    <2>. QED  BY <2>2, <2>3, <2>4
<1>3. CASE ConsumerLeaves
    BY <1>3 DEF ConsumerLeaves, TypeOK, SendsInOrder, OneAtATime,
                AbortReaches, PromptOnce, Current, NothingRunsUnopened
<1>. QED  BY <1>1, <1>2, <1>3

\* The subprocess and its stdout pump.
LEMMA ProcessSessionInv ==
    ASSUME SessionInv, (\E m \in Message : Write(m) \/ Exit(m)) \/ Pump
    PROVE  SessionInv'
<1>. USE DEF SessionInv, openVars, inputVars, runVars, reportVars,
             streamVars
<1>1. ASSUME NEW m \in Message, Write(m) PROVE SessionInv'
    <2>1. pipe' \in Seq(Message) /\ lines' \in [Message -> Nat]
        BY <1>1, AppendFacts DEF Write, TypeOK
    <2>2. TypeOK'
        BY <1>1, <2>1 DEF Write, TypeOK
    <2>. QED
        BY <1>1, <2>2 DEF Write, SendsInOrder, OneAtATime, AbortReaches,
                          PromptOnce, Current, NothingRunsUnopened
<1>2. ASSUME NEW m \in Message, Exit(m) PROVE SessionInv'
    <2>1. PICK outcome \in {"ok", "failed", "killed"} :
             cli' = [cli EXCEPT ![m] = outcome]
        BY <1>2 DEF Exit
    <2>2. TypeOK'
        BY <1>2, <2>1 DEF Exit, TypeOK, Failed
    <2>3. OneAtATime' /\ AbortReaches'
        BY <1>2, <2>1 DEF Exit, OneAtATime, AbortReaches, Current, TypeOK
    <2>. QED
        BY <1>2, <2>2, <2>3 DEF Exit, SendsInOrder, PromptOnce,
                                NothingRunsUnopened
<1>3. CASE Pump
    <2>1. Head(pipe) \in Message /\ pipe' \in Seq(Message)
        BY <1>3, TailFacts DEF Pump, TypeOK
    <2>2. [event |-> "line", of |-> Head(pipe)] \in Events
        BY <2>1, SessionAssumption DEF Events, Message
    <2>3. log' \in Seq(Events)
        BY <1>3, <2>2, PushedType DEF Pump, TypeOK, Events
    <2>4. TypeOK'
        BY <1>3, <2>1, <2>3 DEF Pump, TypeOK, Events
    <2>. QED
        BY <1>3, <2>4 DEF Pump, SendsInOrder, OneAtATime, AbortReaches,
                          PromptOnce, Current, NothingRunsUnopened
<1>. QED  BY <1>1, <1>2, <1>3

\* What a round of the loop keeps, from a state where no subprocess runs.
LEMMA RoundFacts ==
    ASSUME SessionInv, Round, UNCHANGED <<aborted, inputClosed, sent, termed>>,
           phase = "open",
           \A m \in Message : cli[m] # "running"
    PROVE  /\ worker' \in {"waiting", "running", "ended"}
           /\ pending' \in Seq(Message) /\ ran' \in Seq(Message)
           /\ cli' \in [Message -> {"none", "running", "ok"} \cup Failed]
           /\ prompt' \in BOOLEAN /\ carriers' \in SUBSET Message
           /\ closed' \in BOOLEAN
           /\ SendsInOrder' /\ OneAtATime' /\ AbortReaches' /\ PromptOnce'
<1>. USE DEF SessionInv
<1>1. CASE RoundSleeps
    BY <1>1 DEF RoundSleeps, runVars, TypeOK, SendsInOrder, OneAtATime,
                AbortReaches, PromptOnce, Current
<1>2. CASE RoundEnds
    BY <1>2 DEF RoundEnds, runVars, TypeOK, SendsInOrder, OneAtATime,
                AbortReaches, PromptOnce, Current
<1>3. CASE RoundRuns
    <2>. USE <1>3 DEF RoundRuns
    <2>. DEFINE n == Head(pending)
    <2>1. PICK outcome \in {"running", "unspawned"} :
             cli' = [cli EXCEPT ![n] = outcome]
        OBVIOUS
    <2>2. /\ n \in Message
          /\ n = pending[1]
          /\ pending' \in Seq(Message)
          /\ Len(pending') = Len(pending) - 1
          /\ \A i \in 1..Len(pending') : pending'[i] = pending[i + 1]
          /\ Len(pending) \in Nat \ {0}
        BY TailFacts DEF Runnable, TypeOK
    <2>3. /\ ran' \in Seq(Message)
          /\ Len(ran) \in Nat
          /\ Len(ran') = Len(ran) + 1
          /\ \A i \in 1..Len(ran) : ran'[i] = ran[i]
          /\ ran'[Len(ran) + 1] = n
          /\ ran' # <<>>
        BY <2>2, AppendFacts, LenFacts DEF TypeOK
    <2>4. n = Len(ran) + 1
        BY <2>2, <2>3 DEF SendsInOrder
    <2>5. SendsInOrder'
        <3>1. Len(ran') + Len(pending') = sent'
            BY <2>2, <2>3 DEF SendsInOrder
        <3>2. ASSUME NEW i \in 1..Len(ran') PROVE ran'[i] = i
            <4>1. CASE i \in 1..Len(ran)
                BY <2>3, <4>1 DEF SendsInOrder
            <4>2. CASE i = Len(ran) + 1
                BY <2>3, <2>4, <4>2
            <4>. QED  BY <2>3, <4>1, <4>2
        <3>3. ASSUME NEW i \in 1..Len(pending')
              PROVE  pending'[i] = Len(ran') + i
            <4>1. i + 1 \in 1..Len(pending)
                BY <2>2
            <4>. QED  BY <2>2, <2>3, <4>1 DEF SendsInOrder
        <3>. QED  BY <3>1, <3>2, <3>3 DEF SendsInOrder
    <2>6. /\ cli' \in [Message -> {"none", "running", "ok"} \cup Failed]
          /\ cli'[n] = outcome
          /\ \A m \in Message \ {n} : cli'[m] = cli[m]
        BY <2>1, <2>2 DEF TypeOK, Failed
    <2>7. OneAtATime'
        BY <2>2, <2>3, <2>6 DEF OneAtATime, Current
    <2>8. AbortReaches'
        BY DEF AbortReaches, Runnable
    <2>9. carriers' \in SUBSET Message /\ PromptOnce'
        <3>1. prompt => n = 1
            BY <2>3, <2>4 DEF PromptOnce
        <3>2. ran = <<>> \/ prompt = FALSE
            BY DEF PromptOnce, TypeOK
        <3>3. prompt' = FALSE /\ ran' # <<>>
            BY <2>3
        <3>4. carriers' = IF SystemPrompt THEN {1} ELSE {}
            BY <2>2, <3>1, <3>2, SessionAssumption DEF PromptOnce, TypeOK
        <3>5. carriers' \in SUBSET Message
            BY <2>2 DEF TypeOK
        <3>. QED  BY <3>3, <3>4, <3>5 DEF PromptOnce
    <2>. QED  BY <2>2, <2>3, <2>5, <2>6, <2>7, <2>8, <2>9 DEF TypeOK
<1>. QED  BY <1>1, <1>2, <1>3 DEF Round

\* The worker's two resumptions.
LEMMA WorkerSessionInv ==
    ASSUME SessionInv, Wake \/ Finish
    PROVE  SessionInv'
<1>. USE DEF SessionInv, openVars
<1>1. CASE Wake
    <2>1. phase = "open" /\ \A m \in Message : cli[m] # "running"
        BY <1>1 DEF Wake, NothingRunsUnopened, OneAtATime, TypeOK
    <2>2. Round /\ UNCHANGED <<aborted, inputClosed, sent, termed>>
        BY <1>1 DEF Wake, reportVars
    <2>3. TypeOK'
        BY <1>1, <2>1, <2>2, RoundFacts DEF Wake, TypeOK, reportVars
    <2>. QED
        BY <1>1, <2>1, <2>2, <2>3, RoundFacts DEF Wake, NothingRunsUnopened
<1>2. CASE Finish
    <2>1. phase = "open" /\ \A m \in Message : cli[m] # "running"
        BY <1>2 DEF Finish, NothingRunsUnopened, OneAtATime, TypeOK
    <2>2. Round /\ UNCHANGED <<aborted, inputClosed, sent, termed>>
        BY <1>2 DEF Finish
    <2>3. Current \in Message /\ cli[Current] \in {"ok"} \cup Failed
        BY <1>2, LenFacts DEF Finish, OneAtATime, Current, TypeOK
    <2>4. lastStatus' \in [exitCode : {"null", "0", "1", "143"},
                           signal : {"null", "SIGTERM"}]
        BY <1>2, <2>3 DEF Finish, StatusOf, Failed, TypeOK
    <2>5. log' \in Seq(Events) /\ notified' \in SUBSET Message
        <3>1. [event |-> "send_failed", of |-> Current] \in Events
            BY <2>3, SessionAssumption DEF Events, Message
        <3>. QED  BY <1>2, <2>3, <3>1, PushedType DEF Finish, TypeOK, Events
    <2>6. TypeOK'
        BY <1>2, <2>1, <2>2, <2>4, <2>5, RoundFacts DEF Finish, TypeOK, Events
    <2>. QED
        BY <1>2, <2>1, <2>2, <2>6, RoundFacts DEF Finish, NothingRunsUnopened
<1>. QED  BY <1>1, <1>2

\* Every step preserves the invariant.
LEMMA StepSessionInv == SessionInv /\ [Next]_vars => SessionInv'
<1>. SUFFICES ASSUME SessionInv, [Next]_vars PROVE SessionInv'
    OBVIOUS
<1>1. CASE Next
    BY <1>1, OpenSessionInv, SendSessionInv, CallerSessionInv,
       ProcessSessionInv, WorkerSessionInv DEF Next
<1>2. CASE UNCHANGED vars
    <2>. USE <1>2 DEF vars, openVars, inputVars, procVars, runVars, reportVars,
                      streamVars, SessionInv
    <2>1. TypeOK' /\ SendsInOrder'
        BY DEF TypeOK, SendsInOrder
    <2>2. OneAtATime' /\ AbortReaches' /\ PromptOnce' /\ NothingRunsUnopened'
        BY DEF OneAtATime, AbortReaches, PromptOnce, Current,
               NothingRunsUnopened
    <2>. QED  BY <2>1, <2>2
<1>. QED  BY <1>1, <1>2

\* SessionInv is an invariant of the session (cursor/session.ts:229-447).
THEOREM SessionInvariant == Spec => []SessionInv
BY InitSessionInv, StepSessionInv, PTL DEF Spec

\* Sends are run in order and exactly once, for any number of sends.
THEOREM SendsRunInOrder == Spec => []SendsInOrder
<1>1. SessionInv => SendsInOrder
    BY DEF SessionInv
<1>. QED  BY <1>1, SessionInvariant, PTL

\* At most one subprocess runs, and the worker never sleeps on work.
THEOREM NeverTwoSubprocesses == Spec => []OneAtATime
<1>1. SessionInv => OneAtATime
    BY DEF SessionInv
<1>. QED  BY <1>1, SessionInvariant, PTL

\* A subprocess that runs in an aborted session was sent SIGTERM.
THEOREM AbortReachesTheSubprocess == Spec => []AbortReaches
<1>1. SessionInv => AbortReaches
    BY DEF SessionInv
<1>. QED  BY <1>1, SessionInvariant, PTL

\* No message is handed to a subprocess once the session is aborted.
THEOREM AbortStopsTheWorker == Spec => NothingStartsAfterAbort
<1>1. [Next]_vars => [aborted => ran' = ran]_vars
    <2>. SUFFICES ASSUME Next, aborted PROVE ran' = ran
        BY DEF vars, runVars
    <2>. QED
        BY DEF Next, Open, OpenFails, Send, EndInput, Abort, SignalEarly,
               ConsumerLeaves, Write, Exit, Pump, Wake, Finish, Round,
               RoundSleeps, RoundEnds, RoundRuns, Runnable, runVars
<1>. QED  BY <1>1, PTL DEF Spec, NothingStartsAfterAbort

-----------------------------------------------------------------------------
(* What the stream and the callbacks tell *)

Where(s, x) == {i \in 1..Len(s) : s[i] = x}

LEMMA CountFinite ==
    ASSUME NEW S, NEW s \in Seq(S), NEW x
    PROVE  IsFiniteSet(Where(s, x)) /\ Cardinality(Where(s, x)) \in Nat
<1>1. IsFiniteSet(1..Len(s))
    BY LenFacts, FS_Interval
<1>2. IsFiniteSet(Where(s, x))
    BY <1>1, FS_Subset DEF Where
<1>. QED  BY <1>2, FS_CardinalityType

\* Appending to a sequence adds one to the count of what is appended.
LEMMA AppendCount ==
    ASSUME NEW S, NEW s \in Seq(S), NEW e \in S, NEW x
    PROVE  Cardinality(Where(Append(s, e), x)) =
              Cardinality(Where(s, x)) + IF e = x THEN 1 ELSE 0
<1>. DEFINE n == Len(s) + 1
<1>1. Len(s) \in Nat /\ Len(Append(s, e)) = n
    BY LenFacts, AppendFacts
<1>2. \A i \in 1..Len(s) : Append(s, e)[i] = s[i]
    BY AppendFacts
<1>3. Append(s, e)[n] = e
    BY AppendFacts
<1>4. IsFiniteSet(Where(s, x)) /\ Cardinality(Where(s, x)) \in Nat
    BY CountFinite
<1>5. 1..n = 1..Len(s) \cup {n} /\ n \notin 1..Len(s)
    BY <1>1
<1>6. CASE e = x
    <2>1. Where(Append(s, e), x) = Where(s, x) \cup {n} /\ n \notin Where(s, x)
        BY <1>1, <1>2, <1>3, <1>5, <1>6 DEF Where
    <2>2. Cardinality(Where(Append(s, e), x)) = Cardinality(Where(s, x)) + 1
        BY <1>4, <2>1, FS_AddElement
    <2>. QED  BY <1>6, <2>2
<1>7. CASE e # x
    <2>1. Where(Append(s, e), x) = Where(s, x)
        BY <1>1, <1>2, <1>3, <1>5, <1>7 DEF Where
    <2>. QED  BY <1>4, <1>7, <2>1
<1>. QED  BY <1>6, <1>7

LinesOf(m) == Where(log, [event |-> "line", of |-> m])
Unread(m)  == IF m = Len(ran) THEN Len(pipe) ELSE 0

\* The log is in the order of the messages, and the pipe holds lines of the
\* message that runs and of no other.
Ordered ==
    /\ TurnsDoNotMix
    /\ \A i \in 1..Len(log) :
          /\ log[i].of <= Len(ran)
          /\ worker = "running" /\ log[i].event = "send_failed" =>
                log[i].of < Len(ran)
    /\ \A i \in 1..Len(pipe) : pipe[i] = Len(ran)
    /\ pipe # <<>> => worker = "running"

\* No message is reported before it runs.
Reported == FailuresReported /\ \A m \in notified : m <= Len(ran)

\* Only the end and the consumer close the queue, and each line is in the pipe
\* or in the log of a consumer that stayed.
Delivered ==
    /\ closed => consumerLeft \/ worker = "ended"
    /\ worker = "ended" => closed /\ inputClosed /\ (~aborted => pending = <<>>)
    /\ aborted => inputClosed
    /\ phase # "open" => \A m \in Message : lines[m] = 0
    /\ ~consumerLeft => \A m \in Message :
          Cardinality(LinesOf(m)) + Unread(m) = lines[m]

StreamInd == SessionInv /\ Ordered /\ Reported /\ Delivered

\* The worker waits for the last message that was run, whose number is the
\* number of those that were.
LEMMA CurrentIsLast ==
    ASSUME SessionInv, worker = "running"
    PROVE  Current = Len(ran) /\ Len(ran) \in Message
<1>1. Len(ran) \in Nat \ {0}
    BY LenFacts DEF SessionInv, OneAtATime, TypeOK
<1>2. Current = Len(ran)
    BY <1>1 DEF SessionInv, SendsInOrder, Current
<1>3. Current \in Message
    BY <1>1, LenFacts DEF Current, SessionInv, TypeOK
<1>. QED  BY <1>2, <1>3

\* A session's callers leave the stream alone.
LEMMA CallerStream ==
    ASSUME StreamInd,
           OpenFails \/ Send \/ EndInput \/ Abort \/ SignalEarly \/ ConsumerLeaves
             \/ UNCHANGED vars
    PROVE  Ordered' /\ Reported' /\ Delivered'
<1>. USE DEF StreamInd, openVars, inputVars, procVars, runVars, reportVars, streamVars
<1>1. /\ UNCHANGED <<log, pipe, ran, lines, cli, notified>>
      /\ worker' = "running" <=> worker = "running"
      /\ worker' = "ended" <=> worker = "ended"
    BY DEF OpenFails, Send, EndInput, Abort, SignalEarly, ConsumerLeaves, vars, Woken
<1>2. aborted => aborted'
    BY DEF OpenFails, Send, EndInput, Abort, SignalEarly, ConsumerLeaves, vars
<1>3. Ordered'
    BY <1>1 DEF Ordered, TurnsDoNotMix
<1>4. Reported'
    BY <1>1, <1>2 DEF Reported, FailuresReported
<1>5. /\ closed' => closed \/ consumerLeft'
      /\ consumerLeft => consumerLeft'
      /\ closed => closed'
      /\ inputClosed => inputClosed'
      /\ aborted' => aborted \/ inputClosed'
      /\ phase' = "open" => phase = "open"
      /\ pending' = pending \/ ~inputClosed
    BY DEF OpenFails, Send, EndInput, Abort, SignalEarly, ConsumerLeaves, vars
<1>6. Delivered'
    <2>1. \A m \in Message : LinesOf(m)' = LinesOf(m) /\ Unread(m)' = Unread(m)
        BY <1>1 DEF LinesOf, Unread
    <2>2. phase' # "open" => phase # "open" \/ \A m \in Message : lines[m] = 0
        BY DEF OpenFails, Send, EndInput, Abort, SignalEarly, ConsumerLeaves, vars, Delivered
    <2>. QED  BY <1>1, <1>2, <1>5, <2>1, <2>2 DEF Delivered
<1>. QED  BY <1>3, <1>4, <1>6

\* The queue starts with the init event, which belongs to no message.
LEMMA OpenStream ==
    ASSUME StreamInd, Open
    PROVE  Ordered' /\ Reported' /\ Delivered'
<1>. DEFINE init == [event |-> "init", of |-> 0]
<1>1. /\ log' = <<init>> /\ Len(log') = 1 /\ log'[1] = init
      /\ worker' \in {"waiting", "woken"} /\ worker # "running" /\ worker # "ended"
      /\ UNCHANGED <<pipe, ran, lines, cli, notified, closed, consumerLeft, pending>>
      /\ aborted' = signalled /\ inputClosed' = signalled
      /\ phase' = "open" /\ phase = "creating"
    BY DEF Open, StreamInd, SessionInv, NothingRunsUnopened, procVars, runVars, reportVars
<1>2. Len(ran) \in Nat /\ ~aborted
    BY LenFacts DEF StreamInd, SessionInv, TypeOK, OneAtATime, NothingRunsUnopened, Open
<1>3. Ordered'
    BY <1>1, <1>2 DEF Ordered, TurnsDoNotMix, StreamInd
<1>4. Reported'
    BY <1>1, <1>2 DEF Reported, FailuresReported, StreamInd
<1>5. ASSUME NEW m \in Message PROVE Cardinality(LinesOf(m)') + Unread(m)' = lines'[m]
    <2>1. LinesOf(m)' = {}
        BY <1>1 DEF LinesOf, Where
    <2>2. Unread(m)' = 0
        <3>1. pipe = <<>> /\ Len(pipe) = 0
            BY <1>1 DEF StreamInd, Ordered
        <3>. QED  BY <1>1, <3>1 DEF Unread
    <2>3. lines'[m] = 0
        BY <1>1 DEF StreamInd, Delivered
    <2>. QED  BY <2>1, <2>2, <2>3, FS_EmptySet
<1>6. Delivered'
    BY <1>1, <1>5 DEF Delivered, StreamInd
<1>. QED  BY <1>3, <1>4, <1>6

\* The subprocess writes a line, or ends.
LEMMA ProcessStream ==
    ASSUME StreamInd, NEW n \in Message, Write(n) \/ Exit(n)
    PROVE  Ordered' /\ Reported' /\ Delivered'
<1>1. /\ worker = "running" /\ n = Len(ran) /\ Len(ran) \in Nat /\ cli[n] = "running"
      /\ UNCHANGED <<log, ran, notified, closed, consumerLeft, pending, worker, inputClosed,
                     aborted, phase>>
      /\ pipe \in Seq(Message) /\ lines \in [Message -> Nat]
      /\ cli \in [Message -> {"none", "running", "ok"} \cup Failed]
      /\ phase = "open"
    BY CurrentIsLast, LenFacts DEF Write, Exit, Running, StreamInd, SessionInv, TypeOK, openVars,
       inputVars, runVars, reportVars, streamVars, NothingRunsUnopened
<1>2. CASE Write(n)
    <2>1. /\ pipe' = Append(pipe, n) /\ cli' = cli
          /\ lines' = [lines EXCEPT ![n] = @ + 1]
        BY <1>2 DEF Write
    <2>2. /\ Len(pipe) \in Nat /\ Len(pipe') = Len(pipe) + 1 /\ pipe'[Len(pipe) + 1] = n
          /\ \A i \in 1..Len(pipe) : pipe'[i] = pipe[i]
        BY <1>1, <2>1, AppendFacts, LenFacts
    <2>3. Ordered'
        <3>1. \A i \in 1..Len(pipe') : i \in 1..Len(pipe) \/ i = Len(pipe) + 1
            BY <2>2
        <3>2. \A i \in 1..Len(pipe') : pipe'[i] = Len(ran')
            BY <1>1, <2>2, <3>1 DEF StreamInd, Ordered
        <3>. QED  BY <1>1, <3>2 DEF Ordered, TurnsDoNotMix, StreamInd
    <2>4. Reported'
        BY <1>1, <2>1 DEF Reported, FailuresReported, StreamInd
    <2>5. ASSUME ~consumerLeft, NEW m \in Message
          PROVE  Cardinality(LinesOf(m)') + Unread(m)' = lines'[m]
        <3>1. LinesOf(m)' = LinesOf(m)
            BY <1>1 DEF LinesOf
        <3>2. Cardinality(LinesOf(m)) + Unread(m) = lines[m]
            BY <2>5 DEF StreamInd, Delivered
        <3>3. Cardinality(LinesOf(m)) \in Nat
            <4>1. [event |-> "init", of |-> 0] \in Events /\ log \in Seq(Events)
                BY SessionAssumption DEF StreamInd, SessionInv, TypeOK, Events
            <4>. QED  BY <4>1, CountFinite DEF LinesOf
        <3>4. CASE m = n
            <4>1. Unread(m)' = Unread(m) + 1 /\ lines'[m] = lines[m] + 1 /\ Unread(m) \in Nat
                BY <1>1, <2>1, <2>2, <3>4 DEF Unread
            <4>. QED  BY <3>1, <3>2, <3>3, <4>1
        <3>5. CASE m # n
            <4>1. Unread(m)' = Unread(m) /\ lines'[m] = lines[m]
                BY <1>1, <2>1, <3>5 DEF Unread
            <4>. QED  BY <3>1, <3>2, <4>1
        <3>. QED  BY <3>4, <3>5
    <2>6. Delivered'
        BY <1>1, <2>5 DEF Delivered, StreamInd
    <2>. QED  BY <2>3, <2>4, <2>6
<1>3. CASE Exit(n)
    <2>1. /\ UNCHANGED <<lines, pipe>>
          /\ \A m \in Message \ {n} : cli'[m] = cli[m]
        BY <1>1, <1>3 DEF Exit
    <2>2. Ordered'
        BY <1>1, <2>1 DEF Ordered, TurnsDoNotMix, StreamInd
    <2>3. n \notin notified
        BY <1>1 DEF StreamInd, Reported, FailuresReported, Failed
    <2>4. notified \subseteq Message
        BY DEF StreamInd, SessionInv, TypeOK
    <2>5. \A i \in 1..Len(ran) : i < Len(ran) => ran[i] # n /\ ran[i] \in Message
        BY <1>1, LenFacts DEF StreamInd, SessionInv, SendsInOrder, TypeOK
    <2>6. Reported'
        <3>1. \A m \in notified' : cli'[m] \in Failed /\ m <= Len(ran')
            BY <1>1, <2>1, <2>3, <2>4 DEF StreamInd, Reported, FailuresReported
        <3>2. \A i \in 1..Len(ran') : ~aborted' /\ (worker' # "running" \/ i < Len(ran')) =>
                 (ran'[i] \in notified' <=> cli'[ran'[i]] \in Failed)
            BY <1>1, <2>1, <2>5 DEF StreamInd, Reported, FailuresReported
        <3>. QED  BY <3>1, <3>2 DEF Reported, FailuresReported
    <2>7. Delivered'
        <3>1. \A m \in Message : LinesOf(m)' = LinesOf(m) /\ Unread(m)' = Unread(m)
            BY <1>1, <2>1 DEF LinesOf, Unread
        <3>. QED  BY <1>1, <2>1, <3>1 DEF Delivered, StreamInd
    <2>. QED  BY <2>2, <2>6, <2>7
<1>. QED  BY <1>2, <1>3

\* A line goes from the pipe to the log, unless the consumer left.
LEMMA PumpStream ==
    ASSUME StreamInd, Pump
    PROVE  Ordered' /\ Reported' /\ Delivered'
<1>. DEFINE e == [event |-> "line", of |-> Len(ran)]
<1>1. /\ pipe # <<>> /\ pipe' = Tail(pipe)
      /\ worker = "running" /\ Len(ran) \in Message /\ Len(ran) \in Nat
      /\ UNCHANGED <<ran, notified, closed, consumerLeft, pending, worker, inputClosed,
                     aborted, phase, lines, cli>>
      /\ pipe \in Seq(Message) /\ log \in Seq(Events)
    BY CurrentIsLast, LenFacts DEF Pump, StreamInd, Ordered, SessionInv, TypeOK, Events, openVars,
       inputVars, runVars, reportVars
<1>2. /\ Head(pipe) = Len(ran)
      /\ Len(pipe) \in Nat \ {0} /\ Len(pipe') = Len(pipe) - 1
      /\ \A i \in 1..Len(pipe') : pipe'[i] = pipe[i + 1]
    BY <1>1, TailFacts DEF StreamInd, Ordered
<1>3. log' = IF closed THEN log ELSE Append(log, e)
    BY <1>1, <1>2 DEF Pump, Pushed
<1>4. e \in Events
    BY <1>1, SessionAssumption DEF Events, Message
<1>5. /\ Len(log) \in Nat
      /\ Len(Append(log, e)) = Len(log) + 1
      /\ \A i \in 1..Len(log) : Append(log, e)[i] = log[i]
      /\ Append(log, e)[Len(log) + 1] = e
      /\ \A i \in 1..Len(log) : log[i] \in Events
    BY <1>1, <1>4, AppendFacts, LenFacts
<1>6. Ordered'
    <2>1. /\ \A i \in 1..Len(pipe') : pipe'[i] = Len(ran')
          /\ worker' = "running"
        <3>1. \A i \in 1..Len(pipe') : i + 1 \in 1..Len(pipe)
            BY <1>2
        <3>. QED  BY <1>1, <1>2, <3>1 DEF StreamInd, Ordered
    <2>2. CASE closed
        BY <1>1, <1>3, <2>1, <2>2 DEF Ordered, TurnsDoNotMix, StreamInd
    <2>3. CASE ~closed
        <3>1. Len(log') = Len(log) + 1 /\ log'[Len(log) + 1] = e
              /\ \A i \in 1..Len(log) : log'[i] = log[i]
            BY <1>3, <1>5, <2>3
        <3>2. \A i \in 1..Len(log) : log[i].of <= Len(ran) /\
                 (log[i].event = "send_failed" => log[i].of < Len(ran))
            BY <1>1 DEF StreamInd, Ordered
        <3>3. \A i \in 1..Len(log') : i \in 1..Len(log) \/ i = Len(log) + 1
            BY <1>5, <3>1
        <3>4. \A i \in 1..Len(log') : log'[i].of <= Len(ran') /\
                 (log'[i].event = "send_failed" => log'[i].of < Len(ran'))
            BY <1>1, <3>1, <3>2, <3>3
        <3>5. TurnsDoNotMix'
            <4>. SUFFICES ASSUME NEW i \in 1..Len(log'), NEW j \in 1..Len(log'), i < j
                          PROVE  /\ log'[i].of <= log'[j].of
                                 /\ log'[i].event = "send_failed" => log'[i].of < log'[j].of
                BY DEF TurnsDoNotMix
            <4>1. i \in 1..Len(log)
                BY <1>5, <3>1
            <4>2. CASE j \in 1..Len(log)
                BY <3>1, <4>1, <4>2 DEF StreamInd, Ordered, TurnsDoNotMix
            <4>3. CASE j = Len(log) + 1
                BY <3>1, <3>2, <4>1, <4>3
            <4>. QED  BY <3>3, <4>2, <4>3
        <3>. QED  BY <2>1, <3>4, <3>5 DEF Ordered
    <2>. QED  BY <2>2, <2>3
<1>7. Reported'
    BY <1>1 DEF Reported, FailuresReported, StreamInd
<1>8. ASSUME ~consumerLeft, NEW m \in Message
      PROVE  Cardinality(LinesOf(m)') + Unread(m)' = lines'[m]
    <2>. DEFINE x == [event |-> "line", of |-> m]
    <2>1. ~closed
        BY <1>1, <1>8 DEF StreamInd, Delivered
    <2>2. Cardinality(LinesOf(m)') = Cardinality(LinesOf(m)) + IF e = x THEN 1 ELSE 0
        <3>1. log' = Append(log, e)
            BY <1>3, <2>1
        <3>2. LinesOf(m)' = Where(Append(log, e), x)
            BY <3>1 DEF LinesOf
        <3>3. LinesOf(m) = Where(log, x)
            BY DEF LinesOf
        <3>. HIDE DEF e, x
        <3>. QED  BY <1>1, <1>4, <3>2, <3>3, AppendCount
    <2>3. e = x <=> m = Len(ran)
        OBVIOUS
    <2>4. Cardinality(LinesOf(m)) \in Nat
        BY <1>1, CountFinite DEF LinesOf
    <2>5. Unread(m) = Unread(m)' + (IF m = Len(ran) THEN 1 ELSE 0) /\ Unread(m)' \in Nat
        BY <1>1, <1>2 DEF Unread
    <2>6. Cardinality(LinesOf(m)) + Unread(m) = lines'[m]
        BY <1>1, <1>8 DEF StreamInd, Delivered
    <2>. HIDE DEF e, x
    <2>. QED  BY <2>2, <2>3, <2>4, <2>5, <2>6
<1>9. Delivered'
    <2>1. phase = "open"
        BY <1>1 DEF StreamInd, SessionInv, NothingRunsUnopened
    <2>. QED  BY <1>1, <1>8, <2>1 DEF Delivered, StreamInd
<1>. QED  BY <1>6, <1>7, <1>9

\* The failure of the message whose subprocess ended goes to the log before
\* the loop goes on; the pipe is empty by then.
LEMMA FinishTells ==
    ASSUME StreamInd, Finish
    PROVE  LET e == [event |-> "send_failed", of |-> Len(ran)] IN
           /\ worker = "running" /\ pipe = <<>> /\ Len(ran) \in Message
           /\ UNCHANGED <<pipe, lines, inputClosed, aborted, phase, consumerLeft>>
           /\ \/ notified' = notified /\ log' = log /\ (aborted \/ cli[Len(ran)] \notin Failed)
              \/ /\ notified' = notified \cup {Len(ran)} /\ cli[Len(ran)] \in Failed /\ ~aborted
                 /\ log' = IF closed THEN log ELSE Append(log, e)
<1>1. worker = "running" /\ pipe = <<>> /\ Current = Len(ran) /\ Len(ran) \in Message
    BY CurrentIsLast DEF Finish, Eof, StreamInd
<1>. QED  BY <1>1 DEF Finish, Reportable, Pushed, openVars

\* What a round does to the worker and the queue.
LEMMA RoundTells ==
    ASSUME StreamInd, Round, UNCHANGED <<aborted, inputClosed>>,
           \A m \in Message : cli[m] # "running"
    PROVE  /\ Len(ran) \in Nat
           /\ \/ /\ worker' \in {"waiting", "ended"}
                 /\ UNCHANGED <<ran, cli, pending>>
                 /\ worker' = "waiting" => closed' = closed
                 /\ worker' = "ended" => closed' = TRUE /\ inputClosed /\ (~aborted => pending = <<>>)
              \/ /\ worker' = "running" /\ closed' = closed
                 /\ ~aborted
                 /\ Len(ran') = Len(ran) + 1
                 /\ Len(ran) + 1 \in Message
                 /\ \A i \in 1..Len(ran) : ran'[i] = ran[i] /\ ran'[i] \in Message \ {Len(ran) + 1}
                 /\ \A m \in Message \ {Len(ran) + 1} : cli'[m] = cli[m]
<1>1. Len(ran) \in Nat /\ ran \in Seq(Message) /\ cli \in [Message -> {"none", "running", "ok"} \cup Failed]
    BY LenFacts DEF StreamInd, SessionInv, TypeOK
<1>2. CASE RoundSleeps
    BY <1>1, <1>2 DEF RoundSleeps, runVars
<1>3. CASE RoundEnds
    BY <1>1, <1>3 DEF RoundEnds, runVars, StreamInd, Delivered
<1>4. CASE RoundRuns
    <2>1. /\ pending # <<>> /\ ~aborted /\ pending \in Seq(Message)
          /\ ran' = Append(ran, Head(pending))
        BY <1>4 DEF RoundRuns, Runnable, StreamInd, SessionInv, TypeOK
    <2>2. Head(pending) = Len(ran) + 1 /\ Head(pending) \in Message
        BY <1>1, <2>1, TailFacts DEF StreamInd, SessionInv, SendsInOrder
    <2>3. Len(ran') = Len(ran) + 1 /\ \A i \in 1..Len(ran) : ran'[i] = ran[i]
        BY <1>1, <2>1, <2>2, AppendFacts
    <2>4. \A i \in 1..Len(ran) : ran[i] = i /\ ran[i] \in Message
        BY <1>1, LenFacts DEF StreamInd, SessionInv, SendsInOrder
    <2>5. \A m \in Message \ {Len(ran) + 1} : cli'[m] = cli[m]
        BY <1>1, <1>4, <2>2 DEF RoundRuns
    <2>. QED  BY <1>1, <1>4, <2>1, <2>2, <2>3, <2>4, <2>5 DEF RoundRuns
<1>. QED  BY <1>2, <1>3, <1>4 DEF Round

\* A resumption of the worker: what it reports comes last, and the next message
\* begins behind it.
LEMMA WorkerStream ==
    ASSUME StreamInd, Wake \/ Finish
    PROVE  Ordered' /\ Reported' /\ Delivered'
<1>1. /\ Round /\ UNCHANGED <<aborted, inputClosed, pipe, lines, phase, consumerLeft>>
      /\ pipe = <<>> /\ phase = "open" /\ worker \in {"woken", "running"}
      /\ \A m \in Message : cli[m] # "running"
    BY DEF Wake, Finish, Eof, openVars, reportVars, StreamInd, Ordered, SessionInv,
           NothingRunsUnopened, OneAtATime, TypeOK
<1>2. Len(ran) \in Nat /\ ran \in Seq(Message) /\ log \in Seq(Events) /\ notified \subseteq Message
    BY LenFacts DEF StreamInd, SessionInv, TypeOK, Events
<1>. DEFINE n == Len(ran)
            e == [event |-> "send_failed", of |-> n]
<1>3. log' = log \/ (worker = "running" /\ e \in Events /\ log' = Append(log, e))
    <2>1. n \in Message => e \in Events
        BY SessionAssumption DEF Events, Message
    <2>. QED  BY <2>1, FinishTells DEF Wake, Finish
<1>4. \/ notified' = notified /\ (worker = "running" => aborted \/ cli[n] \notin Failed)
      \/ worker = "running" /\ ~aborted /\ cli[n] \in Failed /\ n \in Message
         /\ notified' = notified \cup {n}
    BY FinishTells DEF Wake, Finish, reportVars
<1>5. n <= Len(ran') /\ Len(ran') \in Nat /\ (worker' = "running" => n < Len(ran'))
    <2>1. \/ worker' \in {"waiting", "ended"} /\ ran' = ran
          \/ Len(ran') = n + 1
        BY <1>1, RoundTells
    <2>. QED  BY <1>2, <2>1
<1>6. \A i \in 1..Len(log) : log[i].of \in Nat /\ log[i].of <= n
          /\ (worker = "running" /\ log[i].event = "send_failed" => log[i].of < n)
    <2>1. \A i \in 1..Len(log) : log[i] \in Events
        BY <1>2, LenFacts
    <2>2. \A i \in 1..Len(log) : log[i].of \in Nat
        BY <2>1, SessionAssumption DEF Events
    <2>. QED  BY <2>2 DEF StreamInd, Ordered
<1>7. Ordered'
    <2>1. \A i \in 1..Len(pipe') : pipe'[i] = Len(ran')
        <3>1. Len(pipe') = 0
            BY <1>1
        <3>. QED  BY <3>1
    <2>2. CASE log' = log
        <3>1. \A i \in 1..Len(log') :
                 /\ log'[i].of <= Len(ran')
                 /\ worker' = "running" /\ log'[i].event = "send_failed" =>
                       log'[i].of < Len(ran')
            BY <1>2, <1>5, <1>6, <2>2
        <3>2. TurnsDoNotMix'
            BY <2>2 DEF StreamInd, Ordered, TurnsDoNotMix
        <3>3. pipe' = <<>>
            BY <1>1
        <3>. QED  BY <2>1, <3>1, <3>2, <3>3 DEF Ordered
    <2>3. CASE worker = "running" /\ e \in Events /\ log' = Append(log, e)
        <3>1. /\ Len(log) \in Nat /\ Len(log') = Len(log) + 1 /\ log'[Len(log) + 1] = e
              /\ \A i \in 1..Len(log) : log'[i] = log[i]
            BY <1>2, <2>3, AppendFacts, LenFacts
        <3>2. \A i \in 1..Len(log') : i \in 1..Len(log) \/ i = Len(log) + 1
            BY <3>1
        <3>3. \A i \in 1..Len(log') : log'[i].of \in Nat /\ log'[i].of <= n
            BY <1>2, <1>6, <3>1, <3>2
        <3>4. \A i \in 1..Len(log') :
                 /\ log'[i].of <= Len(ran')
                 /\ worker' = "running" /\ log'[i].event = "send_failed" =>
                       log'[i].of < Len(ran')
            BY <1>2, <1>5, <3>3
        <3>5. TurnsDoNotMix'
            <4>. SUFFICES ASSUME NEW i \in 1..Len(log'), NEW j \in 1..Len(log'), i < j
                          PROVE  /\ log'[i].of <= log'[j].of
                                 /\ log'[i].event = "send_failed" => log'[i].of < log'[j].of
                BY DEF TurnsDoNotMix
            <4>1. i \in 1..Len(log) /\ log'[i] = log[i]
                BY <3>1
            <4>2. CASE j \in 1..Len(log)
                BY <3>1, <4>1, <4>2 DEF StreamInd, Ordered, TurnsDoNotMix
            <4>3. CASE j = Len(log) + 1
                BY <1>6, <2>3, <3>1, <4>1, <4>3
            <4>. QED  BY <3>2, <4>2, <4>3
        <3>6. pipe' = <<>>
            BY <1>1
        <3>. QED  BY <2>1, <3>4, <3>5, <3>6 DEF Ordered
    <2>. QED  BY <1>3, <2>2, <2>3
<1>8. Reported'
    <2>1. \A m \in notified : cli[m] \in Failed /\ m <= n /\ m \in Message
        BY <1>2 DEF StreamInd, Reported, FailuresReported
    <2>2. \A i \in 1..n : ran[i] = i /\ ran[i] \in Message
        BY <1>2, LenFacts DEF StreamInd, SessionInv, SendsInOrder
    <2>3. \A i \in 1..n : ~aborted => (ran[i] \in notified' <=> cli[ran[i]] \in Failed)
        <3>1. \A i \in 1..n : ~aborted /\ (worker # "running" \/ i < n) =>
                 (ran[i] \in notified <=> cli[ran[i]] \in Failed)
            BY DEF StreamInd, Reported, FailuresReported
        <3>. QED  BY <1>2, <1>4, <2>1, <2>2, <3>1
    <2>4. \A m \in notified' : cli[m] \in Failed /\ m <= n /\ m \in Message
        BY <1>2, <1>4, <2>1
    <2>5. CASE UNCHANGED <<ran, cli>>
        BY <1>1, <2>3, <2>4, <2>5 DEF Reported, FailuresReported
    <2>6. CASE /\ worker' = "running" /\ Len(ran') = n + 1
               /\ \A i \in 1..n : ran'[i] = ran[i] /\ ran'[i] \in Message \ {n + 1}
               /\ \A m \in Message \ {n + 1} : cli'[m] = cli[m]
        <3>1. \A m \in notified' : cli'[m] \in Failed /\ m <= Len(ran')
            BY <1>2, <2>4, <2>6, SessionAssumption DEF Message
        <3>2. \A i \in 1..Len(ran') : i < Len(ran') => i \in 1..n
            BY <1>2, <2>6
        <3>3. \A i \in 1..n : cli'[ran'[i]] = cli[ran[i]] /\ ran'[i] = ran[i]
            BY <2>6
        <3>. QED  BY <1>1, <2>3, <2>6, <3>1, <3>2, <3>3 DEF Reported, FailuresReported
    <2>. QED  BY <1>1, <2>5, <2>6, RoundTells
<1>9. Delivered'
    <2>1. ASSUME ~consumerLeft, NEW m \in Message
          PROVE  Cardinality(LinesOf(m)') + Unread(m)' = lines'[m]
        <3>1. LinesOf(m)' = LinesOf(m)
            <4>1. CASE log' = log
                BY <4>1 DEF LinesOf
            <4>2. CASE e \in Events /\ log' = Append(log, e)
                <5>1. e # [event |-> "line", of |-> m]
                    OBVIOUS
                <5>2. Len(log) \in Nat /\ Len(log') = Len(log) + 1 /\ log'[Len(log) + 1] = e
                      /\ \A i \in 1..Len(log) : log'[i] = log[i]
                    BY <1>2, <4>2, AppendFacts, LenFacts
                <5>3. 1..Len(log') = 1..Len(log) \cup {Len(log) + 1}
                    BY <5>2
                <5>. QED  BY <5>1, <5>2, <5>3 DEF LinesOf, Where
            <4>. QED  BY <1>3, <4>1, <4>2
        <3>2. Unread(m) = 0 /\ Unread(m)' = 0
            BY <1>1 DEF Unread
        <3>. QED  BY <1>1, <2>1, <3>1, <3>2 DEF StreamInd, Delivered
    <2>2. ~closed \/ consumerLeft
        BY <1>1 DEF StreamInd, Delivered
    <2>3. /\ closed' => consumerLeft' \/ worker' = "ended"
          /\ worker' = "ended" => closed' /\ inputClosed' /\ (~aborted' => pending' = <<>>)
        <3>1. /\ worker' = "waiting" => closed' = closed
              /\ worker' = "running" => closed' = closed
              /\ worker' = "ended" =>
                    closed' = TRUE /\ inputClosed /\ (~aborted => pending = <<>>) /\ pending' = pending
              /\ worker' \in {"waiting", "ended", "running"}
            BY <1>1, RoundTells
        <3>. QED  BY <1>1, <2>2, <3>1
    <2>. QED  BY <1>1, <2>1, <2>3 DEF Delivered, StreamInd
<1>. QED  BY <1>7, <1>8, <1>9

LEMMA InitStream == Init => StreamInd
<1>. SUFFICES ASSUME Init PROVE StreamInd
    OBVIOUS
<1>1. log = <<>> /\ pipe = <<>> /\ ran = <<>> /\ Len(log) = 0 /\ Len(pipe) = 0 /\ Len(ran) = 0
    BY DEF Init
<1>2. Ordered
    BY <1>1 DEF Ordered, TurnsDoNotMix
<1>3. Reported
    BY <1>1 DEF Init, Reported, FailuresReported
<1>4. \A m \in Message : LinesOf(m) = {} /\ Unread(m) = 0 /\ lines[m] = 0
    BY <1>1 DEF Init, LinesOf, Where, Unread
<1>5. Delivered
    BY <1>4, FS_EmptySet DEF Init, Delivered
<1>. QED  BY <1>2, <1>3, <1>5, InitSessionInv DEF StreamInd

LEMMA StepStream == StreamInd /\ [Next]_vars => StreamInd'
<1>. SUFFICES ASSUME StreamInd, [Next]_vars PROVE StreamInd'
    OBVIOUS
<1>1. SessionInv'
    BY StepSessionInv DEF StreamInd
<1>2. Ordered' /\ Reported' /\ Delivered'
    BY CallerStream, OpenStream, ProcessStream, PumpStream, WorkerStream DEF Next
<1>. QED  BY <1>1, <1>2 DEF StreamInd

\* The events of one message come before those of the next and its failure
\* last; without an abort a failure is reported, and only a failure is; and a
\* session that ends has run what was sent and delivered what was written
\* (cursor/session.ts:229-447, cursor/pumps.ts).
THEOREM StreamIsFaithful == Spec => []EventsFaithful
<1>1. StreamInd => EventsFaithful
    <2>. SUFFICES ASSUME StreamInd PROVE EventsFaithful
        OBVIOUS
    <2>1. EndsDrained
        <3>. SUFFICES ASSUME worker = "ended" PROVE EndsDrained
            BY DEF EndsDrained
        <3>1. closed /\ (~aborted => pending = <<>>)
            BY DEF StreamInd, Delivered
        <3>2. pending = <<>> => Len(ran) = sent
            BY LenFacts DEF StreamInd, SessionInv, SendsInOrder, TypeOK
        <3>3. pipe = <<>> /\ Len(pipe) = 0
            BY DEF StreamInd, Ordered
        <3>4. ASSUME ~consumerLeft, NEW m \in Message PROVE Cardinality(LinesOf(m)) = lines[m]
            <4>1. Unread(m) = 0
                BY <3>3 DEF Unread
            <4>2. Cardinality(LinesOf(m)) \in Nat
                <5>1. log \in Seq(Events)
                    BY DEF StreamInd, SessionInv, TypeOK, Events
                <5>. QED  BY <5>1, CountFinite DEF LinesOf
            <4>. QED  BY <3>4, <4>1, <4>2 DEF StreamInd, Delivered
        <3>. QED  BY <3>1, <3>2, <3>4 DEF EndsDrained, LinesOf, Where
    <2>. QED  BY <2>1 DEF StreamInd, Ordered, Reported, EventsFaithful
<1>. QED  BY <1>1, InitStream, StepStream, PTL DEF Spec

=============================================================================
