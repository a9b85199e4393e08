------------------------ MODULE OpenCodeSessionProofs ------------------------
(***************************************************************************)
(* What an OpenCode session keeps for every number of sends, turns and     *)
(* events of other sessions: a running server is registered, the           *)
(* background teardown neither misses the idle event it waits for nor      *)
(* kills a busy session, a turn-end stands exactly behind the end of a     *)
(* busy spell, and the handle keeps the contract of RuntimeSession.        *)
(***************************************************************************)
EXTENDS OpenCodeSession, FiniteSetTheorems, SequenceTheorems, TLAPS

\* Facts about sequences the steps below use.
LEMMA SequenceProperties ==
    ASSUME NEW S, NEW s \in Seq(S)
    PROVE  /\ Len(s) \in Nat
           /\ s = <<>> <=> Len(s) = 0
           /\ \A i \in 1..Len(s) : s[i] \in S
           /\ \A T : S \subseteq T => s \in Seq(T)
OBVIOUS

LEMMA FunctionIsSequence ==
    ASSUME NEW S, NEW n \in Nat, NEW f, f = [i \in 1..n |-> f[i]], \A i \in 1..n : f[i] \in S
    PROVE  f \in Seq(S) /\ Len(f) = n
OBVIOUS

LEMMA TailProperties ==
    ASSUME NEW S, NEW s \in Seq(S), s # <<>>
    PROVE  Head(s) \in S /\ Tail(s) \in Seq(S)
OBVIOUS

LEMMA ExceptProperties ==
    ASSUME NEW S, NEW s \in Seq(S), NEW i \in 1..Len(s), NEW e \in S
    PROVE  /\ [s EXCEPT ![i] = e] \in Seq(S) /\ Len([s EXCEPT ![i] = e]) = Len(s)
           /\ \A j \in 1..Len(s) : [s EXCEPT ![i] = e][j] = IF j = i THEN e ELSE s[j]
OBVIOUS

-----------------------------------------------------------------------------
(* Types *)

SendState == {"posted", "taken", "refused", "accepted", "undelivered", "aborted", "inputClosed"}

\* What the server writes: no synthetic event.
Notes == {Global} \cup {Other("sessionIdle")}
         \cup {Own(t, n) : t \in {"busy"} \cup IdleType, n \in Turns}

LEMMA EventFacts ==
    /\ Notes \subseteq EventSet
    /\ Global \in Notes /\ Other("sessionIdle") \in Notes
    /\ \A t \in {"busy", "idle", "sessionIdle"} : \A n \in Turns : Own(t, n) \in Notes
    /\ \A n \in Turns : Own("turn-end", n) \in EventSet
    /\ \A e \in Notes :
          /\ e.type # "turn-end"
          /\ e.session = "own" => e.type \in {"busy"} \cup IdleType /\ e.turn \in Turns
<1>1. Notes \subseteq EventSet
  BY DEF Notes, EventSet
<1>2. /\ Global \in Notes /\ Other("sessionIdle") \in Notes
      /\ \A t \in {"busy", "idle", "sessionIdle"} : \A n \in Turns : Own(t, n) \in Notes
      /\ \A n \in Turns : Own("turn-end", n) \in EventSet
  BY DEF Notes, EventSet, IdleType
<1>3. ASSUME NEW e \in Notes
      PROVE  /\ e.type # "turn-end"
             /\ e.session = "own" => e.type \in {"busy"} \cup IdleType /\ e.turn \in Turns
  <2>1. CASE e = Global \/ e = Other("sessionIdle")
    BY <2>1 DEF Global, Other
  <2>2. CASE \E t \in {"busy"} \cup IdleType : \E n \in Turns : e = Own(t, n)
    BY <2>2 DEF Own, IdleType
  <2> QED BY <2>1, <2>2 DEF Notes
<1> QED BY <1>1, <1>2, <1>3

\* A turn is one of the prompts, a prompt one of the sends the server took.
Posted == {s \in Sends : sends[s] = "posted"}
Budget ==
    /\ prompts + turns + Cardinality(Posted) <= Len(sends)
    /\ Len(sends) <= MaxSend

Typed == TypeOK /\ wire \in Seq(Notes) /\ Budget

LEMMA PostedFinite ==
    ASSUME TypeOK
    PROVE  IsFiniteSet(Posted) /\ Cardinality(Posted) \in Nat /\ Len(sends) \in Nat
<1>1. Len(sends) \in Nat
  BY SequenceProperties DEF TypeOK
<1>2. IsFiniteSet(1..Len(sends))
  BY <1>1, FS_Interval
<1>3. Posted \subseteq 1..Len(sends)
  BY DEF Posted, Sends
<1> QED BY <1>1, <1>2, <1>3, FS_Subset, FS_CardinalityType

LEMMA InitTyped == Init => Typed
<1> SUFFICES ASSUME Init PROVE Typed
  OBVIOUS
<1>1. \A S : <<>> \in Seq(S)
  OBVIOUS
<1>2. TypeOK /\ wire \in Seq(Notes)
  <2>1. 0 \in 0..MaxForeign
    BY SessionAssumption
  <2> QED BY <1>1, <2>1 DEF Init, TypeOK, None
<1>3. Budget
  <2>1. Posted = {} /\ Len(sends) = 0
    BY DEF Init, Posted, Sends
  <2> QED BY <2>1, FS_EmptySet, SessionAssumption DEF Init, Budget
<1> QED BY <1>2, <1>3 DEF Typed

\* The steps that leave the sends, the server's turns and the events alone.
LEMMA QuietTyped ==
    ASSUME Typed, wire' \in {wire, <<>>},
           UNCHANGED <<sends, prompts, serving, turns, foreign, published>>,
           phase' \in {"starting", "creating", "open", "failed"},
           {aborted', inputClosed', isIdle', recent', signalled', registered', sseAborted', done'}
               \subseteq BOOLEAN,
           teardown' \in {"none", "window", "await", "resumed", "over"},
           abortRequest' \in {"none", "pending", "settled"},
           server' \in {"running", "exited"},
           stream' \in {"none", "connecting", "open", "ended"}
    PROVE  Typed'
<1>1. \A S : <<>> \in Seq(S)
  OBVIOUS
<1>2. wire' \in Seq(Notes) /\ wire' \in Seq(EventSet)
  BY <1>1 DEF Typed, TypeOK
<1>3. TypeOK'
  BY <1>2 DEF Typed, TypeOK
<1>4. Budget'
  BY DEF Typed, Budget, Posted, Sends
<1> QED BY <1>2, <1>3, <1>4 DEF Typed

LEMMA LoopTyped ==
    TypeOK /\ Loop => teardown' \in {"await", "over"} /\ {signalled', sseAborted'} \subseteq BOOLEAN
BY DEF Loop, TypeOK

LEMMA HandleTyped == Typed /\ (Opening \/ Handle) /\ ~Send => Typed'
<1> SUFFICES ASSUME Typed, Opening \/ Handle, ~Send PROVE Typed'
  OBVIOUS
<1>1. TypeOK
  BY DEF Typed
<1>2. CASE Opening
  BY <1>1, <1>2, QuietTyped
     DEF Opening, Listens, Opens, StartFails, Created, CreateRefused, CreateThrows, TypeOK, flagVars,
         childVars, serverVars, sseVars
<1>3. CASE EndInput
  BY <1>1, <1>3, LoopTyped, QuietTyped DEF EndInput, TypeOK, flagVars, childVars, serverVars, sseVars
<1>4. CASE SendAges \/ Abort \/ SignalFires
  BY <1>1, <1>4, QuietTyped DEF SendAges, Abort, SignalFires, TypeOK, flagVars, childVars, serverVars,
                                sseVars
<1> QED BY <1>2, <1>3, <1>4 DEF Handle

LEMMA SendTyped == Typed /\ Send => Typed'
<1> SUFFICES ASSUME Typed, Send PROVE Typed'
  OBVIOUS
<1>1. TypeOK /\ Budget
  BY DEF Typed
<1>2. PICK o \in {"posted", "aborted", "inputClosed"} : sends' = Append(sends, o)
  BY DEF Send, Refusal
<1>3. sends \in Seq(SendState) /\ o \in SendState
  BY <1>1 DEF TypeOK, SendState
<1>4. /\ sends' \in Seq(SendState) /\ Len(sends') = Len(sends) + 1
      /\ (\A s \in 1..Len(sends) : sends'[s] = sends[s]) /\ sends'[Len(sends) + 1] = o
  BY <1>2, <1>3, AppendProperties
<1>5. /\ UNCHANGED <<phase, aborted, inputClosed, isIdle, teardown, abortRequest, server, signalled,
                     registered, prompts, serving, turns, foreign, stream, sseAborted, wire, published,
                     done>>
      /\ recent' \in BOOLEAN
  BY <1>1 DEF Send, TypeOK, flagVars, childVars, serverVars, sseVars
<1>6. TypeOK'
  BY <1>1, <1>4, <1>5 DEF TypeOK, SendState
<1>7. Budget'
  <2>1. Posted' = Posted \/ Posted' = Posted \cup {Len(sends) + 1}
    <3>1. Sends' = Sends \cup {Len(sends) + 1} /\ \A s \in Sends : sends'[s] = sends[s]
      BY <1>4, <1>1, PostedFinite DEF Sends
    <3> QED BY <1>4, <3>1 DEF Posted
  <2>2. IsFiniteSet(Posted) /\ Cardinality(Posted) \in Nat
    BY <1>1, PostedFinite
  <2>3. Cardinality(Posted') <= Cardinality(Posted) + 1 /\ Cardinality(Posted') \in Nat
    <3>1. CASE Posted' = Posted
      BY <2>2, <3>1
    <3>2. CASE Posted' = Posted \cup {Len(sends) + 1}
      <4>1. Cardinality(Posted') = IF Len(sends) + 1 \in Posted THEN Cardinality(Posted)
                                   ELSE Cardinality(Posted) + 1
        BY <2>2, <3>2, FS_AddElement
      <4> QED BY <2>2, <4>1
    <3> QED BY <2>1, <3>1, <3>2
  <2>4. Len(sends) + 1 <= MaxSend /\ prompts \in Nat /\ turns \in Nat
    BY <1>1, PostedFinite, SessionAssumption DEF Send, TypeOK, Turns, None
  <2> QED BY <1>1, <1>4, <1>5, <2>3, <2>4, PostedFinite DEF Budget
<1> QED BY <1>5, <1>6, <1>7 DEF Typed

\* A send() leaves "posted".
LEMMA PostedLeaves ==
    ASSUME TypeOK, NEW s \in Sends, NEW o \in SendState \ {"posted"}, sends' = [sends EXCEPT ![s] = o]
    PROVE  /\ sends' \in Seq(SendState) /\ Len(sends') = Len(sends)
           /\ \A r \in Sends : sends'[r] = IF r = s THEN o ELSE sends[r]
           /\ Cardinality(Posted') \in Nat
           /\ Cardinality(Posted') = IF sends[s] = "posted" THEN Cardinality(Posted) - 1
                                     ELSE Cardinality(Posted)
<1>1. sends \in Seq(SendState) /\ s \in 1..Len(sends)
  BY DEF TypeOK, SendState, Sends
<1>2. /\ sends' \in Seq(SendState) /\ Len(sends') = Len(sends)
      /\ \A r \in Sends : sends'[r] = IF r = s THEN o ELSE sends[r]
  BY <1>1, ExceptProperties DEF Sends
<1>3. Posted' = Posted \ {s} /\ (s \in Posted <=> sends[s] = "posted")
  BY <1>2 DEF Posted, Sends
<1>4. /\ Cardinality(Posted \ {s}) \in Nat
      /\ Cardinality(Posted \ {s}) = IF s \in Posted THEN Cardinality(Posted) - 1 ELSE Cardinality(Posted)
  BY PostedFinite, FS_RemoveElement, FS_CardinalityType
<1> QED BY <1>2, <1>3, <1>4

LEMMA SendsSettleTyped == Typed /\ (ServerTakes \/ SendSettles) => Typed'
<1> SUFFICES ASSUME Typed, ServerTakes \/ SendSettles PROVE Typed'
  OBVIOUS
<1>1. TypeOK /\ Budget /\ prompts \in Nat /\ turns \in Nat
  BY DEF Typed, TypeOK, Turns, None
<1>2. PICK s \in Sends, o \in SendState \ {"posted"} :
         /\ sends' = [sends EXCEPT ![s] = o]
         /\ prompts' = prompts \/ (sends[s] = "posted" /\ prompts' = prompts + 1)
  <2>1. CASE ServerTakes
    BY <2>1 DEF ServerTakes, SendState
  <2>2. CASE SendSettles
    BY <2>2 DEF SendSettles, SendState, serverVars
  <2> QED BY <2>1, <2>2
<1>3. /\ sends' \in Seq(SendState) /\ Len(sends') = Len(sends)
      /\ Cardinality(Posted') \in Nat
      /\ Cardinality(Posted') = IF sends[s] = "posted" THEN Cardinality(Posted) - 1
                                ELSE Cardinality(Posted)
  BY <1>1, <1>2, PostedLeaves
<1>4. UNCHANGED <<phase, aborted, inputClosed, isIdle, recent, teardown, abortRequest, server, signalled,
                  registered, serving, turns, foreign, stream, sseAborted, wire, published, done>>
  BY DEF ServerTakes, SendSettles, flagVars, childVars, serverVars, sseVars
<1>5. TypeOK'
  BY <1>1, <1>2, <1>3, <1>4 DEF TypeOK, SendState
<1>6. Budget'
  BY <1>1, <1>2, <1>3, <1>4, PostedFinite DEF Budget
<1> QED BY <1>4, <1>5, <1>6 DEF Typed

\* What the server writes reaches the stream or nobody.
LEMMA EmitsTyped ==
    ASSUME Typed, NEW events \in Seq(Notes), Emits(events)
    PROVE  wire' \in Seq(Notes) /\ wire' \in Seq(EventSet)
<1>1. wire \in Seq(Notes)
  BY DEF Typed
<1>2. wire \o events \in Seq(Notes)
  BY <1>1, ConcatProperties
<1>3. wire' \in Seq(Notes)
  BY <1>1, <1>2 DEF Emits
<1> QED BY <1>3, EventFacts, SequenceProperties

LEMMA TurnsTyped == Typed /\ (ServerStarts \/ ServerFinishes) => Typed'
<1> SUFFICES ASSUME Typed, ServerStarts \/ ServerFinishes PROVE Typed'
  OBVIOUS
<1>1. TypeOK /\ Budget /\ prompts \in Nat /\ turns \in Nat /\ Len(sends) \in Nat
      /\ Cardinality(Posted) \in Nat
  BY PostedFinite DEF Typed, TypeOK, Turns, None
<1>2. UNCHANGED <<phase, aborted, inputClosed, isIdle, recent, teardown, abortRequest, sends, server,
                  signalled, registered, foreign, stream, sseAborted, published, done>>
  BY DEF ServerStarts, ServerFinishes, flagVars, childVars
<1>3. Posted' = Posted
  BY <1>2 DEF Posted, Sends
<1>4. CASE ServerStarts
  <2>1. turns + 1 \in Turns
    BY <1>1, <1>4, SessionAssumption DEF ServerStarts, Budget, Turns
  <2>2. PICK event : event = Own("busy", turns + 1)
    OBVIOUS
  <2>3. Emits(<<event>>)
    BY <1>4, <2>2 DEF ServerStarts
  <2>4. <<event>> \in Seq(Notes)
    BY <2>1, <2>2, EventFacts
  <2>5. wire' \in Seq(Notes) /\ wire' \in Seq(EventSet)
    BY <2>3, <2>4, EmitsTyped
  <2>6. serving' = turns + 1 /\ turns' = turns + 1 /\ prompts' = prompts - 1 /\ prompts' \in Nat
    BY <1>1, <1>4 DEF ServerStarts
  <2>7. TypeOK'
    BY <1>1, <1>2, <2>1, <2>5, <2>6 DEF TypeOK
  <2>8. Budget'
    BY <1>1, <1>2, <1>3, <2>6 DEF Budget
  <2> QED BY <2>5, <2>7, <2>8 DEF Typed
<1>5. CASE ServerFinishes
  <2>1. serving \in Turns
    BY <1>1, <1>5 DEF ServerFinishes, TypeOK
  <2>2. PICK e, f : e = Own("idle", serving) /\ f = Own("sessionIdle", serving)
    OBVIOUS
  <2>3. Emits(<<e>>) \/ Emits(<<f>>) \/ Emits(<<e, f>>)
    BY <1>5, <2>2 DEF ServerFinishes
  <2>4. e \in Notes /\ f \in Notes
    BY <2>1, <2>2, EventFacts
  <2>5. <<e>> \in Seq(Notes) /\ <<f>> \in Seq(Notes) /\ <<e, f>> \in Seq(Notes)
    BY <2>4
  <2>6. wire' \in Seq(Notes) /\ wire' \in Seq(EventSet)
    BY <2>3, <2>5, EmitsTyped
  <2>7. serving' = None /\ turns' = turns /\ prompts' = prompts
    BY <1>5 DEF ServerFinishes
  <2>8. TypeOK'
    BY <1>1, <1>2, <2>6, <2>7 DEF TypeOK
  <2>9. Budget'
    BY <1>1, <1>2, <1>3, <2>7 DEF Budget
  <2> QED BY <2>6, <2>8, <2>9 DEF Typed
<1> QED BY <1>4, <1>5

LEMMA StreamTyped == Typed /\ (ServerServesOthers \/ Connects) => Typed'
<1> SUFFICES ASSUME Typed, ServerServesOthers \/ Connects PROVE Typed'
  OBVIOUS
<1>1. TypeOK
  BY DEF Typed
<1>2. UNCHANGED <<phase, aborted, inputClosed, isIdle, recent, teardown, abortRequest, sends, server,
                  signalled, registered, prompts, serving, turns, sseAborted, published, done>>
  BY DEF ServerServesOthers, Connects, flagVars, childVars, serverVars
<1>3. wire' \in Seq(Notes) /\ wire' \in Seq(EventSet)
  <2>1. <<Global>> \in Seq(Notes) /\ <<Other("sessionIdle")>> \in Seq(Notes)
    BY EventFacts
  <2>2. CASE ServerServesOthers
    BY <2>1, <2>2, EmitsTyped DEF ServerServesOthers
  <2>3. CASE Connects
    <3>1. wire' \in Seq(Notes)
      BY <2>1, <2>3 DEF Connects
    <3> QED BY <3>1, EventFacts, SequenceProperties
  <2> QED BY <2>2, <2>3
<1>4. foreign' \in 0..MaxForeign /\ stream' \in {"none", "connecting", "open", "ended"}
  BY <1>1, SessionAssumption DEF ServerServesOthers, Connects, serverVars, TypeOK
<1>5. TypeOK'
  BY <1>1, <1>2, <1>3, <1>4 DEF TypeOK
<1>6. Budget'
  BY <1>2 DEF Typed, Budget, Posted, Sends
<1> QED BY <1>3, <1>5, <1>6 DEF Typed

LEMMA DispatchTyped == Typed /\ Dispatch => Typed'
<1> SUFFICES ASSUME Typed, Dispatch PROVE Typed'
  OBVIOUS
<1>1. TypeOK
  BY DEF Typed
<1>2. PICK e : e = Head(wire)
  OBVIOUS
<1>3. e \in Notes /\ e \in EventSet /\ wire' \in Seq(Notes) /\ wire' \in Seq(EventSet)
  <2>1. wire \in Seq(Notes) /\ wire # <<>> /\ wire' = Tail(wire)
    BY DEF Dispatch, Typed
  <2> QED BY <1>2, <2>1, TailProperties, EventFacts, SequenceProperties
<1>4. /\ isIdle' = ((isIdle \/ EndsTurn(e)) /\ ~Busy(e))
      /\ teardown' = IF Wakes(e) THEN "resumed" ELSE teardown
      /\ published' = published \o (IF e.session # "other" THEN <<e>> ELSE <<>>)
            \o (IF EndsTurn(e) THEN <<Own("turn-end", e.turn)>> ELSE <<>>)
  BY <1>2 DEF Dispatch
<1>5. UNCHANGED <<phase, aborted, inputClosed, recent, abortRequest, sends, server, signalled,
                  registered, prompts, serving, turns, foreign, stream, sseAborted, done>>
  BY DEF Dispatch, flagVars, childVars, serverVars
<1>6. isIdle' \in BOOLEAN /\ teardown' \in {"none", "window", "await", "resumed", "over"}
  BY <1>1, <1>4 DEF TypeOK
<1>7. published' \in Seq(EventSet)
  <2>1. published \in Seq(EventSet)
    BY <1>1 DEF TypeOK
  <2>2. PICK own : own = IF e.session # "other" THEN <<e>> ELSE <<>>
    OBVIOUS
  <2>3. PICK twin : twin = IF EndsTurn(e) THEN <<Own("turn-end", e.turn)>> ELSE <<>>
    OBVIOUS
  <2>4. own \in Seq(EventSet)
    BY <1>3, <2>2
  <2>5. twin \in Seq(EventSet)
    <3>1. EndsTurn(e) => Own("turn-end", e.turn) \in EventSet
      BY <1>3, EventFacts DEF EndsTurn, Idle
    <3> QED BY <2>3, <3>1
  <2>6. published' = (published \o own) \o twin
    BY <1>4, <2>2, <2>3
  <2>7. published \o own \in Seq(EventSet)
    BY <2>1, <2>4, ConcatProperties
  <2> QED BY <2>5, <2>6, <2>7, ConcatProperties
<1>8. TypeOK'
  BY <1>1, <1>3, <1>5, <1>6, <1>7 DEF TypeOK
<1>9. Budget'
  BY <1>5 DEF Typed, Budget, Posted, Sends
<1> QED BY <1>3, <1>8, <1>9 DEF Typed

LEMMA TasksTyped ==
    Typed /\ (ServerExits \/ SseDropped \/ WindowEnds \/ TeardownResumes \/ AbortSettles \/ SseEnds \/ Done)
        => Typed'
<1> SUFFICES ASSUME Typed, ServerExits \/ SseDropped \/ WindowEnds \/ TeardownResumes \/ AbortSettles
                              \/ SseEnds \/ Done
             PROVE  Typed'
  OBVIOUS
<1>1. TypeOK
  BY DEF Typed
<1>2. CASE ServerExits \/ WindowEnds \/ AbortSettles \/ Done
  BY <1>1, <1>2, QuietTyped DEF ServerExits, WindowEnds, AbortSettles, Done, TypeOK, flagVars, childVars,
                                serverVars, sseVars
<1>3. CASE TeardownResumes
  BY <1>1, <1>3, LoopTyped, QuietTyped DEF TeardownResumes, TypeOK, flagVars, serverVars
<1>4. CASE SseDropped \/ SseEnds
  BY <1>1, <1>4, QuietTyped DEF SseDropped, SseEnds, SseOver, TypeOK, flagVars, childVars, serverVars
<1> QED BY <1>2, <1>3, <1>4

LEMMA TypedStep == Typed /\ [Next]_vars => Typed'
<1> SUFFICES ASSUME Typed, UNCHANGED vars PROVE Typed'
  BY HandleTyped, SendTyped, SendsSettleTyped, TurnsTyped, StreamTyped, DispatchTyped, TasksTyped
     DEF Next, Server, Tasks
<1> QED BY QuietTyped DEF Typed, TypeOK, vars, flagVars, childVars, serverVars, sseVars

-----------------------------------------------------------------------------
(* The server, its registration and the teardown *)

\* Until the handle is returned nothing of it moves, a teardown that is over has
\* killed the server or left that to abort(), and the two invariants of the run.
Lifecycle ==
    /\ phase # "open" => teardown = "none" /\ stream = "none"
    /\ teardown = "over" => aborted \/ signalled
    /\ Tracked
    /\ NoMissedIdle

LEMMA LoopEnds ==
    ASSUME TypeOK, Loop
    PROVE  /\ teardown' = "over" => aborted \/ signalled'
           /\ teardown' = "await" => ~isIdle
           /\ teardown' \in {"await", "over"}
           /\ signalled => signalled'
BY DEF Loop, TypeOK

LEMMA LifecycleStep == Typed /\ Lifecycle /\ [Next]_vars => Lifecycle'
<1> SUFFICES ASSUME Typed, Lifecycle, [Next]_vars PROVE Lifecycle'
  OBVIOUS
<1>1. TypeOK
  BY DEF Typed
<1>2. CASE Opening
  BY <1>1, <1>2 DEF Opening, Listens, Opens, StartFails, Created, CreateRefused, CreateThrows, Lifecycle,
     Tracked, NoMissedIdle, TypeOK, flagVars, childVars, sseVars
<1>3. CASE EndInput \/ TeardownResumes
  <2>1. /\ Loop \/ (teardown' = "window" /\ UNCHANGED signalled)
        /\ phase = "open"
        /\ UNCHANGED <<phase, aborted, isIdle, server, registered, stream>>
    BY <1>3 DEF EndInput, TeardownResumes, flagVars, Lifecycle
  <2> QED BY <1>1, <2>1, LoopEnds DEF Lifecycle, Tracked, NoMissedIdle
<1>4. CASE Send \/ SendAges \/ Abort \/ SignalFires
  BY <1>1, <1>4 DEF Send, SendAges, Abort, SignalFires, Lifecycle, Tracked, NoMissedIdle, TypeOK,
     flagVars, childVars, sseVars
<1>5. CASE Server /\ ~SseDropped
  BY <1>1, <1>5 DEF Server, ServerTakes, ServerStarts, ServerFinishes, ServerServesOthers, Connects,
     ServerExits, Lifecycle, Tracked, NoMissedIdle, TypeOK, flagVars, childVars, sseVars
<1>6. CASE SseDropped \/ SseEnds
  BY <1>1, <1>6 DEF SseDropped, SseEnds, SseOver, Lifecycle, Tracked, NoMissedIdle, flagVars, childVars
<1>7. CASE Dispatch
  <2>1. PICK e : /\ isIdle' = ((isIdle \/ EndsTurn(e)) /\ ~Busy(e))
                 /\ teardown' = IF Wakes(e) THEN "resumed" ELSE teardown
    BY <1>7 DEF Dispatch
  <2>2. stream = "open" /\ UNCHANGED <<phase, aborted, signalled, server, registered, stream>>
    BY <1>7 DEF Dispatch, flagVars, childVars
  <2>3. teardown' = "await" => ~isIdle'
    BY <1>1, <2>1 DEF Wakes, EndsTurn, Lifecycle, NoMissedIdle, TypeOK
  <2>4. teardown' # "none" => teardown # "none"
    BY <2>1 DEF Wakes
  <2>5. teardown' = "over" => teardown = "over"
    BY <2>1
  <2>6. phase = "open"
    BY <2>2 DEF Lifecycle
  <2> QED BY <2>2, <2>3, <2>5, <2>6 DEF Lifecycle, Tracked, NoMissedIdle
<1>8. CASE WindowEnds \/ AbortSettles \/ SendSettles \/ Done \/ UNCHANGED vars
  BY <1>1, <1>8 DEF WindowEnds, AbortSettles, SendSettles, Done, Finished, vars, Lifecycle, Tracked,
     NoMissedIdle, TypeOK, flagVars, childVars, sseVars
<1> QED BY <1>2, <1>3, <1>4, <1>5, <1>6, <1>7, <1>8 DEF Next, Handle, Server, Tasks

-----------------------------------------------------------------------------
(* The turn-ends *)

\* A busy spell is open behind the n-th event.
OpenAt(n) == \E j \in 1..n : OwnType(j) = "busy" /\ \A k \in (j + 1)..n : OwnType(k) \notin IdleType

OpensAndEnds ==
    \A n \in Nat : OpenAt(n + 1) <=>
        OwnType(n + 1) = "busy" \/ (OpenAt(n) /\ OwnType(n + 1) \notin IdleType)

LEMMA OpenNext == OpensAndEnds
<1> SUFFICES ASSUME NEW n \in Nat
             PROVE  OpenAt(n + 1) <=>
                       OwnType(n + 1) = "busy" \/ (OpenAt(n) /\ OwnType(n + 1) \notin IdleType)
  BY DEF OpensAndEnds
<1>1. ASSUME OpenAt(n + 1), OwnType(n + 1) # "busy"
      PROVE  OpenAt(n) /\ OwnType(n + 1) \notin IdleType
  <2>1. PICK j \in 1..(n + 1) :
           OwnType(j) = "busy" /\ \A k \in (j + 1)..(n + 1) : OwnType(k) \notin IdleType
    BY <1>1 DEF OpenAt
  <2>2. j \in 1..n /\ n + 1 \in (j + 1)..(n + 1) /\ (j + 1)..n \subseteq (j + 1)..(n + 1)
    BY <1>1, <2>1
  <2> QED BY <2>1, <2>2 DEF OpenAt
<1>2. ASSUME OwnType(n + 1) = "busy" PROVE OpenAt(n + 1)
  <2>1. n + 1 \in 1..(n + 1) /\ (n + 2)..(n + 1) = {} /\ (n + 1) + 1 = n + 2
    OBVIOUS
  <2> QED BY <1>2, <2>1 DEF OpenAt
<1>3. ASSUME OpenAt(n), OwnType(n + 1) \notin IdleType PROVE OpenAt(n + 1)
  <2>1. PICK j \in 1..n : OwnType(j) = "busy" /\ \A k \in (j + 1)..n : OwnType(k) \notin IdleType
    BY <1>3 DEF OpenAt
  <2>2. j \in 1..(n + 1) /\ \A k \in (j + 1)..(n + 1) : k \in (j + 1)..n \/ k = n + 1
    OBVIOUS
  <2> QED BY <1>3, <2>1, <2>2 DEF OpenAt
<1> QED BY <1>1, <1>2, <1>3

LEMMA OpenKept ==
    ASSUME NEW n \in Nat, \A i \in 1..n : OwnType(i)' = OwnType(i)
    PROVE  \A i \in 0..n : OpenAt(i)' <=> OpenAt(i)
<1> SUFFICES ASSUME NEW i \in 0..n PROVE OpenAt(i)' <=> OpenAt(i)
  OBVIOUS
<1>1. \A j \in 1..i : OwnType(j)' = OwnType(j) /\ \A k \in (j + 1)..i : OwnType(k)' = OwnType(k)
  OBVIOUS
<1> QED BY <1>1 DEF OpenAt, IdleType

\* The session is idle exactly when no spell is open.
Spells == TurnEndPerSpell /\ (isIdle <=> ~OpenAt(Len(published)))

\* What one event of the stream makes of the events and of isIdle.
LEMMA DispatchPublishes ==
    ASSUME Typed, Dispatch
    PROVE  \E e \in Notes :
              /\ isIdle' = ((isIdle \/ EndsTurn(e)) /\ ~Busy(e))
              /\ Len(published) \in Nat
              /\ \A i \in 1..Len(published) : published'[i] = published[i]
              /\ \/ e.session = "other" /\ published' = published
                 \/ /\ e.session # "other" /\ ~EndsTurn(e)
                    /\ Len(published') = Len(published) + 1 /\ published'[Len(published) + 1] = e
                 \/ /\ EndsTurn(e)
                    /\ Len(published') = Len(published) + 2 /\ published'[Len(published) + 1] = e
                    /\ published'[Len(published) + 2] = Own("turn-end", e.turn)
<1>1. PICK e : e = Head(wire)
  OBVIOUS
<1>2. e \in Notes /\ e \in EventSet
  <2>1. wire \in Seq(Notes) /\ wire # <<>>
    BY DEF Dispatch, Typed
  <2> QED BY <1>1, <2>1, TailProperties, EventFacts
<1>3. /\ isIdle' = ((isIdle \/ EndsTurn(e)) /\ ~Busy(e))
      /\ published' = published \o (IF e.session # "other" THEN <<e>> ELSE <<>>)
            \o (IF EndsTurn(e) THEN <<Own("turn-end", e.turn)>> ELSE <<>>)
  BY <1>1 DEF Dispatch
<1>4. published \in Seq(EventSet) /\ Len(published) \in Nat
  BY SequenceProperties DEF Typed, TypeOK
<1>5. published \o <<>> = published
  BY <1>4, ConcatEmptySeq
<1>6. PICK p : p = published \o <<e>>
  OBVIOUS
<1>7. /\ p \in Seq(EventSet) /\ Len(p) = Len(published) + 1 /\ p[Len(published) + 1] = e
      /\ \A i \in 1..Len(published) : p[i] = published[i]
      /\ p \o <<>> = p
  <2>1. p = Append(published, e)
    BY <1>2, <1>4, <1>6, AppendIsConcat
  <2> QED BY <1>2, <1>4, <2>1, AppendProperties, ConcatEmptySeq
<1>8. CASE e.session = "other"
  <2>1. ~EndsTurn(e)
    BY <1>8 DEF EndsTurn, Idle
  <2>2. published' = published
    BY <1>3, <1>5, <1>8, <2>1
  <2> QED BY <1>2, <1>3, <1>4, <1>8, <2>2
<1>9. CASE e.session # "other" /\ ~EndsTurn(e)
  <2>1. published' = p
    BY <1>3, <1>6, <1>7, <1>9
  <2> QED BY <1>2, <1>3, <1>4, <1>7, <1>9, <2>1
<1>10. CASE EndsTurn(e)
  <2>1. e.session = "own"
    BY <1>10 DEF EndsTurn, Idle
  <2>2. PICK f : f = Own("turn-end", e.turn)
    OBVIOUS
  <2>3. f \in EventSet
    BY <1>2, <2>1, <2>2, EventFacts
  <2>4. published' = p \o <<f>>
    BY <1>3, <1>6, <1>10, <2>1, <2>2
  <2>5. published' = Append(p, f)
    BY <1>7, <2>3, <2>4, AppendIsConcat
  <2>6. /\ Len(published') = Len(p) + 1 /\ published'[Len(p) + 1] = f
        /\ \A i \in 1..Len(p) : published'[i] = p[i]
    BY <1>7, <2>3, <2>5, AppendProperties
  <2>7. /\ Len(published') = Len(published) + 2 /\ published'[Len(published) + 1] = e
        /\ published'[Len(published) + 2] = f
        /\ \A i \in 1..Len(published) : published'[i] = published[i]
    BY <1>4, <1>7, <2>6
  <2> QED BY <1>2, <1>3, <1>4, <1>10, <2>2, <2>7
<1> QED BY <1>8, <1>9, <1>10

LEMMA DispatchSpells == Typed /\ Spells /\ Dispatch => Spells'
<1> SUFFICES ASSUME Typed, Spells, Dispatch PROVE Spells'
  OBVIOUS
<1>1. PICK n : n = Len(published)
  OBVIOUS
<1>2. PICK e \in Notes :
         /\ isIdle' = ((isIdle \/ EndsTurn(e)) /\ ~Busy(e))
         /\ n \in Nat
         /\ \A i \in 1..n : published'[i] = published[i]
         /\ \/ e.session = "other" /\ published' = published
            \/ /\ e.session # "other" /\ ~EndsTurn(e)
               /\ Len(published') = n + 1 /\ published'[n + 1] = e
            \/ /\ EndsTurn(e)
               /\ Len(published') = n + 2 /\ published'[n + 1] = e
               /\ published'[n + 2] = Own("turn-end", e.turn)
  BY <1>1, DispatchPublishes
<1>3. isIdle \in BOOLEAN /\ (isIdle <=> ~OpenAt(n))
  BY <1>1 DEF Typed, TypeOK, Spells
<1>4. \A i \in 1..n : OwnType(i)' = OwnType(i)
  BY <1>2 DEF OwnType
<1>5. \A i \in 0..n : OpenAt(i)' <=> OpenAt(i)
  BY <1>2, <1>4, OpenKept
<1>6. \A m \in Nat : OpenAt(m + 1)' <=>
         OwnType(m + 1)' = "busy" \/ (OpenAt(m)' /\ OwnType(m + 1)' \notin IdleType)
  <2>1. OpensAndEnds'
    BY OpenNext, PTL
  <2> QED BY <2>1 DEF OpensAndEnds, IdleType
<1>7. \A i \in 1..n : EndsSpell(i)' <=> EndsSpell(i)
  <2>1. \A i \in 1..n : i - 1 \in 0..n
    BY <1>2
  <2>2. \A i \in 1..n : EndsSpell(i) <=> OwnType(i) \in IdleType /\ OpenAt(i - 1)
    BY DEF EndsSpell, OpenAt
  <2>3. \A i \in 1..n : EndsSpell(i)' <=> OwnType(i)' \in IdleType /\ OpenAt(i - 1)'
    BY DEF EndsSpell, OpenAt, IdleType
  <2> QED BY <1>4, <1>5, <2>1, <2>2, <2>3
<1>8. n + 1 \in Nat /\ (n + 1) + 1 = n + 2 /\ n \in 0..n
  BY <1>2
<1>9. \A i \in 1..n : EndsSpell(i) <=> i < n /\ OwnType(i + 1) = "turn-end"
  BY <1>1 DEF Spells, TurnEndPerSpell
<1>10. e.type # "turn-end" /\ (e.session = "own" => e.type \in {"busy", "idle", "sessionIdle"})
  BY <1>2, EventFacts DEF IdleType
<1>11. CASE published' = published /\ e.session = "other"
  <2>1. isIdle' = isIdle
    BY <1>2, <1>3, <1>11 DEF EndsTurn, Idle, Busy
  <2>2. published' = published
    BY <1>11
  <2> QED BY <2>1, <2>2 DEF Spells, TurnEndPerSpell, EndsSpell, OwnType, OpenAt, IdleType
<1>12. CASE /\ e.session # "other" /\ ~EndsTurn(e)
            /\ Len(published') = n + 1 /\ published'[n + 1] = e
  <2>1. OwnType(n + 1)' = IF e.session = "own" THEN e.type ELSE "none"
    BY <1>12 DEF OwnType
  <2>2. OwnType(n + 1)' # "turn-end"
    BY <1>10, <2>1
  <2>3. OpenAt(n + 1)' <=> OwnType(n + 1)' = "busy" \/ (OpenAt(n) /\ OwnType(n + 1)' \notin IdleType)
    BY <1>5, <1>6, <1>8
  <2>4. isIdle' <=> ~OpenAt(n + 1)'
    BY <1>2, <1>3, <1>10, <1>12, <2>1, <2>3 DEF EndsTurn, Idle, Busy, IdleType
  <2>5. ~EndsSpell(n + 1)'
    <3>1. EndsSpell(n + 1)' => OwnType(n + 1)' \in IdleType /\ OpenAt(n)'
      BY <1>2 DEF EndsSpell, OpenAt, IdleType
    <3> QED BY <1>3, <1>5, <1>8, <1>12, <2>1, <3>1 DEF EndsTurn, Idle, IdleType
  <2>6. ASSUME NEW i \in 1..Len(published')
        PROVE  EndsSpell(i)' <=> i < Len(published') /\ OwnType(i + 1)' = "turn-end"
    <3>1. CASE i = n + 1
      BY <1>2, <1>12, <2>5, <3>1
    <3>2. CASE i = n
      BY <1>2, <1>7, <1>9, <1>12, <2>2, <3>2
    <3>3. CASE i < n
      <4>1. i \in 1..n /\ i + 1 \in 1..n
        BY <1>2, <3>3
      <4> QED BY <1>2, <1>4, <1>7, <1>9, <1>12, <3>3, <4>1
    <3> QED BY <1>2, <1>12, <3>1, <3>2, <3>3
  <2>7. TurnEndPerSpell'
    BY <2>6 DEF TurnEndPerSpell
  <2>8. isIdle' <=> ~OpenAt(Len(published))'
    BY <1>12, <2>4 DEF OpenAt, OwnType, IdleType
  <2> QED BY <2>7, <2>8 DEF Spells
<1>13. CASE /\ EndsTurn(e)
            /\ Len(published') = n + 2 /\ published'[n + 1] = e
            /\ published'[n + 2] = Own("turn-end", e.turn)
  <2>1. OwnType(n + 1)' = e.type /\ e.type \in IdleType /\ e.type # "busy" /\ OpenAt(n)
        /\ OwnType(n + 2)' = "turn-end"
    BY <1>3, <1>13 DEF OwnType, Own, EndsTurn, Idle, IdleType
  <2>2. ~OpenAt(n + 1)' /\ ~OpenAt(n + 2)'
    <3>1. OpenAt(n + 1)' <=> OwnType(n + 1)' = "busy" \/ (OpenAt(n)' /\ OwnType(n + 1)' \notin IdleType)
      BY <1>2, <1>6
    <3>2. OpenAt(n + 2)' <=> OwnType(n + 2)' = "busy" \/ (OpenAt(n + 1)' /\ OwnType(n + 2)' \notin IdleType)
      BY <1>6, <1>8
    <3> QED BY <2>1, <3>1, <3>2
  <2>3. isIdle'
    BY <1>2, <1>13 DEF EndsTurn, Idle, Busy, IdleType
  <2>4. EndsSpell(n + 1)' /\ ~EndsSpell(n + 2)'
    <3>1. OpenAt(n)' <=> OpenAt(n)
      BY <1>5, <1>8
    <3>2. EndsSpell(n + 1)' <=> OwnType(n + 1)' \in IdleType /\ OpenAt(n)'
      BY <1>2 DEF EndsSpell, OpenAt, IdleType
    <3>3. EndsSpell(n + 2)' => OwnType(n + 2)' \in IdleType
      BY DEF EndsSpell, IdleType
    <3> QED BY <2>1, <3>1, <3>2, <3>3 DEF IdleType
  <2>5. ASSUME NEW i \in 1..Len(published')
        PROVE  EndsSpell(i)' <=> i < Len(published') /\ OwnType(i + 1)' = "turn-end"
    <3>1. CASE i = n + 2
      BY <1>2, <1>13, <2>4, <3>1
    <3>2. CASE i = n + 1
      BY <1>2, <1>8, <1>13, <2>1, <2>4, <3>2
    <3>3. CASE i = n
      BY <1>2, <1>7, <1>9, <1>13, <2>1, <3>3 DEF IdleType
    <3>4. CASE i < n
      <4>1. i \in 1..n /\ i + 1 \in 1..n
        BY <1>2, <3>4
      <4> QED BY <1>2, <1>4, <1>7, <1>9, <1>13, <3>4, <4>1
    <3> QED BY <1>2, <1>13, <3>1, <3>2, <3>3, <3>4
  <2>6. TurnEndPerSpell'
    BY <2>5 DEF TurnEndPerSpell
  <2>7. isIdle' <=> ~OpenAt(Len(published))'
    BY <1>13, <2>2, <2>3 DEF OpenAt, OwnType, IdleType
  <2> QED BY <2>6, <2>7 DEF Spells
<1> QED BY <1>2, <1>11, <1>12, <1>13

LEMMA SpellsStep == Typed /\ Spells /\ [Next]_vars => Spells'
<1> SUFFICES ASSUME Typed, Spells, [Next]_vars, ~Dispatch PROVE Spells'
  BY DispatchSpells
<1>1. UNCHANGED <<isIdle, published>>
  <2>1. CASE Opening \/ Handle \/ UNCHANGED vars
    BY <2>1 DEF Opening, Listens, StartFails, Created, CreateRefused, CreateThrows, Handle, Send, SendAges,
       EndInput, Abort, SignalFires, vars, sseVars
  <2>2. CASE Server \/ Tasks
    BY <2>2 DEF Server, ServerTakes, ServerStarts, ServerFinishes, ServerServesOthers, Connects, ServerExits,
       SseDropped, Tasks, WindowEnds, TeardownResumes, AbortSettles, SendSettles, SseEnds, SseOver, Done,
       sseVars
  <2> QED BY <2>1, <2>2 DEF Next
<1> QED BY <1>1 DEF Spells, TurnEndPerSpell, EndsSpell, OwnType, OpenAt, IdleType

-----------------------------------------------------------------------------
(* The invariant *)

OpenCodeInd == Typed /\ Lifecycle /\ Spells

LEMMA InitInd == Init => OpenCodeInd
<1> SUFFICES ASSUME Init PROVE OpenCodeInd
  OBVIOUS
<1>1. Lifecycle
  BY DEF Init, Lifecycle, Tracked, NoMissedIdle
<1>2. Spells
  <2>1. Len(published) = 0 /\ isIdle
    BY DEF Init
  <2> QED BY <2>1 DEF Spells, TurnEndPerSpell, OpenAt
<1> QED BY <1>1, <1>2, InitTyped DEF OpenCodeInd

LEMMA IndHolds == Spec => []OpenCodeInd
<1>1. OpenCodeInd /\ [Next]_vars => OpenCodeInd'
  BY TypedStep, LifecycleStep, SpellsStep DEF OpenCodeInd
<1> QED BY <1>1, InitInd, PTL DEF Spec

\* The registry knows a running server until the opening has failed, the teardown
\* waits for no idle event that has already come, and a turn-end stands exactly
\* behind the idle event that ends a busy spell.
THEOREM SessionInvariant == Spec => []SessionInv
<1>1. OpenCodeInd => SessionInv
  BY DEF OpenCodeInd, Typed, Lifecycle, Spells, SessionInv
<1> QED BY <1>1, IndHolds, PTL

\* endInput() does not kill a session that is busy as far as its stream has told,
\* even one that became busy again behind the idle event that woke the teardown.
THEOREM TeardownSparesTheBusy == Spec => TeardownSparesBusy
<1> DEFINE Spares == teardown' = "over" /\ ~aborted /\ signalled' # signalled => isIdle
<1>1. OpenCodeInd /\ [Next]_vars => [Spares]_vars
  <2> SUFFICES ASSUME OpenCodeInd, Next, teardown' = "over", ~aborted, signalled' # signalled
               PROVE  isIdle
    OBVIOUS
  <2>1. phase # "open" => teardown = "none"
    BY DEF OpenCodeInd, Lifecycle
  <2>2. teardown = "over" => signalled
    BY DEF OpenCodeInd, Lifecycle
  <2>3. signalled \in BOOLEAN
    BY DEF OpenCodeInd, Typed, TypeOK
  <2>4. CASE Opening
    BY <2>1, <2>4 DEF Opening, Listens, Opens, StartFails, Created, CreateRefused, CreateThrows, childVars
  <2>5. CASE EndInput \/ TeardownResumes
    BY <2>5 DEF EndInput, TeardownResumes, Loop
  <2>6. CASE Abort \/ SignalFires
    BY <2>2, <2>6 DEF Abort, SignalFires
  <2>7. CASE Server
    BY <2>7 DEF Server, ServerTakes, ServerStarts, ServerFinishes, ServerServesOthers, Connects,
       ServerExits, SseDropped, SseOver, childVars
  <2>8. CASE Send \/ SendAges \/ WindowEnds \/ AbortSettles \/ SendSettles \/ Dispatch \/ SseEnds \/ Done
    BY <2>8 DEF Send, SendAges, WindowEnds, AbortSettles, SendSettles, Dispatch, SseEnds, SseOver, Done,
       childVars
  <2> QED BY <2>4, <2>5, <2>6, <2>7, <2>8 DEF Next, Handle, Tasks
<1> QED BY <1>1, IndHolds, PTL DEF Spec, TeardownSparesBusy

-----------------------------------------------------------------------------
(* The contract *)

AbstractPhase == IF aborted THEN "aborted" ELSE IF inputClosed THEN "ended" ELSE "open"
Outcomes == [s \in Sends |-> Outcome(s)]
Kinds == [i \in 1..Len(published) |-> Kind(i)]
AbstractOutcome == {"pending", "accepted", "undelivered", "aborted", "inputClosed"}
AbstractKind == {"note", "over", "turn-end"}

LEMMA InitRefines == Init => Contract!Init
<1> SUFFICES ASSUME Init PROVE Contract!Init
  OBVIOUS
<1>1. Outcomes = <<>> /\ Kinds = <<>>
  BY DEF Init, Outcomes, Kinds, Sends
<1> QED BY <1>1 DEF Init, Contract!Init, Outcomes, Kinds

\* The promises of send() and the kinds of the events, as sequences.
Sequences ==
    /\ Outcomes \in Seq(AbstractOutcome)
    /\ Len(Outcomes) = Len(sends)
    /\ \A s \in Sends : Outcomes[s] = Outcome(s)
    /\ Kinds \in Seq(AbstractKind)
    /\ Len(Kinds) = Len(published)
    /\ \A i \in 1..Len(published) : Kinds[i] = Kind(i)

LEMMA Images == TypeOK => Sequences
<1> SUFFICES ASSUME TypeOK PROVE Sequences
  OBVIOUS
<1>1. sends \in Seq(SendState) /\ published \in Seq(EventSet)
  BY DEF TypeOK, SendState
<1>2. Len(sends) \in Nat /\ Len(published) \in Nat /\ \A s \in Sends : sends[s] \in SendState
  BY <1>1, SequenceProperties DEF Sends
<1>3. /\ Outcomes = [i \in 1..Len(sends) |-> Outcomes[i]]
      /\ \A s \in Sends : Outcomes[s] = Outcome(s)
  BY DEF Outcomes, Sends
<1>4. /\ Kinds = [i \in 1..Len(published) |-> Kinds[i]]
      /\ \A i \in 1..Len(published) : Kinds[i] = Kind(i)
  BY DEF Kinds
<1>5. \A s \in Sends : Outcome(s) \in AbstractOutcome
  BY <1>2 DEF Outcome, SendState, AbstractOutcome
<1>6. \A i \in 1..Len(published) : Kind(i) \in AbstractKind
  BY DEF Kind, AbstractKind
<1>7. Outcomes \in Seq(AbstractOutcome) /\ Len(Outcomes) = Len(sends)
  BY <1>2, <1>3, <1>5, FunctionIsSequence DEF Sends
<1>8. Kinds \in Seq(AbstractKind) /\ Len(Kinds) = Len(published)
  BY <1>2, <1>4, <1>6, FunctionIsSequence
<1> QED BY <1>3, <1>4, <1>7, <1>8 DEF Sequences

\* A sequence that follows another and is longer by one, or by two.
LEMMA OneLonger ==
    ASSUME NEW T, NEW f \in Seq(T), NEW g \in Seq(T), NEW e \in T, Len(g) = Len(f) + 1,
           \A i \in 1..Len(f) : g[i] = f[i], g[Len(f) + 1] = e
    PROVE  g = Append(f, e)
<1>1. Append(f, e) \in Seq(T) /\ Len(Append(f, e)) = Len(f) + 1 /\ Len(f) \in Nat
      /\ (\A i \in 1..Len(f) : Append(f, e)[i] = f[i]) /\ Append(f, e)[Len(f) + 1] = e
  BY AppendProperties, LenProperties
<1>2. \A i \in 1..Len(g) : i \in 1..Len(f) \/ i = Len(f) + 1
  BY <1>1
<1>3. \A i \in 1..Len(g) : g[i] = Append(f, e)[i]
  BY <1>1, <1>2
<1> QED BY <1>1, <1>3, SeqEqual

LEMMA TwoLonger ==
    ASSUME NEW T, NEW f \in Seq(T), NEW g \in Seq(T), NEW d \in T, NEW e \in T, Len(g) = Len(f) + 2,
           \A i \in 1..Len(f) : g[i] = f[i], g[Len(f) + 1] = d, g[Len(f) + 2] = e
    PROVE  g = f \o <<d, e>>
<1>1. PICK h : h = Append(f, d)
  OBVIOUS
<1>2. /\ h \in Seq(T) /\ Len(h) = Len(f) + 1 /\ Len(f) \in Nat /\ h[Len(f) + 1] = d
      /\ \A i \in 1..Len(f) : h[i] = f[i]
  BY <1>1, AppendProperties, LenProperties
<1>3. \A i \in 1..Len(h) : g[i] = h[i]
  <2>1. \A i \in 1..Len(h) : i \in 1..Len(f) \/ i = Len(f) + 1
    BY <1>2
  <2> QED BY <1>2, <2>1
<1>4. g = Append(h, e)
  <2>1. Len(g) = Len(h) + 1 /\ g[Len(h) + 1] = e
    BY <1>2
  <2> QED BY <1>2, <1>3, <2>1, OneLonger
<1>5. Append(Append(f, d), e) = f \o <<d, e>>
  OBVIOUS
<1> QED BY <1>1, <1>4, <1>5

LEMMA SendRefines ==
    ASSUME TypeOK, TypeOK', Send
    PROVE  \E o \in CASE AbstractPhase = "aborted" -> {"aborted"}
                      [] AbstractPhase = "ended"   -> {"inputClosed"}
                      [] OTHER                     -> {"pending", "accepted", "undelivered"} :
              Outcomes' = Append(Outcomes, o)
<1>1. PICK q \in SendState :
         /\ sends' = Append(sends, q)
         /\ \/ aborted /\ q = "aborted"
            \/ ~aborted /\ inputClosed /\ q = "inputClosed"
            \/ ~aborted /\ ~inputClosed /\ q = "posted"
  BY DEF Send, Refusal, SendState, TypeOK
<1>2. PICK o \in AbstractOutcome : o = IF q = "posted" THEN "pending" ELSE q
  BY <1>1 DEF AbstractOutcome
<1>3. Sequences /\ Sequences'
  BY Images, PTL
<1>4. sends \in Seq(SendState)
  BY DEF TypeOK, SendState
<1>5. /\ Len(sends') = Len(sends) + 1 /\ sends'[Len(sends) + 1] = q /\ Len(sends) \in Nat
      /\ \A s \in 1..Len(sends) : sends'[s] = sends[s]
  BY <1>1, <1>4, AppendProperties, LenProperties
<1>6. /\ \A s \in 1..Len(sends) : Outcomes'[s] = Outcomes[s]
      /\ Outcomes'[Len(sends) + 1] = o
  <2>1. 1..Len(sends) \subseteq Sends' /\ Len(sends) + 1 \in Sends'
    BY <1>5 DEF Sends
  <2> QED BY <1>1, <1>2, <1>3, <1>5, <2>1 DEF Sequences, Sends, Outcome
<1>7. Outcomes' = Append(Outcomes, o)
  BY <1>3, <1>5, <1>6, OneLonger DEF Sequences
<1> QED BY <1>1, <1>2, <1>7 DEF AbstractPhase

LEMMA SettleRefines ==
    ASSUME TypeOK, ServerTakes \/ SendSettles
    PROVE  /\ DOMAIN Outcomes' = DOMAIN Outcomes
           /\ \A s \in DOMAIN Outcomes :
                 \/ Outcomes'[s] = Outcomes[s]
                 \/ Outcomes[s] = "pending" /\ Outcomes'[s] \in {"accepted", "undelivered"}
<1>1. PICK s \in Sends, o \in SendState \ {"posted"} :
         /\ sends' = [sends EXCEPT ![s] = o]
         /\ sends[s] \in {"posted", "taken", "refused"}
         /\ o \in {"taken", "refused", "accepted", "undelivered"}
  <2>1. CASE ServerTakes
    BY <2>1 DEF ServerTakes, SendState
  <2>2. CASE SendSettles
    BY <2>2 DEF SendSettles, SendState
  <2> QED BY <2>1, <2>2
<1>2. Len(sends') = Len(sends) /\ \A r \in Sends : sends'[r] = IF r = s THEN o ELSE sends[r]
  BY <1>1, PostedLeaves
<1>3. Sends' = Sends
  BY <1>2 DEF Sends
<1>4. ASSUME NEW r \in Sends
      PROVE  \/ Outcomes'[r] = Outcomes[r]
             \/ Outcomes[r] = "pending" /\ Outcomes'[r] \in {"accepted", "undelivered"}
  <2>1. Outcomes[r] = IF sends[r] \in {"posted", "taken", "refused"} THEN "pending" ELSE sends[r]
    BY DEF Outcomes, Outcome
  <2>2. Outcomes'[r] = IF sends'[r] \in {"posted", "taken", "refused"} THEN "pending" ELSE sends'[r]
    BY <1>3 DEF Outcomes, Outcome
  <2> QED BY <1>1, <1>2, <2>1, <2>2
<1>5. DOMAIN Outcomes = Sends /\ DOMAIN Outcomes' = Sends'
  BY DEF Outcomes
<1> QED BY <1>3, <1>4, <1>5

\* An event is published with the turn-end it calls for, and never becomes one's
\* native event later.
LEMMA DispatchRefines ==
    ASSUME TypeOK, TypeOK', Typed, Dispatch
    PROVE  \/ Kinds' = Kinds
           \/ Kinds' = Append(Kinds, "note")
           \/ Kinds' = Kinds \o <<"over", "turn-end">>
<1>1. PICK n : n = Len(published)
  OBVIOUS
<1>2. PICK e \in Notes :
         /\ n \in Nat
         /\ \A i \in 1..n : published'[i] = published[i]
         /\ \/ e.session = "other" /\ published' = published
            \/ /\ e.session # "other" /\ ~EndsTurn(e)
               /\ Len(published') = n + 1 /\ published'[n + 1] = e
            \/ /\ EndsTurn(e)
               /\ Len(published') = n + 2 /\ published'[n + 1] = e
               /\ published'[n + 2] = Own("turn-end", e.turn)
  BY <1>1, DispatchPublishes
<1>3. Sequences /\ Sequences'
  BY Images, PTL
<1>4. e.type # "turn-end" /\ (e.session = "own" => e.type \in {"busy", "idle", "sessionIdle"})
  BY <1>2, EventFacts DEF IdleType
<1>5. CASE published' = published
  <2>1. Kinds' = Kinds
    BY <1>5 DEF Kinds, Kind, OwnType
  <2> QED BY <2>1
<1>6. CASE Len(published') \in {n + 1, n + 2} /\ published'[n + 1] = e
  <2>1. OwnType(n + 1)' # "turn-end" /\ \A i \in 1..n : OwnType(i)' = OwnType(i)
    BY <1>2, <1>4, <1>6 DEF OwnType
  <2>2. \A i \in 1..n : i = n \/ (i < n /\ i + 1 \in 1..n)
    BY <1>2
  <2>3. \A i \in 1..n : i < Len(published')
    BY <1>2, <1>6
  <2>4. \A i \in 1..n : Kind(i)' = Kind(i)
    BY <1>1, <1>2, <2>1, <2>2, <2>3 DEF Kind
  <2>5. /\ \A i \in 1..n : i \in 1..Len(published')
        /\ n + 1 \in 1..Len(published')
        /\ Len(published') = n + 2 => n + 2 \in 1..Len(published')
    BY <1>2, <1>6
  <2>6. \A i \in 1..Len(published') : Kinds'[i] = Kind(i)'
    BY <1>3 DEF Sequences
  <2>7. \A i \in 1..n : Kinds'[i] = Kinds[i]
    BY <1>1, <1>3, <2>4, <2>5, <2>6 DEF Sequences
  <2>8. CASE Len(published') = n + 1
    <3>1. Kind(n + 1)' = "note"
      BY <1>2, <2>1, <2>8 DEF Kind
    <3>2. Kinds' = Append(Kinds, "note")
      BY <1>1, <1>3, <2>5, <2>6, <2>7, <2>8, <3>1, OneLonger DEF Sequences, AbstractKind
    <3> QED BY <3>2
  <2>9. CASE Len(published') = n + 2
    <3>1. published'[n + 2] = Own("turn-end", e.turn)
      BY <1>1, <1>2, <2>9
    <3>2. OwnType(n + 2)' = "turn-end"
      BY <3>1 DEF OwnType, Own
    <3>3. Kind(n + 2)' = "turn-end" /\ Kind(n + 1)' = "over"
      BY <1>2, <2>1, <2>9, <3>2 DEF Kind
    <3>4. Kinds' = Kinds \o <<"over", "turn-end">>
      BY <1>1, <1>3, <2>5, <2>6, <2>7, <2>9, <3>3, TwoLonger DEF Sequences, AbstractKind
    <3> QED BY <3>4
  <2> QED BY <1>6, <2>8, <2>9
<1> QED BY <1>2, <1>5, <1>6

LEMMA StepRefines ==
    OpenCodeInd /\ OpenCodeInd' /\ [Next]_vars => [Contract!Next]_Contract!contractVars
<1> SUFFICES ASSUME OpenCodeInd, OpenCodeInd', [Next]_vars
             PROVE  [Contract!Next]_Contract!contractVars
  OBVIOUS
<1> USE DEF Contract!Next, Contract!contractVars
<1>0. Typed /\ TypeOK /\ TypeOK'
  BY DEF OpenCodeInd, Typed
<1>1. CASE Send
  <2>1. UNCHANGED <<aborted, inputClosed, published, stream, done>>
    BY <1>1 DEF Send, flagVars, sseVars
  <2>2. UNCHANGED Kinds
    BY <2>1 DEF Kinds, Kind, OwnType
  <2>3. Contract!Send
    BY <1>0, <1>1, <2>1, <2>2, SendRefines DEF Contract!Send, AbstractPhase, Outcomes, Kinds
  <2> QED BY <2>3
<1>2. CASE ServerTakes \/ SendSettles
  <2>1. UNCHANGED <<aborted, inputClosed, published, stream, done>>
    BY <1>2 DEF ServerTakes, SendSettles, flagVars, sseVars
  <2>2. UNCHANGED Kinds
    BY <2>1 DEF Kinds, Kind, OwnType
  <2>3. Contract!Settle
    BY <1>0, <1>2, <2>1, <2>2, SettleRefines DEF Contract!Settle, Outcomes, Kinds
  <2> QED BY <2>3
<1>3. CASE Dispatch
  <2>1. stream = "open" /\ UNCHANGED <<aborted, inputClosed, sends, stream, done>>
    BY <1>3 DEF Dispatch, flagVars
  <2>2. UNCHANGED Outcomes
    BY <2>1 DEF Outcomes, Outcome, Sends
  <2>3. Contract!Publish \/ UNCHANGED Contract!contractVars
    BY <1>0, <1>3, <2>1, <2>2, DispatchRefines DEF Contract!Publish, Outcomes, Kinds
  <2> QED BY <2>3
<1>4. CASE ~(Send \/ ServerTakes \/ SendSettles \/ Dispatch)
  <2>1. UNCHANGED <<sends, published>>
    <3>1. CASE Opening \/ EndInput \/ SendAges \/ Abort \/ SignalFires \/ UNCHANGED vars
      BY <3>1 DEF Opening, Listens, Opens, StartFails, Created, CreateRefused, CreateThrows, EndInput,
         SendAges, Abort, SignalFires, vars, sseVars
    <3>2. CASE Server \/ Tasks
      BY <1>4, <3>2 DEF Server, ServerStarts, ServerFinishes, ServerServesOthers, Connects, ServerExits,
         SseDropped, Tasks, WindowEnds, TeardownResumes, AbortSettles, SseEnds, SseOver, Done, sseVars
    <3> QED BY <1>4, <3>1, <3>2 DEF Next, Handle
  <2>2. UNCHANGED Outcomes /\ UNCHANGED Kinds
    BY <2>1 DEF Outcomes, Outcome, Sends, Kinds, Kind, OwnType
  <2>3. CASE EndInput
    <3>1. /\ ~aborted /\ ~inputClosed /\ inputClosed' /\ UNCHANGED <<aborted, stream, done>>
      BY <2>3 DEF EndInput
    <3>2. Contract!EndInput
      BY <2>2, <3>1 DEF Contract!EndInput, Outcomes, Kinds
    <3> QED BY <3>2
  <2>4. CASE Abort \/ SignalFires
    <3>1. ~aborted /\ aborted' /\ UNCHANGED <<stream, done>>
      BY <2>4 DEF Abort, SignalFires, sseVars
    <3>2. Contract!Abort
      BY <2>2, <3>1 DEF Contract!Abort, Outcomes, Kinds
    <3> QED BY <3>2
  <2>5. CASE SseDropped \/ SseEnds
    <3>1. stream # "ended" /\ stream' = "ended" /\ UNCHANGED <<aborted, inputClosed, done>>
      BY <2>5 DEF SseDropped, SseEnds, SseOver, flagVars
    <3>2. Contract!Complete
      BY <2>2, <3>1 DEF Contract!Complete, Outcomes, Kinds
    <3> QED BY <3>2
  <2>6. CASE Done
    <3>1. stream = "ended" /\ ~done /\ done' = TRUE /\ UNCHANGED <<aborted, inputClosed, stream>>
      BY <2>6 DEF Done, Finished, flagVars, sseVars
    <3>2. Contract!Resolve
      BY <2>2, <3>1 DEF Contract!Resolve, Outcomes, Kinds
    <3> QED BY <3>2
  <2>7. CASE UNCHANGED <<aborted, inputClosed, done>> /\ (stream' = "ended" <=> stream = "ended")
    BY <2>2, <2>7 DEF Outcomes, Kinds
  <2>8. CASE ~(EndInput \/ Abort \/ SignalFires \/ SseDropped \/ SseEnds \/ Done)
    <3>1. CASE Opening \/ SendAges \/ UNCHANGED vars
      <4>1. UNCHANGED <<aborted, inputClosed, done>> /\ stream' \in {stream, "connecting"}
        BY <3>1 DEF Opening, Listens, Opens, StartFails, Created, CreateRefused, CreateThrows, SendAges,
           vars, flagVars, sseVars
      <4>2. stream' = stream \/ stream = "none"
        BY <3>1 DEF OpenCodeInd, Lifecycle, Opening, Listens, Opens, StartFails, Created, CreateRefused,
           CreateThrows, SendAges, vars, sseVars
      <4> QED BY <2>7, <4>1, <4>2
    <3>2. CASE Server \/ Tasks
      <4>1. /\ UNCHANGED <<aborted, inputClosed, done>>
            /\ stream' = stream \/ (stream = "connecting" /\ stream' = "open")
        BY <1>4, <2>8, <3>2 DEF Server, ServerStarts, ServerFinishes, ServerServesOthers, Connects,
           ServerExits, Tasks, WindowEnds, TeardownResumes, AbortSettles, flagVars, sseVars
      <4> QED BY <2>7, <4>1
    <3> QED BY <1>4, <2>8, <3>1, <3>2 DEF Next, Handle
  <2> QED BY <2>3, <2>4, <2>5, <2>6, <2>8
<1> QED BY <1>1, <1>2, <1>3, <1>4

\* An OpenCode session is a RuntimeSession: its sends, events, endInput(), abort()
\* and `done` behave as runtime/session-types.ts promises of every adapter.
THEOREM SessionKeepsContract == Spec => ImplementsContract
BY InitRefines, StepRefines, IndHolds, PTL DEF Spec, ImplementsContract, Contract!Spec

=============================================================================
