------------------------- MODULE ClaudeSessionProofs -------------------------
(***************************************************************************)
(* What a Claude session keeps for every number of sends, lines and room   *)
(* in the stdin pipe: the order of the messages, the cleanup behind        *)
(* `done`, one turn-end behind every result, an answer for every accepted  *)
(* message when the CLI came to the end of its input, and the contract of  *)
(* RuntimeSession.                                                         *)
(***************************************************************************)
EXTENDS ClaudeSession, FiniteSetTheorems, SequenceTheorems, WellFoundedInduction, TLAPS

(* Sequences *)

\* The least of some numbers; a property of every number fails first at one.
LEMMA LeastNatural ==
    ASSUME NEW T, T \subseteq Nat, T # {}
    PROVE  \E n \in T : \A m \in T : n <= m
<1>1. PICK n \in T : \A m \in T : ~(<<m, n>> \in OpToRel(<, Nat))
  BY NatLessThanWellFounded, WFMin
<1>2. \A m \in T : ~(m < n)
  BY <1>1 DEF OpToRel
<1> QED BY <1>2

LEMMA SequenceProperties ==
    ASSUME NEW S, NEW s \in Seq(S)
    PROVE  /\ Len(s) \in Nat
           /\ s = <<>> <=> Len(s) = 0
           /\ DOMAIN s = 1..Len(s)
           /\ \A i \in 1..Len(s) : s[i] \in S
           /\ \A T : S \subseteq T => s \in Seq(T)
OBVIOUS

LEMMA TailProperties ==
    ASSUME NEW S, NEW s \in Seq(S), s # <<>>
    PROVE  /\ Head(s) = s[1] /\ 1 \in 1..Len(s) /\ Head(s) \in S
           /\ Tail(s) \in Seq(S)
           /\ Len(Tail(s)) = Len(s) - 1
           /\ \A i \in 1..Len(Tail(s)) : Tail(s)[i] = s[i + 1]
OBVIOUS

LEMMA FunctionIsSequence ==
    ASSUME NEW S, NEW n \in Nat, NEW f, f = [i \in 1..n |-> f[i]], \A i \in 1..n : f[i] \in S
    PROVE  f \in Seq(S) /\ Len(f) = n
OBVIOUS

\* The head of one sequence moves to the end of the one before it.
LEMMA HeadMoves ==
    ASSUME NEW S, NEW a \in Seq(S), NEW b \in Seq(S), b # <<>>
    PROVE  Append(a, Head(b)) \o Tail(b) = a \o b
<1> DEFINE l == Append(a, Head(b)) \o Tail(b)
           r == a \o b
<1>1. /\ Len(a) \in Nat /\ Len(b) \in Nat /\ Len(b) # 0
      /\ Head(b) = b[1] /\ Head(b) \in S /\ Tail(b) \in Seq(S) /\ Len(Tail(b)) = Len(b) - 1
      /\ \A i \in 1..Len(Tail(b)) : Tail(b)[i] = b[i + 1]
  BY SequenceProperties, TailProperties
<1>2. /\ Append(a, Head(b)) \in Seq(S) /\ Len(Append(a, Head(b))) = Len(a) + 1
      /\ \A i \in 1..Len(a) : Append(a, Head(b))[i] = a[i]
      /\ Append(a, Head(b))[Len(a) + 1] = b[1]
  BY <1>1, AppendProperties
<1>3. /\ l \in Seq(S) /\ Len(l) = Len(a) + 1 + (Len(b) - 1)
      /\ \A i \in 1..Len(l) : l[i] = IF i <= Len(a) + 1 THEN Append(a, Head(b))[i]
                                     ELSE Tail(b)[i - (Len(a) + 1)]
  BY <1>1, <1>2, ConcatProperties
<1>4. /\ r \in Seq(S) /\ Len(r) = Len(a) + Len(b)
      /\ \A i \in 1..Len(r) : r[i] = IF i <= Len(a) THEN a[i] ELSE b[i - Len(a)]
  BY ConcatProperties
<1> HIDE DEF l, r
<1>5. ASSUME NEW i \in 1..Len(l) PROVE l[i] = r[i]
  <2>1. CASE i <= Len(a)
    BY <1>1, <1>2, <1>3, <1>4, <2>1
  <2>2. CASE i = Len(a) + 1
    BY <1>1, <1>2, <1>3, <1>4, <2>2
  <2>3. CASE i > Len(a) + 1
    <3>1. i - (Len(a) + 1) \in 1..Len(Tail(b)) /\ (i - (Len(a) + 1)) + 1 = i - Len(a)
      BY <1>1, <1>3, <2>3
    <3>2. l[i] = b[i - Len(a)]
      <4>1. l[i] = Tail(b)[i - (Len(a) + 1)]
        BY <1>1, <1>3, <2>3
      <4> QED BY <1>1, <3>1, <4>1
    <3>3. r[i] = b[i - Len(a)]
      BY <1>1, <1>3, <1>4, <2>3
    <3> QED BY <3>2, <3>3
  <2> QED BY <1>1, <1>3, <2>1, <2>2, <2>3
<1>6. Len(l) = Len(r)
  BY <1>1, <1>3, <1>4
<1>7. l = r
  BY <1>3, <1>4, <1>5, <1>6, SeqEqual
<1> QED BY <1>7 DEF l, r

-----------------------------------------------------------------------------
(* Twinned *)

IsTwin(g, s, n) == g = [k \in 0..n |-> IF k = 0 THEN <<>> ELSE g[k - 1] \o Twin(s[k])]

LEMMA TwinExists ==
    ASSUME NEW s, NEW n \in Nat
    PROVE  \E g : IsTwin(g, s, n)
<1> DEFINE T == {k \in Nat : ~ \E g : IsTwin(g, s, k)}
<1>1. SUFFICES ASSUME T # {} PROVE FALSE
  OBVIOUS
<1>2. PICK k \in T : \A m \in T : k <= m
  BY <1>1, LeastNatural
<1>3. CASE k = 0
  <2> DEFINE g == [j \in 0..0 |-> <<>>]
  <2>1. IsTwin(g, s, 0)
    BY DEF IsTwin
  <2> QED BY <2>1, <1>2, <1>3
<1>4. CASE k # 0
  <2>1. k - 1 \in Nat /\ ~(k <= k - 1)
    BY <1>4
  <2>2. PICK g : IsTwin(g, s, k - 1)
    BY <2>1, <1>2
  <2> DEFINE h == [j \in 0..k |-> IF j = k THEN g[k - 1] \o Twin(s[k]) ELSE g[j]]
  <2>3. IsTwin(h, s, k)
    BY <2>1, <2>2 DEF IsTwin
  <2> QED BY <2>3, <1>2
<1> QED BY <1>3, <1>4

LEMMA TwinnedIsTwin ==
    ASSUME NEW s, Len(s) \in Nat
    PROVE  \E g : IsTwin(g, s, Len(s)) /\ Twinned(s) = g[Len(s)]
<1> DEFINE g == CHOOSE f : f = [k \in 0..Len(s) |-> IF k = 0 THEN <<>> ELSE f[k - 1] \o Twin(s[k])]
<1>1. IsTwin(g, s, Len(s))
  BY TwinExists DEF IsTwin
<1>2. Twinned(s) = g[Len(s)]
  BY DEF Twinned
<1> QED BY <1>1, <1>2

\* What is twinned depends on the events and not on what follows them.
LEMMA TwinsAgree ==
    ASSUME NEW g, NEW h, NEW s, NEW t, NEW n \in Nat, NEW m \in Nat, n <= m,
           IsTwin(g, s, n), IsTwin(h, t, m), \A i \in 1..n : s[i] = t[i]
    PROVE  g[n] = h[n]
<1> DEFINE T == {k \in 0..n : g[k] # h[k]}
<1>1. SUFFICES ASSUME T # {} PROVE FALSE
  OBVIOUS
<1>2. PICK k \in T : \A j \in T : k <= j
  <2>1. T \subseteq Nat
    OBVIOUS
  <2> HIDE DEF T
  <2> QED BY <1>1, <2>1, LeastNatural
<1>3. /\ g[k] = IF k = 0 THEN <<>> ELSE g[k - 1] \o Twin(s[k])
      /\ h[k] = IF k = 0 THEN <<>> ELSE h[k - 1] \o Twin(t[k])
  <2>1. k \in 0..n /\ k \in 0..m
    OBVIOUS
  <2> HIDE DEF T
  <2> QED BY <2>1 DEF IsTwin
<1>4. k # 0 => k - 1 \in 0..n /\ ~(k <= k - 1) /\ k \in 1..n
  OBVIOUS
<1>5. k # 0 => g[k - 1] = h[k - 1] /\ s[k] = t[k]
  BY <1>2, <1>4
<1> QED BY <1>3, <1>5

LEMMA TwinnedEmpty == Twinned(<<>>) = <<>>
<1>1. Len(<<>>) = 0
  OBVIOUS
<1>2. PICK g : IsTwin(g, <<>>, 0) /\ Twinned(<<>>) = g[0]
  BY <1>1, TwinnedIsTwin
<1> QED BY <1>2 DEF IsTwin

LEMMA TwinnedAppend ==
    ASSUME NEW S, NEW s \in Seq(S), NEW e \in S
    PROVE  Twinned(Append(s, e)) = Twinned(s) \o Twin(e)
<1> DEFINE t == Append(s, e)
           n == Len(s)
<1>1. n \in Nat /\ Len(t) = n + 1 /\ t[n + 1] = e /\ \A i \in 1..n : t[i] = s[i]
  BY AppendProperties, LenProperties
<1>2. PICK g : IsTwin(g, s, n) /\ Twinned(s) = g[n]
  BY <1>1, TwinnedIsTwin
<1> HIDE DEF t, n
<1>3. PICK h : IsTwin(h, t, n + 1) /\ Twinned(t) = h[n + 1]
  <2>1. Len(t) \in Nat
    BY <1>1
  <2>2. \E h : IsTwin(h, t, Len(t)) /\ Twinned(t) = h[Len(t)]
    BY <2>1, TwinnedIsTwin
  <2> QED BY <1>1, <2>2
<1>4. g[n] = h[n]
  <2>1. n + 1 \in Nat /\ n <= n + 1 /\ \A i \in 1..n : s[i] = t[i]
    BY <1>1
  <2> QED BY <1>1, <1>2, <1>3, <2>1, TwinsAgree
<1>5. h[n + 1] = h[n] \o Twin(t[n + 1])
  <2>1. n + 1 \in 0..(n + 1) /\ n + 1 # 0 /\ (n + 1) - 1 = n
    BY <1>1
  <2> QED BY <1>3, <2>1 DEF IsTwin
<1> QED BY <1>1, <1>2, <1>3, <1>4, <1>5 DEF t

Yielded == Native \cup {"turn-end"}

LEMMA TwinTyped == \A e \in Native : Twin(e) \in Seq(Yielded)
<1>1. \A e \in Native : e \in Yielded /\ "turn-end" \in Yielded
  BY DEF Yielded
<1>2. \A e \in Native : <<e>> \in Seq(Yielded) /\ <<e, "turn-end">> \in Seq(Yielded)
  BY <1>1
<1> QED BY <1>2 DEF Twin

LEMMA TwinnedTyped ==
    ASSUME NEW s \in Seq(Native)
    PROVE  Twinned(s) \in Seq(Yielded)
<1> DEFINE n == Len(s)
<1>1. n \in Nat /\ \A i \in 1..n : s[i] \in Native
  BY SequenceProperties
<1>2. PICK g : IsTwin(g, s, n) /\ Twinned(s) = g[n]
  BY <1>1, TwinnedIsTwin
<1> DEFINE T == {k \in 0..n : g[k] \notin Seq(Yielded)}
<1>3. SUFFICES ASSUME T # {} PROVE FALSE
  BY <1>1, <1>2
<1>4. PICK k \in T : \A j \in T : k <= j
  <2>1. T \subseteq Nat
    BY <1>1
  <2> HIDE DEF T
  <2> QED BY <1>3, <2>1, LeastNatural
<1>5. g[k] = IF k = 0 THEN <<>> ELSE g[k - 1] \o Twin(s[k])
  BY <1>2 DEF IsTwin
<1>6. CASE k = 0
  <2>1. <<>> \in Seq(Yielded)
    OBVIOUS
  <2> QED BY <1>5, <1>6, <2>1, Zenon
<1>7. CASE k # 0
  <2>1. k - 1 \in 0..n /\ ~(k <= k - 1) /\ k \in 1..n
    BY <1>1, <1>7
  <2>2. g[k - 1] \in Seq(Yielded) /\ Twin(s[k]) \in Seq(Yielded)
    BY <1>1, <1>4, <2>1, TwinTyped
  <2>3. g[k - 1] \o Twin(s[k]) \in Seq(Yielded)
    BY <2>2, ConcatProperties, Zenon
  <2> QED BY <1>5, <1>7, <2>3, Zenon
<1> QED BY <1>6, <1>7

-----------------------------------------------------------------------------
(* The inductive invariant *)

\* The subprocess is there from the moment openClaudeSession() returned, and
\* nothing was aborted before.
Begun ==
    /\ child = "none" <=> handle # "open"
    /\ handle # "open" => ~aborted /\ ~listening

\* What a stdin that closes, or is closed, says of the writes.
Closing ==
    /\ writer \in {"closing", "closed"} => stdinClosed
    /\ writer = "closed" => writing = <<>>

\* The order of the ends: the subprocess and its helpers, the queue, `done`.
Ending ==
    /\ stdoutPump = "ended" => queueClosed /\ Gone /\ ~helper /\ wire = <<>>
    /\ done # "waiting" => stdoutPump = "ended"
    /\ done \in {"reaping", "resolved"} => ~registered /\ ~listening
    /\ done = "resolved" => ~mcpFile
    /\ gen \in {"ended", "left"} => queueClosed
    /\ queueClosed => gen = "left" \/ stdoutPump = "ended"

\* What the CLI wrote, as far as it is an event: on the queue or still on the wire.
WireKinds == [i \in 1..Len(wire) |-> wire[i].kind]
Stream == pushed \o WireKinds
Results(s) == {i \in DOMAIN s : s[i] = "result"}

Answers ==
    /\ child = "finished" => served = Len(inbox) /\ pipe = <<>> /\ writer = "closed"
    /\ child # "dead" => \A i \in 1..Len(wire) : wire[i].kind # "cut"
    /\ child # "dead" /\ gen # "left" => Cardinality(Results(Stream)) = served

ClaudeInd == TypeOK /\ Begun /\ InOrder /\ Watched /\ Closing /\ Ending /\ Answers /\ YieldedInOrder

-----------------------------------------------------------------------------
(* Types *)

SendRecord == [outcome : Outcome, ended : BOOLEAN]
WireLine == [kind : Native \cup {"cut"}, partial : BOOLEAN]

LEMMA Typed ==
    ASSUME TypeOK
    PROVE  /\ sends \in Seq(SendRecord) /\ Len(sends) \in Nat
           /\ \A s \in Sends : sends[s] \in SendRecord
           /\ writing \in Seq(Sends) /\ pipe \in Seq(Sends) /\ inbox \in Seq(Sends)
           /\ Len(writing) \in Nat /\ Len(pipe) \in Nat /\ Len(inbox) \in Nat
           /\ wire \in Seq(WireLine) /\ Len(wire) \in Nat
           /\ \A i \in 1..Len(wire) : wire[i] \in WireLine
           /\ pushed \in Seq(Native) /\ Len(pushed) \in Nat
           /\ \A i \in 1..Len(pushed) : pushed[i] \in Native
           /\ delivered \in Seq(Yielded) /\ heard \in Seq(Yielded)
           /\ taken \in 0..Len(pushed) /\ taken \in Nat /\ served \in Nat
<1>1. /\ sends \in Seq(SendRecord) /\ wire \in Seq(WireLine)
      /\ writing \in Seq(Sends) /\ pipe \in Seq(Sends) /\ inbox \in Seq(Sends)
      /\ pushed \in Seq(Native) /\ delivered \in Seq(Yielded) /\ heard \in Seq(Yielded)
      /\ taken \in 0..Len(pushed) /\ served \in 0..Len(inbox)
  BY DEF TypeOK, SendRecord, WireLine, Yielded
<1>2. /\ Len(sends) \in Nat /\ \A s \in Sends : sends[s] \in SendRecord
      /\ Len(writing) \in Nat /\ Len(pipe) \in Nat /\ Len(inbox) \in Nat
      /\ Len(wire) \in Nat /\ \A i \in 1..Len(wire) : wire[i] \in WireLine
      /\ Len(pushed) \in Nat /\ \A i \in 1..Len(pushed) : pushed[i] \in Native
  BY <1>1, SequenceProperties DEF Sends
<1>3. taken \in Nat /\ served \in Nat
  BY <1>1, <1>2
<1> QED BY <1>1, <1>2, <1>3

\* What the promises of send() become.
LEMMA SettledSends ==
    ASSUME TypeOK, NEW S, NEW o \in {"accepted", "undelivered"}, sends' = Settled(S, o)
    PROVE  /\ sends' \in Seq(SendRecord) /\ Len(sends') = Len(sends) /\ Sends' = Sends
           /\ \A s \in Sends : sends'[s].outcome = IF s \in S THEN o ELSE sends[s].outcome
<1> DEFINE f == [s \in Sends |-> IF s \in S THEN [sends[s] EXCEPT !.outcome = o] ELSE sends[s]]
<1>1. sends' = f
  BY DEF Settled
<1>2. \A s \in Sends : f[s] \in SendRecord /\
         f[s].outcome = IF s \in S THEN o ELSE sends[s].outcome
  BY Typed DEF SendRecord, Outcome
<1>3. f = [i \in 1..Len(sends) |-> f[i]]
  BY DEF Sends
<1> HIDE DEF f
<1>4. f \in Seq(SendRecord) /\ Len(f) = Len(sends)
  BY <1>2, <1>3, Typed, FunctionIsSequence DEF Sends
<1> QED BY <1>1, <1>2, <1>4 DEF Sends

LEMMA InitTyped == Init => TypeOK
<1> SUFFICES ASSUME Init PROVE TypeOK
  OBVIOUS
<1>1. \A S : <<>> \in Seq(S)
  OBVIOUS
<1>2. Len(<<>>) = 0 /\ 0 \in 0..MaxText /\ 0 \in 0..0
  BY SessionAssumption
<1> QED BY <1>1, <1>2, SessionAssumption DEF Init, TypeOK

LEMMA HandleTyped == TypeOK /\ Handle => TypeOK'
<1> SUFFICES ASSUME TypeOK, Handle PROVE TypeOK'
  OBVIOUS
<1>1. CASE Spawns \/ SpawnFails \/ SignalFires
  BY <1>1 DEF Spawns, SpawnFails, SignalFires, Kill, TypeOK, Sends, flagVars, stdinVars, cliVars,
              procVars, stdoutVars, queueVars, readerVars
<1>2. CASE EndInput \/ Abort
  <2>1. /\ stdinClosed' \in BOOLEAN /\ aborted' \in BOOLEAN /\ inputEnded' \in BOOLEAN
        /\ killed' \in BOOLEAN /\ writer' \in {"open", "closing", "closed", "errored"}
    BY <1>2 DEF EndInput, Abort, ForceCloseStdin, Kill, TypeOK, procVars
  <2>2. UNCHANGED <<openVars, sends, writing, pipe, cliVars, child, helper, stdoutVars, queueVars,
                    readerVars, done>>
    BY <1>2 DEF EndInput, Abort, procVars
  <2> QED BY <2>1, <2>2 DEF TypeOK, Sends, openVars, cliVars, stdoutVars, queueVars, readerVars
<1>3. CASE Send
  <2>1. [outcome |-> Refusal, ended |-> inputEnded] \in SendRecord
    BY DEF Refusal, SendRecord, Outcome, TypeOK
  <2>2. sends' \in Seq(SendRecord) /\ Len(sends') = Len(sends) + 1
    BY <1>3, <2>1, Typed, AppendProperties DEF Send
  <2>3. Sends \subseteq Sends' /\ Len(sends) + 1 \in Sends'
    BY <2>2, Typed DEF Sends
  <2>4. writing \in Seq(Sends') /\ pipe \in Seq(Sends') /\ inbox \in Seq(Sends')
    BY <2>3, Typed, SequenceProperties
  <2>5. writing' \in Seq(Sends')
    <3>1. writing' = writing \/ writing' = Append(writing, Len(sends) + 1)
      BY <1>3 DEF Send
    <3>2. Append(writing, Len(sends) + 1) \in Seq(Sends')
      BY <2>3, <2>4, AppendProperties
    <3> QED BY <2>4, <3>1, <3>2
  <2>6. UNCHANGED <<openVars, flagVars, writer, pipe, cliVars, procVars, stdoutVars, queueVars,
                    readerVars, done>>
    BY <1>3 DEF Send
  <2> QED BY <2>2, <2>4, <2>5, <2>6
          DEF TypeOK, SendRecord, openVars, flagVars, cliVars, procVars, stdoutVars, queueVars, readerVars
<1> QED BY <1>1, <1>2, <1>3 DEF Handle

LEMMA StdinTyped == TypeOK /\ Stdin => TypeOK'
<1> SUFFICES ASSUME TypeOK, Stdin PROVE TypeOK'
  OBVIOUS
<1>1. CASE WriterCloses
  BY <1>1 DEF WriterCloses, TypeOK, Sends, openVars, flagVars, cliVars, procVars, stdoutVars, queueVars,
              readerVars
<1>2. CASE WriteLands \/ WriteFails
  <2>1. sends' \in Seq(SendRecord) /\ Sends' = Sends
    <3>1. \E S : sends' = Settled(S, "accepted") \/ sends' = Settled(S, "undelivered")
      BY <1>2 DEF WriteLands, WriteFails
    <3> QED BY <3>1, SettledSends
  <2>2. writing' \in Seq(Sends) /\ pipe' \in Seq(Sends)
    <3>1. CASE WriteLands
      <4>1. Head(writing) \in Sends /\ Tail(writing) \in Seq(Sends)
        BY <3>1, Typed, TailProperties DEF WriteLands
      <4> QED BY <3>1, <4>1, Typed, AppendProperties DEF WriteLands
    <3>2. CASE WriteFails
      BY <3>2, Typed DEF WriteFails
    <3> QED BY <1>2, <3>1, <3>2
  <2>3. /\ UNCHANGED <<openVars, flagVars, cliVars, procVars, stdoutVars, queueVars, readerVars, done>>
        /\ writer' \in {writer, "errored"}
    BY <1>2 DEF WriteLands, WriteFails
  <2> QED BY <2>1, <2>2, <2>3
          DEF TypeOK, SendRecord, openVars, flagVars, cliVars, procVars, stdoutVars, queueVars, readerVars
<1> QED BY <1>1, <1>2 DEF Stdin

LEMMA CliTyped == TypeOK /\ Cli => TypeOK'
<1> SUFFICES ASSUME TypeOK, Cli PROVE TypeOK'
  OBVIOUS
<1>1. CASE CliReads
  <2>1. Head(pipe) \in Sends /\ Tail(pipe) \in Seq(Sends)
    BY <1>1, Typed, TailProperties DEF CliReads
  <2>2. inbox' \in Seq(Sends) /\ pipe' \in Seq(Sends) /\ Len(inbox') = Len(inbox) + 1
    BY <1>1, <2>1, Typed, AppendProperties DEF CliReads
  <2>3. served \in 0..Len(inbox')
    BY <2>2, Typed DEF TypeOK
  <2>4. UNCHANGED <<openVars, flagVars, sends, writing, writer, served, texts, greeted, procVars,
                    stdoutVars, queueVars, readerVars, done>>
    BY <1>1 DEF CliReads
  <2> QED BY <2>2, <2>3, <2>4
          DEF TypeOK, Sends, openVars, flagVars, procVars, stdoutVars, queueVars, readerVars
<1>2. CASE CliSpeaks
  <2>1. \E k \in Native : wire' = Append(wire, Line(k))
    BY <1>2 DEF CliSpeaks, Native
  <2>2. \A k \in Native : Line(k) \in WireLine
    BY DEF Line, WireLine
  <2>3. wire' \in Seq(WireLine)
    BY <2>1, <2>2, Typed, AppendProperties
  <2>4. served' \in 0..Len(inbox) /\ texts' \in 0..MaxText /\ greeted' \in BOOLEAN
    <3>1. /\ served \in 0..Len(inbox) /\ texts \in 0..MaxText /\ greeted \in BOOLEAN
          /\ served < Len(inbox) => served + 1 \in 0..Len(inbox)
          /\ texts < MaxText => texts + 1 \in 0..MaxText
      BY Typed, SessionAssumption DEF TypeOK
    <3> QED BY <1>2, <3>1 DEF CliSpeaks
  <2>5. UNCHANGED <<openVars, flagVars, stdinVars, inbox, procVars, stdoutPump, stderrPump,
                    queueVars, readerVars, done>>
    BY <1>2 DEF CliSpeaks
  <2> QED BY <2>3, <2>4, <2>5
          DEF TypeOK, WireLine, Sends, openVars, flagVars, stdinVars, procVars, queueVars, readerVars
<1>3. CASE HelperStarts \/ HelperExits
  BY <1>3 DEF HelperStarts, HelperExits, TypeOK, Sends, openVars, flagVars, stdinVars, cliVars,
              stdoutVars, queueVars, readerVars
<1>4. CASE CliExits
  <2>1. wire' = wire \/ (wire # <<>> /\ \E k \in Native \cup {"cut"} : wire' = Unterminated(k))
    <3>1. wire # <<>> => wire[Len(wire)].kind \in Native \cup {"cut"}
      <4>1. wire # <<>> => Len(wire) \in 1..Len(wire)
        BY Typed, SequenceProperties
      <4> QED BY <4>1, Typed DEF WireLine
    <3> QED BY <1>4, <3>1 DEF CliExits
  <2>2. \A k \in Native \cup {"cut"} : Unterminated(k) \in Seq(WireLine)
    <3>1. \A k \in Native \cup {"cut"} : [kind |-> k, partial |-> TRUE] \in WireLine
      BY DEF WireLine
    <3>2. ASSUME NEW k \in Native \cup {"cut"} PROVE Unterminated(k) \in Seq(WireLine)
      <4> DEFINE u == Unterminated(k)
      <4>1. /\ u = [i \in 1..Len(wire) |-> u[i]]
            /\ \A i \in 1..Len(wire) : u[i] = IF i = Len(wire) THEN [kind |-> k, partial |-> TRUE]
                                                ELSE wire[i]
        <5>1. DOMAIN wire = 1..Len(wire) /\ Len(wire) \in Nat
          BY Typed, SequenceProperties
        <5>2. u = [i \in DOMAIN wire |-> IF i = Len(wire) THEN [kind |-> k, partial |-> TRUE] ELSE wire[i]]
          BY DEF Unterminated
        <5> HIDE DEF u
        <5> QED BY <5>1, <5>2
      <4>2. \A i \in 1..Len(wire) : u[i] \in WireLine
        BY <3>1, <4>1, Typed
      <4> HIDE DEF u
      <4>3. u \in Seq(WireLine)
        BY <4>1, <4>2, Typed, FunctionIsSequence
      <4> QED BY <4>3 DEF u
    <3> QED BY <3>2
  <2>3. wire' \in Seq(WireLine) /\ child' \in {"finished", "dead"}
    BY <1>4, <2>1, <2>2, Typed DEF CliExits
  <2>4. UNCHANGED <<openVars, flagVars, stdinVars, cliVars, killed, helper, stdoutPump,
                    stderrPump, queueVars, readerVars, done>>
    BY <1>4 DEF CliExits
  <2> QED BY <2>3, <2>4
          DEF TypeOK, WireLine, Sends, openVars, flagVars, stdinVars, cliVars, queueVars, readerVars
<1> QED BY <1>1, <1>2, <1>3, <1>4 DEF Cli

LEMMA ConsumerTyped == TypeOK /\ Consumer => TypeOK'
<1> SUFFICES ASSUME TypeOK, Consumer PROVE TypeOK'
  OBVIOUS
<1>1. CASE ConsumerLeaves
  BY <1>1 DEF ConsumerLeaves, TypeOK, Sends, openVars, flagVars, stdinVars, cliVars, procVars, stdoutVars
<1>2. CASE ConsumerTakes
  <2>1. /\ delivered' = delivered \/ \E e \in Yielded : delivered' = Append(delivered, e)
        /\ taken' \in 0..Len(pushed)
        /\ gen' \in {"native", "owes", "ended", "left"}
    <3>1. taken < Len(pushed) => taken + 1 \in 1..Len(pushed) /\ pushed[taken + 1] \in Yielded
      BY Typed DEF Yielded
    <3> QED BY <1>2, <3>1, Typed DEF ConsumerTakes, Takes, Yielded
  <2>2. delivered' \in Seq(Yielded)
    <3>1. \A e \in Yielded : Append(delivered, e) \in Seq(Yielded)
      BY Typed, AppendProperties
    <3> QED BY <2>1, <3>1, Typed
  <2>3. UNCHANGED <<openVars, flagVars, stdinVars, cliVars, procVars, stdoutVars, queueVars, done>>
    BY <1>2 DEF ConsumerTakes
  <2> QED BY <2>1, <2>2, <2>3
          DEF TypeOK, Yielded, Sends, openVars, flagVars, stdinVars, cliVars, procVars, stdoutVars, queueVars
<1> QED BY <1>1, <1>2 DEF Consumer

\* A line leaves the wire; an event is pushed unless the queue is closed.
LEMMA Pumped ==
    ASSUME TypeOK, StdoutPump
    PROVE  LET e == wire[1].kind IN
           /\ wire # <<>> /\ 1 \in 1..Len(wire) /\ wire' = Tail(wire) /\ wire' \in Seq(WireLine)
           /\ Len(wire') = Len(wire) - 1 /\ \A i \in 1..Len(wire') : wire'[i] = wire[i + 1]
           /\ \/ e = "cut" /\ pushed' = pushed
              \/ e \in Native /\ ~queueClosed /\ pushed' = Append(pushed, e)
              \/ e \in Native /\ queueClosed /\ pushed' = pushed
           /\ pushed' \in Seq(Native)
           /\ heard' \in Seq(Yielded)
           /\ sessionId' \in BOOLEAN /\ queueClosed' = queueClosed
<1>1. /\ wire # <<>> /\ wire' = Tail(wire)
      /\ LET e == Head(wire).kind IN
            IF e = "cut" THEN UNCHANGED queueVars
            ELSE /\ sessionId' = TRUE
                 /\ pushed' = IF queueClosed THEN pushed ELSE Append(pushed, e)
                 /\ heard' \in Heard(e)
                 /\ UNCHANGED queueClosed
  BY DEF StdoutPump, Ready
<1>2. /\ Head(wire) = wire[1] /\ 1 \in 1..Len(wire)
      /\ Tail(wire) \in Seq(WireLine) /\ Len(Tail(wire)) = Len(wire) - 1
      /\ \A i \in 1..Len(Tail(wire)) : Tail(wire)[i] = wire[i + 1]
  BY <1>1, Typed, TailProperties
<1>3. wire[1].kind \in Native \cup {"cut"}
  BY <1>2, Typed DEF WireLine
<1>4. /\ \/ wire[1].kind = "cut" /\ pushed' = pushed
         \/ wire[1].kind \in Native /\ ~queueClosed /\ pushed' = Append(pushed, wire[1].kind)
         \/ wire[1].kind \in Native /\ queueClosed /\ pushed' = pushed
      /\ queueClosed' = queueClosed /\ sessionId' \in BOOLEAN
  BY <1>1, <1>2, <1>3 DEF queueVars, TypeOK
<1>5. pushed' \in Seq(Native)
  <2>1. \A e \in Native : Append(pushed, e) \in Seq(Native)
    BY Typed, AppendProperties
  <2> QED BY <1>4, <2>1, Typed
<1>6. heard' \in Seq(Yielded)
  <2>1. CASE wire[1].kind = "cut"
    BY <1>1, <1>2, <2>1, Typed DEF queueVars
  <2>2. CASE wire[1].kind # "cut"
    <3>1. wire[1].kind \in Native /\ wire[1].kind \in Yielded
      BY <1>3, <2>2 DEF Yielded
    <3>2. /\ Twin(wire[1].kind) \in Seq(Yielded) /\ Append(heard, wire[1].kind) \in Seq(Yielded)
          /\ heard \in Seq(Yielded)
      BY <3>1, TwinTyped, Typed, AppendProperties
    <3>3. heard \o Twin(wire[1].kind) \in Seq(Yielded)
      BY <3>2, ConcatProperties, Zenon
    <3>4. heard' = heard \o Twin(wire[1].kind) \/ heard' = Append(heard, wire[1].kind)
      BY <1>1, <1>2, <2>2 DEF Heard
    <3> QED BY <3>2, <3>3, <3>4
  <2> QED BY <2>1, <2>2
<1> QED BY <1>1, <1>2, <1>4, <1>5, <1>6

LEMMA TasksTyped == TypeOK /\ Tasks => TypeOK'
<1> SUFFICES ASSUME TypeOK, Tasks PROVE TypeOK'
  OBVIOUS
<1>1. CASE StdoutEnds \/ StderrEnds \/ DoneResolves
  <2>1. CASE StdoutEnds
    BY <2>1 DEF StdoutEnds, TypeOK, Sends, openVars, flagVars, stdinVars, cliVars, procVars, queueVars,
                readerVars
  <2>2. CASE StderrEnds
    BY <2>2 DEF StderrEnds, TypeOK, Sends, openVars, flagVars, stdinVars, cliVars, procVars, stdoutVars,
                queueVars, readerVars
  <2>3. CASE DoneResolves
    BY <2>3 DEF DoneResolves, TypeOK, Sends, openVars, flagVars, stdinVars, cliVars, procVars, stdoutVars,
                queueVars, readerVars
  <2> QED BY <1>1, <2>1, <2>2, <2>3
<1>2. CASE DoneProceeds
  <2>1. /\ UNCHANGED <<handle, signal, mcpFile, aborted, inputEnded, sends, writing, pipe, cliVars,
                       procVars, stdoutVars, queueVars, readerVars>>
        /\ listening' \in BOOLEAN /\ registered' \in BOOLEAN /\ stdinClosed' \in BOOLEAN
        /\ writer' \in {"open", "closing", "closed", "errored"}
        /\ done' \in {"waiting", "closing", "reaping", "resolved"}
    BY <1>2 DEF DoneProceeds, ForceCloseStdin, Finally, TypeOK
  <2> QED BY <2>1 DEF TypeOK, Sends, cliVars, procVars, stdoutVars, queueVars, readerVars
<1>3. CASE StdoutPump
  <2>1. /\ wire' \in Seq(WireLine) /\ pushed' \in Seq(Native) /\ heard' \in Seq(Yielded)
        /\ sessionId' \in BOOLEAN /\ queueClosed' = queueClosed
        /\ pushed' = pushed \/ \E e \in Native : pushed' = Append(pushed, e)
    BY <1>3, Pumped
  <2>2. taken \in 0..Len(pushed')
    <3>1. Len(pushed') \in {Len(pushed), Len(pushed) + 1}
      BY <2>1, Typed, AppendProperties
    <3> QED BY <3>1, Typed
  <2>3. UNCHANGED <<openVars, flagVars, stdinVars, cliVars, procVars, stdoutPump, stderrPump,
                    readerVars, done>>
    BY <1>3 DEF StdoutPump
  <2> QED BY <2>1, <2>2, <2>3
          DEF TypeOK, WireLine, Yielded, Sends, openVars, flagVars, stdinVars, cliVars, procVars, readerVars
<1> QED BY <1>1, <1>2, <1>3 DEF Tasks

LEMMA StepTyped == TypeOK /\ [Next]_vars => TypeOK'
<1> SUFFICES ASSUME TypeOK, UNCHANGED vars PROVE TypeOK'
  BY HandleTyped, StdinTyped, CliTyped, ConsumerTyped, TasksTyped DEF Next
<1> QED BY DEF TypeOK, Sends, vars, openVars, flagVars, stdinVars, cliVars, procVars, stdoutVars, queueVars,
               readerVars

-----------------------------------------------------------------------------
(* The order of the messages *)

Increasing(s) == \A i, j \in 1..Len(s) : i < j => s[i] < s[j]
Given == inbox \o pipe \o writing
Accounted ==
    \A s \in Sends :
       /\ sends[s].outcome = "accepted" <=> s \in ToSet(inbox \o pipe)
       /\ sends[s].outcome = "pending" <=> s \in ToSet(writing)

LEMMA InOrderParts == InOrder <=> Increasing(Given) /\ Accounted
BY DEF InOrder, Increasing, Given, Accounted

LEMMA SetOfConcat ==
    ASSUME NEW S, NEW a \in Seq(S), NEW b \in Seq(S)
    PROVE  ToSet(a \o b) = ToSet(a) \cup ToSet(b)
<1>1. /\ Len(a) \in Nat /\ Len(b) \in Nat /\ DOMAIN a = 1..Len(a) /\ DOMAIN b = 1..Len(b)
  BY SequenceProperties
<1>2. /\ DOMAIN (a \o b) = 1..(Len(a) + Len(b))
      /\ \A i \in 1..(Len(a) + Len(b)) : (a \o b)[i] = IF i <= Len(a) THEN a[i] ELSE b[i - Len(a)]
  BY <1>1
<1>3. \A i \in DOMAIN a : i \in DOMAIN (a \o b) /\ (a \o b)[i] = a[i]
  BY <1>1, <1>2
<1>4. \A i \in DOMAIN b : i + Len(a) \in DOMAIN (a \o b) /\ (a \o b)[i + Len(a)] = b[i]
  BY <1>1, <1>2
<1>5. \A i \in DOMAIN (a \o b) : \/ i \in DOMAIN a /\ (a \o b)[i] = a[i]
                                 \/ i - Len(a) \in DOMAIN b /\ (a \o b)[i] = b[i - Len(a)]
  BY <1>1, <1>2
<1>6. PICK c : c = a \o b
  OBVIOUS
<1>7. ToSet(c) \subseteq ToSet(a) \cup ToSet(b)
  BY <1>5, <1>6, Zenon DEF ToSet
<1>8. ToSet(a) \subseteq ToSet(c)
  BY <1>3, <1>6, Zenon DEF ToSet
<1>9. ToSet(b) \subseteq ToSet(c)
  BY <1>4, <1>6, Zenon DEF ToSet
<1> QED BY <1>6, <1>7, <1>8, <1>9

LEMMA SetOfAppend ==
    ASSUME NEW S, NEW a \in Seq(S), NEW e \in S
    PROVE  ToSet(Append(a, e)) = ToSet(a) \cup {e}
<1>1. /\ Len(a) \in Nat /\ DOMAIN a = 1..Len(a) /\ DOMAIN Append(a, e) = 1..(Len(a) + 1)
      /\ Append(a, e)[Len(a) + 1] = e /\ \A i \in 1..Len(a) : Append(a, e)[i] = a[i]
  BY SequenceProperties, AppendProperties
<1>2. \A i : i \in DOMAIN Append(a, e) <=> i \in DOMAIN a \/ i = Len(a) + 1
  BY <1>1
<1> QED BY <1>1, <1>2 DEF ToSet

LEMMA SetOfTail ==
    ASSUME NEW S, NEW a \in Seq(S), a # <<>>
    PROVE  ToSet(a) = {Head(a)} \cup ToSet(Tail(a))
<1>1. /\ Len(a) \in Nat /\ DOMAIN a = 1..Len(a) /\ Head(a) = a[1] /\ 1 \in DOMAIN a
      /\ DOMAIN Tail(a) = 1..(Len(a) - 1) /\ \A i \in DOMAIN Tail(a) : Tail(a)[i] = a[i + 1]
  BY SequenceProperties, TailProperties
<1>2. /\ \A i \in DOMAIN Tail(a) : i + 1 \in DOMAIN a
      /\ \A i \in DOMAIN a : i = 1 \/ (i - 1 \in DOMAIN Tail(a) /\ Tail(a)[i - 1] = a[i])
  BY <1>1
<1>3. PICK u, v : u = Tail(a) /\ v = Head(a)
  OBVIOUS
<1>4. /\ v = a[1] /\ 1 \in DOMAIN a
      /\ \A j \in DOMAIN u : \E i \in DOMAIN a : u[j] = a[i]
      /\ \A i \in DOMAIN a : a[i] = v \/ \E j \in DOMAIN u : a[i] = u[j]
  BY <1>1, <1>2, <1>3
<1>5. ToSet(a) \subseteq {v} \cup ToSet(u) /\ ToSet(u) \subseteq ToSet(a) /\ v \in ToSet(a)
  BY <1>4 DEF ToSet
<1> QED BY <1>3, <1>5

LEMMA ConcatAppend ==
    ASSUME NEW S, NEW a \in Seq(S), NEW b \in Seq(S), NEW e \in S
    PROVE  a \o Append(b, e) = Append(a \o b, e)
<1>1. Append(b, e) = b \o <<e>> /\ Append(a \o b, e) = (a \o b) \o <<e>> /\ <<e>> \in Seq(S)
  BY ConcatProperties, AppendIsConcat
<1>2. a \o (b \o <<e>>) = (a \o b) \o <<e>>
  BY <1>1, ConcatAssociative
<1> QED BY <1>1, <1>2

\* The messages that were handed to the stream, with the place of the unwritten ones.
LEMMA GivenTyped ==
    ASSUME TypeOK
    PROVE  /\ inbox \o pipe \in Seq(Sends) /\ Len(inbox \o pipe) \in Nat
           /\ Given \in Seq(Sends) /\ Len(Given) = Len(inbox \o pipe) + Len(writing)
           /\ \A i \in 1..Len(inbox \o pipe) : Given[i] = (inbox \o pipe)[i]
           /\ \A i \in 1..Len(writing) : Given[Len(inbox \o pipe) + i] = writing[i]
           /\ \A i \in 1..Len(Given) : Given[i] \in Sends
<1>1. inbox \o pipe \in Seq(Sends)
  BY Typed, ConcatProperties
<1>2. PICK a \in Seq(Sends) : a = inbox \o pipe
  BY <1>1
<1>3. /\ Given = a \o writing /\ a \o writing \in Seq(Sends) /\ Len(a \o writing) = Len(a) + Len(writing)
      /\ \A i \in 1..(Len(a) + Len(writing)) :
            (a \o writing)[i] = IF i <= Len(a) THEN a[i] ELSE writing[i - Len(a)]
  BY <1>2, Typed, ConcatProperties DEF Given
<1>4. Len(a) \in Nat /\ Len(writing) \in Nat
  BY Typed, SequenceProperties
<1>5. \A i \in 1..Len(a) : (a \o writing)[i] = a[i]
  BY <1>3, <1>4
<1>6. \A i \in 1..Len(writing) : (a \o writing)[Len(a) + i] = writing[i]
  BY <1>3, <1>4
<1>7. \A i \in 1..Len(Given) : Given[i] \in Sends
  BY <1>3, SequenceProperties
<1> QED BY <1>1, <1>2, <1>3, <1>4, <1>5, <1>6, <1>7

LEMMA SendInOrder == TypeOK /\ InOrder /\ Send => InOrder'
<1> SUFFICES ASSUME TypeOK, InOrder, Send PROVE InOrder'
  OBVIOUS
<1> DEFINE n == Len(sends) + 1
           r == [outcome |-> Refusal, ended |-> inputEnded]
           front == inbox \o pipe
<1>1. /\ r \in SendRecord /\ r.outcome = Refusal
      /\ Refusal \in {"aborted", "inputClosed", "undelivered", "pending"}
  BY DEF Refusal, SendRecord, Outcome, TypeOK
<1>2. /\ sends' = Append(sends, r) /\ UNCHANGED <<inbox, pipe>>
      /\ writing' = IF Refusal = "pending" THEN Append(writing, n) ELSE writing
  BY DEF Send, cliVars
<1>3. /\ Len(sends') = n /\ sends'[n] = r /\ \A s \in Sends : sends'[s] = sends[s]
      /\ n \in Nat /\ n \notin Sends /\ Sends' = Sends \cup {n} /\ \A s \in Sends : s < n
      /\ Sends \subseteq Sends'
  <2>1. Len(sends') = n /\ sends'[n] = r /\ \A s \in 1..Len(sends) : sends'[s] = sends[s]
    BY <1>1, <1>2, Typed, AppendProperties
  <2> HIDE DEF r
  <2> QED BY <2>1, Typed DEF Sends
<1>4. /\ front \in Seq(Sends') /\ writing \in Seq(Sends') /\ Given \in Seq(Sends')
      /\ Given = front \o writing /\ ToSet(writing) \subseteq Sends /\ ToSet(front) \subseteq Sends
  <2>1. Given = front \o writing
    BY DEF Given
  <2>2. front \in Seq(Sends) /\ writing \in Seq(Sends) /\ Given \in Seq(Sends)
    BY GivenTyped, Typed
  <2> HIDE DEF front
  <2>3. ToSet(writing) \subseteq Sends /\ ToSet(front) \subseteq Sends
    BY <2>2, SequenceProperties DEF ToSet
  <2> QED BY <1>3, <2>1, <2>2, <2>3, SequenceProperties
<1>5. CASE Refusal = "pending"
  <2>1. Given' = Append(Given, n)
    <3>1. Given' = front \o Append(writing, n)
      BY <1>2, <1>5 DEF Given
    <3> HIDE DEF front, n
    <3> QED BY <1>3, <1>4, <3>1, ConcatAppend
  <2>2. Increasing(Given')
    <3>1. /\ Len(Given') = Len(Given) + 1 /\ Given'[Len(Given) + 1] = n
          /\ \A i \in 1..Len(Given) : Given'[i] = Given[i]
          /\ Len(Given) \in Nat /\ \A i \in 1..Len(Given) : Given[i] \in Sends
      BY <1>3, <1>4, <2>1, GivenTyped, AppendProperties
    <3>2. \A i, j \in 1..Len(Given) : i < j => Given[i] < Given[j]
      BY InOrderParts DEF Increasing
    <3> HIDE DEF n, front
    <3> QED BY <1>3, <3>1, <3>2 DEF Increasing
  <2>3. ToSet(writing') = ToSet(writing) \cup {n}
    <3>1. n \in Sends' /\ writing \in Seq(Sends') /\ writing' = Append(writing, n)
      BY <1>2, <1>3, <1>4, <1>5
    <3> HIDE DEF n
    <3> QED BY <3>1, SetOfAppend
  <2>4. Accounted'
    <3> HIDE DEF n, r
    <3> QED BY <1>1, <1>2, <1>3, <1>4, <1>5, <2>3, InOrderParts DEF Accounted
  <2> QED BY <2>2, <2>4 DEF InOrder, Increasing, Given, Accounted
<1>6. CASE Refusal # "pending"
  <2>1. UNCHANGED <<inbox, pipe, writing>>
    BY <1>2, <1>6
  <2>2. Accounted'
    <3> HIDE DEF n, r
    <3> QED BY <1>1, <1>2, <1>3, <1>4, <1>6, <2>1, InOrderParts DEF Accounted
  <2> QED BY <2>1, <2>2 DEF InOrder, Accounted
<1> QED BY <1>5, <1>6

LEMMA StdinInOrder == TypeOK /\ InOrder /\ Stdin => InOrder'
<1> SUFFICES ASSUME TypeOK, InOrder, Stdin PROVE InOrder'
  OBVIOUS
<1> DEFINE front == inbox \o pipe
<1>0. /\ front \in Seq(Sends) /\ Given = front \o writing /\ Len(front) \in Nat
      /\ Increasing(Given) /\ Accounted
  BY GivenTyped, InOrderParts DEF Given
<1>1. CASE WriteLands
  <2> DEFINE h == Head(writing)
  <2>1. /\ writing # <<>> /\ writing' = Tail(writing) /\ pipe' = Append(pipe, h)
        /\ sends' = Settled({h}, "accepted") /\ inbox' = inbox
    BY <1>1 DEF WriteLands, cliVars
  <2>2. /\ h = writing[1] /\ 1 \in 1..Len(writing) /\ h \in Sends /\ Tail(writing) \in Seq(Sends)
        /\ Len(Tail(writing)) = Len(writing) - 1
        /\ \A i \in 1..Len(Tail(writing)) : Tail(writing)[i] = writing[i + 1]
    BY <2>1, Typed, TailProperties
  <2>3. inbox' \o pipe' = Append(front, h)
    <3> HIDE DEF h
    <3>1. h \in Sends /\ pipe \in Seq(Sends) /\ inbox \in Seq(Sends)
      BY <2>2, Typed
    <3>2. inbox \o Append(pipe, h) = Append(inbox \o pipe, h)
      BY <3>1, ConcatAppend
    <3> QED BY <2>1, <3>2
  <2>4. Given' = Given
    <3>1. Given' = Append(front, h) \o Tail(writing)
      BY <2>1, <2>3 DEF Given
    <3> HIDE DEF front
    <3> QED BY <1>0, <2>1, <3>1, Typed, HeadMoves
  <2>5. ToSet(inbox' \o pipe') = ToSet(front) \cup {h}
    <3> HIDE DEF h, front
    <3> QED BY <1>0, <2>2, <2>3, SetOfAppend
  <2>6. ToSet(writing) = {h} \cup ToSet(writing')
    <3> HIDE DEF front
    <3> QED BY <2>1, Typed, SetOfTail
  <2>7. h \notin ToSet(writing')
    <3>1. \A i \in DOMAIN Tail(writing) : writing[1] < Tail(writing)[i]
      <4> TAKE i \in DOMAIN Tail(writing)
      <4>1. i \in 1..(Len(writing) - 1) /\ i + 1 \in 1..Len(writing) /\ 1 < i + 1
        BY <2>2, Typed, SequenceProperties
      <4>2. writing[1] = Given[Len(front) + 1] /\ writing[i + 1] = Given[Len(front) + (i + 1)]
        BY <2>2, <4>1, GivenTyped
      <4>3. /\ Len(front) + 1 \in 1..Len(Given) /\ Len(front) + (i + 1) \in 1..Len(Given)
            /\ Len(front) + 1 < Len(front) + (i + 1)
        <5>1. Len(Given) = Len(front) + Len(writing) /\ Len(writing) \in Nat
          BY GivenTyped, Typed
        <5> HIDE DEF front
        <5> QED BY <1>0, <2>2, <4>1, <5>1
      <4>4. writing[1] < writing[i + 1]
        <5> HIDE DEF front
        <5> QED BY <1>0, <4>2, <4>3 DEF Increasing
      <4> QED BY <2>2, <4>1, <4>4
    <3>2. \A i \in DOMAIN Tail(writing) : Tail(writing)[i] # writing[1]
      <4>1. \A i \in DOMAIN Tail(writing) : Tail(writing)[i] \in Nat
        <5>1. \A i \in DOMAIN Tail(writing) : Tail(writing)[i] \in Sends
          BY <2>2, SequenceProperties
        <5> QED BY <5>1 DEF Sends
      <4>2. writing[1] \in Nat
        BY <2>2, Typed DEF Sends
      <4> QED BY <3>1, <4>1, <4>2
    <3> QED BY <2>1, <2>2, <3>2 DEF ToSet
  <2>8. /\ Sends' = Sends
        /\ \A s \in Sends : sends'[s].outcome = IF s \in {h} THEN "accepted" ELSE sends[s].outcome
    <3> HIDE DEF h
    <3> QED BY <2>1, SettledSends
  <2>9. Accounted'
    <3> HIDE DEF h
    <3> QED BY <1>0, <2>5, <2>6, <2>7, <2>8 DEF Accounted
  <2> QED BY <1>0, <2>4, <2>9 DEF InOrder, Increasing, Given, Accounted
<1>2. CASE WriteFails
  <2>1. /\ writing' = <<>> /\ inbox' = inbox /\ pipe' = pipe
        /\ sends' = Settled(Writing, "undelivered")
    BY <1>2 DEF WriteFails, cliVars
  <2>2. Writing = ToSet(writing)
    BY Typed, SequenceProperties DEF Writing, ToSet
  <2>3. /\ Sends' = Sends
        /\ \A s \in Sends : sends'[s].outcome = IF s \in Writing THEN "undelivered" ELSE sends[s].outcome
    BY <2>1, SettledSends
  <2>4. ToSet(writing') = {}
    BY <2>1 DEF ToSet
  <2>5. Accounted'
    BY <1>0, <2>1, <2>2, <2>3, <2>4 DEF Accounted
  <2>6. Given' = front
    BY <1>0, <2>1, ConcatEmptySeq DEF Given
  <2>7. Increasing(front)
    <3>1. Len(Given) = Len(front) + Len(writing) /\ Len(writing) \in Nat
          /\ \A i \in 1..Len(front) : Given[i] = front[i]
      BY GivenTyped, Typed
    <3> HIDE DEF front
    <3>2. 1..Len(front) \subseteq 1..Len(Given)
      BY <1>0, <3>1
    <3> QED BY <1>0, <3>1, <3>2 DEF Increasing
  <2>8. Increasing(Given)'
    BY <2>6, <2>7 DEF Increasing
  <2> QED BY <2>5, <2>8 DEF InOrder, Increasing, Given, Accounted
<1>3. CASE WriterCloses
  BY <1>3 DEF WriterCloses, InOrder, Sends, cliVars
<1> QED BY <1>1, <1>2, <1>3 DEF Stdin

LEMMA CliInOrder == TypeOK /\ InOrder /\ Cli => InOrder'
<1> SUFFICES ASSUME TypeOK, InOrder, Cli PROVE InOrder'
  OBVIOUS
<1>1. CASE CliReads
  <2>1. inbox' \o pipe' = inbox \o pipe
    BY <1>1, Typed, HeadMoves DEF CliReads
  <2>2. UNCHANGED <<writing, sends>>
    BY <1>1 DEF CliReads
  <2> QED BY <2>1, <2>2 DEF InOrder, Sends
<1>2. CASE CliSpeaks \/ HelperStarts \/ HelperExits \/ CliExits
  BY <1>2 DEF CliSpeaks, HelperStarts, HelperExits, CliExits, InOrder, Sends, stdinVars, cliVars
<1> QED BY <1>1, <1>2 DEF Cli

LEMMA InOrderStep == TypeOK /\ InOrder /\ [Next]_vars => InOrder'
<1>1. CASE Spawns \/ SpawnFails \/ EndInput \/ Abort \/ SignalFires \/ Consumer \/ Tasks \/ UNCHANGED vars
  <2>1. UNCHANGED <<inbox, pipe, writing, sends>>
    BY <1>1 DEF Spawns, SpawnFails, EndInput, Abort, SignalFires, Consumer, ConsumerTakes, ConsumerLeaves,
                Tasks, StdoutPump, StdoutEnds, StderrEnds, DoneProceeds, DoneResolves, vars, stdinVars, cliVars
  <2> QED BY <2>1 DEF InOrder, Sends
<1> QED BY <1>1, SendInOrder, StdinInOrder, CliInOrder DEF Next, Handle

-----------------------------------------------------------------------------
(* The subprocess, stdin and the ends *)

Life == Begun /\ Watched /\ Closing /\ Ending

LEMMA HandleLife == TypeOK /\ Life /\ Handle => Life'
<1> SUFFICES ASSUME TypeOK, Life, Handle PROVE Life'
  OBVIOUS
<1>1. CASE Spawns
  <2>1. /\ handle = "preparing" /\ handle' = "open" /\ child' = "running" /\ registered'
        /\ aborted' = signal /\ killed' = signal /\ child = "none" /\ ~Gone
        /\ UNCHANGED <<mcpFile, stdinClosed, stdinVars, helper, stdoutVars, queueVars, readerVars, done>>
    BY <1>1 DEF Spawns, Life, Begun, Gone
  <2> QED BY <2>1 DEF Life, Begun, Watched, Closing, Ending, Gone, TypeOK, stdinVars, stdoutVars,
                      queueVars, readerVars
<1>2. CASE SpawnFails
  BY <1>2 DEF SpawnFails, Life, Begun, Watched, Closing, Ending, Gone, flagVars, stdinVars, procVars,
              stdoutVars, queueVars, readerVars
<1>3. CASE Send
  <2>1. writing' = writing \/ ~stdinClosed
    BY <1>3 DEF Send, Refusal
  <2>2. UNCHANGED <<openVars, flagVars, writer, procVars, stdoutVars, queueVars, readerVars, done>>
    BY <1>3 DEF Send
  <2> QED BY <2>1, <2>2 DEF Life, Begun, Watched, Closing, Ending, Gone, openVars, flagVars, procVars,
                            stdoutVars, queueVars, readerVars
<1>4. CASE EndInput \/ Abort
  <2>1. /\ stdinClosed' /\ writer' \in {writer, "closing"} /\ (writer' # writer => writer = "open")
        /\ handle = "open"
        /\ UNCHANGED <<openVars, writing, child, helper, stdoutVars, queueVars, readerVars, done>>
    BY <1>4 DEF EndInput, Abort, ForceCloseStdin, Kill, procVars
  <2>2. Watched'
    BY <1>4 DEF EndInput, Abort, Kill, Life, Watched, openVars, procVars
  <2> QED BY <2>1, <2>2 DEF Life, Begun, Closing, Ending, Gone, openVars, stdoutVars, queueVars, readerVars
<1>5. CASE SignalFires
  <2>1. /\ ~listening'
        /\ UNCHANGED <<handle, registered, mcpFile, stdinClosed, stdinVars, child, helper, stdoutVars,
                       queueVars, readerVars, done>>
    BY <1>5 DEF SignalFires, Kill
  <2>2. Watched'
    BY <1>5 DEF SignalFires, Kill, Life, Watched
  <2>3. handle' # "open" => ~aborted'
    BY <1>5 DEF SignalFires, Life, Begun
  <2> QED BY <2>1, <2>2, <2>3 DEF Life, Begun, Closing, Ending, Gone, stdinVars, stdoutVars, queueVars, readerVars
<1> QED BY <1>1, <1>2, <1>3, <1>4, <1>5 DEF Handle

LEMMA StdinLife == TypeOK /\ Life /\ Stdin => Life'
<1> SUFFICES ASSUME TypeOK, Life, Stdin PROVE Life'
  OBVIOUS
<1>1. /\ UNCHANGED <<openVars, flagVars, procVars, stdoutVars, queueVars, readerVars, done>>
      /\ writer' \in {writer, "closed", "errored"}
  BY DEF Stdin, WriteLands, WriteFails, WriterCloses
<1>2. Closing'
  <2>1. CASE WriteLands
    BY <1>1, <2>1 DEF WriteLands, Life, Closing, flagVars
  <2>2. CASE WriteFails
    BY <1>1, <2>2 DEF WriteFails, Life, Closing, flagVars
  <2>3. CASE WriterCloses
    BY <1>1, <2>3 DEF WriterCloses, Life, Closing, flagVars
  <2> QED BY <2>1, <2>2, <2>3 DEF Stdin
<1> QED BY <1>1, <1>2 DEF Life, Begun, Watched, Ending, Gone, openVars, flagVars, procVars, stdoutVars,
                          queueVars, readerVars

LEMMA CliLife == TypeOK /\ Life /\ Cli => Life'
<1> SUFFICES ASSUME TypeOK, Life, Cli PROVE Life'
  OBVIOUS
<1>1. /\ UNCHANGED <<openVars, flagVars, writing, writer, killed, stdoutPump, stderrPump, queueVars,
                     readerVars, done>>
      /\ \/ child = "running" /\ child' \in {"running", "finished", "dead"}
         \/ child' = child /\ wire' = wire /\ helper' = FALSE
  BY DEF Cli, CliReads, CliSpeaks, HelperStarts, HelperExits, CliExits, stdinVars, procVars, stdoutVars
<1>2. child = "running" => stdoutPump # "ended" /\ done = "waiting"
  BY DEF Life, Ending, Gone
<1> QED BY <1>1, <1>2 DEF Life, Begun, Watched, Closing, Ending, Gone, openVars, flagVars, queueVars,
                          readerVars

LEMMA ConsumerLife == TypeOK /\ Life /\ Consumer => Life'
<1> SUFFICES ASSUME TypeOK, Life, Consumer PROVE Life'
  OBVIOUS
<1>1. /\ UNCHANGED <<openVars, flagVars, stdinVars, procVars, stdoutVars, done>>
      /\ \/ queueClosed' /\ gen' = "left"
         \/ /\ queueClosed' = queueClosed /\ gen \in {"native", "owes"}
            /\ gen' \in {"native", "owes"} \/ (gen' = "ended" /\ queueClosed)
  BY DEF Consumer, ConsumerTakes, Takes, ConsumerLeaves, queueVars
<1> QED BY <1>1 DEF Life, Begun, Watched, Closing, Ending, Gone, openVars, flagVars, stdinVars, procVars,
                    stdoutVars

LEMMA TasksLife == TypeOK /\ Life /\ Tasks => Life'
<1> SUFFICES ASSUME TypeOK, Life, Tasks PROVE Life'
  OBVIOUS
<1>1. CASE StdoutPump
  <2>1. /\ UNCHANGED <<openVars, flagVars, stdinVars, procVars, stdoutPump, readerVars, done>>
        /\ stdoutPump = "running" /\ queueClosed' = queueClosed
    BY <1>1, Pumped DEF StdoutPump
  <2> QED BY <2>1 DEF Life, Begun, Watched, Closing, Ending, Gone, openVars, flagVars, stdinVars, procVars,
                      readerVars
<1>2. CASE StdoutEnds
  <2>1. /\ UNCHANGED <<openVars, flagVars, stdinVars, procVars, wire, readerVars, done>>
        /\ stdoutPump' = "ended" /\ queueClosed' /\ Gone /\ ~helper /\ wire = <<>>
    BY <1>2 DEF StdoutEnds, Eof, Ready, Gone
  <2> QED BY <2>1 DEF Life, Begun, Watched, Closing, Ending, Gone, openVars, flagVars, stdinVars, procVars,
                      readerVars
<1>3. CASE StderrEnds
  BY <1>3 DEF StderrEnds, Life, Begun, Watched, Closing, Ending, Gone, openVars, flagVars, stdinVars,
              procVars, queueVars, readerVars
<1>4. CASE DoneProceeds
  <2>0. done # "waiting" => stdoutPump = "ended" /\ Gone
    BY DEF Life, Ending
  <2>1. /\ UNCHANGED <<handle, mcpFile, aborted, writing, procVars, stdoutVars, queueVars, readerVars>>
        /\ (stdinClosed => stdinClosed') /\ writer' \in {writer, "closing"}
        /\ (writer' # writer => stdinClosed')
        /\ stdoutPump = "ended" /\ Gone
        /\ \/ done' = "closing" /\ UNCHANGED <<registered, listening>>
           \/ done' = "reaping" /\ ~registered' /\ ~listening'
    BY <1>4, <2>0 DEF DoneProceeds, ForceCloseStdin, Finally, Ended, Gone
  <2> QED BY <2>1 DEF Life, Begun, Watched, Closing, Ending, Gone, procVars, stdoutVars, queueVars,
                      readerVars
<1>5. CASE DoneResolves
  BY <1>5 DEF DoneResolves, Life, Begun, Watched, Closing, Ending, Gone, flagVars, stdinVars, procVars,
              stdoutVars, queueVars, readerVars
<1> QED BY <1>1, <1>2, <1>3, <1>4, <1>5 DEF Tasks

LEMMA LifeStep == TypeOK /\ Life /\ [Next]_vars => Life'
<1>1. ASSUME Life, UNCHANGED vars PROVE Life'
  BY <1>1 DEF Life, Begun, Watched, Closing, Ending, Gone, vars, openVars, flagVars, stdinVars, procVars,
              stdoutVars, queueVars, readerVars
<1> QED BY <1>1, HandleLife, StdinLife, CliLife, ConsumerLife, TasksLife DEF Next

-----------------------------------------------------------------------------
(* What the consumer received *)

LEMMA PrefixGrows ==
    ASSUME NEW S, NEW s \in Seq(S), NEW n \in Nat, n < Len(s)
    PROVE  /\ SubSeq(s, 1, n) \in Seq(S)
           /\ SubSeq(s, 1, n + 1) = Append(SubSeq(s, 1, n), s[n + 1])
<1>1. /\ Len(s) \in Nat /\ 1 \in 1..Len(s) /\ n + 1 \in 1..Len(s) /\ (n + 1) - 1 = n
      /\ \A i \in 1..Len(s) : s[i] \in S
  BY SequenceProperties
<1>2. SubSeq(s, 1, n) \in Seq(S)
  <2>1. \A i \in 1..n : s[i] \in S
    BY <1>1
  <2> QED BY <2>1, SubSeqProperties
<1>3. SubSeq(s, 1, n + 1) = SubSeq(s, 1, n) \o <<s[n + 1]>>
  BY <1>1, SubSeqRecursiveSecond
<1>4. Append(SubSeq(s, 1, n), s[n + 1]) = SubSeq(s, 1, n) \o <<s[n + 1]>>
  BY <1>1, <1>2, AppendIsConcat
<1> QED BY <1>2, <1>3, <1>4

LEMMA PrefixKept ==
    ASSUME NEW S, NEW s \in Seq(S), NEW e \in S, NEW n \in 0..Len(s)
    PROVE  SubSeq(Append(s, e), 1, n) = SubSeq(s, 1, n)
<1>1. Len(s) \in Nat
  BY LenProperties
<1>2. CASE n = 0
  BY <1>2, SubSeqEmpty
<1>3. CASE n # 0
  <2>1. 1 \in 1..Len(s) /\ n \in 1..Len(s) /\ <<e>> \in Seq(S)
    BY <1>1, <1>3
  <2>2. SubSeq(s \o <<e>>, 1, n) = SubSeq(s, 1, n)
    BY <2>1, SubSeqOfConcat1
  <2> QED BY <2>2, AppendIsConcat
<1> QED BY <1>2, <1>3

LEMMA TakesInOrder == TypeOK /\ YieldedInOrder /\ ConsumerTakes => YieldedInOrder'
<1> SUFFICES ASSUME TypeOK, YieldedInOrder, ConsumerTakes PROVE YieldedInOrder'
  OBVIOUS
<1>1. pushed' = pushed
  BY DEF ConsumerTakes, queueVars
<1>2. CASE gen = "owes"
  <2>1. delivered' = Append(delivered, "turn-end") /\ gen' = "native" /\ taken' = taken
    BY <1>2 DEF ConsumerTakes, Takes
  <2> QED BY <1>1, <1>2, <2>1 DEF YieldedInOrder
<1>3. CASE gen = "native" /\ taken < Len(pushed) /\ taken' = taken + 1
  <2> DEFINE e == pushed[taken + 1]
             before == SubSeq(pushed, 1, taken)
  <2>1. /\ delivered' = Append(delivered, e) /\ gen' = IF e = "result" THEN "owes" ELSE "native"
    BY <1>3, Typed DEF ConsumerTakes, Takes
  <2>2. e \in Native /\ before \in Seq(Native) /\ SubSeq(pushed', 1, taken') = Append(before, e)
    <3>1. taken + 1 \in 1..Len(pushed)
      BY <1>3, Typed
    <3> QED BY <1>1, <1>3, <3>1, Typed, PrefixGrows
  <2>3. delivered = Twinned(before) /\ delivered \in Seq(Yielded)
    BY <1>3, Typed DEF YieldedInOrder
  <2>4. Twinned(SubSeq(pushed', 1, taken')) = delivered \o Twin(e)
    <3> HIDE DEF e, before
    <3> QED BY <2>2, <2>3, TwinnedAppend
  <2>5. CASE e = "result"
    <3>1. Append(delivered', "turn-end") = delivered \o Twin(e)
      <4> HIDE DEF e
      <4>1. Append(Append(delivered, e), "turn-end") = delivered \o <<e, "turn-end">>
        <5>1. e \in Yielded /\ "turn-end" \in Yielded
          BY <2>2 DEF Yielded
        <5>2. <<e, "turn-end">> = Append(<<e>>, "turn-end") /\ <<e>> \in Seq(Yielded)
          BY <5>1
        <5>3. Append(delivered, e) = delivered \o <<e>>
          BY <2>3, <5>1, AppendIsConcat
        <5> QED BY <2>3, <5>1, <5>2, <5>3, ConcatAppend
      <4> QED BY <2>1, <2>5, <4>1 DEF Twin
    <3> QED BY <2>1, <2>4, <2>5, <3>1 DEF YieldedInOrder
  <2>6. CASE e # "result"
    <3>1. delivered' = delivered \o Twin(e)
      <4>1. e \in Yielded
        BY <2>2 DEF Yielded
      <4> HIDE DEF e
      <4> QED BY <2>1, <2>3, <2>6, <4>1, AppendIsConcat DEF Twin
    <3> QED BY <2>1, <2>4, <2>6, <3>1 DEF YieldedInOrder
  <2> QED BY <2>5, <2>6
<1>4. CASE gen = "native" /\ taken = Len(pushed) /\ gen' = "ended"
  <2>1. UNCHANGED <<taken, delivered>>
    BY <1>4, Typed DEF ConsumerTakes, Takes
  <2> QED BY <1>1, <1>4, <2>1 DEF YieldedInOrder
<1> QED BY <1>2, <1>3, <1>4 DEF ConsumerTakes, Takes

LEMMA YieldedStep == TypeOK /\ Life /\ YieldedInOrder /\ [Next]_vars => YieldedInOrder'
<1> SUFFICES ASSUME TypeOK, Life, YieldedInOrder, [Next]_vars PROVE YieldedInOrder'
  OBVIOUS
<1>1. CASE ConsumerTakes
  BY <1>1, TakesInOrder
<1>2. CASE ConsumerLeaves
  BY <1>2 DEF ConsumerLeaves, YieldedInOrder
<1>3. CASE StdoutPump
  <2>1. UNCHANGED <<taken, gen, delivered>>
    BY <1>3 DEF StdoutPump, readerVars
  <2>2. CASE pushed' = pushed
    BY <2>1, <2>2 DEF YieldedInOrder
  <2>3. CASE pushed' # pushed
    <3>1. PICK e \in Native : pushed' = Append(pushed, e)
      BY <1>3, <2>3, Pumped
    <3>2. SubSeq(pushed', 1, taken) = SubSeq(pushed, 1, taken)
      BY <3>1, Typed, PrefixKept
    <3>3. gen # "ended"
      <4>1. ~queueClosed
        BY <1>3, <2>3, Pumped
      <4> QED BY <4>1 DEF Life, Ending
    <3> QED BY <2>1, <3>2, <3>3 DEF YieldedInOrder
  <2> QED BY <2>2, <2>3
<1>4. CASE \/ Handle \/ Cli \/ Stdin \/ StdoutEnds \/ StderrEnds \/ DoneProceeds \/ DoneResolves
           \/ UNCHANGED vars
  <2>1. CASE Handle
    BY <2>1 DEF Handle, Spawns, SpawnFails, Send, EndInput, Abort, SignalFires, queueVars, readerVars,
                YieldedInOrder
  <2>2. CASE Cli \/ Stdin
    BY <2>2 DEF Cli, CliReads, CliSpeaks, HelperStarts, HelperExits, CliExits, Stdin, WriteLands,
                WriteFails, WriterCloses, queueVars, readerVars, YieldedInOrder
  <2>3. CASE StdoutEnds \/ StderrEnds \/ DoneProceeds \/ DoneResolves \/ UNCHANGED vars
    BY <2>3 DEF StdoutEnds, StderrEnds, DoneProceeds, DoneResolves, vars, queueVars, readerVars,
                YieldedInOrder
  <2> QED BY <1>4, <2>1, <2>2, <2>3
<1> QED BY <1>1, <1>2, <1>3, <1>4 DEF Next, Consumer, Tasks

-----------------------------------------------------------------------------
(* The answers *)

Kind == Native \cup {"cut"}

Streams ==
    /\ WireKinds \in Seq(Kind) /\ Len(WireKinds) = Len(wire)
    /\ \A i \in 1..Len(wire) : WireKinds[i] = wire[i].kind
    /\ pushed \in Seq(Kind)
    /\ Stream \in Seq(Kind)

LEMMA StreamTyped == TypeOK => Streams
<1> SUFFICES ASSUME TypeOK PROVE Streams
  OBVIOUS
<1>1. WireKinds = [i \in 1..Len(wire) |-> WireKinds[i]] /\ \A i \in 1..Len(wire) : WireKinds[i] = wire[i].kind
  BY DEF WireKinds
<1>2. \A i \in 1..Len(wire) : WireKinds[i] \in Kind
  BY <1>1, Typed DEF WireLine, Kind
<1>3. WireKinds \in Seq(Kind) /\ Len(WireKinds) = Len(wire)
  BY <1>1, <1>2, Typed, FunctionIsSequence
<1>4. pushed \in Seq(Kind)
  BY Typed, SequenceProperties DEF Kind
<1>5. Stream \in Seq(Kind)
  BY <1>3, <1>4, ConcatProperties DEF Stream
<1> QED BY <1>1, <1>3, <1>4, <1>5 DEF Streams

LEMMA ResultsCounted ==
    ASSUME NEW S, NEW s \in Seq(S), NEW e \in S
    PROVE  Cardinality(Results(Append(s, e))) =
               Cardinality(Results(s)) + IF e = "result" THEN 1 ELSE 0
<1>1. /\ Len(s) \in Nat /\ DOMAIN s = 1..Len(s) /\ DOMAIN Append(s, e) = 1..(Len(s) + 1)
      /\ Append(s, e)[Len(s) + 1] = e /\ \A i \in 1..Len(s) : Append(s, e)[i] = s[i]
  BY SequenceProperties, AppendProperties
<1>2. IsFiniteSet(Results(s)) /\ Cardinality(Results(s)) \in Nat
  <2>1. IsFiniteSet(1..Len(s)) /\ Results(s) \subseteq 1..Len(s)
    BY <1>1, FS_Interval DEF Results
  <2> QED BY <2>1, FS_Subset, FS_CardinalityType
<1>3. CASE e = "result"
  <2>1. Results(Append(s, e)) = Results(s) \cup {Len(s) + 1} /\ Len(s) + 1 \notin Results(s)
    BY <1>1, <1>3 DEF Results
  <2> QED BY <1>2, <1>3, <2>1, FS_AddElement
<1>4. CASE e # "result"
  <2>1. Results(Append(s, e)) = Results(s)
    BY <1>1, <1>4 DEF Results
  <2> QED BY <1>2, <1>4, <2>1
<1> QED BY <1>3, <1>4

LEMMA SpeaksAnswers == TypeOK /\ Answers /\ CliSpeaks => Answers'
<1> SUFFICES ASSUME TypeOK, TypeOK', Answers, CliSpeaks PROVE Answers'
  BY StepTyped DEF Next, Cli
<1>0. Streams /\ Streams'
  BY StreamTyped, PTL
<1>1. PICK k \in Native : /\ wire' = Append(wire, Line(k))
                          /\ served' = served + IF k = "result" THEN 1 ELSE 0
  BY Typed DEF CliSpeaks, Native
<1>2. child = "running" /\ UNCHANGED <<child, gen, pushed>>
  BY DEF CliSpeaks, procVars, queueVars, readerVars
<1>3. /\ Len(wire') = Len(wire) + 1 /\ wire'[Len(wire) + 1] = Line(k)
      /\ \A i \in 1..Len(wire) : wire'[i] = wire[i]
  <2>1. Line(k) \in WireLine
    BY DEF Line, WireLine
  <2> QED BY <1>1, <2>1, Typed, AppendProperties
<1>4. WireKinds' = Append(WireKinds, k)
  <2>1. k \in Kind /\ WireKinds \in Seq(Kind) /\ WireKinds' \in Seq(Kind)
    BY <1>0 DEF Kind, Streams
  <2>2. Append(WireKinds, k) \in Seq(Kind) /\ Len(Append(WireKinds, k)) = Len(wire) + 1
        /\ Append(WireKinds, k)[Len(wire) + 1] = k
        /\ \A i \in 1..Len(wire) : Append(WireKinds, k)[i] = wire[i].kind
    BY <1>0, <2>1, AppendProperties DEF Streams
  <2>3. Len(WireKinds') = Len(wire') /\ \A i \in 1..Len(wire') : WireKinds'[i] = wire'[i].kind
    BY <1>0 DEF Streams
  <2>4. \A i \in 1..Len(wire') : i \in 1..Len(wire) \/ i = Len(wire) + 1
    BY <1>3, Typed
  <2>5. \A i \in 1..Len(wire') : WireKinds'[i] = Append(WireKinds, k)[i]
    BY <1>3, <2>2, <2>3, <2>4 DEF Line
  <2> QED BY <1>3, <2>1, <2>2, <2>3, <2>5, SeqEqual
<1>5. Stream' = Append(Stream, k)
  <2>1. k \in Kind
    BY DEF Kind
  <2> QED BY <1>0, <1>2, <1>4, <2>1, ConcatAppend DEF Stream, Streams
<1>6. Cardinality(Results(Stream')) = Cardinality(Results(Stream)) + IF k = "result" THEN 1 ELSE 0
  <2>1. k \in Kind
    BY DEF Kind
  <2> QED BY <1>0, <1>5, <2>1, ResultsCounted DEF Streams
<1>7. \A i \in 1..Len(wire') : wire'[i].kind # "cut"
  <2>1. Line(k).kind # "cut"
    BY DEF Line, Native
  <2>2. \A i \in 1..Len(wire') : i \in 1..Len(wire) \/ i = Len(wire) + 1
    <3>1. Len(wire) \in Nat
      BY Typed
    <3> QED BY <1>3, <3>1
  <2> QED BY <1>2, <1>3, <2>1, <2>2 DEF Answers
<1>8. gen' # "left" => Cardinality(Results(Stream))' = served'
  BY <1>1, <1>2, <1>6 DEF Answers
<1> QED BY <1>2, <1>7, <1>8 DEF Answers

LEMMA ExitsAnswers == TypeOK /\ Answers /\ CliExits => Answers'
<1> SUFFICES ASSUME TypeOK, Answers, CliExits PROVE Answers'
  OBVIOUS
<1>1. UNCHANGED <<stdinVars, cliVars, pushed, gen>> /\ child = "running"
  BY DEF CliExits, queueVars, readerVars
<1>2. CASE child' = "dead"
  BY <1>2 DEF Answers
<1>3. CASE child' # "dead"
  <2>1. /\ child' = "finished" /\ writer = "closed" /\ pipe = <<>> /\ served = Len(inbox)
        /\ wire' = wire \/ (wire # <<>> /\ wire' = Unterminated(wire[Len(wire)].kind))
    BY <1>3 DEF CliExits
  <2>2. Len(wire') = Len(wire) /\ \A i \in 1..Len(wire) : wire'[i].kind = wire[i].kind
    <3>1. CASE wire' # wire
      <4>1. DOMAIN wire = 1..Len(wire) /\ Len(wire) \in Nat
        BY Typed, SequenceProperties
      <4>2. wire' = [i \in DOMAIN wire |-> IF i = Len(wire)
                                           THEN [kind |-> wire[Len(wire)].kind, partial |-> TRUE] ELSE wire[i]]
        BY <2>1, <3>1 DEF Unterminated
      <4>3. wire' \in Seq(WireLine)
        <5>1. TypeOK'
          BY StepTyped DEF Next, Cli
        <5> QED BY <5>1 DEF TypeOK, WireLine
      <4>4. DOMAIN wire' = 1..Len(wire') /\ Len(wire') \in Nat
        BY <4>3, SequenceProperties
      <4>5. 1..Len(wire') = 1..Len(wire)
        BY <4>1, <4>2, <4>4
      <4>6. Len(wire') = Len(wire)
        <5>1. PICK m \in Nat, n \in Nat : m = Len(wire) /\ n = Len(wire')
          BY <4>1, <4>4
        <5>2. m = n
          <6>1. 1..m = 1..n
            BY <4>5, <5>1
          <6>2. m \in 1..m \/ m = 0
            OBVIOUS
          <6>3. n \in 1..n \/ n = 0
            OBVIOUS
          <6> QED BY <6>1, <6>2, <6>3
        <5> QED BY <5>1, <5>2
      <4> QED BY <4>1, <4>2, <4>6
    <3> QED BY <3>1
  <2>3. WireKinds' = WireKinds
    BY <2>2 DEF WireKinds
  <2> QED BY <1>1, <2>1, <2>2, <2>3 DEF Answers, Stream, stdinVars, cliVars
<1> QED BY <1>2, <1>3

LEMMA PumpAnswers == TypeOK /\ Life /\ Answers /\ StdoutPump => Answers'
<1> SUFFICES ASSUME TypeOK, TypeOK', Life, Answers, StdoutPump PROVE Answers'
  BY StepTyped DEF Next, Tasks
<1>1. /\ UNCHANGED <<stdinVars, cliVars, child, gen>>
      /\ stdoutPump = "running" /\ (gen # "left" => ~queueClosed)
  BY DEF StdoutPump, Life, Ending, procVars, readerVars
<1>2. /\ wire # <<>> /\ 1 \in 1..Len(wire)
      /\ Len(wire') = Len(wire) - 1 /\ \A i \in 1..Len(wire') : wire'[i] = wire[i + 1]
  BY Pumped
<1>3. child # "dead" => \A i \in 1..Len(wire') : wire'[i].kind # "cut"
  <2>1. \A i \in 1..Len(wire') : i + 1 \in 1..Len(wire)
    BY <1>2, Typed
  <2> QED BY <1>2, <2>1 DEF Answers
<1>4. ASSUME child # "dead", gen # "left" PROVE Stream' = Stream
  <2>1. wire[1].kind # "cut"
    BY <1>2, <1>4 DEF Answers
  <2>2. pushed' = Append(pushed, wire[1].kind)
    BY <1>1, <1>4, <2>1, Pumped
  <2>3. /\ WireKinds \in Seq(Kind) /\ WireKinds' \in Seq(Kind) /\ pushed \in Seq(Kind)
        /\ Len(WireKinds) = Len(wire) /\ Len(WireKinds') = Len(wire')
        /\ \A i \in 1..Len(wire) : WireKinds[i] = wire[i].kind
        /\ \A i \in 1..Len(wire') : WireKinds'[i] = wire'[i].kind
    <3>1. Streams /\ Streams'
      BY StreamTyped, PTL
    <3> QED BY <3>1 DEF Streams
  <2>4. WireKinds # <<>>
    BY <1>2, <2>3, SequenceProperties, Typed
  <2>5. /\ Head(WireKinds) = wire[1].kind /\ Tail(WireKinds) \in Seq(Kind)
        /\ Len(Tail(WireKinds)) = Len(wire')
        /\ \A i \in 1..Len(wire') : Tail(WireKinds)[i] = WireKinds[i + 1]
    BY <1>2, <2>3, <2>4, TailProperties
  <2>6. \A i \in 1..Len(wire') : WireKinds'[i] = Tail(WireKinds)[i]
    <3>1. \A i \in 1..Len(wire') : i + 1 \in 1..Len(wire)
      BY <1>2, Typed
    <3> QED BY <1>2, <2>3, <2>5, <3>1
  <2>7. WireKinds' = Tail(WireKinds)
    BY <2>3, <2>5, <2>6, SeqEqual
  <2> QED BY <2>2, <2>3, <2>4, <2>5, <2>7, HeadMoves DEF Stream
<1> QED BY <1>1, <1>3, <1>4 DEF Answers, stdinVars, cliVars

LEMMA AnswersStep == TypeOK /\ Life /\ Answers /\ [Next]_vars => Answers'
<1> SUFFICES ASSUME TypeOK, Life, Answers, [Next]_vars PROVE Answers'
  OBVIOUS
<1>1. ASSUME UNCHANGED <<wire, pushed, served>>, gen' # "left" => gen # "left",
             child' # "dead" => child # "dead",
             child' = "finished" => served = Len(inbox) /\ pipe = <<>> /\ writer = "closed"
                                    /\ UNCHANGED <<inbox, pipe, writer>>
      PROVE  Answers'
  BY <1>1 DEF Answers, Stream, WireKinds
<1>2. child = "finished" => served = Len(inbox) /\ pipe = <<>> /\ writer = "closed" /\ writing = <<>>
  BY DEF Answers, Life, Closing
<1>3. CASE Handle
  <2>1. CASE Spawns
    <3>1. child = "none" /\ child' = "running"
      BY <2>1 DEF Spawns, Life, Begun
    <3> QED BY <1>1, <2>1, <3>1 DEF Spawns, cliVars, stdoutVars, queueVars, readerVars
  <2>3. CASE SpawnFails \/ Send \/ SignalFires
    BY <1>1, <1>2, <2>3 DEF SpawnFails, Send, SignalFires, stdinVars, cliVars, procVars,
                            stdoutVars, queueVars, readerVars
  <2>2. CASE EndInput \/ Abort
    BY <1>1, <1>2, <2>2 DEF EndInput, Abort, ForceCloseStdin, cliVars, procVars, stdoutVars, queueVars,
                            readerVars
  <2> QED BY <1>3, <2>1, <2>2, <2>3 DEF Handle
<1>4. CASE Stdin
  BY <1>1, <1>2, <1>4 DEF Stdin, WriteLands, WriteFails, WriterCloses, cliVars, procVars, stdoutVars,
                          queueVars, readerVars
<1>5. CASE CliReads \/ HelperStarts \/ HelperExits
  BY <1>1, <1>2, <1>5 DEF CliReads, HelperStarts, HelperExits, stdinVars, cliVars, procVars, stdoutVars,
                          queueVars, readerVars
<1>6. CASE Consumer
  BY <1>1, <1>2, <1>6 DEF Consumer, ConsumerTakes, Takes, ConsumerLeaves, stdinVars, cliVars, procVars,
                          stdoutVars, queueVars
<1>7. CASE StdoutEnds \/ StderrEnds \/ DoneProceeds \/ DoneResolves
  BY <1>1, <1>2, <1>7 DEF StdoutEnds, StderrEnds, DoneProceeds, DoneResolves, ForceCloseStdin, stdinVars,
                          cliVars, procVars, stdoutVars, queueVars, readerVars
<1>8. CASE UNCHANGED vars
  BY <1>1, <1>2, <1>8 DEF vars, stdinVars, cliVars, procVars, stdoutVars, queueVars, readerVars
<1> QED BY <1>3, <1>4, <1>5, <1>6, <1>7, <1>8, SpeaksAnswers, ExitsAnswers, PumpAnswers
        DEF Next, Cli, Tasks

-----------------------------------------------------------------------------
(* The invariant *)

LEMMA InitInd == Init => ClaudeInd
<1> SUFFICES ASSUME Init PROVE ClaudeInd
  OBVIOUS
<1>1. TypeOK
  BY InitTyped
<1>2. Begun /\ Watched /\ Closing /\ Ending
  BY DEF Init, Begun, Watched, Closing, Ending
<1>3. InOrder
  <2>1. inbox \o pipe \o writing = <<>> /\ Len(inbox \o pipe \o writing) = 0 /\ Sends = {}
    BY DEF Init, Sends
  <2> QED BY <2>1 DEF InOrder
<1>4. Answers
  <2>1. Stream = <<>>
    BY DEF Init, Stream, WireKinds
  <2>2. Results(Stream) = {}
    BY <2>1 DEF Results
  <2> QED BY <2>2, FS_EmptySet DEF Init, Answers
<1>5. YieldedInOrder
  <2>1. SubSeq(pushed, 1, taken) = <<>>
    BY SubSeqEmpty DEF Init
  <2> QED BY <2>1, TwinnedEmpty DEF Init, YieldedInOrder
<1> QED BY <1>1, <1>2, <1>3, <1>4, <1>5 DEF ClaudeInd

LEMMA StepInd == ClaudeInd /\ [Next]_vars => ClaudeInd'
BY StepTyped, InOrderStep, LifeStep, AnswersStep, YieldedStep DEF ClaudeInd, Life

LEMMA IndHolds == Spec => []ClaudeInd
BY InitInd, StepInd, PTL DEF Spec

\* Every accepted message was read when the CLI came to the end of its input, and
\* no two of them are the same.
LEMMA AcceptedCounted ==
    ASSUME TypeOK, InOrder, pipe = <<>>
    PROVE  Cardinality({s \in Sends : sends[s].outcome = "accepted"}) = Len(inbox)
<1> DEFINE A == {s \in Sends : sends[s].outcome = "accepted"}
           f == [i \in 1..Len(inbox) |-> inbox[i]]
<1>1. /\ inbox \in Seq(Sends) /\ Len(inbox) \in Nat /\ inbox \o pipe = inbox
      /\ DOMAIN inbox = 1..Len(inbox) /\ \A i \in 1..Len(inbox) : inbox[i] \in Sends
  BY Typed, ConcatEmptySeq, SequenceProperties
<1>2. A = ToSet(inbox)
  <2>1. ToSet(inbox) \subseteq Sends
    BY <1>1 DEF ToSet
  <2> QED BY <1>1, <2>1 DEF InOrder
<1>3. \A i, j \in 1..Len(inbox) : i < j => inbox[i] < inbox[j]
  <2>1. /\ \A i, j \in 1..Len(Given) : i < j => Given[i] < Given[j]
        /\ \A i \in 1..Len(inbox) : Given[i] = inbox[i]
        /\ Len(Given) = Len(inbox) + Len(writing) /\ Len(writing) \in Nat
    BY <1>1, InOrderParts, GivenTyped, Typed DEF Increasing
  <2>2. 1..Len(inbox) \subseteq 1..Len(Given)
    BY <1>1, <2>1
  <2> QED BY <2>1, <2>2
<1>4. \A i, j \in 1..Len(inbox) : inbox[i] = inbox[j] => i = j
  <2>1. \A i \in 1..Len(inbox) : inbox[i] \in Nat
    BY <1>1 DEF Sends
  <2> QED BY <1>3, <2>1
<1>5. f \in Bijection(1..Len(inbox), A)
  <2>1. f \in [1..Len(inbox) -> A] /\ \A a \in A : \E i \in 1..Len(inbox) : f[i] = a
    BY <1>1, <1>2 DEF ToSet
  <2>2. \A i, j \in 1..Len(inbox) : f[i] = f[j] => i = j
    BY <1>4
  <2> HIDE DEF A, f
  <2> QED BY <2>1, <2>2 DEF Bijection, Injection, Surjection, IsInjective
<1>6. IsFiniteSet(1..Len(inbox)) /\ Cardinality(1..Len(inbox)) = Len(inbox)
  BY <1>1, FS_Interval
<1>7. ExistsBijection(1..Len(inbox), A)
  BY <1>5 DEF ExistsBijection
<1> HIDE DEF A
<1>8. Cardinality(A) = Len(inbox)
  BY <1>6, <1>7, FS_Bijection
<1> QED BY <1>8 DEF A

\* Messages are read in the order of their send(), `done` leaves nothing behind,
\* every result has its turn-end in the consumer's order, and every accepted
\* message its result when the CLI came to the end of its input: for every number
\* of sends, of lines, and every room in the pipe.
THEOREM SessionInvariant == Spec => []SessionInv
<1>1. ClaudeInd => SessionInv
  <2> SUFFICES ASSUME ClaudeInd PROVE SessionInv
    OBVIOUS
  <2>1. Cleaned
    BY DEF ClaudeInd, Ending, Cleaned, Gone
  <2>2. AcceptedAreAnswered
    <3> SUFFICES ASSUME child = "finished", stdoutPump = "ended", gen # "left"
                 PROVE  Cardinality({i \in DOMAIN pushed : pushed[i] = "result"}) =
                            Cardinality({s \in Sends : sends[s].outcome = "accepted"})
      BY DEF AcceptedAreAnswered
    <3>1. wire = <<>> /\ pipe = <<>> /\ served = Len(inbox) /\ Cardinality(Results(Stream)) = served
      BY DEF ClaudeInd, Ending, Answers
    <3>2. WireKinds = <<>>
      BY <3>1 DEF WireKinds
    <3>3. Stream = pushed
      BY <3>2, Typed, ConcatEmptySeq DEF Stream, ClaudeInd
    <3> QED BY <3>1, <3>3, AcceptedCounted DEF ClaudeInd, Results
  <2> QED BY <2>1, <2>2 DEF ClaudeInd, SessionInv, EventsDelivered
<1> QED BY <1>1, IndHolds, PTL

-----------------------------------------------------------------------------
(* The contract *)

AbstractPhase == IF aborted THEN "aborted" ELSE IF stdinClosed THEN "ended" ELSE "open"
Outcomes == [s \in Sends |-> sends[s].outcome]

LEMMA InitRefines == Init => Contract!Init
<1> SUFFICES ASSUME Init PROVE Contract!Init
  OBVIOUS
<1>1. Outcomes = <<>>
  BY DEF Init, Outcomes, Sends
<1> QED BY <1>1, TwinnedEmpty DEF Init, Contract!Init, Outcomes

\* The promises of send(), as a sequence.
OutcomesTyped ==
    /\ Outcomes \in Seq(Outcome) /\ Len(Outcomes) = Len(sends)
    /\ \A s \in 1..Len(sends) : Outcomes[s] = sends[s].outcome

LEMMA Images == TypeOK => OutcomesTyped
<1> SUFFICES ASSUME TypeOK PROVE OutcomesTyped
  OBVIOUS
<1>1. /\ Outcomes = [i \in 1..Len(sends) |-> Outcomes[i]]
      /\ \A s \in 1..Len(sends) : Outcomes[s] = sends[s].outcome
  BY DEF Outcomes, Sends
<1>2. \A s \in 1..Len(sends) : Outcomes[s] \in Outcome
  BY <1>1, Typed DEF SendRecord, Sends
<1>3. Outcomes \in Seq(Outcome) /\ Len(Outcomes) = Len(sends)
  BY <1>1, <1>2, Typed, FunctionIsSequence
<1> QED BY <1>1, <1>3 DEF OutcomesTyped

LEMMA SendRefines ==
    ASSUME TypeOK, TypeOK', Send
    PROVE  \E o \in CASE AbstractPhase = "aborted" -> {"aborted"}
                      [] AbstractPhase = "ended"   -> {"inputClosed"}
                      [] OTHER                     -> {"pending", "accepted", "undelivered"} :
              Outcomes' = Append(Outcomes, o)
<1> DEFINE r == [outcome |-> Refusal, ended |-> inputEnded]
<1>1. Refusal \in CASE AbstractPhase = "aborted" -> {"aborted"}
                    [] AbstractPhase = "ended"   -> {"inputClosed"}
                    [] OTHER                     -> {"pending", "accepted", "undelivered"}
  BY DEF Refusal, AbstractPhase
<1>2. r \in SendRecord /\ r.outcome = Refusal /\ Refusal \in Outcome
  BY DEF Refusal, SendRecord, Outcome, TypeOK
<1>3. /\ Len(sends') = Len(sends) + 1 /\ sends'[Len(sends) + 1] = r
      /\ \A s \in 1..Len(sends) : sends'[s] = sends[s]
  BY <1>2, Typed, AppendProperties DEF Send
<1>4. OutcomesTyped /\ OutcomesTyped'
  BY Images, PTL
<1>5. Outcomes' = Append(Outcomes, Refusal)
  <2> HIDE DEF r
  <2>1. /\ Append(Outcomes, Refusal) \in Seq(Outcome) /\ Len(Append(Outcomes, Refusal)) = Len(sends) + 1
        /\ Append(Outcomes, Refusal)[Len(sends) + 1] = Refusal
        /\ \A s \in 1..Len(sends) : Append(Outcomes, Refusal)[s] = sends[s].outcome
    BY <1>2, <1>4, AppendProperties DEF OutcomesTyped
  <2>2. /\ Outcomes' \in Seq(Outcome) /\ Len(Outcomes') = Len(sends')
        /\ \A s \in 1..Len(sends') : Outcomes'[s] = sends'[s].outcome
    BY <1>4 DEF OutcomesTyped
  <2>3. \A s \in 1..Len(sends') : s \in 1..Len(sends) \/ s = Len(sends) + 1
    <3>1. Len(sends) \in Nat
      BY Typed
    <3> QED BY <1>3, <3>1
  <2>4. \A s \in 1..Len(sends') : Outcomes'[s] = Append(Outcomes, Refusal)[s]
    BY <1>2, <1>3, <2>1, <2>2, <2>3
  <2> QED BY <1>3, <2>1, <2>2, <2>4, SeqEqual
<1> QED BY <1>1, <1>5

LEMMA SettleRefines ==
    ASSUME TypeOK, InOrder, WriteLands \/ WriteFails
    PROVE  /\ DOMAIN Outcomes' = DOMAIN Outcomes
           /\ \A s \in DOMAIN Outcomes :
                 \/ Outcomes'[s] = Outcomes[s]
                 \/ Outcomes[s] = "pending" /\ Outcomes'[s] \in {"accepted", "undelivered"}
<1>1. \E S : \E o \in {"accepted", "undelivered"} :
         sends' = Settled(S, o) /\ S \subseteq ToSet(writing)
  <2>1. CASE WriteLands
    <3>1. {Head(writing)} \subseteq ToSet(writing)
      BY <2>1, Typed, SetOfTail DEF WriteLands
    <3> QED BY <2>1, <3>1 DEF WriteLands
  <2>2. CASE WriteFails
    <3>1. Writing \subseteq ToSet(writing)
      BY Typed, SequenceProperties DEF Writing, ToSet
    <3> QED BY <2>2, <3>1 DEF WriteFails
  <2> QED BY <2>1, <2>2
<1>2. PICK S : \E o \in {"accepted", "undelivered"} :
         sends' = Settled(S, o) /\ S \subseteq ToSet(writing)
  BY <1>1
<1>3. PICK o \in {"accepted", "undelivered"} : sends' = Settled(S, o) /\ S \subseteq ToSet(writing)
  BY <1>2
<1>4. /\ Sends' = Sends
      /\ \A s \in Sends : sends'[s].outcome = IF s \in S THEN o ELSE sends[s].outcome
  BY <1>3, SettledSends
<1>5. \A s \in Sends : s \in S => sends[s].outcome = "pending"
  BY <1>3, InOrderParts DEF Accounted
<1> QED BY <1>4, <1>5 DEF Outcomes

LEMMA PumpRefines ==
    ASSUME TypeOK, StdoutPump
    PROVE  \/ Twinned(pushed)' = Twinned(pushed)
           \/ /\ ~queueClosed
              /\ \/ \E e \in {"init", "text"} : Twinned(pushed)' = Append(Twinned(pushed), e)
                 \/ Twinned(pushed)' = Twinned(pushed) \o <<"result", "turn-end">>
<1>1. CASE pushed' = pushed
  BY <1>1
<1>2. CASE pushed' # pushed
  <2>1. PICK e \in Native : pushed' = Append(pushed, e)
    BY <1>2, Pumped
  <2>2. ~queueClosed
    BY <1>2, Pumped
  <2>3. Twinned(pushed') = Twinned(pushed) \o Twin(e)
    BY <2>1, Typed, TwinnedAppend
  <2>4. CASE e = "result"
    BY <2>2, <2>3, <2>4 DEF Twin
  <2>5. CASE e # "result"
    <3>1. e \in {"init", "text"} /\ e \in Yielded
      BY <2>5 DEF Native, Yielded
    <3>2. Twinned(pushed) \in Seq(Yielded)
      BY Typed, TwinnedTyped
    <3>3. Twinned(pushed') = Append(Twinned(pushed), e)
      BY <2>3, <2>5, <3>1, <3>2, AppendIsConcat DEF Twin
    <3> QED BY <2>2, <3>1, <3>3
  <2> QED BY <2>4, <2>5
<1> QED BY <1>1, <1>2

LEMMA StepRefines ==
    ClaudeInd /\ ClaudeInd' /\ [Next]_vars => [Contract!Next]_Contract!contractVars
<1> SUFFICES ASSUME ClaudeInd, ClaudeInd', [Next]_vars
             PROVE  [Contract!Next]_Contract!contractVars
  OBVIOUS
<1> USE DEF Contract!Next, Contract!contractVars
<1>0. TypeOK /\ TypeOK' /\ InOrder /\ Life
  BY DEF ClaudeInd, Life
<1>1. CASE Send
  <2>1. UNCHANGED <<aborted, stdinClosed, pushed, queueClosed, done>>
    BY <1>1 DEF Send, flagVars, queueVars
  <2>2. Contract!Send
    BY <1>0, <1>1, <2>1, SendRefines DEF Contract!Send, AbstractPhase, Outcomes
  <2> QED BY <2>2
<1>2. CASE WriteLands \/ WriteFails
  <2>1. UNCHANGED <<aborted, stdinClosed, pushed, queueClosed, done>>
    BY <1>2 DEF WriteLands, WriteFails, flagVars, queueVars
  <2>2. Contract!Settle
    BY <1>0, <1>2, <2>1, SettleRefines DEF Contract!Settle, Outcomes
  <2> QED BY <2>2
<1>3. CASE Spawns \/ EndInput \/ Abort \/ SignalFires \/ (DoneProceeds /\ done' # "resolved")
  <2>1. UNCHANGED <<sends, pushed, queueClosed>> /\ (done = "resolved") = (done' = "resolved")
    <3>1. CASE Spawns \/ EndInput \/ Abort \/ SignalFires
      BY <3>1 DEF Spawns, EndInput, Abort, SignalFires, stdinVars, queueVars
    <3>2. CASE DoneProceeds /\ done' # "resolved"
      BY <3>2 DEF DoneProceeds, queueVars
    <3> QED BY <1>3, <3>1, <3>2
  <2>2. (aborted => aborted') /\ (stdinClosed => stdinClosed')
    <3>1. CASE Spawns
      BY <1>0, <3>1 DEF Spawns, Life, Begun
    <3>2. CASE EndInput \/ Abort \/ SignalFires \/ DoneProceeds
      BY <3>2 DEF EndInput, Abort, SignalFires, DoneProceeds, ForceCloseStdin
    <3> QED BY <1>3, <3>1, <3>2
  <2>3. \/ UNCHANGED <<aborted, stdinClosed>>
        \/ ~aborted /\ aborted'
        \/ aborted /\ aborted'
        \/ ~aborted /\ ~aborted' /\ ~stdinClosed /\ stdinClosed'
    <3>1. {aborted, aborted', stdinClosed, stdinClosed'} \subseteq BOOLEAN
      BY <1>0 DEF TypeOK
    <3> QED BY <2>2, <3>1
  <2>4. CASE ~aborted /\ aborted'
    <3>1. Contract!Abort
      BY <2>1, <2>4 DEF Contract!Abort, Sends
    <3> QED BY <3>1
  <2>5. CASE ~aborted /\ ~aborted' /\ ~stdinClosed /\ stdinClosed'
    <3>1. Contract!EndInput
      BY <2>1, <2>5 DEF Contract!EndInput, Sends
    <3> QED BY <3>1
  <2>6. CASE UNCHANGED <<aborted, stdinClosed>> \/ (aborted /\ aborted')
    BY <2>1, <2>6 DEF Sends
  <2> QED BY <2>3, <2>4, <2>5, <2>6
<1>4. CASE StdoutPump
  <2>1. UNCHANGED <<aborted, stdinClosed, sends, queueClosed, done>>
    BY <1>0, <1>4, Pumped DEF StdoutPump, flagVars, stdinVars
  <2>2. CASE Twinned(pushed)' = Twinned(pushed)
    BY <2>1, <2>2 DEF Sends
  <2>3. CASE Twinned(pushed)' # Twinned(pushed)
    <3>1. Contract!Publish
      BY <1>0, <1>4, <2>1, <2>3, PumpRefines DEF Contract!Publish, Sends
    <3> QED BY <3>1
  <2> QED BY <2>2, <2>3
<1>5. CASE StdoutEnds \/ ConsumerLeaves
  <2>1. UNCHANGED <<aborted, stdinClosed, sends, pushed, done>> /\ queueClosed' = TRUE
    BY <1>5 DEF StdoutEnds, ConsumerLeaves, flagVars, stdinVars
  <2>2. queueClosed \in BOOLEAN
    BY <1>0 DEF TypeOK
  <2>3. CASE queueClosed
    BY <2>1, <2>2, <2>3 DEF Sends
  <2>4. CASE ~queueClosed
    <3>1. Contract!Complete
      BY <2>1, <2>4 DEF Contract!Complete, Sends
    <3> QED BY <3>1
  <2> QED BY <2>3, <2>4
<1>6. CASE DoneResolves
  <2>1. /\ UNCHANGED <<aborted, stdinClosed, sends, pushed, queueClosed>>
        /\ done = "reaping" /\ done' = "resolved"
    BY <1>6 DEF DoneResolves, flagVars, stdinVars, queueVars
  <2>2. queueClosed
    BY <1>0, <2>1 DEF Life, Ending
  <2>3. Contract!Resolve
    BY <2>1, <2>2 DEF Contract!Resolve, Sends
  <2> QED BY <2>3
<1>7. CASE UNCHANGED vars \/ SpawnFails \/ WriterCloses \/ Cli \/ ConsumerTakes \/ StderrEnds
  <2>1. UNCHANGED <<aborted, stdinClosed, sends, pushed, queueClosed, done>>
    BY <1>7 DEF vars, SpawnFails, WriterCloses, Cli, CliReads, CliSpeaks, HelperStarts, HelperExits,
                CliExits, ConsumerTakes, StderrEnds, flagVars, stdinVars, queueVars
  <2> QED BY <2>1 DEF Sends
<1>8. DoneProceeds => done' # "resolved"
  BY DEF DoneProceeds, Finally
<1> QED BY <1>1, <1>2, <1>3, <1>4, <1>5, <1>6, <1>7, <1>8 DEF Next, Handle, Consumer, Stdin, Tasks

\* A Claude session is a RuntimeSession: its sends, events, endInput(), abort() and
\* `done` behave as runtime/session-types.ts promises of every adapter, with the
\* turn-end the adapter adds behind each result, and although `done`, too, closes stdin.
THEOREM SessionKeepsContract == Spec => ImplementsContract
BY InitRefines, StepRefines, IndHolds, PTL DEF Spec, ImplementsContract, Contract!Spec

=============================================================================
