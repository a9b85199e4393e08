----------------------------- MODULE RunStream -----------------------------
(***************************************************************************)
(* What one attempt of a one-shot run reads (claude, cursor, codex,        *)
(* opencode/process.ts): the child writes lines of JSON into a pipe, the   *)
(* reader takes chunks of any size, puts lines together, hands each event  *)
(* to the caller's callbacks, folds it into the state of the run, and at   *)
(* the end makes the output from that state.                               *)
(*                                                                         *)
(* A line is known by its number and its kind; its two halves and the      *)
(* newline behind it are the symbols of the pipe, so that a chunk ends     *)
(* anywhere.  A text, an error or a tool is known by its line.  What an    *)
(* abort, a timer or the exit code make of the attempt is in module        *)
(* Invocation, which takes a whole reading for one step.                   *)
(***************************************************************************)
EXTENDS Naturals, Sequences, FiniteSets, SequencesExt

CONSTANTS Cli,    \* the CLIs of the instance
          Length,     \* bound: lines a child writes
          Capacity,   \* symbols the pipe holds
          Nulls,      \* OpenCode may print a line `null`
          Throwing    \* the callbacks that may throw, one of them and once

Callback == {"onEvent", "onInit", "onToolUseObserved", "onOutput"}

ASSUME RunStreamAssumption ==
    /\ Cli \subseteq {"claude", "cursor", "codex", "opencode"}
    /\ Length \in Nat \ {0}
    /\ Capacity \in Nat /\ Capacity >= 3
    /\ Nulls \in BOOLEAN
    /\ Throwing \subseteq Callback

VARIABLES cli,
          script,   \* history: the kinds of the lines written
          bare,     \* the last of them has no newline
          process,    \* "running", "ok", "failed"
          signalled,   \* the child was sent SIGTERM
          pipe, buffer,
          lines,    \* complete lines to be handled
          taken,    \* how many were taken
          reader,   \* "reading", "asking", "showing", "ended", "stopped"
          asking,   \* the tools of the event in hand to be asked for
          state,    \* what the events were folded into
          inits,    \* history: the calls of onInit()
          asked,    \* history: the calls of onToolUseObserved()
          aborts,   \* history: the tools it aborted
          threw,    \* history: the callback that threw
          extracted   \* what the attempt makes of its events

processVars == <<script, bare, process>>
pipeVars  == <<pipe, buffer>>
toolVars  == <<asked, aborts>>
streamVars == <<cli, processVars, signalled, pipeVars, lines, taken, reader, asking, state, inits,
          toolVars, threw, extracted>>

-----------------------------------------------------------------------------
(* Lines *)

\* Codex tells of a failed turn, or of an error of its own; the text of either
\* may say that the request was invalid.
Failure == {"failed", "rejected"}
Fault   == {"error", "invalid"}
Invalid == {"rejected", "invalid"}

ClaudeLine   == {"init", "hook", "text", "tool", "tools", "good", "bad"}
CursorLine   == {"init", "text", "tool", "good", "bad"}
CodexLine    == {"init", "text", "tool", "again", "turn"} \cup Failure \cup Fault
OpenCodeLine == {"step", "text", "tool", "again", "pending", "error"}
                  \cup (IF Nulls THEN {"null"} ELSE {})

\* "junk" is no JSON; "hook" is any system event but the first; "tools" are two
\* blocks in one event; "again" repeats the tool of an earlier line; "pending"
\* is a tool's line ahead of its end, of which nobody is asked.
Line == CASE cli = "claude"   -> ClaudeLine
          [] cli = "cursor"   -> CursorLine
          [] cli = "codex"    -> CodexLine
          [] cli = "opencode" -> OpenCodeLine

Newline   == <<0, 0>>
Body(i)   == <<<<i, 1>>, <<i, 2>>>>
Number(s) == Head(s)[1]

\* The number of the line in s, or 0 if it is no event.
Parsed(s) ==
    IF s # <<>> /\ s = Body(Number(s)) /\ script[Number(s)] \notin {"junk", "null"}
    THEN Number(s) ELSE 0

\* The numbers of a set in ascending order.
Rank(S, i)   == Cardinality({j \in S : j <= i})
Ascending(S) == [k \in 1..Cardinality(S) |-> CHOOSE i \in S : Rank(S, i) = k]
Latest(S)    == CHOOSE i \in S : \A j \in S : j <= i
Earliest(S)  == CHOOSE i \in S : \A j \in S : i <= j

\* The text up to the last newline, cut at each of them, and what is left over.
LineEnds(s) == {k \in DOMAIN s : s[k] = Newline}
Complete(s) == LET ends    == Ascending(LineEnds(s))
                   from(k) == IF k = 1 THEN 1 ELSE ends[k - 1] + 1
               IN  [k \in 1..Len(ends) |-> SubSeq(s, from(k), ends[k] - 1)]
LastEnd(s) == IF LineEnds(s) = {} THEN 0 ELSE Latest(LineEnds(s))
RestWithNewline(s) ==    \* slip: the newline is kept with what follows it
    SubSeq(s, IF LineEnds(s) = {} THEN 1 ELSE LastEnd(s), Len(s))
Rest(s) == SubSeq(s, LastEnd(s) + 1, Len(s))

\* The tools of line i, each by the line that named it first and its block.
Named(i) ==
    LET before == {j \in 1..(i - 1) : script[j] = "tool"}
    IN  IF script[i] = "again" /\ before # {} THEN Latest(before) ELSE i
Tools(i) ==
    CASE script[i] \in {"tool", "again"} -> <<<<Named(i), 1>>>>
      [] script[i] = "tools"             -> <<<<i, 1>>, <<i, 2>>>>
      [] OTHER                           -> <<>>

-----------------------------------------------------------------------------

None == <<0, 0>>    \* no tool

\* session: the id is known; final: the line of the last result or message;
\* error: the line whose message is reported; invalid: it cannot be retried;
\* json: the lines OpenCode keeps; seen: tools asked for; denied: the tool
\* the run was aborted for.
FreshState == [session |-> FALSE, turns |-> 0, final |-> 0, error |-> 0, invalid |-> FALSE,
          json |-> <<>>, seen |-> {}, denied |-> None]

Unjudged == [kind |-> "none"]

StreamInit ==
    /\ cli \in Cli
    /\ script = <<>>
    /\ bare = FALSE
    /\ process = "running"
    /\ signalled = FALSE
    /\ pipe = <<>>
    /\ buffer = <<>>
    /\ lines = <<>>
    /\ taken = 0
    /\ reader = "reading"
    /\ asking = <<>>
    /\ state = FreshState
    /\ inits = 0
    /\ asked = <<>>
    /\ aborts = <<>>
    /\ threw = "none"
    /\ extracted = Unjudged

-----------------------------------------------------------------------------
(* The child *)

Write(kind) ==
    /\ process = "running"
    /\ ~bare
    /\ Len(script) < Length
    /\ Len(pipe) + 3 <= Capacity
    /\ script' = Append(script, kind)
    /\ \E end \in {<<Newline>>, <<>>} :
          /\ pipe' = pipe \o Body(Len(script) + 1) \o end
          /\ bare' = (end = <<>>)
    /\ UNCHANGED <<cli, process, signalled, buffer, lines, taken, reader, asking, state, inits,
                   toolVars, threw, extracted>>

ChildExits ==
    /\ process = "running"
    /\ process' \in {"ok", "failed"}
    /\ UNCHANGED <<cli, script, bare, signalled, pipeVars, lines, taken, reader, asking, state,
                   inits, toolVars, threw, extracted>>

\* A child that is stopped may leave half a line.
Cut ==
    /\ process = "running"
    /\ signalled /\ ~bare
    /\ Len(script) < Length
    /\ Len(pipe) < Capacity
    /\ process' = "failed"
    /\ script' = Append(script, "junk")
    /\ bare' = TRUE
    /\ pipe' = Append(pipe, Head(Body(Len(script) + 1)))
    /\ UNCHANGED <<cli, signalled, buffer, lines, taken, reader, asking, state, inits, toolVars,
                   threw, extracted>>

\* The caller's signal, the timer of the attempt or a watchdog.
Stop ==
    /\ extracted = Unjudged
    /\ ~signalled
    /\ signalled' = TRUE
    /\ UNCHANGED <<cli, processVars, pipeVars, lines, taken, reader, asking, state, inits,
                   toolVars, threw, extracted>>

-----------------------------------------------------------------------------
(* The reader *)

Read(n) ==
    /\ reader = "reading"
    /\ lines = <<>>
    /\ n \in 1..Len(pipe)
    /\ LET text == buffer \o SubSeq(pipe, 1, n)
       IN  lines' = Complete(text) /\ buffer' = Rest(text)
    /\ pipe' = SubSeq(pipe, n + 1, Len(pipe))
    /\ UNCHANGED <<cli, processVars, signalled, taken, reader, asking, state, inits, toolVars,
                   threw, extracted>>

\* The pipe is at its end: a line without a newline is handled too.
Eof ==
    /\ reader = "reading"
    /\ lines = <<>> /\ pipe = <<>>
    /\ process # "running"
    /\ IF buffer # <<>>
       THEN lines' = <<buffer>> /\ buffer' = <<>> /\ UNCHANGED reader
       ELSE reader' = "ended" /\ UNCHANGED <<lines, buffer>>
    /\ UNCHANGED <<cli, processVars, signalled, pipe, taken, asking, state, inits, toolVars, threw,
                   extracted>>

-----------------------------------------------------------------------------
(* An event *)

Assistant == {"text", "tool", "tools"}

\* processStreamEvent() and extractClaudeOutput(); Cursor's handler is alike.
ClaudeFold(i, s) ==
    [s EXCEPT !.session = TRUE,
              !.turns = IF script[i] \in Assistant \ (IF cli = "cursor" THEN {"tool"} ELSE {})
                        THEN @ + 1 ELSE @,
              !.final = IF script[i] \in {"good", "bad"} THEN i ELSE @]

\* applyCodexEvent(): the last failure of a turn outlasts the errors, of which
\* the first counts; any of them may tell that the request was invalid.
ReportsLatest(i, s) == script[i] \in Failure \cup Fault    \* slip: the latest counts
Reports(i, s) == script[i] \in Failure \/ (script[i] \in Fault /\ s.error = 0)
CodexFold(i, s) ==
    [s EXCEPT !.session = @ \/ script[i] = "init",
              !.turns = IF script[i] = "turn" THEN @ + 1 ELSE @,
              !.final = IF script[i] = "text" THEN i ELSE @,
              !.error = IF Reports(i, s) THEN i ELSE @,
              !.invalid = @ \/ script[i] \in Invalid]

OpenCodeFold(i, s) ==
    [s EXCEPT !.session = TRUE, !.turns = IF script[i] = "step" THEN @ + 1 ELSE @]

Fold(i, s) ==
    CASE cli \in {"claude", "cursor"} -> ClaudeFold(i, s)
      [] cli = "codex"                -> CodexFold(i, s)
      [] cli = "opencode"             -> OpenCodeFold(i, s)

\* Claude tells every system event as an init, the others the first one.
Starts(i) ==
    CASE cli = "claude"             -> script[i] \in {"init", "hook"}
      [] cli \in {"cursor", "codex"} -> script[i] = "init" /\ inits = 0
      [] cli = "opencode"           -> inits = 0

\* The tools the callback is asked for: none behind a denial (Claude, Cursor),
\* and not one it knows (Codex, OpenCode, whose events tell one at most).
AskFor(i, s) ==
    LET known == IF cli \in {"claude", "cursor"} THEN s.denied # None
                 ELSE ToSet(Tools(i)) \subseteq s.seen
    IN  IF known THEN <<>> ELSE Tools(i)

\* The lines OpenCode keeps for its output, before anyone sees them.
Keep(i) == IF cli = "opencode" THEN [state EXCEPT !.json = Append(@, i)] ELSE state

\* A callback that throws ends the reading, but OpenCode's loop takes its event
\* for a line that is no JSON.
Thrown(c, s) ==
    /\ threw' = c
    /\ reader' = IF cli = "opencode" THEN "reading" ELSE "stopped"
    /\ state' = s
    /\ asking' = <<>>

MayThrow(c) == c \in Throwing /\ threw = "none"

Calm(i) ==
    /\ LET s == Fold(i, Keep(i)) IN
          /\ state' = s
          /\ asking' = AskFor(i, s)
    /\ reader' = IF asking' = <<>> THEN "showing" ELSE "asking"
    /\ inits' = IF Starts(i) THEN inits + 1 ELSE inits
    /\ UNCHANGED threw

Handle(i) ==
    \/ Calm(i)
    \/ MayThrow("onEvent") /\ Thrown("onEvent", Keep(i)) /\ UNCHANGED inits
    \/ /\ MayThrow("onInit") /\ Starts(i)
       /\ Thrown("onInit", IF cli = "codex" THEN Keep(i) ELSE [Keep(i) EXCEPT !.session = TRUE])
       /\ inits' = inits + 1

\* A line `null` is JSON to OpenCode, which keeps it; its handler throws on it.
Ignore(s) ==
    /\ state' = IF cli = "opencode" /\ s = Body(Number(s)) /\ script[Number(s)] = "null"
                THEN Keep(Number(s)) ELSE state
    /\ UNCHANGED <<reader, asking, inits, threw>>

Take ==
    /\ reader = "reading"
    /\ lines # <<>>
    /\ lines' = Tail(lines)
    /\ taken' = taken + 1
    /\ LET i == Parsed(Head(lines)) IN IF i # 0 THEN Handle(i) ELSE Ignore(Head(lines))
    /\ UNCHANGED <<cli, processVars, signalled, pipeVars, toolVars, extracted>>

-----------------------------------------------------------------------------
(* onToolUseObserved *)

Turn ==
    CASE cli = "claude"              -> state.turns
      [] cli = "codex"               -> state.turns + 1
      [] cli \in {"cursor", "opencode"} -> IF state.turns = 0 THEN 1 ELSE state.turns

\* What the callback's answer, or its failure, is taken for.
Decision(answer) ==
    IF answer # "throw" THEN answer
    ELSE CASE cli = "claude"                 -> "stop"
           [] cli = "cursor"                 -> "abort"
           [] cli \in {"codex", "opencode"}  -> "allow"

ReaderLeaves(decision, rest) ==    \* slip: nobody reads behind a denial
    IF decision # "allow" THEN "stopped" ELSE IF rest = <<>> THEN "showing" ELSE "asking"
ReaderAfter(decision, rest) ==
    IF decision = "stop" THEN "stopped" ELSE IF rest = <<>> THEN "showing" ELSE "asking"

Answered(tool, decision) ==
    LET s == [state EXCEPT !.seen = IF cli \in {"codex", "opencode"} THEN @ \cup {tool} ELSE @,
                           !.denied = IF decision = "abort" THEN tool ELSE @]
        rest == IF decision = "allow" THEN Tail(asking) ELSE <<>>
    IN  /\ state' = s
        /\ asking' = rest
        /\ reader' = ReaderAfter(decision, rest)

Answer(answer) ==
    /\ reader = "asking"
    /\ answer = "throw" => MayThrow("onToolUseObserved")
    /\ LET tool == Head(asking) IN
          /\ asked' = Append(asked, [tool |-> tool, turn |-> Turn])
          /\ Answered(tool, Decision(answer))
          /\ aborts' = IF answer = "abort" THEN Append(aborts, tool) ELSE aborts
    /\ signalled' = (signalled \/ Decision(answer) = "abort")
    /\ threw' = IF answer = "throw" THEN "onToolUseObserved" ELSE threw
    /\ UNCHANGED <<cli, processVars, pipeVars, lines, taken, inits, extracted>>

\* The events with a summary for onOutput(), at the default verbosity.
ClaudeShows   == ClaudeLine \ {"hook"}
CursorShows   == CursorLine \ {"tool"}
CodexShows    == CodexLine
OpenCodeShows == OpenCodeLine \ {"null"}

Summary ==
    script[taken] \in CASE cli = "claude"   -> ClaudeShows
                        [] cli = "cursor"   -> CursorShows
                        [] cli = "codex"    -> CodexShows
                        [] cli = "opencode" -> OpenCodeShows

Show ==
    /\ reader = "showing"
    /\ \/ reader' = "reading" /\ UNCHANGED <<asking, state, threw>>
       \/ MayThrow("onOutput") /\ Summary /\ Thrown("onOutput", state)
    /\ UNCHANGED <<cli, processVars, signalled, pipeVars, lines, taken, inits, toolVars, extracted>>

-----------------------------------------------------------------------------
(* The output *)

Output(text, isError, turns) ==
    [kind |-> "output", text |-> text, is_error |-> isError, invalid |-> state.invalid,
     turns |-> turns]

Denial == [kind |-> "denied", tool |-> state.denied, turns |-> state.turns,
           session |-> state.session]

Nothing == [kind |-> "nothing"]    \* the attempt throws: there is no result
Broken  == [kind |-> "broken"]     \* the attempt throws: a line `null`

\* extractClaudeOutput() and extractCursorOutput(): the turns are those the
\* result line counts, not those of the run's state.
ClaudeOutput ==
    IF state.final = 0 THEN Nothing
    ELSE Output(<<state.final>>, script[state.final] = "bad", state.final)

\* extractCodexOutput()
CodexOutput ==
    CASE state.error # 0                      -> Output(<<state.error>>, TRUE, state.turns)
      [] state.error = 0 /\ state.final # 0   -> Output(<<state.final>>, FALSE, state.turns)
      [] OTHER                                -> Output(<<>>, FALSE, state.turns)

\* extractOpenCodeOutput()
OpenCodeOutput ==
    LET of(kind) == {k \in DOMAIN state.json : script[state.json[k]] = kind}
        texts    == [k \in 1..Cardinality(of("text")) |-> state.json[Ascending(of("text"))[k]]]
        isError  == of("error") # {}
    IN  CASE state.json = <<>>                       -> Nothing
          [] state.json # <<>> /\ of("null") # {}    -> Broken
          [] OTHER -> Output(IF isError THEN <<state.json[Latest(of("error"))]>> ELSE texts,
                             isError, Cardinality(of("step")))

Conclude ==
    /\ reader \in {"ended", "stopped"}
    /\ process # "running"
    /\ extracted = Unjudged
    /\ extracted' = IF state.denied # None THEN Denial
                  ELSE CASE cli \in {"claude", "cursor"} -> ClaudeOutput
                         [] cli = "codex"                -> CodexOutput
                         [] cli = "opencode"             -> OpenCodeOutput
    /\ UNCHANGED <<cli, processVars, signalled, pipeVars, lines, taken, reader, asking, state,
                   inits, toolVars, threw>>

-----------------------------------------------------------------------------

Reads == (\E n \in 1..Capacity : Read(n)) \/ Eof \/ Take \/ Show
Asks  == \E answer \in {"allow", "abort", "throw"} : Answer(answer)
Outside == (\E kind \in Line \cup {"junk"} : Write(kind)) \/ ChildExits \/ Cut

StreamNext == Reads \/ Asks \/ Conclude \/ Outside \/ Stop

StreamSpec == StreamInit /\ [][StreamNext]_streamVars

\* The loop runs and callbacks return.  The child need not write or end, and
\* nobody need stop it.
StreamFairness == WF_streamVars(Reads) /\ WF_streamVars(Asks) /\ WF_streamVars(Conclude)

FairStreamSpec == StreamSpec /\ StreamFairness

-----------------------------------------------------------------------------
(* Properties *)

Tool  == (1..Length) \X (1..2)
State == [session : BOOLEAN, turns : Nat, final : Nat, error : Nat, invalid : BOOLEAN,
          json : Seq(1..Length), seen : SUBSET Tool, denied : Tool \cup {None}]
Glyph == (0..Length) \X (0..2)    \* the symbols of the pipe

StreamTypeOK ==
    /\ cli \in Cli
    /\ script \in Seq(Line \cup {"junk"}) /\ Len(script) <= Length
    /\ {bare, signalled} \subseteq BOOLEAN
    /\ process \in {"running", "ok", "failed"}
    /\ {pipe, buffer} \subseteq Seq(Glyph) /\ Len(pipe) <= Capacity
    /\ lines \in Seq(Seq(Glyph))
    /\ taken \in 0..Len(script) /\ inits \in 0..taken
    /\ reader \in {"reading", "asking", "showing", "ended", "stopped"}
    /\ {asking, aborts} \subseteq Seq(Tool)
    /\ asked \in Seq([tool : Tool, turn : 0..(Length + 1)])
    /\ state \in State /\ {state.final, state.error, state.turns} \subseteq 0..taken
    /\ threw \in Throwing \cup {"none"}
    /\ extracted.kind \in {"none", "output", "denied", "nothing", "broken"}

\* Nothing is lost or doubled between pipe, buffer and lines: the lines at hand
\* are those behind the lines that were taken, buffer and pipe hold the text
\* behind these, and the last line alone may lack its newline, or be cut.
AtHand == taken + Len(lines)
Left   == buffer \o pipe
Symbol(i, b) == IF b = 3 THEN Newline ELSE Body(i)[b]
Conserved ==
    /\ AtHand <= Len(script)
    /\ \A k \in DOMAIN lines :
          \/ lines[k] = Body(taken + k)
          \/ lines[k] = <<Symbol(taken + k, 1)>> /\ script[taken + k] = "junk"
    /\ \A i \in 1..(Len(script) - AtHand), b \in 1..3 :
          3 * (i - 1) + b \in DOMAIN Left => Left[3 * (i - 1) + b] = Symbol(AtHand + i, b)
    /\ \/ Len(Left) = 3 * (Len(script) - AtHand) /\ (bare => Left = <<>>)
       \/ bare /\ Len(Left) + 1 = 3 * (Len(script) - AtHand)
       \/ /\ bare /\ Len(Left) + 2 = 3 * (Len(script) - AtHand)
          /\ script[Len(script)] = "junk"

\* The type invariant, the text in order whatever the chunks (claude/process.ts:
\* 582-607 and its copies), and a callback asked only while the reader waits.
StreamInv ==
    /\ StreamTypeOK
    /\ Conserved
    /\ (reader = "asking") = (asking # <<>>)
    /\ \A k \in DOMAIN lines : LineEnds(lines[k]) = {}
    /\ LineEnds(buffer) = {}

Of(kinds) == {i \in DOMAIN script : script[i] \in kinds}

\* The output says what the lines say by their kinds alone, in whatever chunks
\* they came, with the last one cut or not, and lines that are no JSON left out:
\* the last result of Claude and Cursor with its turns; the last failed turn of
\* Codex, else its first error, else its last message, and as invalid if any of
\* its failures or errors says so; the last error of OpenCode, else its texts,
\* also if a callback threw (claude/stream.ts:354-475,
\* codex/run-state.ts:104-161, cursor/process.ts:396-479,
\* opencode/events.ts:194-255).
Says(text, isError, turns) ==
    /\ extracted.kind = "output"
    /\ extracted.text = text
    /\ extracted.is_error = isError
    /\ extracted.turns = turns
    /\ extracted.invalid = (Of(Invalid) # {})

CodexSays ==
    CASE Of(Failure) # {}                          -> <<Latest(Of(Failure))>>
      [] Of(Failure) = {} /\ Of(Fault) # {}        -> <<Earliest(Of(Fault))>>
      [] OTHER -> IF Of({"text"}) = {} THEN <<>> ELSE <<Latest(Of({"text"}))>>
OpenCodeSays ==
    IF Of({"error"}) # {} THEN <<Latest(Of({"error"}))>> ELSE Ascending(Of({"text"}))

OutputFaithful ==
    extracted.kind \in {"output", "nothing"} /\ (threw = "none" \/ cli = "opencode") =>
        /\ cli \in {"claude", "cursor"} =>
              LET last == Latest(Of({"good", "bad"}))
              IN  IF Of({"good", "bad"}) = {} THEN extracted = Nothing
                  ELSE Says(<<last>>, script[last] = "bad", last)
        /\ cli = "codex" =>
              Says(CodexSays, Of(Failure \cup Fault) # {}, Cardinality(Of({"turn"})))
        /\ cli = "opencode" =>
              IF Of(Line) = {} THEN extracted = Nothing
              ELSE Says(OpenCodeSays, Of({"error"}) # {}, Cardinality(Of({"step"})))

\* The callback is asked for each tool once and in turn, and for all of them
\* when nothing was aborted or thrown; an attempt it aborted ends as a denial
\* of a tool it aborted, and no other does, unless Cursor's callback threw
\* (FR-L16; codex/process.ts:338-386, opencode 394-440).
ToolsObserved ==
    /\ \A j, k \in DOMAIN asked : j < k =>
          asked[j].tool # asked[k].tool /\ asked[j].turn <= asked[k].turn
    /\ \A k \in DOMAIN asked : asked[k].turn >= 1
    /\ cli \in {"claude", "cursor"} => Len(aborts) <= 1
    /\ extracted # Unjudged /\ threw = "none" /\ aborts = <<>> =>
          {asked[k].tool : k \in DOMAIN asked} = UNION {ToSet(Tools(i)) : i \in DOMAIN script}
    /\ extracted # Unjudged =>
          /\ aborts # <<>> => extracted.kind = "denied" /\ extracted.tool \in ToSet(aborts)
          /\ extracted.kind = "denied" =>
                aborts # <<>> \/ (cli = "cursor" /\ threw = "onToolUseObserved")

\* An attempt reports what its lines say and asks for what they tell (the two
\* properties above).
RunFaithful == OutputFaithful /\ ToolsObserved

\* The attempt is judged when its child has ended, and until a callback throws
\* the child is not left waiting for room in the pipe.
Full == Len(pipe) + 3 > Capacity
KeepsReading ==
    /\ process # "running" ~> extracted # Unjudged
    /\ Full ~> (~Full \/ (threw # "none" /\ cli # "opencode"))

-----------------------------------------------------------------------------
(* What the documents say and the code does not do *)

\* onCallbackError() "fires when one of those callbacks throws so the streaming
\* loop stays alive" (runtime/adapter-types.ts:246-248).
LoopStaysAlive == reader # "stopped"

\* "A throw from onToolUseObserved no longer auto-aborts the run ... The decision
\* now defaults to "allow"" (runtime/adapter-types.ts:253-257).
ThrowAllows == extracted.kind = "denied" => aborts # <<>>

\* onInit() "fires once at session start" (runtime/capability-types.ts:110).
InitOnce == inits <= 1

\* "Ignore non-JSON lines in stdout" (opencode/process.ts:613): a line that is no
\* event does not make the attempt fail.
LinesAreIgnored == extracted.kind # "broken"

=============================================================================
