-------------------------- MODULE InvocationProofs --------------------------
(***************************************************************************)
(* One-shot runs, from the outside and from within.  Module Invocation:    *)
(* InvocationInv, and with it the truth of an output, the choice of what   *)
(* is retried, the removal of the files and the reach of an abort, for any *)
(* number of attempts of any of the CLIs.  Module RunStream: what one      *)
(* attempt reads reaches its handlers line by line, its output says what   *)
(* the lines say, and its callback is asked for each tool once, for any    *)
(* number of lines in any chunks.                                          *)
(***************************************************************************)
EXTENDS Invocation, RunStream, FiniteSetTheorems, SequenceTheorems, WellFoundedInduction, TLAPS

-----------------------------------------------------------------------------
(* The attempts of an invocation *)

\* Attempts are made one by one; nothing is known of those ahead.
Numbered ==
    /\ prepares => runtime \in {"claude", "codex"}
    /\ phase = "called" => attempt = 0
    /\ phase \notin {"called", "returned"} => attempt \in Attempt
    /\ phase = "backoff" => attempt < MaxAttempts
    /\ phase = "preparing" => Prepares(attempt)
    /\ \A a \in Attempt : a > attempt => child[a] = "none"
    /\ phase = "preparing" => child[attempt] = "none"
    /\ phase \in Lasting => child[attempt] # "none"
    /\ phase \in {"closing", "draining"} => runtime = "acp" /\ attempt \in termed

\* The attempt has not come to a call of onResult(): over ACP it is called while
\* the attempt is still read.
Unreported ==
    /\ verdict[attempt] # "unreported"
    /\ runtime = "acp" => verdict[attempt] = "none"

\* onResult() was called at most once for each attempt.
Reported ==
    /\ reported <= attempt
    /\ phase \notin {"called", "returned"} /\ Unreported => reported < attempt
    /\ phase \in {"preparing", "opening", "reading"} => verdict[attempt] = "none"
    /\ \A a \in Attempt : a > attempt => verdict[a] = "none"

\* The flags and verdicts only some of the runtimes have.
Judgement ==
    /\ result = "invalid" => runtime \in {"codex", "acp"}
    /\ stalled \/ fatal => runtime = "opencode"
    /\ denied => runtime # "acp"
    /\ \A a \in Attempt : /\ verdict[a] = "invalid" => runtime \in {"codex", "acp"}
                          /\ verdict[a] \in {"stalled", "fatal"} => runtime = "opencode"
                          /\ verdict[a] = "unsupported" => runtime = "acp"
    /\ phase \in {"closing", "draining", "judged"} => verdict[attempt] # "none"
    /\ phase = "backoff" => verdict[attempt] \in {"error", "denied", "threw", "unreported"}

\* Who has a file, and how long.
Filed ==
    /\ Shared \in files => runtime = "codex" /\ phase \notin {"called", "preparing", "returned"}
    /\ \A a \in files \cap Attempt :
          child[a] = "none" \/ (a = attempt /\ phase \in {"opening", "reading"})
    /\ runtime = "acp" => files = {}

\* What is true of an attempt that counts as a success, and stays true.
Good ==
    /\ result = "success" \/ (runtime = "codex" /\ result = "none")
    /\ ~denied /\ ~stalled /\ ~fatal
    /\ attempt \notin listening
    /\ runtime = "opencode" => attempt \notin late
    /\ child[attempt] = "ok" \/ (child[attempt] = "failed" /\ runtime \in {"claude", "cursor", "acp"})

Sound ==
    /\ phase \in {"closing", "draining"} /\ verdict[attempt] = "success"
          => result = "success" /\ attempt \notin listening
    /\ phase = "judged" /\ verdict[attempt] = "success" => Good
    /\ outcome = "output" => phase = "returned" /\ Good

\* The inductive invariant.
IInv ==
    /\ Supervised
    /\ Numbered
    /\ Reported
    /\ Judgement
    /\ OnlyFailuresAreRetried
    /\ Filed
    /\ Sound

-----------------------------------------------------------------------------
(* The verdicts over ACP *)

\* An exception is taken for the abort its listener told, or for a failure.
LEMMA CaughtRange ==
    Caught \subseteq (IF attempt \in termed THEN {"aborted"} ELSE {"threw", "invalid"})
BY DEF Caught, Judgment

\* A stop reason is a success, an error, or final.
LEMMA StoppedRange == \A reason \in StopReason : Stopped(reason) \in {"success", "error", "invalid"}
BY DEF StopReason, Stopped

-----------------------------------------------------------------------------
(* Initial states and steps *)

\* The initial states satisfy the invariant.
LEMMA InitIInv == Init => IInv
<1>. SUFFICES ASSUME Init PROVE IInv
    OBVIOUS
<1>. USE InvocationAssumption DEF Init, Attempt, Shared
<1>1. prepares \in BOOLEAN
    OBVIOUS
<1>2. TypeOK
    <2>1. /\ child \in [Attempt -> {"none", "running", "ok", "failed"}]
          /\ verdict \in [Attempt -> Verdict]
        BY DEF Verdict
    <2>2. attempt \in 0..MaxAttempts /\ reported \in 0..MaxAttempts
        OBVIOUS
    <2>3. {prepares, aborted, denied, stalled, fatal, watched} \subseteq BOOLEAN
        BY <1>1
    <2>4. {registered, listening, termed, late} \subseteq SUBSET Attempt
        OBVIOUS
    <2>. QED
        BY <2>1, <2>2, <2>3, <2>4 DEF TypeOK
<1>3. Succession /\ Watched /\ Numbered
    BY DEF Succession, Lasting, Watched, Unwatched, Numbered
<1>4. Reported /\ Judgement /\ OnlyFailuresAreRetried /\ Filed /\ Sound
    BY DEF Reported, Judgement, OnlyFailuresAreRetried, Filed, Sound
<1>. QED
    BY <1>2, <1>3, <1>4 DEF IInv, Supervised

\* A turn of the loop keeps the types.
LEMMA EnterTypes ==
    ASSUME TypeOK, NEW a \in Attempt, Enter(a)
    PROVE  TypeOK'
<1>. USE InvocationAssumption DEF Attempt, Shared, TypeOK, Verdict
<1>1. attempt' \in 0..MaxAttempts
    BY DEF Enter
<1>2. result' = "none" /\ denied' = FALSE /\ stalled' = FALSE /\ fatal' = FALSE /\ watched' = FALSE
    BY DEF Enter, Fresh
<1>3. /\ child' \in [Attempt -> {"none", "running", "ok", "failed"}]
      /\ verdict' \in [Attempt -> Verdict]
      /\ phase' \in {"preparing", "opening", "judged"}
    <2>1. CASE Prepares(a)
        BY <2>1 DEF Enter
    <2>2. CASE Spawn(a) /\ UNCHANGED verdict
        BY <2>2 DEF Spawn
    <2>3. CASE SpawnFails(a)
        BY <2>3 DEF SpawnFails
    <2>. QED
        BY <2>1, <2>2, <2>3 DEF Enter
<1>4. registered' \subseteq Attempt /\ listening' \subseteq Attempt
    BY DEF Enter, Spawn, SpawnFails
<1>. QED
    BY <1>1, <1>2, <1>3, <1>4 DEF Enter

\* Every step keeps the types.
LEMMA TypeStep ==
    ASSUME TypeOK, Numbered, Reported, [Next]_vars
    PROVE  TypeOK'
<1>. USE InvocationAssumption DEF Attempt, Shared, TypeOK, Numbered, Lasting, Reported, Unreported, Verdict, vars, osVars, stopVars, seenVars, endVars
<1>1. CASE Begin
    <2>1. CASE aborted
        BY <1>1, <2>1 DEF Begin, Returns
    <2>. QED
        BY <1>1, <2>1, EnterTypes DEF Begin
<1>2. CASE Prepared
    <2>1. files' \subseteq Attempt \cup {Shared} /\ UNCHANGED seenVars
        BY <1>2 DEF Prepared, FileOf
    <2>2. CASE Spawn(attempt) /\ UNCHANGED verdict
        BY <1>2, <2>1, <2>2 DEF Prepared, Spawn
    <2>3. CASE SpawnFails(attempt)
        BY <1>2, <2>1, <2>3 DEF Prepared, SpawnFails
    <2>. QED
        BY <1>2, <2>2, <2>3 DEF Prepared
<1>3. CASE PrepareFails
    BY <1>3 DEF PrepareFails, Returns
<1>4. CASE Opened
    BY <1>4 DEF Opened
<1>5. CASE OpenFails
    BY <1>5 DEF OpenFails, Reap
<1>6. CASE Judge
    BY <1>6 DEF Judge, Reap, Judged, ClaudeVerdict, CursorVerdict, CodexVerdict, OpenCodeVerdict
<1>7. CASE Settle
    <2>1. ASSUME NEW o \in {"output", "aborted", "error", "thrown"}, Done(o),
                 o = "output" => verdict[attempt] = "success"
          PROVE  /\ reported' \in 0..MaxAttempts
                 /\ phase' = "returned" /\ outcome' = o /\ files' = files \ {0}
        BY <1>7, <2>1 DEF Settle, Done, Returns
    <2>2. CASE Retried /\ phase' = "backoff" /\ UNCHANGED <<files, reported, outcome>>
        BY <1>7, <2>2 DEF Settle
    <2>3. ASSUME NEW o \in {"output", "aborted", "error", "thrown"}, Done(o),
                 o = "output" => verdict[attempt] = "success"
          PROVE  TypeOK'
        BY <1>7, <2>1, <2>3 DEF Settle
    <2>. QED
        BY <1>7, <2>2, <2>3 DEF Settle
<1>8. CASE SleepEnds
    BY <1>8, EnterTypes DEF SleepEnds
<1>9. CASE SleepAborts
    BY <1>9 DEF SleepAborts, Done, Returns
<1>10. CASE Hears
    BY <1>10 DEF Hears
<1>11. CASE Deny
    BY <1>11 DEF Deny, Terminate
<1>12. CASE Stall
    BY <1>12 DEF Stall, Terminate
<1>13. CASE UpstreamFatal
    BY <1>13 DEF UpstreamFatal, Terminate
<1>14. CASE ResultHookThrows
    BY <1>14 DEF ResultHookThrows
<1>15. CASE Abort
    BY <1>15 DEF Abort
<1>16. ASSUME NEW a \in Attempt, Timeout(a)
      PROVE  TypeOK'
    BY <1>16 DEF Timeout, Terminate
<1>17. ASSUME NEW a \in Attempt, Exit(a)
      PROVE  TypeOK'
    BY <1>17 DEF Exit
<1>18. CASE UNCHANGED vars
    BY <1>18
<1>19. CASE RefusesOptions
    BY <1>19 DEF RefusesOptions, Returns
<1>20. CASE Handshaken
    BY <1>20 DEF Handshaken
<1>21. CASE PromptAnswered
    BY <1>21, StoppedRange DEF PromptAnswered
<1>22. CASE RunFails
    BY <1>22, CaughtRange DEF RunFails, Closes, Terminate
<1>23. CASE Concludes
    BY <1>23, CaughtRange DEF Concludes, Closes, Terminate
<1>24. ASSUME NEW a \in Attempt, FrontDisposed(a)
      PROVE  TypeOK'
    BY <1>24 DEF FrontDisposed
<1>25. CASE Closed
    BY <1>25 DEF Closed
<1>26. CASE LogFound
    BY <1>26 DEF LogFound
<1>. QED
    BY <1>1, <1>2, <1>3, <1>4, <1>5, <1>6, <1>7, <1>8, <1>9, <1>10, <1>11, <1>12, <1>13, <1>14, <1>15, <1>16, <1>17, <1>18,
       <1>19, <1>20, <1>21, <1>22, <1>23, <1>24, <1>25, <1>26
    DEF Next, Start, Loop, Sees, AcpFront, Ending, World

\* Every step keeps the succession of the attempts.
LEMMA SuccessionStep ==
    ASSUME TypeOK, Numbered, Succession, [Next]_vars
    PROVE  Succession'
<1>. USE InvocationAssumption DEF Attempt, Shared, TypeOK, Numbered, Succession, Lasting, vars, osVars, stopVars, seenVars, endVars
<1>1. CASE Begin
    BY <1>1 DEF Begin, Enter, Spawn, SpawnFails, Fresh, Returns
<1>2. CASE Prepared
    BY <1>2 DEF Prepared, Spawn, SpawnFails, FileOf
<1>3. CASE PrepareFails
    BY <1>3 DEF PrepareFails, Returns
<1>4. CASE Opened
    BY <1>4 DEF Opened
<1>5. CASE OpenFails
    BY <1>5 DEF OpenFails, Reap
<1>6. CASE Judge
    BY <1>6 DEF Judge, Reap, Judged, ClaudeVerdict, CursorVerdict, CodexVerdict, OpenCodeVerdict
<1>7. CASE Settle
    BY <1>7 DEF Settle, Done, Returns, Retried, Terminal, CodexTerminal, OpenCodeTerminal, AcpTerminal
<1>8. CASE SleepEnds
    BY <1>8 DEF SleepEnds, Enter, Spawn, SpawnFails, Fresh
<1>9. CASE SleepAborts
    BY <1>9 DEF SleepAborts, Done, Returns
<1>10. CASE Hears
    BY <1>10 DEF Hears
<1>11. CASE Deny
    BY <1>11 DEF Deny, Terminate
<1>12. CASE Stall
    BY <1>12 DEF Stall, Terminate
<1>13. CASE UpstreamFatal
    BY <1>13 DEF UpstreamFatal, Terminate
<1>14. CASE ResultHookThrows
    BY <1>14 DEF ResultHookThrows
<1>15. CASE Abort
    BY <1>15 DEF Abort
<1>16. ASSUME NEW a \in Attempt, Timeout(a)
      PROVE  Succession'
    BY <1>16 DEF Timeout, Terminate
<1>17. ASSUME NEW a \in Attempt, Exit(a)
      PROVE  Succession'
    BY <1>17 DEF Exit
<1>18. CASE UNCHANGED vars
    BY <1>18
<1>19. CASE RefusesOptions
    BY <1>19 DEF RefusesOptions, Returns
<1>20. CASE Handshaken
    BY <1>20 DEF Handshaken
<1>21. CASE PromptAnswered
    BY <1>21, StoppedRange DEF PromptAnswered
<1>22. CASE RunFails
    BY <1>22, CaughtRange DEF RunFails, Closes, Terminate
<1>23. CASE Concludes
    BY <1>23, CaughtRange DEF Concludes, Closes, Terminate
<1>24. ASSUME NEW a \in Attempt, FrontDisposed(a)
      PROVE  Succession'
    BY <1>24 DEF FrontDisposed
<1>25. CASE Closed
    BY <1>25 DEF Closed
<1>26. CASE LogFound
    BY <1>26 DEF LogFound
<1>. QED
    BY <1>1, <1>2, <1>3, <1>4, <1>5, <1>6, <1>7, <1>8, <1>9, <1>10, <1>11, <1>12, <1>13, <1>14, <1>15, <1>16, <1>17, <1>18,
       <1>19, <1>20, <1>21, <1>22, <1>23, <1>24, <1>25, <1>26
    DEF Next, Start, Loop, Sees, AcpFront, Ending, World

\* Every step leaves the children watched.
LEMMA WatchedStep ==
    ASSUME TypeOK, Numbered, Watched, [Next]_vars
    PROVE  Watched'
<1>. USE InvocationAssumption DEF Attempt, Shared, TypeOK, Numbered, Lasting, Watched, Unwatched, Prepares, vars, osVars, stopVars, seenVars, endVars
<1>1. CASE Begin
    BY <1>1 DEF Begin, Enter, Spawn, SpawnFails, Fresh, Returns
<1>2. CASE Prepared
    BY <1>2 DEF Prepared, Spawn, SpawnFails, FileOf
<1>3. CASE PrepareFails
    BY <1>3 DEF PrepareFails, Returns
<1>4. CASE Opened
    BY <1>4 DEF Opened
<1>5. CASE OpenFails
    BY <1>5 DEF OpenFails, Reap
<1>6. CASE Judge
    BY <1>6 DEF Judge, Reap, Judged, ClaudeVerdict, CursorVerdict, CodexVerdict, OpenCodeVerdict
<1>7. CASE Settle
    BY <1>7 DEF Settle, Done, Returns, Retried, Terminal, CodexTerminal, OpenCodeTerminal, AcpTerminal
<1>8. CASE SleepEnds
    BY <1>8 DEF SleepEnds, Enter, Spawn, SpawnFails, Fresh
<1>9. CASE SleepAborts
    BY <1>9 DEF SleepAborts, Done, Returns
<1>10. CASE Hears
    BY <1>10 DEF Hears
<1>11. CASE Deny
    BY <1>11 DEF Deny, Terminate
<1>12. CASE Stall
    BY <1>12 DEF Stall, Terminate
<1>13. CASE UpstreamFatal
    BY <1>13 DEF UpstreamFatal, Terminate
<1>14. CASE ResultHookThrows
    BY <1>14 DEF ResultHookThrows
<1>15. CASE Abort
    BY <1>15 DEF Abort
<1>16. ASSUME NEW a \in Attempt, Timeout(a)
      PROVE  Watched'
    BY <1>16 DEF Timeout, Terminate
<1>17. ASSUME NEW a \in Attempt, Exit(a)
      PROVE  Watched'
    BY <1>17 DEF Exit
<1>18. CASE UNCHANGED vars
    BY <1>18
<1>19. CASE RefusesOptions
    BY <1>19 DEF RefusesOptions, Returns
<1>20. CASE Handshaken
    BY <1>20 DEF Handshaken
<1>21. CASE PromptAnswered
    BY <1>21, StoppedRange DEF PromptAnswered
<1>22. CASE RunFails
    BY <1>22, CaughtRange DEF RunFails, Closes, Terminate
<1>23. CASE Concludes
    BY <1>23, CaughtRange DEF Concludes, Closes, Terminate
<1>24. ASSUME NEW a \in Attempt, FrontDisposed(a)
      PROVE  Watched'
    BY <1>24 DEF FrontDisposed
<1>25. CASE Closed
    BY <1>25 DEF Closed
<1>26. CASE LogFound
    BY <1>26 DEF LogFound
<1>. QED
    BY <1>1, <1>2, <1>3, <1>4, <1>5, <1>6, <1>7, <1>8, <1>9, <1>10, <1>11, <1>12, <1>13, <1>14, <1>15, <1>16, <1>17, <1>18,
       <1>19, <1>20, <1>21, <1>22, <1>23, <1>24, <1>25, <1>26
    DEF Next, Start, Loop, Sees, AcpFront, Ending, World

\* Every step keeps the numbering of the attempts.
LEMMA NumberedStep ==
    ASSUME TypeOK, Numbered, [Next]_vars
    PROVE  Numbered'
<1>. USE InvocationAssumption DEF Attempt, Shared, TypeOK, Numbered, Lasting, Prepares, vars, osVars, stopVars, seenVars, endVars
<1>1. CASE Begin
    BY <1>1 DEF Begin, Enter, Spawn, SpawnFails, Fresh, Returns
<1>2. CASE Prepared
    BY <1>2 DEF Prepared, Spawn, SpawnFails, FileOf
<1>3. CASE PrepareFails
    BY <1>3 DEF PrepareFails, Returns
<1>4. CASE Opened
    BY <1>4 DEF Opened
<1>5. CASE OpenFails
    BY <1>5 DEF OpenFails, Reap
<1>6. CASE Judge
    BY <1>6 DEF Judge, Reap, Judged, ClaudeVerdict, CursorVerdict, CodexVerdict, OpenCodeVerdict
<1>7. CASE Settle
    BY <1>7 DEF Settle, Done, Returns, Retried, Terminal, CodexTerminal, OpenCodeTerminal, AcpTerminal
<1>8. CASE SleepEnds
    BY <1>8 DEF SleepEnds, Enter, Spawn, SpawnFails, Fresh
<1>9. CASE SleepAborts
    BY <1>9 DEF SleepAborts, Done, Returns
<1>10. CASE Hears
    BY <1>10 DEF Hears
<1>11. CASE Deny
    BY <1>11 DEF Deny, Terminate
<1>12. CASE Stall
    BY <1>12 DEF Stall, Terminate
<1>13. CASE UpstreamFatal
    BY <1>13 DEF UpstreamFatal, Terminate
<1>14. CASE ResultHookThrows
    BY <1>14 DEF ResultHookThrows
<1>15. CASE Abort
    BY <1>15 DEF Abort
<1>16. ASSUME NEW a \in Attempt, Timeout(a)
      PROVE  Numbered'
    BY <1>16 DEF Timeout, Terminate
<1>17. ASSUME NEW a \in Attempt, Exit(a)
      PROVE  Numbered'
    BY <1>17 DEF Exit
<1>18. CASE UNCHANGED vars
    BY <1>18
<1>19. CASE RefusesOptions
    BY <1>19 DEF RefusesOptions, Returns
<1>20. CASE Handshaken
    BY <1>20 DEF Handshaken
<1>21. CASE PromptAnswered
    BY <1>21, StoppedRange DEF PromptAnswered
<1>22. CASE RunFails
    BY <1>22, CaughtRange DEF RunFails, Closes, Terminate
<1>23. CASE Concludes
    BY <1>23, CaughtRange DEF Concludes, Closes, Terminate
<1>24. ASSUME NEW a \in Attempt, FrontDisposed(a)
      PROVE  Numbered'
    BY <1>24 DEF FrontDisposed
<1>25. CASE Closed
    BY <1>25 DEF Closed
<1>26. CASE LogFound
    BY <1>26 DEF LogFound
<1>. QED
    BY <1>1, <1>2, <1>3, <1>4, <1>5, <1>6, <1>7, <1>8, <1>9, <1>10, <1>11, <1>12, <1>13, <1>14, <1>15, <1>16, <1>17, <1>18,
       <1>19, <1>20, <1>21, <1>22, <1>23, <1>24, <1>25, <1>26
    DEF Next, Start, Loop, Sees, AcpFront, Ending, World

\* Every step keeps the count of the reports.
LEMMA ReportedStep ==
    ASSUME TypeOK, Numbered, Reported, Judgement, [Next]_vars
    PROVE  Reported'
<1>. USE InvocationAssumption DEF Attempt, Shared, TypeOK, Numbered, Lasting, Reported, Unreported, Judgement, vars, osVars, stopVars, seenVars, endVars
<1>1. CASE Begin
    BY <1>1 DEF Begin, Enter, Spawn, SpawnFails, Fresh, Returns
<1>2. CASE Prepared
    BY <1>2 DEF Prepared, Spawn, SpawnFails, FileOf
<1>3. CASE PrepareFails
    BY <1>3 DEF PrepareFails, Returns
<1>4. CASE Opened
    BY <1>4 DEF Opened
<1>5. CASE OpenFails
    BY <1>5 DEF OpenFails, Reap
<1>6. CASE Judge
    BY <1>6 DEF Judge, Reap, Judged, ClaudeVerdict, CursorVerdict, CodexVerdict, OpenCodeVerdict
<1>7. CASE Settle
    BY <1>7 DEF Settle, Done, Returns, Retried, Terminal, CodexTerminal, OpenCodeTerminal, AcpTerminal
<1>8. CASE SleepEnds
    BY <1>8 DEF SleepEnds, Enter, Spawn, SpawnFails, Fresh
<1>9. CASE SleepAborts
    BY <1>9 DEF SleepAborts, Done, Returns
<1>10. CASE Hears
    BY <1>10 DEF Hears
<1>11. CASE Deny
    BY <1>11 DEF Deny, Terminate
<1>12. CASE Stall
    BY <1>12 DEF Stall, Terminate
<1>13. CASE UpstreamFatal
    BY <1>13 DEF UpstreamFatal, Terminate
<1>14. CASE ResultHookThrows
    BY <1>14 DEF ResultHookThrows
<1>15. CASE Abort
    BY <1>15 DEF Abort
<1>16. ASSUME NEW a \in Attempt, Timeout(a)
      PROVE  Reported'
    BY <1>16 DEF Timeout, Terminate
<1>17. ASSUME NEW a \in Attempt, Exit(a)
      PROVE  Reported'
    BY <1>17 DEF Exit
<1>18. CASE UNCHANGED vars
    BY <1>18
<1>19. CASE RefusesOptions
    BY <1>19 DEF RefusesOptions, Returns
<1>20. CASE Handshaken
    BY <1>20 DEF Handshaken
<1>21. CASE PromptAnswered
    BY <1>21, StoppedRange DEF PromptAnswered
<1>22. CASE RunFails
    BY <1>22, CaughtRange DEF RunFails, Closes, Terminate
<1>23. CASE Concludes
    BY <1>23, CaughtRange DEF Concludes, Closes, Terminate
<1>24. ASSUME NEW a \in Attempt, FrontDisposed(a)
      PROVE  Reported'
    BY <1>24 DEF FrontDisposed
<1>25. CASE Closed
    BY <1>25 DEF Closed
<1>26. CASE LogFound
    BY <1>26 DEF LogFound
<1>. QED
    BY <1>1, <1>2, <1>3, <1>4, <1>5, <1>6, <1>7, <1>8, <1>9, <1>10, <1>11, <1>12, <1>13, <1>14, <1>15, <1>16, <1>17, <1>18,
       <1>19, <1>20, <1>21, <1>22, <1>23, <1>24, <1>25, <1>26
    DEF Next, Start, Loop, Sees, AcpFront, Ending, World

\* Every step keeps the flags and verdicts to their CLIs.
LEMMA JudgementStep ==
    ASSUME TypeOK, Numbered, Judgement, [Next]_vars
    PROVE  Judgement'
<1>. USE InvocationAssumption DEF Attempt, Shared, TypeOK, Numbered, Lasting, Judgement, vars, osVars, stopVars, seenVars, endVars
<1>1. CASE Begin
    BY <1>1 DEF Begin, Enter, Spawn, SpawnFails, Fresh, Returns
<1>2. CASE Prepared
    BY <1>2 DEF Prepared, Spawn, SpawnFails, FileOf
<1>3. CASE PrepareFails
    BY <1>3 DEF PrepareFails, Returns
<1>4. CASE Opened
    BY <1>4 DEF Opened
<1>5. CASE OpenFails
    BY <1>5 DEF OpenFails, Reap
<1>6. CASE Judge
    BY <1>6 DEF Judge, Reap, Judged, ClaudeVerdict, CursorVerdict, CodexVerdict, OpenCodeVerdict
<1>7. CASE Settle
    <2>1. attempt \in Attempt /\ verdict[attempt] \in Verdict /\ verdict[attempt] # "none"
        BY <1>7 DEF Settle
    <2>2. Retried => verdict[attempt] \in {"error", "denied", "threw", "unreported"}
        BY <2>1 DEF Retried, Terminal, CodexTerminal, OpenCodeTerminal, AcpTerminal, Verdict
    <2>3. phase' = "backoff" => Retried
        BY <1>7 DEF Settle, Done, Returns
    <2>. QED
        BY <1>7, <2>2, <2>3 DEF Settle, Done, Returns
<1>8. CASE SleepEnds
    BY <1>8 DEF SleepEnds, Enter, Spawn, SpawnFails, Fresh
<1>9. CASE SleepAborts
    BY <1>9 DEF SleepAborts, Done, Returns
<1>10. CASE Hears
    BY <1>10 DEF Hears
<1>11. CASE Deny
    BY <1>11 DEF Deny, Terminate
<1>12. CASE Stall
    BY <1>12 DEF Stall, Terminate
<1>13. CASE UpstreamFatal
    BY <1>13 DEF UpstreamFatal, LogRefuses, Terminate
<1>14. CASE ResultHookThrows
    BY <1>14 DEF ResultHookThrows
<1>15. CASE Abort
    BY <1>15 DEF Abort
<1>16. ASSUME NEW a \in Attempt, Timeout(a)
      PROVE  Judgement'
    BY <1>16 DEF Timeout, Terminate
<1>17. ASSUME NEW a \in Attempt, Exit(a)
      PROVE  Judgement'
    BY <1>17 DEF Exit
<1>18. CASE UNCHANGED vars
    BY <1>18
<1>19. CASE RefusesOptions
    BY <1>19 DEF RefusesOptions, Returns
<1>20. CASE Handshaken
    BY <1>20 DEF Handshaken
<1>21. CASE PromptAnswered
    BY <1>21, StoppedRange DEF PromptAnswered
<1>22. CASE RunFails
    BY <1>22, CaughtRange DEF RunFails, Closes, Terminate
<1>23. CASE Concludes
    BY <1>23, CaughtRange DEF Concludes, Closes, Terminate
<1>24. ASSUME NEW a \in Attempt, FrontDisposed(a)
      PROVE  Judgement'
    BY <1>24 DEF FrontDisposed
<1>25. CASE Closed
    BY <1>25 DEF Closed
<1>26. CASE LogFound
    BY <1>26 DEF LogFound
<1>. QED
    BY <1>1, <1>2, <1>3, <1>4, <1>5, <1>6, <1>7, <1>8, <1>9, <1>10, <1>11, <1>12, <1>13, <1>14, <1>15, <1>16, <1>17, <1>18,
       <1>19, <1>20, <1>21, <1>22, <1>23, <1>24, <1>25, <1>26
    DEF Next, Start, Loop, Sees, AcpFront, Ending, World

\* Every step keeps what is retried to failures.
LEMMA RetriedStep ==
    ASSUME TypeOK, Numbered, Judgement, OnlyFailuresAreRetried, [Next]_vars
    PROVE  OnlyFailuresAreRetried'
<1>. USE InvocationAssumption DEF Attempt, Shared, TypeOK, Numbered, Lasting, Judgement, OnlyFailuresAreRetried, vars, osVars, stopVars, seenVars, endVars
<1>1. CASE Begin
    BY <1>1 DEF Begin, Enter, Spawn, SpawnFails, Fresh, Returns
<1>2. CASE Prepared
    BY <1>2 DEF Prepared, Spawn, SpawnFails, FileOf
<1>3. CASE PrepareFails
    BY <1>3 DEF PrepareFails, Returns
<1>4. CASE Opened
    BY <1>4 DEF Opened
<1>5. CASE OpenFails
    BY <1>5 DEF OpenFails, Reap
<1>6. CASE Judge
    BY <1>6 DEF Judge, Reap, Judged, ClaudeVerdict, CursorVerdict, CodexVerdict, OpenCodeVerdict
<1>7. CASE Settle
    BY <1>7 DEF Settle, Done, Returns, Retried, Terminal, CodexTerminal, OpenCodeTerminal, AcpTerminal
<1>8. CASE SleepEnds
    <2>1. attempt' = attempt + 1 /\ attempt \in Attempt
        BY <1>8 DEF SleepEnds, Enter
    <2>2. \A a \in Attempt : a # attempt + 1 => verdict'[a] = verdict[a]
        BY <1>8 DEF SleepEnds, Enter, Spawn, SpawnFails
    <2>3. verdict[attempt] \in {"error", "denied", "threw", "unreported"}
        BY <1>8 DEF SleepEnds
    <2>. QED
        BY <2>1, <2>2, <2>3
<1>9. CASE SleepAborts
    BY <1>9 DEF SleepAborts, Done, Returns
<1>10. CASE Hears
    BY <1>10 DEF Hears
<1>11. CASE Deny
    BY <1>11 DEF Deny, Terminate
<1>12. CASE Stall
    BY <1>12 DEF Stall, Terminate
<1>13. CASE UpstreamFatal
    BY <1>13 DEF UpstreamFatal, Terminate
<1>14. CASE ResultHookThrows
    BY <1>14 DEF ResultHookThrows
<1>15. CASE Abort
    BY <1>15 DEF Abort
<1>16. ASSUME NEW a \in Attempt, Timeout(a)
      PROVE  OnlyFailuresAreRetried'
    BY <1>16 DEF Timeout, Terminate
<1>17. ASSUME NEW a \in Attempt, Exit(a)
      PROVE  OnlyFailuresAreRetried'
    BY <1>17 DEF Exit
<1>18. CASE UNCHANGED vars
    BY <1>18
<1>19. CASE RefusesOptions
    BY <1>19 DEF RefusesOptions, Returns
<1>20. CASE Handshaken
    BY <1>20 DEF Handshaken
<1>21. CASE PromptAnswered
    BY <1>21, StoppedRange DEF PromptAnswered
<1>22. CASE RunFails
    BY <1>22, CaughtRange DEF RunFails, Closes, Terminate
<1>23. CASE Concludes
    BY <1>23, CaughtRange DEF Concludes, Closes, Terminate
<1>24. ASSUME NEW a \in Attempt, FrontDisposed(a)
      PROVE  OnlyFailuresAreRetried'
    BY <1>24 DEF FrontDisposed
<1>25. CASE Closed
    BY <1>25 DEF Closed
<1>26. CASE LogFound
    BY <1>26 DEF LogFound
<1>. QED
    BY <1>1, <1>2, <1>3, <1>4, <1>5, <1>6, <1>7, <1>8, <1>9, <1>10, <1>11, <1>12, <1>13, <1>14, <1>15, <1>16, <1>17, <1>18,
       <1>19, <1>20, <1>21, <1>22, <1>23, <1>24, <1>25, <1>26
    DEF Next, Start, Loop, Sees, AcpFront, Ending, World

\* Every step keeps the account of the files.
LEMMA FiledStep ==
    ASSUME TypeOK, Numbered, Filed, [Next]_vars
    PROVE  Filed'
<1>. USE InvocationAssumption DEF Attempt, Shared, TypeOK, Numbered, Lasting, Filed, Prepares, vars, osVars, stopVars, seenVars, endVars
<1>1. CASE Begin
    <2>1. /\ files' = files /\ runtime' = runtime /\ phase = "called"
          /\ Shared \notin files
        BY <1>1 DEF Begin, Enter, Returns
    <2>2. CASE aborted
        BY <1>1, <2>1, <2>2 DEF Begin, Returns
    <2>3. CASE Enter(1)
        <3>1. attempt' = 1
            BY <2>3 DEF Enter
        <3>2. \A a \in Attempt : a # 1 => child'[a] = child[a]
            BY <2>3 DEF Enter, Spawn, SpawnFails
        <3>3. phase' = "opening" \/ child' = child
            BY <2>3 DEF Enter, Spawn, SpawnFails
        <3>. QED
            BY <2>1, <3>1, <3>2, <3>3
    <2>. QED
        BY <1>1, <2>2, <2>3 DEF Begin
<1>2. CASE Prepared
    <2>1. phase' \in {"opening", "judged"} /\ attempt' = attempt /\ runtime' = runtime
        BY <1>2 DEF Prepared, Spawn, SpawnFails
    <2>2. \A a \in Attempt : a # attempt => child'[a] = child[a]
        BY <1>2 DEF Prepared, Spawn, SpawnFails
    <2>3. phase' = "judged" => child'[attempt] = "none"
        BY <1>2 DEF Prepared, Spawn, SpawnFails
    <2>4. runtime \in {"claude", "codex"}
        BY <1>2 DEF Prepared
    <2>. QED
        BY <1>2, <2>1, <2>2, <2>3, <2>4 DEF Prepared, FileOf
<1>3. CASE PrepareFails
    BY <1>3 DEF PrepareFails, Returns
<1>4. CASE Opened
    BY <1>4 DEF Opened
<1>5. CASE OpenFails
    BY <1>5 DEF OpenFails, Reap
<1>6. CASE Judge
    BY <1>6 DEF Judge, Reap, Judged, ClaudeVerdict, CursorVerdict, CodexVerdict, OpenCodeVerdict
<1>7. CASE Settle
    BY <1>7 DEF Settle, Done, Returns, Retried, Terminal, CodexTerminal, OpenCodeTerminal, AcpTerminal
<1>8. CASE SleepEnds
    BY <1>8 DEF SleepEnds, Enter, Spawn, SpawnFails, Fresh
<1>9. CASE SleepAborts
    BY <1>9 DEF SleepAborts, Done, Returns
<1>10. CASE Hears
    BY <1>10 DEF Hears
<1>11. CASE Deny
    BY <1>11 DEF Deny, Terminate
<1>12. CASE Stall
    BY <1>12 DEF Stall, Terminate
<1>13. CASE UpstreamFatal
    BY <1>13 DEF UpstreamFatal, Terminate
<1>14. CASE ResultHookThrows
    BY <1>14 DEF ResultHookThrows
<1>15. CASE Abort
    BY <1>15 DEF Abort
<1>16. ASSUME NEW a \in Attempt, Timeout(a)
      PROVE  Filed'
    BY <1>16 DEF Timeout, Terminate
<1>17. ASSUME NEW a \in Attempt, Exit(a)
      PROVE  Filed'
    BY <1>17 DEF Exit
<1>18. CASE UNCHANGED vars
    BY <1>18
<1>19. CASE RefusesOptions
    BY <1>19 DEF RefusesOptions, Returns
<1>20. CASE Handshaken
    BY <1>20 DEF Handshaken
<1>21. CASE PromptAnswered
    BY <1>21, StoppedRange DEF PromptAnswered
<1>22. CASE RunFails
    BY <1>22, CaughtRange DEF RunFails, Closes, Terminate
<1>23. CASE Concludes
    BY <1>23, CaughtRange DEF Concludes, Closes, Terminate
<1>24. ASSUME NEW a \in Attempt, FrontDisposed(a)
      PROVE  Filed'
    BY <1>24 DEF FrontDisposed
<1>25. CASE Closed
    BY <1>25 DEF Closed
<1>26. CASE LogFound
    BY <1>26 DEF LogFound
<1>. QED
    BY <1>1, <1>2, <1>3, <1>4, <1>5, <1>6, <1>7, <1>8, <1>9, <1>10, <1>11, <1>12, <1>13, <1>14, <1>15, <1>16, <1>17, <1>18,
       <1>19, <1>20, <1>21, <1>22, <1>23, <1>24, <1>25, <1>26
    DEF Next, Start, Loop, Sees, AcpFront, Ending, World

\* Every step keeps the account of the successes.
LEMMA SoundStep ==
    ASSUME TypeOK, Succession, Numbered, Reported, Judgement, Sound, [Next]_vars
    PROVE  Sound'
<1>. USE InvocationAssumption DEF Attempt, Shared, TypeOK, Numbered, Lasting, Reported, Unreported, Judgement, Sound, Good, vars, osVars, stopVars, seenVars, endVars
<1>1. CASE Begin
    BY <1>1 DEF Begin, Enter, Spawn, SpawnFails, Fresh, Returns
<1>2. CASE Prepared
    BY <1>2 DEF Prepared, Spawn, SpawnFails, FileOf
<1>3. CASE PrepareFails
    BY <1>3 DEF PrepareFails, Returns
<1>4. CASE Opened
    BY <1>4 DEF Opened
<1>5. CASE OpenFails
    BY <1>5 DEF OpenFails, Reap
<1>6. CASE Judge
    <2>1. /\ phase = "reading" /\ phase' = "judged" /\ outcome' = outcome
          /\ attempt' = attempt /\ attempt \in Attempt
          /\ verdict'[attempt] = Judged /\ child'[attempt] \in {"ok", "failed"}
        BY <1>6 DEF Judge
    <2>2. attempt \notin listening'
        BY <1>6 DEF Judge
    <2>3. Judged = "success" => Good'
        <3>1. CASE runtime = "claude" \/ runtime = "cursor"
            BY <1>6, <2>1, <2>2, <3>1 DEF Judge, Judged, ClaudeVerdict, CursorVerdict
        <3>2. CASE runtime = "codex"
            BY <1>6, <2>1, <2>2, <3>2 DEF Judge, Judged, CodexVerdict
        <3>3. CASE runtime = "opencode"
            BY <1>6, <2>1, <2>2, <3>3 DEF Judge, Judged, OpenCodeVerdict
        <3>. QED
            BY <1>6, <3>1, <3>2, <3>3, InvocationAssumption DEF Judge
    <2>. QED
        BY <2>1, <2>3
<1>7. CASE Settle
    BY <1>7 DEF Settle, Done, Returns, Retried, Terminal, CodexTerminal, OpenCodeTerminal, AcpTerminal
<1>8. CASE SleepEnds
    BY <1>8 DEF SleepEnds, Enter, Spawn, SpawnFails, Fresh
<1>9. CASE SleepAborts
    BY <1>9 DEF SleepAborts, Done, Returns
<1>10. CASE Hears
    BY <1>10 DEF Hears
<1>11. CASE Deny
    BY <1>11 DEF Deny, Terminate
<1>12. CASE Stall
    BY <1>12 DEF Stall, Terminate
<1>13. CASE UpstreamFatal
    BY <1>13 DEF UpstreamFatal, Terminate
<1>14. CASE ResultHookThrows
    BY <1>14 DEF ResultHookThrows
<1>15. CASE Abort
    BY <1>15 DEF Abort
<1>16. ASSUME NEW a \in Attempt, Timeout(a)
      PROVE  Sound'
    BY <1>16 DEF Timeout, Terminate
<1>17. ASSUME NEW a \in Attempt, Exit(a)
      PROVE  Sound'
    BY <1>17 DEF Exit
<1>18. CASE UNCHANGED vars
    BY <1>18
<1>19. CASE RefusesOptions
    BY <1>19 DEF RefusesOptions, Returns
<1>20. CASE Handshaken
    BY <1>20 DEF Handshaken
<1>21. CASE PromptAnswered
    BY <1>21, StoppedRange DEF PromptAnswered
<1>22. CASE RunFails
    BY <1>22, CaughtRange DEF RunFails, Closes, Terminate
<1>23. CASE Concludes
    BY <1>23, CaughtRange DEF Concludes, Closes, Terminate
<1>24. ASSUME NEW a \in Attempt, FrontDisposed(a)
      PROVE  Sound'
    BY <1>24 DEF FrontDisposed
<1>25. CASE Closed
    BY <1>25 DEF Closed, Succession
<1>26. CASE LogFound
    BY <1>26 DEF LogFound
<1>. QED
    BY <1>1, <1>2, <1>3, <1>4, <1>5, <1>6, <1>7, <1>8, <1>9, <1>10, <1>11, <1>12, <1>13, <1>14, <1>15, <1>16, <1>17, <1>18,
       <1>19, <1>20, <1>21, <1>22, <1>23, <1>24, <1>25, <1>26
    DEF Next, Start, Loop, Sees, AcpFront, Ending, World

\* Every step keeps the invariant.
LEMMA StepIInv == IInv /\ [Next]_vars => IInv'
BY TypeStep, SuccessionStep, WatchedStep, NumberedStep, ReportedStep, JudgementStep, RetriedStep,
   FiledStep, SoundStep
DEF IInv, Supervised

-----------------------------------------------------------------------------
(* Theorems *)

\* The invariant holds throughout.
LEMMA Invariant == Spec => []IInv
BY InitIInv, StepIInv, PTL DEF Spec

\* Nothing is retried behind a success, an abort, a permanent rejection, a
\* stall or a provider's refusal.
THEOREM RetriesOnlyFailures == Spec => []OnlyFailuresAreRetried
<1>1. IInv => OnlyFailuresAreRetried
    BY DEF IInv
<1>. QED
    BY Invariant, <1>1, PTL

\* What the call returns as good was good, whatever came while it was judged.
THEOREM OutputIsTruthful == Spec => []Truthful
<1>1. IInv => Truthful
    BY DEF IInv, Sound, Good, Truthful
<1>. QED
    BY Invariant, <1>1, PTL

\* A call that has returned leaves no file but of an attempt without a child.
THEOREM FilesAreReaped == Spec => []FilesReaped
<1>1. IInv => FilesReaped
    <2>. SUFFICES ASSUME IInv, phase = "returned"
                  PROVE  Shared \notin files /\ \A a \in files : child[a] = "none"
        BY DEF FilesReaped
    <2>1. Shared \notin files
        BY DEF IInv, Filed
    <2>2. files \subseteq Attempt
        BY <2>1 DEF IInv, Supervised, TypeOK
    <2>. QED
        BY <2>1, <2>2 DEF IInv, Filed
<1>. QED
    BY Invariant, <1>1, PTL

\* The types, the succession of the attempts, that no child is out of reach of
\* both the signal and its timer but one spawned behind an abort that came
\* while its file was written, and no file behind the call.
THEOREM ChildrenAreWatched == Spec => []InvocationInv
<1>1. IInv => Supervised
    BY DEF IInv
<1>. QED
    BY Invariant, FilesAreReaped, <1>1, PTL DEF InvocationInv

\* An abort reaches every child, and none starts behind it but one whose file
\* was being written.
THEOREM AbortsReach == Spec => AbortReaches
<1>. DEFINE Reach ==
        /\ ~aborted /\ aborted' => \A a \in Attempt : child[a] = "running" => a \in termed'
        /\ aborted => \A a \in Attempt : child'[a] = "running" =>
                         child[a] = "running" \/ Prepares(a)
<1>1. IInv /\ [Next]_vars => [Reach]_vars
    <2>. SUFFICES ASSUME IInv, Next PROVE Reach
        OBVIOUS
    <2>. USE DEF IInv, Supervised, TypeOK
    <2>1. ASSUME ~aborted, aborted', NEW a \in Attempt, child[a] = "running"
          PROVE  a \in termed'
        <3>1. Abort
            BY <2>1 DEF Next, Start, Loop, Sees, World, Begin, Enter, Prepared, PrepareFails, Opened,
                OpenFails, Judge, Settle, SleepEnds, SleepAborts, Hears, Deny, Stall, LogFound,
                UpstreamFatal, ResultHookThrows, Timeout, Exit, AcpFront, Ending, RefusesOptions, Handshaken,
                PromptAnswered, RunFails, Concludes, Closes, FrontDisposed, Closed, stopVars
        <3>. QED
            BY <2>1, <3>1 DEF Abort, Watched, Unwatched
    <2>2. ASSUME aborted, NEW a \in Attempt, child'[a] = "running", child[a] # "running"
          PROVE  Prepares(a)
        <3>1. Prepared
            BY <2>2 DEF Next, Start, Loop, Sees, World, Begin, Returns, PrepareFails, Opened,
                OpenFails, Judge, Settle, SleepEnds, SleepAborts, Hears, Deny, Stall, LogFound,
                UpstreamFatal, ResultHookThrows, Abort, Timeout, Exit, AcpFront, Ending, RefusesOptions, Handshaken,
                PromptAnswered, RunFails, Concludes, Closes, FrontDisposed, Closed, osVars
        <3>. QED
            BY <2>2, <3>1 DEF Prepared, Spawn, SpawnFails, Numbered
    <2>. QED
        BY <2>1, <2>2
<1>. QED
    BY Invariant, <1>1, PTL DEF Spec, AbortReaches

-----------------------------------------------------------------------------
(* The inductive invariant of RunStream *)

TakenOf(kinds) == {i \in 1..taken : script[i] \in kinds}
IsLatest(i, S) == IF S = {} THEN i = 0 ELSE i \in S /\ \A j \in S : j <= i
IsEarliest(i, S) == IF S = {} THEN i = 0 ELSE i \in S /\ \A j \in S : i <= j

\* The reader: it ends behind the last line, stops only for a callback that
\* threw, and the attempt is judged behind the end of both reader and child.
Reader ==
    /\ (reader = "asking") = (asking # <<>>)
    /\ Len(buffer) <= 2
    /\ reader = "ended" => taken = Len(script) /\ process # "running"
    /\ reader = "stopped" => threw # "none" /\ cli # "opencode"
    /\ extracted # Unjudged => reader \in {"ended", "stopped"} /\ process # "running"

\* The state is what the lines taken say.
Folded ==
    /\ cli \in {"claude", "cursor"} /\ threw = "none" =>
          IsLatest(state.final, TakenOf({"good", "bad"}))
    /\ cli = "codex" /\ threw = "none" =>
          /\ IsLatest(state.final, TakenOf({"text"}))
          /\ IF TakenOf(Failure) # {} THEN IsLatest(state.error, TakenOf(Failure))
             ELSE IsEarliest(state.error, TakenOf(Fault))
          /\ state.turns = Cardinality(TakenOf({"turn"}))
          /\ state.invalid = (TakenOf(Invalid) # {})
    /\ cli # "codex" => state.invalid = FALSE
    /\ cli = "opencode" =>
          /\ {state.json[k] : k \in DOMAIN state.json} = TakenOf(Line)
          /\ \A j, k \in DOMAIN state.json : j < k => state.json[j] < state.json[k]

AskedTools == {asked[k].tool : k \in DOMAIN asked}
ToolsUpto(n) == UNION {ToSet(Tools(i)) : i \in 1..n}

\* What was asked for, what is asked for now, and what is not.
Asked ==
    /\ \A k \in DOMAIN asked : 1 <= asked[k].turn /\ asked[k].turn <= Turn
    /\ \A j, k \in DOMAIN asked : j < k =>
          asked[j].tool # asked[k].tool /\ asked[j].turn <= asked[k].turn
    /\ asking # <<>> => 1 <= Turn
    /\ \A j \in DOMAIN asking : asking[j] \notin AskedTools
    /\ \A j, k \in DOMAIN asking : j < k => asking[j] # asking[k]
    /\ cli \in {"claude", "cursor"} => \A t \in AskedTools \cup ToSet(asking) : t[1] <= taken
    /\ cli \in {"codex", "opencode"} => state.seen = AskedTools
    /\ threw = "none" /\ aborts = <<>> =>
          AskedTools \cup ToSet(asking) = ToolsUpto(taken)

\* The tool a run was aborted for.
Denied ==
    /\ aborts # <<>> => state.denied \in ToSet(aborts)
    /\ state.denied # None =>
          aborts # <<>> \/ (cli = "cursor" /\ threw = "onToolUseObserved")
    /\ cli \in {"claude", "cursor"} =>
          (state.denied # None => asking = <<>>) /\ Len(aborts) <= 1
    /\ extracted # Unjudged =>
          /\ aborts # <<>> => extracted.kind = "denied" /\ extracted.tool \in ToSet(aborts)
          /\ extracted.kind = "denied" =>
                aborts # <<>> \/ (cli = "cursor" /\ threw = "onToolUseObserved")

-----------------------------------------------------------------------------
(* Sets of numbers *)

\* The least of some numbers; a property of every number fails first at one.
LEMMA LeastNatural ==
    ASSUME NEW T, T \subseteq Nat, T # {}
    PROVE  \E n \in T : \A m \in T : n <= m
<1>1. PICK n \in T : \A m \in T : ~(<<m, n>> \in OpToRel(<, Nat))
  BY NatLessThanWellFounded, WFMin
<1>2. \A m \in T : ~(m < n)
  BY <1>1 DEF OpToRel
<1> QED BY <1>2

\* The greatest of a set of numbers is one of them.
LEMMA LatestProperties ==
    ASSUME NEW n \in Nat, NEW S, S \subseteq 1..n, S # {}
    PROVE  Latest(S) \in S /\ \A j \in S : j <= Latest(S)
<1> DEFINE Bound == {x \in Nat : \A j \in S : j <= x}
<1>1. n \in Bound
  OBVIOUS
<1>2. PICK x \in Bound : \A y \in Bound : x <= y
  BY <1>1, LeastNatural
<1>3. x \in S
  <2>1. SUFFICES ASSUME x \notin S PROVE FALSE
    OBVIOUS
  <2>2. PICK j \in S : TRUE
    OBVIOUS
  <2>3. x \in Nat \ {0} /\ \A i \in S : i <= x - 1
    BY <1>2, <2>1, <2>2
  <2>4. x - 1 \in Bound
    BY <2>3
  <2> QED BY <2>3, <2>4, <1>2
<1>4. \E i \in S : \A j \in S : j <= i
  BY <1>2, <1>3
<1> QED BY <1>4 DEF Latest

\* So is the least.
LEMMA EarliestProperties ==
    ASSUME NEW n \in Nat, NEW S, S \subseteq 1..n, S # {}
    PROVE  Earliest(S) \in S /\ \A j \in S : Earliest(S) <= j
<1>1. S \subseteq Nat
  OBVIOUS
<1> QED BY <1>1, LeastNatural DEF Earliest

\* The rank of a number in a set.
LEMMA RankProperties ==
    ASSUME NEW n \in Nat, NEW S, S \subseteq 1..n
    PROVE  /\ IsFiniteSet(S) /\ Cardinality(S) \in Nat
           /\ \A i \in Nat : Rank(S, i) \in Nat
           /\ Rank(S, 0) = 0 /\ Rank(S, n) = Cardinality(S)
           /\ \A i, j \in S : i < j => Rank(S, i) < Rank(S, j)
           /\ \A i \in S : Rank(S, i) \in 1..Cardinality(S)
<1> DEFINE Upto(i) == {j \in S : j <= i}
<1>0. \A i \in S : i \in Nat /\ 1 <= i /\ i <= n
  OBVIOUS
<1>1. IsFiniteSet(1..n)
  BY FS_Interval
<1>2. IsFiniteSet(S) /\ Cardinality(S) \in Nat
  BY <1>1, FS_Subset, FS_CardinalityType
<1>3. ASSUME NEW i PROVE /\ IsFiniteSet(Upto(i)) /\ Rank(S, i) = Cardinality(Upto(i))
                         /\ Rank(S, i) \in Nat /\ Rank(S, i) <= Cardinality(S)
  BY <1>2, FS_Subset, FS_CardinalityType DEF Rank
<1>4. Upto(0) = {} /\ Upto(n) = S
  <2>1. \A j \in S : j <= n /\ ~(j <= 0)
    BY <1>0
  <2> QED BY <2>1
<1>5. Rank(S, 0) = 0 /\ Rank(S, n) = Cardinality(S)
  BY <1>3, <1>4, FS_EmptySet
<1>7. ASSUME NEW i \in S, NEW j \in S, i < j PROVE Rank(S, i) < Rank(S, j)
  <2>1. Upto(i) \in SUBSET Upto(j) /\ j \in Upto(j) /\ j \notin Upto(i)
    <3>1. i \in Nat /\ j \in Nat /\ i < j
      BY <1>0, <1>7
    <3>2. \A x \in S : x <= i => x <= j
      BY <3>1, <1>0
    <3>3. ~(j <= i) /\ j <= j
      BY <3>1
    <3> QED BY <3>2, <3>3
  <2>2. Cardinality(Upto(i)) <= Cardinality(Upto(j)) /\ Cardinality(Upto(i)) # Cardinality(Upto(j))
    BY <2>1, <1>3, FS_Subset
  <2> QED BY <2>2, <1>3
<1>8. ASSUME NEW i \in S PROVE Rank(S, i) \in 1..Cardinality(S)
  <2>1. i \in Upto(i)
    BY <1>0
  <2>2. /\ IsFiniteSet(Upto(i)) /\ Rank(S, i) = Cardinality(Upto(i))
        /\ Rank(S, i) \in Nat /\ Rank(S, i) <= Cardinality(S)
    BY <1>3
  <2>3. Rank(S, i) # 0
    <3> HIDE DEF Upto
    <3> QED BY <2>1, <2>2, FS_EmptySet
  <2> QED BY <2>2, <2>3, <1>2
<1> QED BY <1>2, <1>3, <1>5, <1>7, <1>8

\* It grows by one at each member.
LEMMA RankGrows ==
    ASSUME NEW n \in Nat, NEW S, S \subseteq 1..n, NEW i \in Nat
    PROVE  /\ i + 1 \in S => Rank(S, i + 1) = Rank(S, i) + 1
           /\ i + 1 \notin S => Rank(S, i + 1) = Rank(S, i)
<1> DEFINE Upto(x) == {j \in S : j <= x}
<1>1. \A j \in S : j \in Nat
  OBVIOUS
<1>2. Upto(i + 1) = IF i + 1 \in S THEN Upto(i) \cup {i + 1} ELSE Upto(i)
  <2>1. \A j \in S : j <= i + 1 <=> j <= i \/ j = i + 1
    BY <1>1
  <2> QED BY <2>1
<1>3. i + 1 \notin Upto(i)
  OBVIOUS
<1>4. IsFiniteSet(Upto(i))
  <2>1. IsFiniteSet(S) /\ Upto(i) \in SUBSET S
    BY RankProperties
  <2> QED BY <2>1, FS_Subset
<1>5. Cardinality(Upto(i) \cup {i + 1}) = Cardinality(Upto(i)) + 1
  <2> HIDE DEF Upto
  <2> QED BY <1>3, <1>4, FS_AddElement
<1>6. Rank(S, i) = Cardinality(Upto(i)) /\ Rank(S, i + 1) = Cardinality(Upto(i + 1))
  BY DEF Rank
<1> QED BY <1>2, <1>5, <1>6

\* Each rank up to the size of the set is the rank of one member.
LEMMA RankedMember ==
    ASSUME NEW n \in Nat, NEW S, S \subseteq 1..n, NEW k \in 1..Cardinality(S)
    PROVE  \E i \in S : Rank(S, i) = k
<1> DEFINE Reached == {x \in Nat : Rank(S, x) >= k}
<1>0. /\ Cardinality(S) \in Nat /\ Rank(S, 0) = 0 /\ Rank(S, n) = Cardinality(S)
      /\ \A i \in Nat : Rank(S, i) \in Nat
  BY RankProperties
<1>1. n \in Reached
  BY <1>0
<1>2. PICK x \in Reached : \A y \in Reached : x <= y
  BY <1>1, LeastNatural
<1>3. x # 0
  BY <1>0, <1>2
<1>4. x - 1 \in Nat /\ x - 1 \notin Reached /\ (x - 1) + 1 = x
  BY <1>2, <1>3
<1>5. Rank(S, x - 1) \in Nat /\ Rank(S, x - 1) < k /\ Rank(S, x) >= k
  <2>1. Rank(S, x - 1) \in Nat
    BY <1>0, <1>4
  <2>2. ~(Rank(S, x - 1) >= k)
    BY <1>4
  <2>3. Rank(S, x) >= k
    BY <1>2
  <2>4. k \in Nat
    BY <1>0
  <2>5. Rank(S, x - 1) < k
    <3> HIDE DEF Reached
    <3> QED BY <2>1, <2>2, <2>4
  <2> HIDE DEF Reached
  <2> QED BY <2>1, <2>3, <2>5
<1> DEFINE y == x - 1
<1>6. y \in Nat /\ y + 1 = x
  BY <1>4
<1>7. (x \notin S => Rank(S, x) = Rank(S, y)) /\ (x \in S => Rank(S, x) = Rank(S, y) + 1)
  <2> HIDE DEF Reached, y
  <2> QED BY <1>6, RankGrows
<1> QED BY <1>5, <1>6, <1>7

\* What Ascending makes of a set.
LEMMA AscendingProperties ==
    ASSUME NEW n \in Nat, NEW S, S \subseteq 1..n
    PROVE  /\ Ascending(S) \in Seq(S) /\ Len(Ascending(S)) = Cardinality(S)
           /\ \A k \in 1..Cardinality(S) : Ascending(S)[k] \in S /\ Rank(S, Ascending(S)[k]) = k
           /\ \A i \in S : Ascending(S)[Rank(S, i)] = i
<1>1. /\ Cardinality(S) \in Nat
      /\ \A i, j \in S : i < j => Rank(S, i) < Rank(S, j)
      /\ \A i \in S : Rank(S, i) \in 1..Cardinality(S)
  BY RankProperties
<1>2. \A k \in 1..Cardinality(S) : Ascending(S)[k] \in S /\ Rank(S, Ascending(S)[k]) = k
  BY RankedMember DEF Ascending
<1>3. Ascending(S) \in [1..Cardinality(S) -> S]
  BY <1>2 DEF Ascending
<1>4. Ascending(S) \in Seq(S) /\ Len(Ascending(S)) = Cardinality(S)
  BY <1>1, <1>3
<1>5. ASSUME NEW i \in S PROVE Ascending(S)[Rank(S, i)] = i
  <2> DEFINE j == Ascending(S)[Rank(S, i)]
  <2>1. j \in S /\ Rank(S, j) = Rank(S, i)
    BY <1>1, <1>2
  <2>2. Rank(S, i) \in Nat /\ i \in Nat /\ j \in Nat
    <3>1. \A x \in S : x \in Nat
      OBVIOUS
    <3>2. Rank(S, i) \in Nat
      BY <1>1
    <3> HIDE DEF j
    <3> QED BY <3>1, <3>2, <2>1
  <2>3. ~(i < j) /\ ~(j < i)
    <3> HIDE DEF j
    <3> QED BY <2>1, <2>2, <1>1
  <2> QED BY <2>2, <2>3
<1> QED BY <1>2, <1>4, <1>5

\* A set given in its order is its own enumeration.
LEMMA AscendingIs ==
    ASSUME NEW n \in Nat, NEW m \in Nat, NEW f \in [1..m -> 1..n],
           \A i, j \in 1..m : i < j => f[i] < f[j]
    PROVE  LET S == {f[i] : i \in 1..m} IN Cardinality(S) = m /\ Ascending(S) = f
<1> DEFINE S == {f[i] : i \in 1..m}
<1>1. S \subseteq 1..n
  OBVIOUS
<1>2. ASSUME NEW k \in 0..m PROVE Cardinality({f[i] : i \in 1..k}) = k
  <2> DEFINE T == {f[i] : i \in 1..k}
             g == [i \in 1..k |-> f[i]]
  <2>1. \A i, j \in 1..k : i # j => f[i] # f[j]
    OBVIOUS
  <2>2. g \in Bijection(1..k, T)
    BY <2>1 DEF Bijection, Injection, Surjection, IsInjective
  <2>3. IsFiniteSet(1..k) /\ Cardinality(1..k) = k
    BY FS_Interval
  <2> QED BY <2>2, <2>3, FS_Bijection DEF ExistsBijection
<1>3. Cardinality(S) = m
  BY <1>2
<1>4. ASSUME NEW k \in 1..m PROVE Rank(S, f[k]) = k
  <2>1. {j \in S : j <= f[k]} = {f[i] : i \in 1..k}
    OBVIOUS
  <2> QED BY <2>1, <1>2 DEF Rank
<1>5. ASSUME NEW k \in 1..m PROVE Ascending(S)[k] = f[k]
  <2>1. f[k] \in S
    OBVIOUS
  <2> HIDE DEF S
  <2> QED BY <2>1, <1>1, <1>4, AscendingProperties
<1>6. Ascending(S) = f
  BY <1>3, <1>5 DEF Ascending
<1> QED BY <1>3, <1>6

-----------------------------------------------------------------------------
(* The text *)

\* s is the text of the lines behind line a, from its start.
Tells(s, a) ==
    \A i \in Nat \ {0}, b \in 1..3 :
        3 * (i - 1) + b \in 1..Len(s) => s[3 * (i - 1) + b] = Symbol(a + i, b)

\* The symbols of a line: none is a newline but the third.
LEMMA BodyProperties ==
    ASSUME NEW i \in Nat \ {0}
    PROVE  /\ Len(Body(i)) = 2 /\ Body(i)[1] = <<i, 1>> /\ Body(i)[2] = <<i, 2>>
           /\ Symbol(i, 1) = <<i, 1>> /\ Symbol(i, 2) = <<i, 2>> /\ Symbol(i, 3) = Newline
           /\ Symbol(i, 1) # Newline /\ Symbol(i, 2) # Newline
           /\ LineEnds(Body(i)) = {} /\ LineEnds(<<Symbol(i, 1)>>) = {}
           /\ Number(Body(i)) = i /\ Number(<<Symbol(i, 1)>>) = i
           /\ <<Symbol(i, 1)>> # Body(i)
           /\ i <= Length => Body(i) \in Seq(Glyph) /\ \A b \in 1..3 : Symbol(i, b) \in Glyph
<1>1. /\ Len(Body(i)) = 2 /\ Body(i)[1] = <<i, 1>> /\ Body(i)[2] = <<i, 2>>
      /\ Number(Body(i)) = i
  BY DEF Body, Number
<1>2. Symbol(i, 1) = <<i, 1>> /\ Symbol(i, 2) = <<i, 2>> /\ Symbol(i, 3) = Newline
  BY <1>1 DEF Symbol
<1>3. Symbol(i, 1) # Newline /\ Symbol(i, 2) # Newline
  BY <1>2 DEF Newline
<1>4. LineEnds(Body(i)) = {}
  BY <1>2, <1>3 DEF LineEnds, Body
<1>5. LineEnds(<<Symbol(i, 1)>>) = {} /\ Number(<<Symbol(i, 1)>>) = i
  BY <1>2, <1>3 DEF LineEnds, Number
<1>6. <<Symbol(i, 1)>> # Body(i)
  BY <1>1
<1>7. ASSUME i <= Length PROVE Body(i) \in Seq(Glyph) /\ \A b \in 1..3 : Symbol(i, b) \in Glyph
  <2>1. Length \in Nat
    BY RunStreamAssumption
  <2>2. <<i, 1>> \in Glyph /\ <<i, 2>> \in Glyph /\ Newline \in Glyph
    BY <2>1, <1>7 DEF Glyph, Newline
  <2>3. \A b \in 1..3 : b = 1 \/ b = 2 \/ b = 3
    OBVIOUS
  <2> QED BY <2>2, <2>3, <1>2 DEF Body
<1> QED BY <1>1, <1>2, <1>3, <1>4, <1>5, <1>6, <1>7

\* A text from the start of a line is cut into its whole lines and a rest that
\* holds no newline.
LEMMA TextIsCut ==
    ASSUME NEW s \in Seq(Glyph), NEW a \in Nat, Tells(s, a)
    PROVE  \E m \in Nat :
              /\ 3 * m <= Len(s) /\ Len(s) <= 3 * m + 2
              /\ Complete(s) = [k \in 1..m |-> Body(a + k)]
              /\ Rest(s) \in Seq(Glyph) /\ Len(Rest(s)) = Len(s) - 3 * m
              /\ \A k \in 1..Len(Rest(s)) : Rest(s)[k] = s[3 * m + k]
<1>1. Len(s) \in Nat /\ DOMAIN s = 1..Len(s)
  OBVIOUS
<1>2. PICK m \in Nat : 3 * m <= Len(s) /\ Len(s) <= 3 * m + 2
  <2>1. Len(s) \div 3 \in Nat /\ 3 * (Len(s) \div 3) <= Len(s) /\ Len(s) <= 3 * (Len(s) \div 3) + 2
    BY <1>1
  <2> QED BY <2>1
<1>3. ASSUME NEW i \in 1..m
      PROVE  s[3 * (i - 1) + 1] = <<a + i, 1>> /\ s[3 * (i - 1) + 2] = <<a + i, 2>> /\ s[3 * i] = Newline
  <2>1. /\ i \in Nat \ {0} /\ a + i \in Nat \ {0}
        /\ 3 * (i - 1) + 1 \in 1..Len(s) /\ 3 * (i - 1) + 2 \in 1..Len(s)
        /\ 3 * (i - 1) + 3 \in 1..Len(s) /\ 3 * (i - 1) + 3 = 3 * i
    BY <1>1, <1>2
  <2>2. /\ s[3 * (i - 1) + 1] = Symbol(a + i, 1) /\ s[3 * (i - 1) + 2] = Symbol(a + i, 2)
        /\ s[3 * (i - 1) + 3] = Symbol(a + i, 3)
    BY <2>1 DEF Tells
  <2> QED BY <2>1, <2>2, BodyProperties
<1>4. LineEnds(s) = {3 * i : i \in 1..m}
  <2>1. ASSUME NEW i \in 1..m PROVE 3 * i \in LineEnds(s)
    <3>1. s[3 * i] = Newline
      BY <1>3, <2>1
    <3>2. 3 * i \in 1..Len(s)
      BY <1>1, <1>2, <2>1
    <3> QED BY <1>1, <3>1, <3>2 DEF LineEnds
  <2>2. ASSUME NEW k \in LineEnds(s) PROVE \E i \in 1..m : k = 3 * i
    <3>1. k \in 1..Len(s) /\ s[k] = Newline
      BY <1>1 DEF LineEnds
    <3>2. PICK i \in Nat \ {0} : k = 3 * (i - 1) + 1 \/ k = 3 * (i - 1) + 2 \/ k = 3 * (i - 1) + 3
      <4>1. (k - 1) \div 3 \in Nat /\ 3 * ((k - 1) \div 3) <= k - 1 /\ k - 1 <= 3 * ((k - 1) \div 3) + 2
        BY <1>1, <3>1
      <4> DEFINE i == (k - 1) \div 3 + 1
      <4>2. i \in Nat \ {0} /\ i - 1 = (k - 1) \div 3
        BY <4>1
      <4> QED BY <4>1, <4>2, <3>1, <1>1
    <3>3. a + i \in Nat \ {0}
      OBVIOUS
    <3>4. k # 3 * (i - 1) + 1 /\ k # 3 * (i - 1) + 2
      <4>1. /\ k = 3 * (i - 1) + 1 => s[k] = Symbol(a + i, 1)
            /\ k = 3 * (i - 1) + 2 => s[k] = Symbol(a + i, 2)
        BY <3>1 DEF Tells
      <4> QED BY <4>1, <3>1, <3>3, BodyProperties
    <3> QED BY <3>1, <3>2, <3>4, <1>1, <1>2
  <2> QED BY <2>1, <2>2
<1> DEFINE f == [i \in 1..m |-> 3 * i]
<1>5. f \in [1..m -> 1..(3 * m)] /\ \A i, j \in 1..m : i < j => f[i] < f[j]
  OBVIOUS
<1>6. LineEnds(s) = {f[i] : i \in 1..m}
  BY <1>4
<1>7. Cardinality(LineEnds(s)) = m /\ Ascending(LineEnds(s)) = f
  <2>1. 3 * m \in Nat
    OBVIOUS
  <2> HIDE DEF f
  <2> QED BY <1>5, <1>6, <2>1, AscendingIs
<1>8. Complete(s) = [k \in 1..m |-> Body(a + k)]
  <2>1. Len(f) = m
    OBVIOUS
  <2>2. ASSUME NEW k \in 1..m
        PROVE  SubSeq(s, IF k = 1 THEN 1 ELSE f[k - 1] + 1, f[k] - 1) = Body(a + k)
    <3>1. (IF k = 1 THEN 1 ELSE f[k - 1] + 1) = 3 * (k - 1) + 1 /\ f[k] - 1 = 3 * (k - 1) + 2
      OBVIOUS
    <3> DEFINE p == 3 * (k - 1) + 1
               t == SubSeq(s, p, p + 1)
    <3>2. p \in Int /\ p + 1 \in Int /\ 1 <= p /\ p + 1 <= Len(s) /\ p + 1 = 3 * (k - 1) + 2
      BY <1>1, <1>2
    <3>3. s[p] = <<a + k, 1>> /\ s[p + 1] = <<a + k, 2>>
      BY <1>3, <3>2
    <3>4. \A i \in p..(p + 1) : s[i] \in Glyph
      BY <3>2, <1>1
    <3> HIDE DEF p
    <3>5. t \in Seq(Glyph) /\ Len(t) = 2 /\ t[1] = s[p] /\ t[2] = s[p + 1]
      BY <3>2, <3>4, SubSeqProperties
    <3>6. t = Body(a + k)
      <4> HIDE DEF t
      <4>1. t = <<t[1], t[2]>>
        BY <3>5
      <4> QED BY <4>1, <3>3, <3>5 DEF Body
    <3> QED BY <3>1, <3>2, <3>6 DEF p
  <2> HIDE DEF f
  <2> QED BY <1>7, <2>1, <2>2 DEF Complete
<1>9. LastEnd(s) = 3 * m
  <2>1. CASE m = 0
    <3>1. LineEnds(s) = {}
      BY <2>1, <1>4
    <3> QED BY <3>1, <2>1 DEF LastEnd
  <2>2. CASE m # 0
    <3>1. 3 * m \in LineEnds(s) /\ LineEnds(s) \subseteq 1..(3 * m) /\ 3 * m \in Nat
      BY <2>2, <1>4
    <3>2. Latest(LineEnds(s)) \in LineEnds(s) /\ \A j \in LineEnds(s) : j <= Latest(LineEnds(s))
      BY <3>1, LatestProperties
    <3>3. Latest(LineEnds(s)) = 3 * m
      BY <3>1, <3>2
    <3> QED BY <3>1, <3>3 DEF LastEnd
  <2> QED BY <2>1, <2>2
<1>10. /\ Rest(s) \in Seq(Glyph) /\ Len(Rest(s)) = Len(s) - 3 * m
       /\ \A k \in 1..Len(Rest(s)) : Rest(s)[k] = s[3 * m + k]
  <2> DEFINE p == 3 * m + 1
  <2>1. p \in Int /\ Len(s) \in Int /\ \A i \in p..Len(s) : s[i] \in Glyph
    BY <1>1
  <2>2. Rest(s) = SubSeq(s, p, Len(s))
    BY <1>9 DEF Rest
  <2>3. /\ Rest(s) \in Seq(Glyph) /\ Len(Rest(s)) = IF p <= Len(s) THEN Len(s) - p + 1 ELSE 0
        /\ \A i \in 1..(Len(s) - p + 1) : Rest(s)[i] = s[p + i - 1]
    <3> HIDE DEF p
    <3> QED BY <2>1, <2>2, SubSeqProperties
  <2>4. Len(Rest(s)) = Len(s) - 3 * m
    <3>1. CASE p <= Len(s)
      <4>1. Len(Rest(s)) = Len(s) - p + 1
        BY <2>3, <3>1
      <4> QED BY <4>1, <1>1
    <3>2. CASE ~(p <= Len(s))
      <4>1. Len(Rest(s)) = 0
        BY <2>3, <3>2
      <4>2. Len(s) = 3 * m
        <5> DEFINE q == 3 * m
        <5>1. q \in Nat /\ Len(s) < q + 1 /\ q <= Len(s)
          BY <3>2, <1>1, <1>2
        <5>2. Len(s) = q
          <6> DEFINE l == Len(s)
          <6>1. l \in Nat /\ l < q + 1 /\ q <= l /\ q \in Nat
            BY <5>1, <1>1
          <6>2. l = q
            <7> HIDE DEF q, l
            <7> QED BY <6>1
          <6> QED BY <6>2
        <5> QED BY <5>2
      <4> QED BY <4>1, <4>2
    <3> QED BY <3>1, <3>2
  <2>5. ASSUME NEW k \in 1..Len(Rest(s)) PROVE Rest(s)[k] = s[3 * m + k]
    <3>1. p + k - 1 = 3 * m + k /\ k \in 1..(Len(s) - p + 1)
      BY <2>4, <1>1
    <3> HIDE DEF p
    <3> QED BY <3>1, <2>3
  <2> QED BY <2>3, <2>4, <2>5
<1> QED BY <1>2, <1>8, <1>10

\* A line, or the start of one, is appended to a text of whole lines.
LEMMA TextGrows ==
    ASSUME NEW s \in Seq(Glyph), NEW a \in Nat, NEW d \in Nat, Tells(s, a), Len(s) = 3 * d,
           NEW t \in Seq(Glyph), Len(t) <= 3,
           \A b \in 1..Len(t) : t[b] = Symbol(a + d + 1, b)
    PROVE  /\ s \o t \in Seq(Glyph) /\ Len(s \o t) = 3 * d + Len(t)
           /\ Tells(s \o t, a)
<1>1. /\ s \o t \in Seq(Glyph) /\ Len(s \o t) = 3 * d + Len(t) /\ Len(t) \in Nat
      /\ \A p \in 1..(3 * d + Len(t)) : (s \o t)[p] = IF p <= 3 * d THEN s[p] ELSE t[p - 3 * d]
  <2>1. Len(s) \in Nat /\ Len(t) \in Nat /\ 3 * d \in Nat
    OBVIOUS
  <2>2. s \o t \in Seq(Glyph) /\ Len(s \o t) = Len(s) + Len(t)
        /\ \A p \in 1..(Len(s) + Len(t)) : (s \o t)[p] = IF p <= Len(s) THEN s[p] ELSE t[p - Len(s)]
    BY ConcatProperties
  <2> QED BY <2>1, <2>2
<1>2. ASSUME NEW i \in Nat \ {0}, NEW b \in 1..3, 3 * (i - 1) + b \in 1..Len(s \o t)
      PROVE  (s \o t)[3 * (i - 1) + b] = Symbol(a + i, b)
  <2>1. CASE i <= d
    <3>1. 3 * (i - 1) + b <= 3 * d /\ 3 * (i - 1) + b \in 1..Len(s)
      BY <2>1
    <3> QED BY <3>1, <1>1, <1>2 DEF Tells
  <2>2. CASE ~(i <= d)
    <3>1. i = d + 1
      BY <2>2, <1>1, <1>2
    <3>2. 3 * (i - 1) + b = 3 * d + b /\ ~(3 * d + b <= 3 * d) /\ a + i = a + d + 1
      BY <3>1
    <3>3. b \in 1..Len(t) /\ 3 * d + b \in 1..(3 * d + Len(t)) /\ (3 * d + b) - 3 * d = b
      <4>1. 3 * d + b \in 1..(3 * d + Len(t))
        BY <3>2, <1>1, <1>2
      <4> QED BY <4>1, <1>1
    <3> QED BY <3>2, <3>3, <1>1
  <2> QED BY <2>1, <2>2
<1> QED BY <1>1, <1>2 DEF Tells

\* Whole lines are cut off a text at its front.
LEMMA TextShrinks ==
    ASSUME NEW s \in Seq(Glyph), NEW a \in Nat, Tells(s, a), NEW m \in Nat, 3 * m <= Len(s),
           NEW t \in Seq(Glyph), Len(t) = Len(s) - 3 * m, \A k \in 1..Len(t) : t[k] = s[3 * m + k]
    PROVE  Tells(t, a + m)
<1>1. Len(s) \in Nat /\ Len(t) \in Nat
  OBVIOUS
<1>2. ASSUME NEW i \in Nat \ {0}, NEW b \in 1..3, 3 * (i - 1) + b \in 1..Len(t)
      PROVE  t[3 * (i - 1) + b] = Symbol(a + m + i, b)
  <2>1. /\ m + i \in Nat \ {0} /\ 3 * m + (3 * (i - 1) + b) = 3 * ((m + i) - 1) + b
        /\ 3 * ((m + i) - 1) + b \in 1..Len(s) /\ a + (m + i) = a + m + i
    <3>1. 3 * (i - 1) + b \in 1..Len(t)
      BY <1>2
    <3> DEFINE p == 3 * (i - 1) + b
    <3>2. p \in Nat /\ 3 * m + p = 3 * ((m + i) - 1) + b
      OBVIOUS
    <3>3. 3 * m \in Nat /\ p \in 1..Len(t)
      BY <1>2
    <3>4. 3 * m + p \in 1..Len(s)
      <4> HIDE DEF p
      <4> QED BY <1>1, <3>3
    <3> QED BY <3>2, <3>4
  <2>2. s[3 * ((m + i) - 1) + b] = Symbol(a + (m + i), b)
    BY <2>1 DEF Tells
  <2> QED BY <1>2, <2>1, <2>2
<1> QED BY <1>2 DEF Tells

-----------------------------------------------------------------------------
(* Nothing is lost between the pipe and the handlers *)

LengthOfLeft(d) ==
    \/ Len(Left) = 3 * d /\ (bare => Left = <<>>)
    \/ bare /\ Len(Left) + 1 = 3 * d
    \/ bare /\ Len(Left) + 2 = 3 * d /\ script[Len(script)] = "junk"

LineAtHand(line, i) ==
    line = Body(i) \/ (line = <<Symbol(i, 1)>> /\ script[i] = "junk")

\* The invariant of the text with the number d of the lines in it.
Told ==
    /\ Left \in Seq(Glyph) /\ AtHand \in Nat
    /\ \A k \in 1..Len(lines) : LineAtHand(lines[k], taken + k)
    /\ Tells(Left, AtHand)
    /\ \E d \in Nat : Len(script) = AtHand + d /\ LengthOfLeft(d)

\* The property follows from the invariant with the number of lines.
LEMMA ConservedFromTold == StreamTypeOK /\ Told => Conserved
<1> SUFFICES ASSUME StreamTypeOK, Told PROVE Conserved
  OBVIOUS
<1>1. /\ Left \in Seq(Glyph) /\ Len(Left) \in Nat /\ DOMAIN Left = 1..Len(Left)
      /\ DOMAIN lines = 1..Len(lines) /\ Len(lines) \in Nat /\ Len(script) \in Nat
      /\ AtHand \in Nat
  BY DEF Told, StreamTypeOK
<1>2. PICK d \in Nat : Len(script) = AtHand + d /\ LengthOfLeft(d)
  BY DEF Told
<1>3. Len(script) - AtHand = d /\ AtHand <= Len(script)
  BY <1>1, <1>2
<1>4. ASSUME NEW i \in 1..d, NEW b \in 1..3, 3 * (i - 1) + b \in DOMAIN Left
      PROVE  Left[3 * (i - 1) + b] = Symbol(AtHand + i, b)
  <2>1. i \in Nat \ {0}
    OBVIOUS
  <2> QED BY <1>1, <1>4, <2>1 DEF Told, Tells
<1>5. \A k \in DOMAIN lines : LineAtHand(lines[k], taken + k)
  BY <1>1 DEF Told
<1>6. LengthOfLeft(Len(script) - AtHand)
  BY <1>2, <1>3
<1> QED BY <1>3, <1>4, <1>5, <1>6 DEF Conserved, LineAtHand, LengthOfLeft

TextUnchanged == UNCHANGED <<script, bare, buffer, pipe, lines, taken>>

\* A step that leaves the text alone.
LEMMA ToldUnchanged == Told /\ TextUnchanged => Told'
<1> SUFFICES ASSUME Told, TextUnchanged PROVE Told'
  OBVIOUS
<1>1. Left' = Left /\ AtHand' = AtHand /\ UNCHANGED <<script, bare, lines, taken>>
  BY DEF TextUnchanged, Left, AtHand
<1>2. \A k \in 1..Len(lines) : LineAtHand(lines[k], taken + k)'
  BY <1>1 DEF Told, LineAtHand
<1>3. PICK d \in Nat : Len(script) = AtHand + d /\ LengthOfLeft(d)
  BY DEF Told
<1>4. LengthOfLeft(d)'
  BY <1>1, <1>3 DEF LengthOfLeft
<1>5. Left' \in Seq(Glyph) /\ AtHand' \in Nat /\ Tells(Left', AtHand')
  BY <1>1 DEF Told
<1>6. Len(script') = AtHand' + d
  BY <1>1, <1>3
<1>7. (\A k \in 1..Len(lines) : LineAtHand(lines[k], taken + k))'
  BY <1>1, <1>2 DEF LineAtHand
<1> QED BY <1>4, <1>5, <1>6, <1>7 DEF Told

\* The types of the text, as the lemmas below need them.
LEMMA TextTypes ==
    ASSUME StreamTypeOK
    PROVE  /\ buffer \in Seq(Glyph) /\ pipe \in Seq(Glyph) /\ lines \in Seq(Seq(Glyph))
           /\ script \in Seq(Line \cup {"junk"}) /\ Len(script) \in Nat /\ Len(script) <= Length
           /\ DOMAIN script = 1..Len(script) /\ DOMAIN lines = 1..Len(lines) /\ Len(lines) \in Nat
           /\ taken \in Nat /\ taken <= Len(script) /\ Length \in Nat
           /\ Len(pipe) \in Nat /\ Len(buffer) \in Nat /\ bare \in BOOLEAN
           /\ Len(Left) = Len(buffer) + Len(pipe)
<1>1. /\ buffer \in Seq(Glyph) /\ pipe \in Seq(Glyph) /\ lines \in Seq(Seq(Glyph))
      /\ script \in Seq(Line \cup {"junk"}) /\ Len(script) <= Length
      /\ taken \in 0..Len(script) /\ bare \in BOOLEAN
  BY DEF StreamTypeOK
<1>2. Len(Left) = Len(buffer) + Len(pipe)
  BY <1>1, ConcatProperties DEF Left
<1> QED BY <1>1, <1>2, RunStreamAssumption

\* Symbols are appended one text at a time.
LEMMA GlyphsAssociative ==
    \A u, v, w \in Seq(Glyph) : (u \o v) \o w = u \o (v \o w)
<1> SUFFICES ASSUME NEW u \in Seq(Glyph), NEW v \in Seq(Glyph), NEW w \in Seq(Glyph)
             PROVE  (u \o v) \o w = u \o (v \o w)
  OBVIOUS
<1> QED BY ConcatAssociative

\* The child appends a line, or a part of one, to the text.
LEMMA TextAppended ==
    ASSUME StreamTypeOK, Told, ~bare, NEW kind, NEW t \in Seq(Glyph), Len(t) \in 1..3,
           \A b \in 1..Len(t) : t[b] = Symbol(Len(script) + 1, b),
           script' = Append(script, kind), pipe' = pipe \o t,
           UNCHANGED <<buffer, lines, taken>>,
           bare' \in BOOLEAN, bare' = (Len(t) # 3), Len(t) = 1 => kind = "junk"
    PROVE  Told' /\ pipe' \in Seq(Glyph) /\ Len(pipe') = Len(pipe) + Len(t)
<1>1. /\ buffer \in Seq(Glyph) /\ pipe \in Seq(Glyph) /\ Len(lines) \in Nat /\ taken \in Nat
      /\ Len(script) \in Nat
  BY TextTypes
<1>2. Left \in Seq(Glyph) /\ AtHand \in Nat /\ Tells(Left, AtHand) /\ AtHand = taken + Len(lines)
  BY DEF Told, AtHand
<1>3. PICK d \in Nat : Len(script) = AtHand + d /\ LengthOfLeft(d)
  BY DEF Told
<1>4. Len(Left) = 3 * d
  BY <1>3 DEF LengthOfLeft
<1>5. Left' = Left \o t /\ AtHand' = AtHand
  <2>1. (buffer \o pipe) \o t = buffer \o (pipe \o t)
    BY <1>1, GlyphsAssociative, Zenon
  <2>2. Left' = buffer \o (pipe \o t)
    BY DEF Left
  <2>3. Left = buffer \o pipe
    BY DEF Left
  <2>4. AtHand' = AtHand
    BY DEF AtHand
  <2> QED BY <2>1, <2>2, <2>3, <2>4
<1>6. AtHand + d + 1 = Len(script) + 1
  BY <1>1, <1>2, <1>3
<1>7. Left' \in Seq(Glyph) /\ Len(Left') = 3 * d + Len(t) /\ Tells(Left', AtHand)
  <2>1. Len(t) <= 3 /\ \A b \in 1..Len(t) : t[b] = Symbol(AtHand + d + 1, b)
    <3>1. \A x \in 1..3 : x <= 3
      OBVIOUS
    <3>2. \A b \in 1..Len(t) : t[b] = Symbol(Len(script) + 1, b)
      OBVIOUS
    <3> QED BY <1>6, <3>1, <3>2
  <2>2. /\ Left \o t \in Seq(Glyph) /\ Len(Left \o t) = 3 * d + Len(t)
        /\ Tells(Left \o t, AtHand)
    BY <1>2, <1>4, <2>1, TextGrows
  <2> QED BY <1>5, <2>2
<1>8. /\ Len(script') = Len(script) + 1 /\ script'[Len(script) + 1] = kind
      /\ \A i \in 1..Len(script) : script'[i] = script[i]
  <2>1. script \in Seq(Line \cup {"junk"})
    BY TextTypes
  <2> QED BY <2>1, AppendProperties
<1>9. ASSUME NEW k \in 1..Len(lines) PROVE LineAtHand(lines[k], taken + k)'
  <2>1. LineAtHand(lines[k], taken + k)
    BY DEF Told
  <2>2. taken + k \in 1..Len(script)
    BY <1>1, <1>2, <1>3
  <2>3. script'[taken + k] = script[taken + k]
    BY <1>8, <2>2
  <2> QED BY <2>1, <2>3 DEF LineAtHand
<1>10. d + 1 \in Nat /\ Len(script') = AtHand' + (d + 1)
  BY <1>1, <1>2, <1>3, <1>5, <1>8
<1>11. LengthOfLeft(d + 1)'
  <2>1. /\ Len(t) = 3 => Len(Left') = 3 * (d + 1)
        /\ Len(t) = 2 => Len(Left') + 1 = 3 * (d + 1)
        /\ Len(t) = 1 => Len(Left') + 2 = 3 * (d + 1)
    <3>1. Len(Left') = 3 * d + Len(t)
      BY <1>7
    <3>2. \A x \in 1..3 : /\ x = 3 => 3 * d + x = 3 * (d + 1)
                          /\ x = 2 => (3 * d + x) + 1 = 3 * (d + 1)
                          /\ x = 1 => (3 * d + x) + 2 = 3 * (d + 1)
      OBVIOUS
    <3> QED BY <3>1, <3>2
  <2>2. Len(t) = 1 \/ Len(t) = 2 \/ Len(t) = 3
    OBVIOUS
  <2>3. Len(t) = 1 => script'[Len(script')] = "junk"
    BY <1>8
  <2> QED BY <2>1, <2>2, <2>3 DEF LengthOfLeft
<1>12. (\A k \in 1..Len(lines) : LineAtHand(lines[k], taken + k))'
  BY <1>9 DEF LineAtHand
<1>13. Told'
  BY <1>2, <1>5, <1>7, <1>10, <1>11, <1>12 DEF Told
<1>14. pipe' \in Seq(Glyph) /\ Len(pipe') = Len(pipe) + Len(t)
  BY <1>1, ConcatProperties
<1> QED BY <1>13, <1>14

\* The child writes a line.
LEMMA WriteKeepsText ==
    ASSUME StreamTypeOK, Told, NEW kind, Write(kind)
    PROVE  Told' /\ bare' \in BOOLEAN /\ pipe' \in Seq(Glyph) /\ Len(pipe') <= Len(pipe) + 3
<1>1. Len(script) + 1 \in Nat \ {0} /\ Len(script) + 1 <= Length
  BY TextTypes DEF Write
<1> DEFINE i == Len(script) + 1
<1>2. PICK end \in {<<Newline>>, <<>>} : pipe' = pipe \o Body(i) \o end /\ bare' = (end = <<>>)
  BY DEF Write
<1> DEFINE t == Body(i) \o end
<1>3. /\ Body(i) \in Seq(Glyph) /\ Len(Body(i)) = 2 /\ \A b \in 1..3 : Symbol(i, b) \in Glyph
      /\ Body(i)[1] = Symbol(i, 1) /\ Body(i)[2] = Symbol(i, 2) /\ Newline = Symbol(i, 3)
  <2> HIDE DEF i
  <2> QED BY <1>1, BodyProperties DEF i
<1>4. Newline \in Glyph
  BY <1>3
<1>5. end \in Seq(Glyph) /\ Len(end) = (IF end = <<>> THEN 0 ELSE 1)
      /\ (end # <<>> => end[1] = Newline)
  <2>1. <<Newline>> \in Seq(Glyph) /\ Len(<<Newline>>) = 1 /\ <<Newline>>[1] = Newline
    BY <1>4
  <2>2. end = <<>> \/ end = <<Newline>>
    BY <1>2
  <2>3. <<Newline>> # <<>> /\ Len(<<>>) = 0 /\ <<>> \in Seq(Glyph)
    OBVIOUS
  <2>4. CASE end = <<>>
    BY <2>3, <2>4
  <2>5. CASE end = <<Newline>>
    BY <2>1, <2>3, <2>5
  <2> QED BY <2>2, <2>4, <2>5
<1>6. /\ t \in Seq(Glyph) /\ Len(t) = (IF end = <<>> THEN 2 ELSE 3)
      /\ \A b \in 1..Len(t) : t[b] = Symbol(i, b)
  <2>1. t \in Seq(Glyph) /\ Len(t) = 2 + Len(end)
        /\ \A b \in 1..(2 + Len(end)) : t[b] = IF b <= 2 THEN Body(i)[b] ELSE end[b - 2]
    <3> DEFINE u == Body(i)
    <3>1. u \in Seq(Glyph) /\ Len(u) = 2 /\ end \in Seq(Glyph)
      BY <1>3, <1>5
    <3> HIDE DEF u
    <3>2. /\ u \o end \in Seq(Glyph) /\ Len(u \o end) = Len(u) + Len(end)
          /\ \A b \in 1..(Len(u) + Len(end)) :
                (u \o end)[b] = IF b <= Len(u) THEN u[b] ELSE end[b - Len(u)]
      BY <3>1, ConcatProperties
    <3>3. u \o end \in Seq(Glyph) /\ Len(u \o end) = 2 + Len(end)
          /\ \A b \in 1..(2 + Len(end)) : (u \o end)[b] = IF b <= 2 THEN u[b] ELSE end[b - 2]
      BY <3>1, <3>2
    <3> QED BY <3>3 DEF u
  <2>2. Len(t) = IF end = <<>> THEN 2 ELSE 3
    <3> HIDE DEF t
    <3> QED BY <2>1, <1>5
  <2>3. ASSUME NEW b \in 1..Len(t) PROVE t[b] = Symbol(i, b)
    <3>1. b = 1 \/ b = 2 \/ (b = 3 /\ end # <<>>)
      <4> HIDE DEF t
      <4> QED BY <2>2, <2>3
    <3>2. t[b] = IF b <= 2 THEN Body(i)[b] ELSE end[b - 2]
      <4> HIDE DEF t, i
      <4> QED BY <2>1, <2>3
    <3> HIDE DEF t, i
    <3> QED BY <3>1, <3>2, <1>3, <1>5
  <2> QED BY <2>1, <2>2, <2>3
<1>7. pipe' = pipe \o t
  <2>1. pipe \in Seq(Glyph)
    BY TextTypes
  <2>2. Body(i) \in Seq(Glyph) /\ end \in Seq(Glyph)
    BY <1>3, <1>5
  <2>3. (pipe \o Body(i)) \o end = pipe \o (Body(i) \o end)
    <3> HIDE DEF i
    <3> QED BY <2>1, <2>2, ConcatAssociative
  <2> QED BY <1>2, <2>3
<1>8. ~bare /\ script' = Append(script, kind) /\ UNCHANGED <<buffer, lines, taken>>
  BY DEF Write
<1>9. Len(t) \in 1..3 /\ bare' = (Len(t) # 3) /\ bare' \in BOOLEAN /\ Len(t) # 1
  <2> HIDE DEF t
  <2> QED BY <1>2, <1>6
<1> HIDE DEF t
<1>10. Told' /\ pipe' \in Seq(Glyph) /\ Len(pipe') = Len(pipe) + Len(t)
  BY <1>6, <1>7, <1>8, <1>9, TextAppended
<1>11. Len(pipe') <= Len(pipe) + 3
  <2>1. Len(pipe) \in Nat /\ Len(t) \in 1..3 /\ Len(pipe') = Len(pipe) + Len(t)
    BY <1>9, <1>10, TextTypes
  <2>2. \A x \in Nat, y \in 1..3 : x + y <= x + 3
    OBVIOUS
  <2> QED BY <2>1, <2>2
<1> QED BY <1>9, <1>10, <1>11

\* The child leaves the start of a line.
LEMMA CutKeepsText ==
    ASSUME StreamTypeOK, Told, Cut
    PROVE  Told' /\ pipe' \in Seq(Glyph) /\ Len(pipe') = Len(pipe) + 1
<1>1. Len(script) + 1 \in Nat \ {0} /\ Len(script) + 1 <= Length
  BY TextTypes DEF Cut
<1> DEFINE i == Len(script) + 1
           t == <<Symbol(i, 1)>>
<1>2. Symbol(i, 1) \in Glyph /\ Body(i)[1] = Symbol(i, 1) /\ Body(i) \in Seq(Glyph) /\ Len(Body(i)) = 2
  <2>1. i \in Nat \ {0} /\ i <= Length /\ 1 \in 1..3
    BY <1>1
  <2> HIDE DEF i
  <2>2. Body(i) \in Seq(Glyph) /\ \A b \in 1..3 : Symbol(i, b) \in Glyph
    BY <2>1, BodyProperties
  <2>3. Body(i)[1] = Symbol(i, 1) /\ Len(Body(i)) = 2
    BY <2>1, BodyProperties
  <2> QED BY <2>1, <2>2, <2>3
<1>3. Head(Body(i)) = Symbol(i, 1)
  <2> HIDE DEF i
  <2> QED BY <1>2
<1>4. pipe' = pipe \o t
  <2>1. pipe \in Seq(Glyph)
    BY TextTypes
  <2> HIDE DEF i
  <2> QED BY <1>2, <1>3, <2>1, AppendIsConcat DEF Cut, i
<1>5. t \in Seq(Glyph) /\ Len(t) = 1 /\ \A b \in 1..Len(t) : t[b] = Symbol(i, b)
  <2> HIDE DEF i
  <2> QED BY <1>2
<1>6. /\ ~bare /\ script' = Append(script, "junk") /\ UNCHANGED <<buffer, lines, taken>>
      /\ bare' = TRUE
  BY DEF Cut
<1>7. Len(t) \in 1..3 /\ bare' \in BOOLEAN /\ bare' = (Len(t) # 3)
  <2>1. Len(t) = 1 /\ bare' = TRUE
    BY <1>5, <1>6
  <2> HIDE DEF t
  <2>2. (Len(t) # 3) = TRUE
    BY <2>1
  <2>3. Len(t) \in 1..3
    BY <2>1
  <2>4. bare' \in BOOLEAN
    BY <2>1
  <2> QED BY <2>1, <2>2, <2>3, <2>4
<1> HIDE DEF t
<1>8. Told' /\ pipe' \in Seq(Glyph) /\ Len(pipe') = Len(pipe) + Len(t)
  BY <1>4, <1>5, <1>6, <1>7, TextAppended
<1> QED BY <1>5, <1>8

\* A chunk is cut at its newlines, and the rest waits for the next.
LEMMA ReadKeepsText ==
    ASSUME StreamTypeOK, Told, NEW n, Read(n)
    PROVE  /\ Told'
           /\ buffer' \in Seq(Glyph) /\ Len(buffer') <= 2
           /\ pipe' \in Seq(Glyph) /\ Len(pipe') <= Len(pipe)
           /\ lines' \in Seq(Seq(Glyph))
<1>1. /\ buffer \in Seq(Glyph) /\ pipe \in Seq(Glyph) /\ lines = <<>> /\ Len(lines) = 0
      /\ taken \in Nat /\ n \in 1..Len(pipe) /\ n \in Nat /\ Len(script) \in Nat
      /\ Len(pipe) \in Nat /\ Len(buffer) \in Nat /\ n <= Len(pipe)
      /\ Len(Left) = Len(buffer) + Len(pipe)
  BY TextTypes DEF Read
<1> DEFINE chunk == SubSeq(pipe, 1, n)
           text == buffer \o chunk
<1>2. /\ lines' = Complete(text) /\ buffer' = Rest(text)
      /\ pipe' = SubSeq(pipe, n + 1, Len(pipe))
      /\ UNCHANGED <<script, bare, taken>>
  BY DEF Read, processVars
<1>3. Left \in Seq(Glyph) /\ AtHand = taken /\ Tells(Left, taken)
  BY <1>1 DEF Told, AtHand
<1>4. PICK d \in Nat : Len(script) = taken + d /\ LengthOfLeft(d)
  BY <1>3 DEF Told
<1>5. \A k \in 1..(Len(buffer) + Len(pipe)) :
          Left[k] = IF k <= Len(buffer) THEN buffer[k] ELSE pipe[k - Len(buffer)]
  BY <1>1, ConcatProperties DEF Left
<1>6. /\ chunk \in Seq(Glyph) /\ Len(chunk) = n
      /\ \A k \in 1..n : chunk[k] = pipe[k]
  <2>1. 1 \in Int /\ n \in Int /\ \A i \in 1..n : pipe[i] \in Glyph
    BY <1>1
  <2>2. /\ chunk \in Seq(Glyph) /\ Len(chunk) = (IF 1 <= n THEN n - 1 + 1 ELSE 0)
        /\ \A k \in 1..(n - 1 + 1) : chunk[k] = pipe[1 + k - 1]
    BY <2>1, SubSeqProperties
  <2>3. 1 <= n /\ n - 1 + 1 = n /\ \A k \in 1..n : 1 + k - 1 = k
    BY <1>1
  <2> HIDE DEF chunk
  <2> QED BY <2>2, <2>3
<1>7. /\ text \in Seq(Glyph) /\ Len(text) = Len(buffer) + n
      /\ \A k \in 1..Len(text) : text[k] = Left[k]
  <2>1. /\ text \in Seq(Glyph) /\ Len(text) = Len(buffer) + n
        /\ \A k \in 1..(Len(buffer) + n) :
              text[k] = IF k <= Len(buffer) THEN buffer[k] ELSE chunk[k - Len(buffer)]
    <3> HIDE DEF chunk
    <3>1. /\ buffer \o chunk \in Seq(Glyph) /\ Len(buffer \o chunk) = Len(buffer) + Len(chunk)
          /\ \A k \in 1..(Len(buffer) + Len(chunk)) :
                (buffer \o chunk)[k] = IF k <= Len(buffer) THEN buffer[k] ELSE chunk[k - Len(buffer)]
      <4>1. buffer \in Seq(Glyph) /\ chunk \in Seq(Glyph)
        BY <1>1, <1>6
      <4> QED BY <4>1, ConcatProperties
    <3>2. Len(chunk) = n
      BY <1>6
    <3> QED BY <3>1, <3>2
  <2>2. ASSUME NEW k \in 1..(Len(buffer) + n) PROVE text[k] = Left[k]
    <3>1. k \in 1..(Len(buffer) + Len(pipe)) /\ (~(k <= Len(buffer)) => k - Len(buffer) \in 1..n)
      BY <1>1
    <3> HIDE DEF text, chunk
    <3> QED BY <2>1, <3>1, <1>5, <1>6
  <2> HIDE DEF text
  <2> QED BY <2>1, <2>2
<1>8. /\ pipe' \in Seq(Glyph) /\ Len(pipe') = Len(pipe) - n
      /\ \A k \in 1..(Len(pipe) - n) : pipe'[k] = Left[Len(text) + k]
  <2> DEFINE p == n + 1
  <2>1. p \in Int /\ Len(pipe) \in Int /\ \A i \in p..Len(pipe) : pipe[i] \in Glyph
    BY <1>1
  <2>2. /\ pipe' \in Seq(Glyph) /\ Len(pipe') = (IF p <= Len(pipe) THEN Len(pipe) - p + 1 ELSE 0)
        /\ \A k \in 1..(Len(pipe) - p + 1) : pipe'[k] = pipe[p + k - 1]
    <3> HIDE DEF p
    <3> QED BY <2>1, <1>2, SubSeqProperties DEF p
  <2>3. Len(pipe) - p + 1 = Len(pipe) - n /\ (~(p <= Len(pipe)) => Len(pipe) - n = 0)
    BY <1>1
  <2>4. ASSUME NEW k \in 1..(Len(pipe) - n) PROVE pipe'[k] = Left[Len(text) + k]
    <3>1. p + k - 1 = n + k
      BY <1>1
    <3>2. pipe'[k] = pipe[n + k]
      BY <2>2, <2>3, <3>1
    <3>3. /\ Len(text) + k \in 1..(Len(buffer) + Len(pipe)) /\ ~(Len(text) + k <= Len(buffer))
          /\ (Len(text) + k) - Len(buffer) = n + k
      <4> HIDE DEF text
      <4> QED BY <1>1, <1>7
    <3> HIDE DEF text
    <3> QED BY <3>2, <3>3, <1>5
  <2> QED BY <2>2, <2>3, <2>4
<1>9. Tells(text, taken)
  <2>1. ASSUME NEW k \in 1..Len(text) PROVE k \in 1..Len(Left)
    <3> HIDE DEF text
    <3> QED BY <1>1, <1>7
  <2> HIDE DEF text
  <2> QED BY <2>1, <1>3, <1>7 DEF Tells
<1>10. PICK m \in Nat :
          /\ 3 * m <= Len(text) /\ Len(text) <= 3 * m + 2
          /\ Complete(text) = [k \in 1..m |-> Body(taken + k)]
          /\ Rest(text) \in Seq(Glyph) /\ Len(Rest(text)) = Len(text) - 3 * m
          /\ \A k \in 1..Len(Rest(text)) : Rest(text)[k] = text[3 * m + k]
  <2> HIDE DEF text
  <2> QED BY <1>1, <1>7, <1>9, TextIsCut
<1> HIDE DEF text, chunk
<1>11. lines' = [k \in 1..m |-> Body(taken + k)] /\ Len(lines') = m
       /\ AtHand' = taken + m /\ AtHand' \in Nat
  BY <1>1, <1>2, <1>10 DEF AtHand
<1>12. /\ buffer' \in Seq(Glyph) /\ Len(buffer') = Len(text) - 3 * m /\ Len(buffer') <= 2
       /\ \A k \in 1..(Len(text) - 3 * m) : buffer'[k] = Left[3 * m + k]
  <2>1. buffer' \in Seq(Glyph) /\ Len(buffer') = Len(text) - 3 * m /\ Len(text) \in Nat
    BY <1>2, <1>7, <1>10
  <2>2. Len(buffer') <= 2
    BY <2>1, <1>10
  <2>3. ASSUME NEW k \in 1..(Len(text) - 3 * m) PROVE buffer'[k] = Left[3 * m + k]
    <3>1. 3 * m + k \in 1..Len(text)
      BY <2>1
    <3>2. buffer'[k] = text[3 * m + k]
      BY <1>2, <1>10
    <3> QED BY <3>1, <3>2, <1>7
  <2> QED BY <2>1, <2>2, <2>3
<1>13. /\ Left' \in Seq(Glyph) /\ Len(Left') = Len(Left) - 3 * m
       /\ \A k \in 1..Len(Left') : Left'[k] = Left[3 * m + k]
  <2>1. /\ Left' \in Seq(Glyph) /\ Len(Left') = Len(buffer') + Len(pipe')
        /\ \A k \in 1..(Len(buffer') + Len(pipe')) :
              Left'[k] = IF k <= Len(buffer') THEN buffer'[k] ELSE pipe'[k - Len(buffer')]
    BY <1>8, <1>12, ConcatProperties DEF Left
  <2>2. Len(Left') = Len(Left) - 3 * m
    <3>1. /\ Len(Left') = (Len(text) - 3 * m) + (Len(pipe) - n) /\ Len(text) = Len(buffer) + n
          /\ Len(Left) = Len(buffer) + Len(pipe)
      BY <2>1, <1>1, <1>7, <1>8, <1>12
    <3> QED BY <3>1, <1>1
  <2>3. ASSUME NEW k \in 1..(Len(buffer') + Len(pipe')) PROVE Left'[k] = Left[3 * m + k]
    <3>1. Len(buffer') \in Nat /\ Len(pipe') \in Nat
      BY <1>8, <1>12
    <3>2. CASE k <= Len(buffer')
      <4>1. k \in 1..(Len(text) - 3 * m)
        BY <3>1, <3>2, <1>12
      <4> QED BY <4>1, <3>2, <2>1, <1>12
    <3>3. CASE ~(k <= Len(buffer'))
      <4>1. k - Len(buffer') \in 1..(Len(pipe) - n)
        BY <3>1, <3>3, <1>8
      <4>2. Len(text) + (k - Len(buffer')) = 3 * m + k
        BY <3>1, <1>1, <1>7, <1>12
      <4>3. Left'[k] = pipe'[k - Len(buffer')]
        BY <2>1, <3>3
      <4>4. pipe'[k - Len(buffer')] = Left[Len(text) + (k - Len(buffer'))]
        BY <4>1, <1>8
      <4> QED BY <4>2, <4>3, <4>4
    <3> QED BY <3>2, <3>3
  <2> QED BY <2>1, <2>2, <2>3
<1>14. 3 * m <= Len(Left)
  BY <1>1, <1>7, <1>10
<1>15. Tells(Left', taken + m)
  BY <1>1, <1>3, <1>13, <1>14, TextShrinks
<1>16. ~bare \/ Len(Left) + 1 = 3 * d \/ (Len(Left) + 2 = 3 * d /\ script[Len(script)] = "junk")
  <2>1. Left # <<>>
    BY <1>1, <1>3
  <2> QED BY <2>1, <1>4 DEF LengthOfLeft
<1>17. d - m \in Nat /\ Len(script') = AtHand' + (d - m) /\ LengthOfLeft(d - m)'
  <2>1. Len(Left) = 3 * d \/ Len(Left) + 1 = 3 * d \/ Len(Left) + 2 = 3 * d
    BY <1>4 DEF LengthOfLeft
  <2>2. Len(Left) \in Nat
    BY <1>1
  <2>3. m <= d
    BY <2>1, <2>2, <1>14
  <2>4. d - m \in Nat /\ 3 * (d - m) = 3 * d - 3 * m
    BY <2>3
  <2>5. Len(script') = AtHand' + (d - m)
    BY <2>4, <1>1, <1>2, <1>4, <1>11
  <2>6. /\ Len(Left) = 3 * d => Len(Left') = 3 * (d - m)
        /\ Len(Left) + 1 = 3 * d => Len(Left') + 1 = 3 * (d - m)
        /\ Len(Left) + 2 = 3 * d => Len(Left') + 2 = 3 * (d - m)
    BY <2>2, <2>4, <1>13
  <2>7. LengthOfLeft(d - m)'
    BY <2>6, <1>2, <1>4, <1>16 DEF LengthOfLeft
  <2> QED BY <2>4, <2>5, <2>7
<1>18. (\A k \in 1..Len(lines) : LineAtHand(lines[k], taken + k))'
  BY <1>2, <1>11 DEF LineAtHand
<1>19. Told'
  BY <1>11, <1>13, <1>15, <1>17, <1>18 DEF Told
<1>20. lines' \in Seq(Seq(Glyph))
  <2>1. ASSUME NEW k \in 1..m PROVE Body(taken + k) \in Seq(Glyph)
    <3>1. taken + k \in Nat \ {0} /\ taken + k <= Len(script) /\ Len(script) <= Length /\ Length \in Nat
      BY <1>1, <1>4, <1>17, TextTypes
    <3>2. taken + k <= Length
      BY <3>1, <1>1
    <3> QED BY <3>1, <3>2, BodyProperties
  <2> QED BY <2>1, <1>11
<1>21. Len(pipe') <= Len(pipe)
  BY <1>1, <1>8
<1> QED BY <1>8, <1>12, <1>19, <1>20, <1>21

\* What the end of the pipe leaves: a line without a newline, or a part of one.
LEMMA EofKeepsText ==
    ASSUME StreamTypeOK, Told, Len(buffer) <= 2, Eof
    PROVE  /\ Told'
           /\ buffer' = <<>> /\ lines' \in Seq(Seq(Glyph))
           /\ reader' # reader => reader' = "ended" /\ taken = Len(script)
<1>1. /\ buffer \in Seq(Glyph) /\ pipe = <<>> /\ lines = <<>> /\ Len(lines) = 0 /\ Len(pipe) = 0
      /\ taken \in Nat /\ Len(script) \in Nat /\ Len(buffer) \in Nat
      /\ Len(Left) = Len(buffer) + Len(pipe)
      /\ UNCHANGED <<script, bare, taken, pipe>> /\ pipe \in Seq(Glyph)
  BY TextTypes DEF Eof, processVars
<1>2. Left \in Seq(Glyph) /\ AtHand = taken /\ Tells(Left, taken) /\ Left = buffer
  <2>1. Left = buffer
    BY <1>1, ConcatEmptySeq DEF Left
  <2> QED BY <1>1, <2>1 DEF Told, AtHand
<1>3. PICK d \in Nat : Len(script) = taken + d /\ LengthOfLeft(d)
  BY <1>2 DEF Told
<1>4. CASE buffer # <<>>
  <2>1. lines' = <<buffer>> /\ buffer' = <<>> /\ reader' = reader
    BY <1>4 DEF Eof
  <2>2. Len(buffer) = 1 \/ Len(buffer) = 2
    <3>1. Len(buffer) # 0
      BY <1>1, <1>4, EmptySeq
    <3>2. \A x \in Nat : x # 0 /\ x <= 2 => x = 1 \/ x = 2
      OBVIOUS
    <3> QED BY <3>1, <3>2, <1>1
  <2>3. d = 1 /\ (Len(buffer) = 1 => script[taken + 1] = "junk")
    <3>1. \/ Len(buffer) = 3 * d
          \/ Len(buffer) + 1 = 3 * d
          \/ Len(buffer) + 2 = 3 * d /\ script[Len(script)] = "junk"
      BY <1>2, <1>3 DEF LengthOfLeft
    <3>2. CASE Len(buffer) = 1
      <4>1. d = 1 /\ script[Len(script)] = "junk"
        BY <3>1, <3>2
      <4>2. Len(script) = taken + 1
        BY <4>1, <1>3
      <4> QED BY <4>1, <4>2
    <3>3. CASE Len(buffer) = 2
      BY <3>1, <3>3
    <3> QED BY <2>2, <3>2, <3>3
  <2>4. taken + 1 \in Nat \ {0} /\ Len(script) = taken + 1
    BY <1>1, <1>3, <2>3
  <2>5. /\ 1 <= Len(buffer) => buffer[1] = Symbol(taken + 1, 1)
        /\ 2 <= Len(buffer) => buffer[2] = Symbol(taken + 1, 2)
    <3>1. 1 \in Nat \ {0} /\ 1 \in 1..3 /\ 2 \in 1..3 /\ 3 * (1 - 1) + 1 = 1 /\ 3 * (1 - 1) + 2 = 2
      OBVIOUS
    <3> QED BY <1>1, <1>2, <3>1 DEF Tells
  <2>6. LineAtHand(buffer, taken + 1)
    <3>1. CASE Len(buffer) = 1
      <4>1. buffer = <<buffer[1]>>
        BY <1>1, <3>1
      <4>2. buffer[1] = Symbol(taken + 1, 1)
        BY <2>5, <3>1
      <4> QED BY <4>1, <4>2, <2>3, <3>1 DEF LineAtHand
    <3>2. CASE Len(buffer) = 2
      <4>1. buffer = <<buffer[1], buffer[2]>>
        BY <1>1, <3>2
      <4>2. buffer[1] = Symbol(taken + 1, 1) /\ buffer[2] = Symbol(taken + 1, 2)
        BY <2>5, <3>2
      <4>3. Symbol(taken + 1, 1) = <<taken + 1, 1>> /\ Symbol(taken + 1, 2) = <<taken + 1, 2>>
        BY <2>4, BodyProperties
      <4> QED BY <4>1, <4>2, <4>3 DEF LineAtHand, Body
    <3> QED BY <2>2, <3>1, <3>2
  <2>7. /\ Left' = <<>> /\ Len(Left') = 0 /\ Left' \in Seq(Glyph)
        /\ AtHand' = taken + 1 /\ AtHand' \in Nat /\ Len(lines') = 1 /\ lines'[1] = buffer
    BY <1>1, <2>1 DEF Left, AtHand
  <2>8. (\A k \in 1..Len(lines) : LineAtHand(lines[k], taken + k))'
    BY <1>1, <2>6, <2>7 DEF LineAtHand
  <2>9. Len(script') = AtHand' + 0 /\ LengthOfLeft(0)'
    BY <1>1, <2>4, <2>7 DEF LengthOfLeft
  <2>10. Tells(Left', AtHand')
    <3>1. \A p : ~(p \in 1..Len(Left'))
      BY <2>7
    <3> QED BY <3>1 DEF Tells
  <2>11. Told'
    BY <2>7, <2>8, <2>9, <2>10 DEF Told
  <2> QED BY <1>1, <2>1, <2>11
<1>5. CASE buffer = <<>>
  <2>1. reader' = "ended" /\ UNCHANGED <<lines, buffer>>
    BY <1>5 DEF Eof
  <2>2. d = 0
    <3>1. Len(Left) = 0
      BY <1>2, <1>5
    <3> QED BY <3>1, <1>3 DEF LengthOfLeft
  <2>3. taken = Len(script)
    BY <1>1, <1>3, <2>2
  <2>4. Told'
    BY <1>1, <2>1, ToldUnchanged DEF TextUnchanged
  <2>5. lines' \in Seq(Seq(Glyph))
    BY <1>1, <2>1
  <2> QED BY <1>5, <2>1, <2>3, <2>4, <2>5
<1> QED BY <1>4, <1>5

\* The line in hand is the one behind the lines that were taken.
LEMMA TakeKeepsText ==
    ASSUME StreamTypeOK, Told, lines # <<>>, lines' = Tail(lines), taken' = taken + 1,
           UNCHANGED <<script, bare, buffer, pipe>>
    PROVE  /\ Told'
           /\ lines' \in Seq(Seq(Glyph)) /\ taken' \in 1..Len(script)
           /\ LineAtHand(Head(lines), taken')
<1>1. /\ lines \in Seq(Seq(Glyph)) /\ Len(lines) \in Nat \ {0} /\ taken \in Nat
      /\ Len(script) \in Nat
  BY TextTypes
<1>2. /\ lines' \in Seq(Seq(Glyph)) /\ Len(lines') = Len(lines) - 1
      /\ \A k \in 1..Len(lines') : lines'[k] = lines[k + 1]
  BY <1>1, HeadTailProperties
<1>3. AtHand' = AtHand /\ Left' = Left
  BY <1>1, <1>2 DEF AtHand, Left
<1>4. PICK d \in Nat : Len(script) = AtHand + d /\ LengthOfLeft(d)
  BY DEF Told
<1>5. Len(script') = AtHand' + d /\ LengthOfLeft(d)'
  BY <1>3, <1>4 DEF LengthOfLeft
<1>6. (\A k \in 1..Len(lines) : LineAtHand(lines[k], taken + k))'
  <2>1. ASSUME NEW k \in 1..Len(lines') PROVE LineAtHand(lines[k], taken + k)'
    <3>1. k + 1 \in 1..Len(lines) /\ taken' + k = taken + (k + 1) /\ lines'[k] = lines[k + 1]
      BY <1>1, <1>2
    <3>2. LineAtHand(lines[k + 1], taken + (k + 1))
      BY <3>1 DEF Told
    <3> QED BY <3>1, <3>2 DEF LineAtHand
  <2> QED BY <2>1
<1>7. Told'
  BY <1>3, <1>5, <1>6 DEF Told
<1>8. taken' \in 1..Len(script)
  BY <1>1, <1>4 DEF AtHand
<1>9. LineAtHand(Head(lines), taken')
  <2>1. 1 \in 1..Len(lines) /\ Head(lines) = lines[1]
    BY <1>1
  <2> QED BY <2>1 DEF Told
<1> QED BY <1>2, <1>7, <1>8, <1>9

-----------------------------------------------------------------------------
(* One event *)

\* Which CLI prints which kind of line.
LEMMA Kinds ==
    ASSUME StreamTypeOK, NEW i \in 1..Len(script)
    PROVE  /\ script[i] \in Line \cup {"junk"} /\ "junk" \notin Line
           /\ cli \in {"claude", "cursor", "codex", "opencode"}
           /\ script[i] \in Invalid => cli = "codex"
           /\ script[i] = "tools" => cli = "claude"
           /\ script[i] = "again" => cli \in {"codex", "opencode"}
<1>1. script[i] \in Line \cup {"junk"}
  <2>1. script \in Seq(Line \cup {"junk"})
    BY TextTypes
  <2> QED BY <2>1
<1>2. cli \in {"claude", "cursor", "codex", "opencode"}
  BY RunStreamAssumption DEF StreamTypeOK
<1>3. CASE cli = "claude"
  <2>1. Line = ClaudeLine
    BY <1>3 DEF Line
  <2> QED BY <1>1, <1>2, <1>3, <2>1 DEF ClaudeLine, Invalid
<1>4. CASE cli = "cursor"
  <2>1. Line = CursorLine
    BY <1>4 DEF Line
  <2> QED BY <1>1, <1>2, <1>4, <2>1 DEF CursorLine, Invalid
<1>5. CASE cli = "codex"
  <2>1. Line = CodexLine
    BY <1>5 DEF Line
  <2> QED BY <1>1, <1>2, <1>5, <2>1 DEF CodexLine, Failure, Fault, Invalid
<1>6. CASE cli = "opencode"
  <2>1. Line = OpenCodeLine
    BY <1>6 DEF Line
  <2> QED BY <1>1, <1>2, <1>6, <2>1 DEF OpenCodeLine, Invalid
<1> QED BY <1>2, <1>3, <1>4, <1>5, <1>6

\* A line is no event, and only OpenCode keeps a `null`, or it is handled.
Skipped(i) ==
    /\ script[i] \in {"junk", "null"}
    /\ state' = IF cli = "opencode" /\ script[i] = "null" THEN Keep(i) ELSE state
    /\ UNCHANGED <<reader, asking, inits, threw>>

\* A line that is taken is skipped, or is an event and the next of the script.
LEMMA TakeCases ==
    ASSUME StreamTypeOK, Told, Take
    PROVE  /\ taken' = taken + 1 /\ taken' \in 1..Len(script)
           /\ reader = "reading"
           /\ UNCHANGED <<cli, script, bare, process, signalled, pipe, buffer, asked, aborts, extracted>>
           /\ Told' /\ lines' \in Seq(Seq(Glyph))
           /\ \/ Skipped(taken')
              \/ script[taken'] \in Line \ {"null"} /\ Handle(taken')
<1>1. /\ lines # <<>> /\ lines' = Tail(lines) /\ taken' = taken + 1 /\ reader = "reading"
      /\ UNCHANGED <<cli, script, bare, process, signalled, pipe, buffer, asked, aborts, extracted>>
  BY DEF Take, processVars, pipeVars, toolVars
<1>2. Told' /\ lines' \in Seq(Seq(Glyph)) /\ taken' \in 1..Len(script)
      /\ LineAtHand(Head(lines), taken')
  BY <1>1, TakeKeepsText
<1> DEFINE i == taken'
           s == Head(lines)
<1>3. i \in Nat \ {0} /\ i \in 1..Len(script)
  BY <1>2, TextTypes
<1>4. s # <<>> /\ Number(s) = i /\ (s = Body(i) \/ script[i] = "junk")
      /\ (s = Body(i) \/ s # Body(i))
  <2>1. Number(Body(i)) = i /\ Number(<<Symbol(i, 1)>>) = i /\ Body(i) # <<>>
    <3> HIDE DEF i
    <3>1. Len(Body(i)) = 2 /\ Number(Body(i)) = i /\ Number(<<Symbol(i, 1)>>) = i
      BY <1>3, BodyProperties
    <3> QED BY <3>1 DEF Body
  <2>2. s = Body(i) \/ (s = <<Symbol(i, 1)>> /\ script[i] = "junk")
    <3>1. LineAtHand(s, i)
      BY <1>2
    <3> HIDE DEF i, s
    <3> QED BY <3>1 DEF LineAtHand
  <2> HIDE DEF i, s
  <2> QED BY <2>1, <2>2
<1>5. CASE script[i] \in {"junk", "null"}
  <2>1. Parsed(s) = 0
    <3> HIDE DEF i, s
    <3> QED BY <1>4, <1>5 DEF Parsed
  <2>2. Ignore(s)
    BY <1>1, <2>1 DEF Take
  <2>3. (s = Body(Number(s)) /\ script[Number(s)] = "null") = (script[i] = "null")
    <3> HIDE DEF i, s
    <3> QED BY <1>4
  <2>4. Skipped(i)
    <3> HIDE DEF i, s
    <3> QED BY <1>4, <1>5, <2>2, <2>3 DEF Ignore, Skipped
  <2> QED BY <1>1, <1>2, <2>4
<1>6. CASE script[i] \notin {"junk", "null"}
  <2>1. Parsed(s) = i /\ i # 0
    <3> HIDE DEF i, s
    <3> QED BY <1>3, <1>4, <1>6 DEF Parsed
  <2>2. Handle(i)
    BY <1>1, <2>1 DEF Take
  <2>3. script[i] \in Line \ {"null"}
    <3> HIDE DEF i
    <3> QED BY <1>3, <1>6, Kinds
  <2> QED BY <1>1, <1>2, <2>2, <2>3
<1> QED BY <1>5, <1>6

\* The fields of the state and their types.
LEMMA StateTypes ==
    ASSUME StreamTypeOK
    PROVE  /\ state = [session |-> state.session, turns |-> state.turns, final |-> state.final,
                       error |-> state.error, invalid |-> state.invalid, json |-> state.json,
                       seen |-> state.seen, denied |-> state.denied]
           /\ state.session \in BOOLEAN /\ state.turns \in Nat /\ state.final \in Nat
           /\ state.error \in Nat /\ state.invalid \in BOOLEAN /\ state.json \in Seq(1..Length)
           /\ state.seen \in SUBSET Tool /\ state.denied \in Tool \cup {None}
           /\ state.turns <= taken /\ state.final <= taken /\ state.error <= taken
<1>1. state \in State /\ {state.final, state.error, state.turns} \subseteq 0..taken
  BY DEF StreamTypeOK
<1> QED BY <1>1 DEF State

\* What an event leaves of the state, and what it makes of it.
KeptJson(i) == IF cli = "opencode" THEN Append(state.json, i) ELSE state.json

\* What an event changes of the state, for each CLI.
LEMMA EventFields ==
    ASSUME StreamTypeOK, NEW i
    PROVE  LET s == Fold(i, Keep(i))
               t == Keep(i)
           IN  /\ s = [session |-> s.session, turns |-> s.turns, final |-> s.final,
                       error |-> s.error, invalid |-> s.invalid, json |-> KeptJson(i),
                       seen |-> state.seen, denied |-> state.denied]
               /\ s.session \in BOOLEAN
               /\ cli \in {"claude", "cursor"} =>
                     /\ s.turns = (IF script[i] \in Assistant \ (IF cli = "cursor" THEN {"tool"} ELSE {})
                                   THEN state.turns + 1 ELSE state.turns)
                     /\ s.final = (IF script[i] \in {"good", "bad"} THEN i ELSE state.final)
                     /\ s.error = state.error /\ s.invalid = state.invalid
               /\ cli = "codex" =>
                     /\ s.turns = (IF script[i] = "turn" THEN state.turns + 1 ELSE state.turns)
                     /\ s.final = (IF script[i] = "text" THEN i ELSE state.final)
                     /\ s.error = (IF script[i] \in Failure \/ (script[i] \in Fault /\ state.error = 0)
                                   THEN i ELSE state.error)
                     /\ s.invalid = (state.invalid \/ script[i] \in Invalid)
               /\ cli = "opencode" =>
                     /\ s.turns = (IF script[i] = "step" THEN state.turns + 1 ELSE state.turns)
                     /\ s.final = state.final /\ s.error = state.error /\ s.invalid = state.invalid
               /\ t = [session |-> state.session, turns |-> state.turns, final |-> state.final,
                       error |-> state.error, invalid |-> state.invalid, json |-> KeptJson(i),
                       seen |-> state.seen, denied |-> state.denied]
<1>0. cli \in {"claude", "cursor", "codex", "opencode"}
  BY RunStreamAssumption DEF StreamTypeOK
<1>1. CASE cli \in {"claude", "cursor"}
  <2>1. Keep(i) = state /\ KeptJson(i) = state.json /\ Fold(i, Keep(i)) = ClaudeFold(i, state)
    BY <1>1 DEF Keep, Fold, KeptJson
  <2> QED BY <1>1, <2>1, StateTypes DEF ClaudeFold
<1>2. CASE cli = "codex"
  <2>1. Keep(i) = state /\ KeptJson(i) = state.json /\ Fold(i, Keep(i)) = CodexFold(i, state)
    BY <1>2 DEF Keep, Fold, KeptJson
  <2> QED BY <1>2, <2>1, StateTypes DEF CodexFold, Reports
<1>3. CASE cli = "opencode"
  <2>1. Keep(i) = [state EXCEPT !.json = Append(@, i)] /\ KeptJson(i) = Append(state.json, i)
        /\ Fold(i, Keep(i)) = OpenCodeFold(i, Keep(i))
    BY <1>3 DEF Keep, Fold, KeptJson
  <2>2. Keep(i) = [session |-> state.session, turns |-> state.turns, final |-> state.final,
                   error |-> state.error, invalid |-> state.invalid, json |-> KeptJson(i),
                   seen |-> state.seen, denied |-> state.denied]
    BY <2>1, StateTypes
  <2>3. Fold(i, Keep(i)) =
           [session |-> TRUE,
            turns |-> IF script[i] = "step" THEN state.turns + 1 ELSE state.turns,
            final |-> state.final, error |-> state.error, invalid |-> state.invalid,
            json |-> KeptJson(i), seen |-> state.seen, denied |-> state.denied]
    <3> DEFINE t == Keep(i)
    <3>1. Fold(i, t) = [t EXCEPT !.session = TRUE,
                                 !.turns = IF script[i] = "step" THEN t.turns + 1 ELSE t.turns]
      BY <2>1 DEF OpenCodeFold
    <3> HIDE DEF t
    <3>2. t = [session |-> state.session, turns |-> state.turns, final |-> state.final,
               error |-> state.error, invalid |-> state.invalid, json |-> KeptJson(i),
               seen |-> state.seen, denied |-> state.denied]
      BY <2>2 DEF t
    <3>3. Fold(i, t) =
             [session |-> TRUE,
              turns |-> IF script[i] = "step" THEN state.turns + 1 ELSE state.turns,
              final |-> state.final, error |-> state.error, invalid |-> state.invalid,
              json |-> KeptJson(i), seen |-> state.seen, denied |-> state.denied]
      BY <3>1, <3>2
    <3> QED BY <3>3 DEF t
  <2>4. cli \notin {"claude", "cursor"} /\ cli # "codex"
    BY <1>3
  <2> DEFINE f == Fold(i, Keep(i))
  <2>5. /\ f.session = TRUE
        /\ f.turns = (IF script[i] = "step" THEN state.turns + 1 ELSE state.turns)
        /\ f.final = state.final /\ f.error = state.error /\ f.invalid = state.invalid
    BY <2>3
  <2>6. f = [session |-> f.session, turns |-> f.turns, final |-> f.final, error |-> f.error,
             invalid |-> f.invalid, json |-> KeptJson(i), seen |-> state.seen,
             denied |-> state.denied]
    BY <2>3, <2>5
  <2>7. f.session \in BOOLEAN
    BY <2>5
  <2> QED BY <2>2, <2>4, <2>5, <2>6, <2>7, Zenon
<1> QED BY <1>0, <1>1, <1>2, <1>3

\* The tools of a line: at most two, one but for Claude, and none twice.
LEMMA ToolsProperties ==
    ASSUME StreamTypeOK, NEW i \in 1..Len(script)
    PROVE  /\ Tools(i) \in Seq(Tool) /\ Len(Tools(i)) \in 0..2
           /\ script[i] \notin {"tool", "again", "tools"} => Tools(i) = <<>>
           /\ cli \in {"claude", "cursor"} => \A k \in 1..Len(Tools(i)) : Tools(i)[k][1] = i
           /\ cli # "claude" => Len(Tools(i)) \in 0..1
           /\ \A j, k \in 1..Len(Tools(i)) : j < k => Tools(i)[j] # Tools(i)[k]
<1>1. i \in Nat \ {0} /\ i <= Length /\ Length \in Nat
  BY TextTypes
<1>2. Named(i) \in 1..i
  <2> DEFINE before == {j \in 1..(i - 1) : script[j] = "tool"}
  <2>1. before # {} => Latest(before) \in before
    <3>1. i - 1 \in Nat /\ before \subseteq 1..(i - 1)
      BY <1>1
    <3> HIDE DEF before
    <3> QED BY <3>1, LatestProperties
  <2>2. \A j \in before : j \in 1..i
    BY <1>1
  <2> HIDE DEF before
  <2> QED BY <1>1, <2>1, <2>2 DEF Named, before
<1>3. <<Named(i), 1>> \in Tool /\ <<i, 1>> \in Tool /\ <<i, 2>> \in Tool /\ Named(i) \in 1..Length
  BY <1>1, <1>2 DEF Tool
<1>4. script[i] # "again" => Named(i) = i
  BY DEF Named
<1>5. CASE script[i] \in {"tool", "again"}
  <2>1. Tools(i) = <<<<Named(i), 1>>>>
    BY <1>5 DEF Tools
  <2>2. cli \in {"claude", "cursor"} => Named(i) = i
    BY <1>4, Kinds
  <2> QED BY <1>3, <1>5, <2>1, <2>2
<1>6. CASE script[i] = "tools"
  <2>1. Tools(i) = <<<<i, 1>>, <<i, 2>>>>
    BY <1>6 DEF Tools
  <2>2. cli = "claude"
    BY <1>6, Kinds
  <2>3. Tools(i) \in Seq(Tool) /\ Len(Tools(i)) = 2 /\ Tools(i)[1] = <<i, 1>> /\ Tools(i)[2] = <<i, 2>>
    BY <1>3, <2>1
  <2>4. \A k \in 1..2 : k = 1 \/ k = 2
    OBVIOUS
  <2> QED BY <1>6, <2>2, <2>3, <2>4
<1>7. CASE script[i] \notin {"tool", "again", "tools"}
  <2>1. Tools(i) = <<>>
    BY <1>7 DEF Tools
  <2> QED BY <1>7, <2>1
<1> QED BY <1>5, <1>6, <1>7

\* An event is asked for as a whole or not at all.
LEMMA AskForProperties ==
    ASSUME StreamTypeOK, NEW i \in 1..Len(script), NEW s
    PROVE  AskFor(i, s) \in {<<>>, Tools(i)} /\ AskFor(i, s) \in Seq(Tool)
<1>1. AskFor(i, s) \in {<<>>, Tools(i)}
  BY DEF AskFor
<1>2. Tools(i) \in Seq(Tool) /\ <<>> \in Seq(Tool)
  BY ToolsProperties
<1> QED BY <1>1, <1>2

\* A callback of this event threw: the event is not told, but it may be kept.
Dropped(i) ==
    /\ threw = "none" /\ threw' \in Throwing
    /\ reader' = IF cli = "opencode" THEN "reading" ELSE "stopped"
    /\ asking' = <<>>
    /\ inits' \in {inits, inits + 1}
    /\ \E b \in BOOLEAN : state' = [Keep(i) EXCEPT !.session = b]

\* An event is handled, or a callback throws and it is dropped.
LEMMA HandleCases ==
    ASSUME StreamTypeOK, NEW i, Handle(i)
    PROVE  Calm(i) \/ Dropped(i)
<1>1. CASE Calm(i)
  BY <1>1
<1>2. CASE MayThrow("onEvent") /\ Thrown("onEvent", Keep(i)) /\ UNCHANGED inits
  <2>1. Keep(i) = [Keep(i) EXCEPT !.session = state.session] /\ state.session \in BOOLEAN
    BY StateTypes, EventFields
  <2> QED BY <1>2, <2>1 DEF MayThrow, Thrown, Dropped
<1>3. CASE /\ MayThrow("onInit") /\ Starts(i)
           /\ Thrown("onInit", IF cli = "codex" THEN Keep(i) ELSE [Keep(i) EXCEPT !.session = TRUE])
           /\ inits' = inits + 1
  <2>1. Keep(i) = [Keep(i) EXCEPT !.session = state.session] /\ state.session \in BOOLEAN
    BY StateTypes, EventFields
  <2> QED BY <1>3, <2>1 DEF MayThrow, Thrown, Dropped
<1> QED BY <1>1, <1>2, <1>3 DEF Handle

\* The fields of the state behind a line.
LEMMA TakenFields ==
    ASSUME StreamTypeOK, NEW i \in 1..Len(script), i = taken + 1,
           Skipped(i) \/ Calm(i) \/ Dropped(i)
    PROVE  /\ state' \in State
           /\ state'.seen = state.seen /\ state'.denied = state.denied
           /\ state'.turns \in {state.turns, state.turns + 1} /\ state'.turns \in 0..i
           /\ state'.final \in {state.final, i} /\ state'.final \in 0..i
           /\ state'.error \in {state.error, i} /\ state'.error \in 0..i
<1>1. /\ i \in Nat /\ taken \in Nat /\ i \in 1..Length
      /\ cli \in {"claude", "cursor", "codex", "opencode"}
  BY TextTypes, Kinds
<1>2. KeptJson(i) \in Seq(1..Length) /\ state.json \in Seq(1..Length)
  <2>1. state.json \in Seq(1..Length)
    BY StateTypes
  <2>2. Append(state.json, i) \in Seq(1..Length)
    BY <1>1, <2>1, AppendProperties
  <2> QED BY <2>1, <2>2 DEF KeptJson
<1> DEFINE Fits(s) ==
             /\ s \in State /\ s.seen = state.seen /\ s.denied = state.denied
             /\ s.turns \in {state.turns, state.turns + 1}
             /\ s.final \in {state.final, i} /\ s.error \in {state.error, i}
<1>3. Fits(state)
  BY StateTypes DEF StreamTypeOK
<1>4. Fits(Keep(i))
  BY <1>2, StateTypes, EventFields DEF State
<1>5. Fits(Fold(i, Keep(i)))
  <2> DEFINE s == Fold(i, Keep(i))
  <2>1. /\ s.turns \in {state.turns, state.turns + 1}
        /\ s.final \in {state.final, i} /\ s.error \in {state.error, i}
        /\ s.invalid \in BOOLEAN
    BY <1>1, StateTypes, EventFields
  <2>2. /\ s = [session |-> s.session, turns |-> s.turns, final |-> s.final,
                error |-> s.error, invalid |-> s.invalid, json |-> KeptJson(i),
                seen |-> state.seen, denied |-> state.denied]
        /\ s.session \in BOOLEAN
    BY EventFields
  <2>3. s \in State
    <3> HIDE DEF s
    <3> QED BY <1>1, <1>2, <2>1, <2>2, StateTypes DEF State
  <2>4. s.seen = state.seen /\ s.denied = state.denied
    <3> HIDE DEF s
    <3> QED BY <2>2
  <2> QED BY <2>1, <2>3, <2>4
<1>6. Fits(state')
  <2>1. CASE Skipped(i)
    <3>1. state' = state \/ state' = Keep(i)
      BY <2>1 DEF Skipped
    <3> HIDE DEF Fits
    <3> QED BY <3>1, <1>3, <1>4
  <2>2. CASE Calm(i)
    <3>1. state' = Fold(i, Keep(i))
      BY <2>2 DEF Calm
    <3> HIDE DEF Fits
    <3> QED BY <3>1, <1>5
  <2>3. CASE Dropped(i)
    <3>1. PICK b \in BOOLEAN : state' = [Keep(i) EXCEPT !.session = b]
      BY <2>3 DEF Dropped
    <3> QED BY <3>1, <1>4 DEF State
  <2> QED BY <2>1, <2>2, <2>3
<1>7. state'.turns \in 0..i /\ state'.final \in 0..i /\ state'.error \in 0..i
  BY <1>1, <1>6, StateTypes
<1> QED BY <1>6, <1>7

-----------------------------------------------------------------------------
(* Types, and the text *)

\* The type invariant by its parts, but the text.
LEMMA TypeParts ==
    ASSUME StreamTypeOK
    PROVE  /\ cli \in Cli /\ inits \in 0..taken
           /\ {bare, signalled} \subseteq BOOLEAN
           /\ process \in {"running", "ok", "failed"}
           /\ reader \in {"reading", "asking", "showing", "ended", "stopped"}
           /\ {asking, aborts} \subseteq Seq(Tool)
           /\ asked \in Seq([tool : Tool, turn : 0..(Length + 1)])
           /\ state \in State /\ {state.final, state.error, state.turns} \subseteq 0..taken
           /\ threw \in Throwing \cup {"none"}
           /\ extracted.kind \in {"none", "output", "denied", "nothing", "broken"}
           /\ Len(pipe) <= Capacity /\ taken \in 0..Len(script)
BY DEF StreamTypeOK

\* The steps of the child keep the types ...
LEMMA WriteTypes ==
    ASSUME StreamTypeOK, Told, NEW kind \in Line \cup {"junk"}, Write(kind)
    PROVE  StreamTypeOK' /\ Told'
<1>1. Told' /\ bare' \in BOOLEAN /\ pipe' \in Seq(Glyph) /\ Len(pipe') <= Len(pipe) + 3
  BY WriteKeepsText
<1>2. /\ UNCHANGED <<cli, process, signalled, buffer, lines, taken, reader, asking, state, inits, asked,
                     aborts, threw, extracted>>
      /\ script' = Append(script, kind) /\ Len(script) < Length /\ Len(pipe) + 3 <= Capacity
  BY DEF Write, toolVars
<1>3. /\ script \in Seq(Line \cup {"junk"}) /\ Len(script) \in Nat /\ Length \in Nat /\ Capacity \in Nat
      /\ Len(pipe) \in Nat /\ Len(pipe') \in Nat
  BY <1>1, TextTypes, RunStreamAssumption
<1>4. /\ script' \in Seq(Line \cup {"junk"}) /\ Len(script') = Len(script) + 1 /\ Len(script') <= Length
      /\ Line' = Line /\ Len(pipe') <= Capacity
  <2>1. script' \in Seq(Line \cup {"junk"}) /\ Len(script') = Len(script) + 1
    BY <1>2, <1>3, AppendProperties
  <2>2. Line' = Line
    BY <1>2 DEF Line
  <2> QED BY <2>1, <2>2, <1>1, <1>2, <1>3
<1>5. taken' \in 0..Len(script') /\ inits' \in 0..taken'
  BY <1>2, <1>3, <1>4, TypeParts
<1>6. buffer \in Seq(Glyph) /\ lines \in Seq(Seq(Glyph))
  BY TextTypes
<1>7. StreamTypeOK'
  BY <1>1, <1>2, <1>4, <1>5, <1>6, TypeParts DEF StreamTypeOK
<1> QED BY <1>1, <1>7

LEMMA CutTypes ==
    ASSUME StreamTypeOK, Told, Cut
    PROVE  StreamTypeOK' /\ Told'
<1>1. Told' /\ pipe' \in Seq(Glyph) /\ Len(pipe') = Len(pipe) + 1
  BY CutKeepsText
<1>2. /\ UNCHANGED <<cli, signalled, buffer, lines, taken, reader, asking, state, inits, asked,
                     aborts, threw, extracted>>
      /\ script' = Append(script, "junk") /\ Len(script) < Length /\ Len(pipe) < Capacity
      /\ process' = "failed" /\ bare' = TRUE
  BY DEF Cut, toolVars
<1>3. /\ script \in Seq(Line \cup {"junk"}) /\ Len(script) \in Nat /\ Length \in Nat /\ Capacity \in Nat
      /\ Len(pipe) \in Nat
  BY <1>1, TextTypes, RunStreamAssumption
<1>4. /\ script' \in Seq(Line \cup {"junk"}) /\ Len(script') = Len(script) + 1 /\ Len(script') <= Length
      /\ Line' = Line /\ Len(pipe') <= Capacity
  <2>1. script' \in Seq(Line \cup {"junk"}) /\ Len(script') = Len(script) + 1
    BY <1>2, <1>3, AppendProperties
  <2>2. Line' = Line
    BY <1>2 DEF Line
  <2> QED BY <2>1, <2>2, <1>1, <1>2, <1>3
<1>5. taken' \in 0..Len(script') /\ inits' \in 0..taken'
  BY <1>2, <1>3, <1>4, TypeParts
<1>6. buffer \in Seq(Glyph) /\ lines \in Seq(Seq(Glyph))
  BY TextTypes
<1>7. StreamTypeOK'
  BY <1>1, <1>2, <1>4, <1>5, <1>6, TypeParts DEF StreamTypeOK
<1> QED BY <1>1, <1>7

\* ... so do those of the reader,
LEMMA ReaderTypes ==
    ASSUME StreamTypeOK, Told, Len(buffer) <= 2, (\E n \in 1..Capacity : Read(n)) \/ Eof
    PROVE  StreamTypeOK' /\ Told' /\ Len(buffer') <= 2
<1>1. /\ UNCHANGED <<cli, script, bare, process, signalled, taken, asking, state, inits, asked,
                     aborts, threw, extracted>>
      /\ reader' \in {reader, "ended"}
  BY DEF Read, Eof, processVars, toolVars
<1>2. /\ Told' /\ buffer' \in Seq(Glyph) /\ Len(buffer') <= 2
      /\ pipe' \in Seq(Glyph) /\ Len(pipe') <= Capacity
      /\ lines' \in Seq(Seq(Glyph))
  <2>1. ASSUME NEW n \in 1..Capacity, Read(n) PROVE <1>2
    <3>1. /\ Told' /\ buffer' \in Seq(Glyph) /\ Len(buffer') <= 2
          /\ pipe' \in Seq(Glyph) /\ Len(pipe') <= Len(pipe) /\ lines' \in Seq(Seq(Glyph))
      BY <2>1, ReadKeepsText
    <3>2. Len(pipe') \in Nat /\ Len(pipe) \in Nat /\ Len(pipe) <= Capacity /\ Capacity \in Nat
      BY <3>1, TextTypes, TypeParts, RunStreamAssumption
    <3> QED BY <3>1, <3>2
  <2>2. CASE Eof
    <3>1. Told' /\ buffer' = <<>> /\ lines' \in Seq(Seq(Glyph)) /\ pipe' = pipe
      BY <2>2, EofKeepsText DEF Eof
    <3> QED BY <3>1, TextTypes, TypeParts
  <2> QED BY <2>1, <2>2
<1>3. Line' = Line
  BY <1>1 DEF Line
<1>4. script \in Seq(Line \cup {"junk"}) /\ Len(script) <= Length
  BY TextTypes
<1>5. StreamTypeOK'
  BY <1>1, <1>2, <1>3, <1>4, TypeParts DEF StreamTypeOK
<1> QED BY <1>2, <1>5

\* the handling of a line,
LEMMA TakeTypes ==
    ASSUME StreamTypeOK, Told, Take
    PROVE  StreamTypeOK' /\ Told'
<1>1. /\ taken' = taken + 1 /\ taken' \in 1..Len(script) /\ reader = "reading"
      /\ UNCHANGED <<cli, script, bare, process, signalled, pipe, buffer, asked, aborts, extracted>>
      /\ Told' /\ lines' \in Seq(Seq(Glyph))
      /\ Skipped(taken') \/ Handle(taken')
  BY TakeCases
<1> DEFINE i == taken'
<1>2. i \in 1..Len(script) /\ i = taken + 1 /\ (Skipped(i) \/ Calm(i) \/ Dropped(i))
  BY <1>1, HandleCases
<1>3. state' \in State /\ {state'.final, state'.error, state'.turns} \subseteq 0..i
  <2> HIDE DEF i
  <2> QED BY <1>2, TakenFields
<1>4. /\ reader' \in {"reading", "asking", "showing", "stopped"}
      /\ asking' \in Seq(Tool) /\ threw' \in Throwing \cup {"none"}
      /\ inits' \in {inits, inits + 1}
  <2> HIDE DEF i
  <2>1. CASE Skipped(i)
    BY <1>1, <2>1, TypeParts DEF Skipped
  <2>2. CASE Calm(i)
    BY <1>2, <2>2, TypeParts, AskForProperties DEF Calm
  <2>3. CASE Dropped(i)
    BY <2>3 DEF Dropped
  <2> QED BY <1>2, <2>1, <2>2, <2>3
<1>5. inits' \in 0..taken' /\ taken' \in 0..Len(script')
  <2>1. inits \in 0..taken /\ taken \in Nat
    BY TypeParts, TextTypes
  <2> QED BY <1>1, <1>4, <2>1
<1>6. /\ Line' = Line /\ script \in Seq(Line \cup {"junk"}) /\ Len(script) <= Length
      /\ buffer \in Seq(Glyph) /\ pipe \in Seq(Glyph)
  BY <1>1, TextTypes DEF Line
<1>7. StreamTypeOK'
  BY <1>1, <1>3, <1>4, <1>5, <1>6, TypeParts DEF StreamTypeOK
<1> QED BY <1>1, <1>7

\* What a call of the callback does.
LEMMA AnswerCases ==
    ASSUME StreamTypeOK, asking # <<>>, NEW answer \in {"allow", "abort", "throw"}, Answer(answer)
    PROVE  /\ Head(asking) \in Tool /\ Tail(asking) \in Seq(Tool) /\ Head(asking) = asking[1]
           /\ reader = "asking"
           /\ UNCHANGED <<cli, script, bare, process, pipe, buffer, lines, taken, inits, extracted>>
           /\ Turn \in 0..(taken + 1)
           /\ asked' = Append(asked, [tool |-> Head(asking), turn |-> Turn])
           /\ state' = [state EXCEPT
                 !.seen = IF cli \in {"codex", "opencode"} THEN @ \cup {Head(asking)} ELSE @,
                 !.denied = IF Decision(answer) = "abort" THEN Head(asking) ELSE @]
           /\ asking' = IF Decision(answer) = "allow" THEN Tail(asking) ELSE <<>>
           /\ reader' = (IF Decision(answer) = "stop" THEN "stopped"
                         ELSE IF asking' = <<>> THEN "showing" ELSE "asking")
           /\ aborts' = (IF answer = "abort" THEN Append(aborts, Head(asking)) ELSE aborts)
           /\ signalled' \in BOOLEAN
           /\ threw' = (IF answer = "throw" THEN "onToolUseObserved" ELSE threw)
           /\ threw' \in Throwing \cup {"none"}
           /\ Decision(answer) \in {"allow", "abort", "stop"}
           /\ answer # "throw" => Decision(answer) = answer
           /\ answer = "throw" => threw = "none"
           /\ Decision(answer) = "stop" => cli = "claude" /\ answer = "throw"
           /\ answer = "throw" /\ Decision(answer) = "abort" => cli = "cursor"
           /\ answer = "throw" /\ Decision(answer) = "allow" => cli \in {"codex", "opencode"}
<1>1. asking \in Seq(Tool) /\ aborts \in Seq(Tool) /\ signalled \in BOOLEAN
      /\ threw \in Throwing \cup {"none"} /\ cli \in {"claude", "cursor", "codex", "opencode"}
  BY TypeParts, RunStreamAssumption
<1>2. Head(asking) \in Tool /\ Tail(asking) \in Seq(Tool) /\ Head(asking) = asking[1]
  BY <1>1, HeadTailProperties
<1>3. Turn \in 0..(taken + 1)
  <2>1. state.turns \in Nat /\ state.turns <= taken /\ taken \in Nat
    BY StateTypes, TextTypes
  <2> QED BY <1>1, <2>1 DEF Turn
<1>4. /\ reader = "asking"
      /\ UNCHANGED <<cli, script, bare, process, pipe, buffer, lines, taken, inits, extracted>>
      /\ asked' = Append(asked, [tool |-> Head(asking), turn |-> Turn])
      /\ aborts' = (IF answer = "abort" THEN Append(aborts, Head(asking)) ELSE aborts)
      /\ threw' = (IF answer = "throw" THEN "onToolUseObserved" ELSE threw)
      /\ answer = "throw" => MayThrow("onToolUseObserved")
      /\ Answered(Head(asking), Decision(answer))
  BY DEF Answer, processVars, pipeVars
<1>5. signalled' \in BOOLEAN
  BY <1>1 DEF Answer
<1>6. threw' \in Throwing \cup {"none"} /\ (answer = "throw" => threw = "none")
  BY <1>1, <1>4 DEF MayThrow
<1>7. /\ Decision(answer) \in {"allow", "abort", "stop"}
      /\ answer # "throw" => Decision(answer) = answer
      /\ Decision(answer) = "stop" => cli = "claude" /\ answer = "throw"
      /\ answer = "throw" /\ Decision(answer) = "abort" => cli = "cursor"
      /\ answer = "throw" /\ Decision(answer) = "allow" => cli \in {"codex", "opencode"}
  BY <1>1 DEF Decision
<1>8. /\ state' = [state EXCEPT
            !.seen = IF cli \in {"codex", "opencode"} THEN @ \cup {Head(asking)} ELSE @,
            !.denied = IF Decision(answer) = "abort" THEN Head(asking) ELSE @]
      /\ asking' = IF Decision(answer) = "allow" THEN Tail(asking) ELSE <<>>
      /\ reader' = (IF Decision(answer) = "stop" THEN "stopped"
                    ELSE IF asking' = <<>> THEN "showing" ELSE "asking")
  BY <1>4 DEF Answered, ReaderAfter
<1> QED BY <1>2, <1>3, <1>4, <1>5, <1>6, <1>7, <1>8

\* the answer of the callback,
LEMMA AnswerTypes ==
    ASSUME StreamTypeOK, Told, asking # <<>>,
           NEW answer \in {"allow", "abort", "throw"}, Answer(answer)
    PROVE  StreamTypeOK' /\ Told'
<1>1. UNCHANGED <<cli, script, bare, process, pipe, buffer, lines, taken, inits, extracted>>
  BY AnswerCases
<1>2. Told'
  BY <1>1, ToldUnchanged DEF TextUnchanged
<1>3. asked' \in Seq([tool : Tool, turn : 0..(Length + 1)])
  <2>1. Head(asking) \in Tool /\ Turn \in 0..(taken + 1)
        /\ asked' = Append(asked, [tool |-> Head(asking), turn |-> Turn])
    BY AnswerCases
  <2>2. taken \in Nat /\ taken <= Length /\ Length \in Nat
    <3>1. taken \in Nat /\ taken <= Len(script) /\ Len(script) <= Length /\ Len(script) \in Nat
          /\ Length \in Nat
      BY TextTypes
    <3> QED BY <3>1
  <2>3. Turn \in 0..(Length + 1)
    BY <2>1, <2>2
  <2> QED BY <2>1, <2>3, TypeParts, AppendProperties
<1>4. aborts' \in Seq(Tool) /\ asking' \in Seq(Tool)
  <2>1. Head(asking) \in Tool /\ Tail(asking) \in Seq(Tool) /\ aborts \in Seq(Tool)
    BY AnswerCases, TypeParts
  <2>2. Append(aborts, Head(asking)) \in Seq(Tool)
    BY <2>1, AppendProperties
  <2>3. /\ asking' \in {Tail(asking), <<>>} /\ aborts' \in {aborts, Append(aborts, Head(asking))}
        /\ <<>> \in Seq(Tool)
    BY AnswerCases
  <2> QED BY <2>1, <2>2, <2>3
<1>5. state' \in State /\ {state'.final, state'.error, state'.turns} \subseteq 0..taken
  <2>1. state \in State /\ Head(asking) \in Tool
        /\ {state.final, state.error, state.turns} \subseteq 0..taken
    BY AnswerCases, TypeParts
  <2>2. state' = [state EXCEPT
            !.seen = IF cli \in {"codex", "opencode"} THEN @ \cup {Head(asking)} ELSE @,
            !.denied = IF Decision(answer) = "abort" THEN Head(asking) ELSE @]
    BY AnswerCases
  <2> QED BY <2>1, <2>2 DEF State
<1>6. /\ reader' \in {"reading", "asking", "showing", "ended", "stopped"}
      /\ signalled' \in BOOLEAN /\ threw' \in Throwing \cup {"none"}
  BY AnswerCases
<1>7. Line' = Line
  BY <1>1 DEF Line
<1>8. StreamTypeOK'
  BY <1>1, <1>3, <1>4, <1>5, <1>6, <1>7, TypeParts, TextTypes DEF StreamTypeOK
<1> QED BY <1>2, <1>8

\* What is left to an event that was told: onOutput().
LEMMA ShowCases ==
    ASSUME StreamTypeOK, Show
    PROVE  /\ reader = "showing"
           /\ UNCHANGED <<cli, script, bare, process, signalled, pipe, buffer, lines, taken, inits, asked,
                          aborts, extracted, state>>
           /\ threw' \in Throwing \cup {"none"} /\ (threw' = threw \/ threw' # "none")
           /\ reader' \in {"reading", "stopped"}
           /\ reader' = "stopped" => threw' # "none" /\ cli # "opencode"
           /\ asking' \in {asking, <<>>}
<1>1. /\ reader = "showing"
      /\ UNCHANGED <<cli, script, bare, process, signalled, pipe, buffer, lines, taken, inits, asked,
                     aborts, extracted>>
  BY DEF Show, processVars, pipeVars, toolVars
<1>2. threw \in Throwing \cup {"none"} /\ "onOutput" # "none"
  BY TypeParts
<1> QED BY <1>1, <1>2 DEF Show, Thrown, MayThrow

\* the callback for the output,
LEMMA ShowTypes ==
    ASSUME StreamTypeOK, Told, Show
    PROVE  StreamTypeOK' /\ Told'
<1>1. /\ UNCHANGED <<cli, script, bare, process, signalled, pipe, buffer, lines, taken, inits, asked,
                     aborts, extracted, state>>
      /\ threw' \in Throwing \cup {"none"}
      /\ reader' \in {"reading", "stopped"} /\ asking' \in {asking, <<>>}
  BY ShowCases
<1>2. Told'
  BY <1>1, ToldUnchanged DEF TextUnchanged
<1>3. Line' = Line /\ asking' \in Seq(Tool)
  <2>1. asking \in Seq(Tool) /\ <<>> \in Seq(Tool)
    BY TypeParts
  <2> QED BY <1>1, <2>1 DEF Line
<1>4. StreamTypeOK'
  BY <1>1, <1>3, TypeParts, TextTypes DEF StreamTypeOK
<1> QED BY <1>2, <1>4

\* The kinds of what an attempt can end as.
LEMMA OutputKinds ==
    /\ ClaudeOutput.kind \in {"output", "nothing"}
    /\ CodexOutput.kind = "output"
    /\ OpenCodeOutput.kind \in {"output", "nothing", "broken"}
<1>1. \A text, isError, turns : Output(text, isError, turns).kind = "output"
  BY DEF Output
<1>2. Denial.kind = "denied" /\ Nothing.kind = "nothing" /\ Broken.kind = "broken"
  BY DEF Denial, Nothing, Broken
<1>3. ClaudeOutput.kind \in {"output", "nothing"}
  BY <1>1, <1>2 DEF ClaudeOutput
<1>4. CodexOutput.kind = "output"
  BY <1>1, <1>2 DEF CodexOutput
<1>5. OpenCodeOutput.kind \in {"output", "nothing", "broken"}
  <2> DEFINE of(kind) == {k \in DOMAIN state.json : script[state.json[k]] = kind}
  <2>1. CASE state.json = <<>>
    BY <2>1, <1>2 DEF OpenCodeOutput
  <2>2. CASE state.json # <<>> /\ of("null") # {}
    BY <2>2, <1>2 DEF OpenCodeOutput
  <2>3. CASE state.json # <<>> /\ of("null") = {}
    BY <2>3, <1>1 DEF OpenCodeOutput
  <2> QED BY <2>1, <2>2, <2>3
<1> QED BY <1>3, <1>4, <1>5

LEMMA ConcludeKinds ==
    ASSUME StreamTypeOK, Conclude
    PROVE  extracted'.kind \in {"output", "denied", "nothing", "broken"}
<1>1. Denial.kind = "denied"
  BY DEF Denial
<1>2. extracted' \in {Denial, ClaudeOutput, CodexOutput, OpenCodeOutput}
  <2>1. cli \in {"claude", "cursor", "codex", "opencode"}
    BY TypeParts, RunStreamAssumption
  <2> QED BY <2>1 DEF Conclude
<1> QED BY <1>1, <1>2, OutputKinds

LEMMA ConcludeTypes ==
    ASSUME StreamTypeOK, Told, Conclude
    PROVE  StreamTypeOK' /\ Told'
<1>1. UNCHANGED <<cli, script, bare, process, signalled, pipe, buffer, lines, taken, inits, asked,
                  aborts, state, reader, asking, threw>>
  BY DEF Conclude, processVars, pipeVars, toolVars
<1>2. Told'
  BY <1>1, ToldUnchanged DEF TextUnchanged
<1>3. Line' = Line
  BY <1>1 DEF Line
<1>4. StreamTypeOK'
  BY <1>1, <1>3, ConcludeKinds, TypeParts, TextTypes DEF StreamTypeOK
<1> QED BY <1>2, <1>4

\* The child exits, somebody stops it, or nothing happens.
Aside ==
    /\ UNCHANGED <<cli, script, bare, pipe, buffer, lines, taken, reader, asking, state, inits, asked,
                   aborts, threw, extracted>>
    /\ process' # "running" \/ process' = process

\* The steps that leave all but the child and its signal alone.
LEMMA AsideTypes ==
    ASSUME StreamTypeOK, Told, ChildExits \/ Stop \/ UNCHANGED streamVars
    PROVE  StreamTypeOK' /\ Told' /\ Aside
<1>1. Aside /\ process' \in {"running", "ok", "failed"} /\ signalled' \in BOOLEAN
  BY TypeParts DEF ChildExits, Stop, streamVars, processVars, pipeVars, toolVars, Aside
<1>2. Told'
  BY <1>1, ToldUnchanged DEF TextUnchanged, Aside
<1>3. Line' = Line
  BY <1>1 DEF Line, Aside
<1>4. StreamTypeOK'
  BY <1>1, <1>3, TypeParts, TextTypes DEF StreamTypeOK, Aside
<1> QED BY <1>1, <1>2, <1>4

-----------------------------------------------------------------------------
(* The reader *)

\* Reader is preserved by every step.
LEMMA ReaderStep ==
    ASSUME StreamTypeOK, Told, Reader, [StreamNext]_streamVars
    PROVE  StreamTypeOK' /\ Told' /\ Reader'
<1>0. /\ (reader = "asking") = (asking # <<>>) /\ Len(buffer) <= 2 /\ Len(<<>>) = 0
      /\ reader = "ended" => taken = Len(script) /\ process # "running"
      /\ reader = "stopped" => threw # "none" /\ cli # "opencode"
      /\ extracted # Unjudged => reader \in {"ended", "stopped"} /\ process # "running"
  BY DEF Reader
<1>1. ASSUME NEW kind \in Line \cup {"junk"}, Write(kind) PROVE StreamTypeOK' /\ Told' /\ Reader'
  <2>1. /\ process = "running"
        /\ UNCHANGED <<cli, process, buffer, taken, reader, asking, threw, extracted>>
    BY <1>1 DEF Write
  <2> QED BY <1>0, <1>1, <2>1, WriteTypes DEF Reader
<1>2. CASE Cut
  <2>1. process = "running" /\ UNCHANGED <<cli, buffer, taken, reader, asking, threw, extracted>>
    BY <1>2 DEF Cut
  <2> QED BY <1>0, <1>2, <2>1, CutTypes DEF Reader
<1>3. CASE (\E n \in 1..Capacity : Read(n)) \/ Eof
  <2>1. StreamTypeOK' /\ Told' /\ Len(buffer') <= 2
    BY <1>0, <1>3, ReaderTypes
  <2>2. /\ reader = "reading"
        /\ UNCHANGED <<cli, script, process, taken, asking, threw, extracted>>
        /\ reader' = reader \/ (reader' = "ended" /\ taken = Len(script) /\ process # "running")
    <3>1. CASE \E n \in 1..Capacity : Read(n)
      BY <3>1 DEF Read, processVars
    <3>2. CASE Eof
      BY <1>0, <3>2, EofKeepsText DEF Eof, processVars
    <3> QED BY <1>3, <3>1, <3>2
  <2> QED BY <1>0, <2>1, <2>2 DEF Reader
<1>4. CASE Take
  <2>1. /\ reader = "reading" /\ UNCHANGED <<cli, script, process, buffer, extracted>>
        /\ taken' \in 1..Len(script) /\ (Skipped(taken') \/ Handle(taken'))
    BY <1>4, TakeCases
  <2>2. Skipped(taken') \/ Calm(taken') \/ Dropped(taken')
    BY <2>1, HandleCases
  <2>3. /\ reader' \in {"reading", "asking", "showing", "stopped"}
        /\ (reader' = "asking") = (asking' # <<>>)
        /\ reader' = "stopped" => threw' # "none" /\ cli # "opencode"
    <3>1. CASE Skipped(taken')
      BY <1>0, <2>1, <3>1 DEF Skipped
    <3>2. CASE Calm(taken')
      BY <3>2 DEF Calm
    <3>3. CASE Dropped(taken')
      BY <3>3, RunStreamAssumption DEF Dropped, Callback
    <3> QED BY <2>2, <3>1, <3>2, <3>3
  <2>4. extracted' = Unjudged
    BY <1>0, <2>1
  <2> QED BY <1>0, <1>4, <2>1, <2>3, <2>4, TakeTypes DEF Reader
<1>5. ASSUME NEW answer \in {"allow", "abort", "throw"}, Answer(answer)
      PROVE  StreamTypeOK' /\ Told' /\ Reader'
  <2>1. reader = "asking" /\ asking # <<>>
    BY <1>0, <1>5 DEF Answer
  <2>2. /\ UNCHANGED <<cli, script, process, buffer, taken, extracted>>
        /\ asking' = IF Decision(answer) = "allow" THEN Tail(asking) ELSE <<>>
        /\ reader' = (IF Decision(answer) = "stop" THEN "stopped"
                      ELSE IF asking' = <<>> THEN "showing" ELSE "asking")
        /\ threw' = (IF answer = "throw" THEN "onToolUseObserved" ELSE threw)
        /\ Decision(answer) = "stop" => cli = "claude" /\ answer = "throw"
    BY <1>5, <2>1, AnswerCases
  <2>3. extracted' = Unjudged
    BY <1>0, <2>1, <2>2
  <2>4. /\ (reader' = "asking") = (asking' # <<>>)
        /\ reader' # "ended"
        /\ reader' = "stopped" => threw' # "none" /\ cli # "opencode"
    BY <2>2
  <2> QED BY <1>0, <1>5, <2>1, <2>2, <2>3, <2>4, AnswerTypes DEF Reader
<1>6. CASE Show
  <2>1. /\ reader = "showing"
        /\ UNCHANGED <<cli, script, process, buffer, taken, extracted>>
        /\ reader' \in {"reading", "stopped"}
        /\ reader' = "stopped" => threw' # "none" /\ cli # "opencode"
        /\ asking' \in {asking, <<>>}
    BY <1>6, ShowCases
  <2>2. asking' = <<>> /\ extracted' = Unjudged
    BY <1>0, <2>1
  <2> QED BY <1>0, <1>6, <2>1, <2>2, ShowTypes DEF Reader
<1>7. CASE Conclude
  <2>1. /\ UNCHANGED <<cli, script, process, buffer, taken, reader, asking, threw>>
        /\ reader \in {"ended", "stopped"} /\ process # "running"
    BY <1>7 DEF Conclude, processVars, pipeVars
  <2> QED BY <1>0, <1>7, <2>1, ConcludeTypes DEF Reader
<1>8. CASE ChildExits \/ Stop \/ UNCHANGED streamVars
  <2>1. StreamTypeOK' /\ Told' /\ Aside
    BY <1>8, AsideTypes
  <2> QED BY <1>0, <2>1 DEF Reader, Aside
<1> QED BY <1>1, <1>2, <1>3, <1>4, <1>5, <1>6, <1>7, <1>8 DEF StreamNext, Reads, Asks, Outside

-----------------------------------------------------------------------------
(* The state says what the lines taken say *)

\* The lines taken of some kinds are among those taken.
LEMMA TakenOfProperties ==
    ASSUME StreamTypeOK, NEW kinds
    PROVE  /\ TakenOf(kinds) \subseteq 1..taken /\ taken \in Nat
           /\ IsFiniteSet(TakenOf(kinds)) /\ Cardinality(TakenOf(kinds)) \in Nat
<1>1. TakenOf(kinds) \subseteq 1..taken /\ taken \in Nat
  BY TextTypes DEF TakenOf
<1>2. IsFiniteSet(1..taken)
  BY <1>1, FS_Interval
<1> QED BY <1>1, <1>2, FS_Subset, FS_CardinalityType

\* A line counts for its kind; what the child writes after it changes nothing.
LEMMA TakenGrows ==
    ASSUME StreamTypeOK, NEW kinds, taken' = taken + 1, script' = script
    PROVE  TakenOf(kinds)' = IF script[taken'] \in kinds THEN TakenOf(kinds) \cup {taken'} ELSE TakenOf(kinds)
<1>1. taken \in Nat /\ \A i : i \in 1..taken' <=> i \in 1..taken \/ i = taken'
  <2>1. taken \in Nat
    BY TextTypes
  <2> QED BY <2>1
<1> QED BY <1>1 DEF TakenOf

\* What the child writes is not taken yet.
LEMMA TakenKept ==
    ASSUME StreamTypeOK, NEW kinds, taken' = taken,
           script' = script \/ \E kind : script' = Append(script, kind)
    PROVE  TakenOf(kinds)' = TakenOf(kinds)
<1>1. \A i \in 1..taken : i \in 1..Len(script)
  <2>1. taken \in Nat /\ Len(script) \in Nat /\ taken <= Len(script)
    BY TextTypes
  <2> QED BY <2>1
<1>2. script \in Seq(Line \cup {"junk"})
  BY TextTypes
<1>3. \A i \in 1..taken : script'[i] = script[i]
  BY <1>1, <1>2
<1> QED BY <1>3 DEF TakenOf

\* A new line is later than all before it.
LEMMA LatestGrows ==
    ASSUME NEW n \in Nat, NEW S, S \subseteq 1..n
    PROVE  IsLatest(n + 1, S \cup {n + 1})
BY DEF IsLatest

\* It is the earliest only if there was none.
LEMMA EarliestGrows ==
    ASSUME NEW n \in Nat, NEW S, S \subseteq 1..n, NEW e, IsEarliest(e, S)
    PROVE  IsEarliest(IF e = 0 THEN n + 1 ELSE e, S \cup {n + 1})
<1>1. CASE S = {}
  <2>1. e = 0
    BY <1>1 DEF IsEarliest
  <2> QED BY <1>1, <2>1 DEF IsEarliest
<1>2. CASE S # {}
  <2>1. e \in S /\ \A j \in S : e <= j
    BY <1>2 DEF IsEarliest
  <2>2. e # 0 /\ e <= n + 1
    BY <2>1
  <2> QED BY <2>1, <2>2 DEF IsEarliest
<1> QED BY <1>1, <1>2

\* Nothing but a line changes what the state says.
LEMMA FoldedKept ==
    ASSUME StreamTypeOK, Folded, UNCHANGED <<cli, taken>>,
           script' = script \/ \E kind : script' = Append(script, kind),
           threw' = threw \/ threw' # "none",
           state'.final = state.final, state'.error = state.error, state'.turns = state.turns,
           state'.invalid = state.invalid, state'.json = state.json
    PROVE  Folded'
<1>1. ASSUME NEW kinds PROVE TakenOf(kinds)' = TakenOf(kinds)
  BY TakenKept
<1>2. /\ TakenOf({"good", "bad"})' = TakenOf({"good", "bad"}) /\ TakenOf({"text"})' = TakenOf({"text"})
      /\ TakenOf(Failure)' = TakenOf(Failure) /\ TakenOf(Fault)' = TakenOf(Fault)
      /\ TakenOf({"turn"})' = TakenOf({"turn"}) /\ TakenOf(Invalid)' = TakenOf(Invalid)
      /\ TakenOf(Line)' = TakenOf(Line)
  <2>1. Line' = Line
    BY DEF Line
  <2>2. TakenOf(Line)' = TakenOf(Line)
    BY <1>1, <2>1 DEF TakenOf
  <2> QED BY <1>1, <2>2
<1>3. threw' = "none" => threw = "none"
  OBVIOUS
<1> QED BY <1>2, <1>3 DEF Folded, IsLatest, IsEarliest

\* A new line is kept behind the earlier ones.
LEMMA JsonGrows ==
    ASSUME NEW m \in Nat, NEW n \in Nat, NEW s \in Seq(1..m), NEW S, S \subseteq 1..n,
           {s[k] : k \in DOMAIN s} = S, \A j, k \in DOMAIN s : j < k => s[j] < s[k],
           n + 1 \in 1..m
    PROVE  LET t == Append(s, n + 1)
           IN  /\ {t[k] : k \in DOMAIN t} = S \cup {n + 1}
               /\ \A j, k \in DOMAIN t : j < k => t[j] < t[k]
<1> DEFINE t == Append(s, n + 1)
<1>1. /\ DOMAIN s = 1..Len(s) /\ Len(s) \in Nat /\ DOMAIN t = 1..(Len(s) + 1)
      /\ \A k \in 1..Len(s) : t[k] = s[k] /\ s[k] \in S
      /\ t[Len(s) + 1] = n + 1
  BY AppendProperties
<1>2. \A k \in 1..(Len(s) + 1) : k \in 1..Len(s) \/ k = Len(s) + 1
  BY <1>1
<1>3. \A k \in 1..Len(s) : k \in 1..(Len(s) + 1) /\ t[k] \in 1..n
  BY <1>1
<1>4. Len(s) + 1 \in 1..(Len(s) + 1)
  BY <1>1
<1>5. {t[k] : k \in DOMAIN t} = S \cup {n + 1}
  <2> HIDE DEF t
  <2> QED BY <1>1, <1>2, <1>3, <1>4
<1>6. ASSUME NEW j \in DOMAIN t, NEW k \in DOMAIN t, j < k PROVE t[j] < t[k]
  <2>1. j \in 1..Len(s)
    <3> HIDE DEF t
    <3> QED BY <1>1, <1>6
  <2>2. CASE k \in 1..Len(s)
    <3>1. s[j] < s[k]
      BY <1>1, <1>6, <2>1, <2>2
    <3> HIDE DEF t
    <3> QED BY <1>1, <2>1, <2>2, <3>1
  <2>3. CASE k = Len(s) + 1
    <3>1. t[k] = n + 1 /\ t[j] \in 1..n
      <4> HIDE DEF t
      <4> QED BY <1>1, <1>3, <2>1, <2>3
    <3> HIDE DEF t
    <3> QED BY <3>1
  <2> QED BY <1>1, <1>2, <1>6, <2>2, <2>3
<1> QED BY <1>5, <1>6

\* Folded is preserved by the handling of a line ...
LEMMA FoldedTaken ==
    ASSUME StreamTypeOK, Folded, NEW i \in 1..Len(script), i = taken + 1, taken' = i,
           UNCHANGED <<cli, script>>,
           Skipped(i) \/ (script[i] \in Line \ {"null"} /\ (Calm(i) \/ Dropped(i)))
    PROVE  Folded'
<1>0. /\ taken \in Nat /\ i \in Nat /\ taken' = taken + 1
      /\ cli \in {"claude", "cursor", "codex", "opencode"}
      /\ script[i] \in Line \cup {"junk"} /\ "junk" \notin Line /\ Line' = Line
      /\ script[i] \in Invalid => cli = "codex"
      /\ i \in 1..Length /\ Length \in Nat
  BY TextTypes, Kinds DEF Line
<1>1. ASSUME NEW kinds
      PROVE  TakenOf(kinds)' = IF script[i] \in kinds THEN TakenOf(kinds) \cup {i} ELSE TakenOf(kinds)
  BY <1>0, TakenGrows
<1>2. threw' = "none" => threw = "none" /\ (Skipped(i) \/ Calm(i))
  BY RunStreamAssumption DEF Skipped, Calm, Dropped, Callback
<1>3. Skipped(i) /\ cli # "opencode" => state' = state /\ script[i] \in {"junk", "null"}
  BY DEF Skipped
<1>4. Calm(i) => state' = Fold(i, Keep(i))
  BY DEF Calm
<1>5. ASSUME cli \in {"claude", "cursor"}, threw' = "none"
      PROVE  IsLatest(state'.final, TakenOf({"good", "bad"})')
  <2>1. IsLatest(state.final, TakenOf({"good", "bad"}))
    BY <1>2, <1>5 DEF Folded
  <2>2. state'.final = IF script[i] \in {"good", "bad"} THEN i ELSE state.final
    BY <1>2, <1>3, <1>4, <1>5, EventFields
  <2>3. CASE script[i] \in {"good", "bad"}
    <3>1. IsLatest(i, TakenOf({"good", "bad"}) \cup {i})
      BY <1>0, TakenOfProperties, LatestGrows
    <3> QED BY <1>1, <2>2, <2>3, <3>1
  <2>4. CASE script[i] \notin {"good", "bad"}
    BY <1>1, <2>1, <2>2, <2>4
  <2> QED BY <2>3, <2>4
<1>6. ASSUME cli = "codex", threw' = "none"
      PROVE  /\ IsLatest(state'.final, TakenOf({"text"})')
             /\ IF TakenOf(Failure)' # {} THEN IsLatest(state'.error, TakenOf(Failure)')
                ELSE IsEarliest(state'.error, TakenOf(Fault)')
             /\ state'.turns = Cardinality(TakenOf({"turn"})')
             /\ state'.invalid = (TakenOf(Invalid)' # {})
  <2>1. /\ IsLatest(state.final, TakenOf({"text"}))
        /\ IF TakenOf(Failure) # {} THEN IsLatest(state.error, TakenOf(Failure))
           ELSE IsEarliest(state.error, TakenOf(Fault))
        /\ state.turns = Cardinality(TakenOf({"turn"}))
        /\ state.invalid = (TakenOf(Invalid) # {})
    BY <1>2, <1>6 DEF Folded
  <2>2. /\ state'.turns = (IF script[i] = "turn" THEN state.turns + 1 ELSE state.turns)
        /\ state'.final = (IF script[i] = "text" THEN i ELSE state.final)
        /\ state'.error = (IF script[i] \in Failure \/ (script[i] \in Fault /\ state.error = 0)
                           THEN i ELSE state.error)
        /\ state'.invalid = (state.invalid \/ script[i] \in Invalid)
    <3>1. CASE Skipped(i)
      <4>1. state' = state /\ script[i] \in {"junk", "null"}
        BY <1>3, <1>6, <3>1
      <4>2. state.invalid \in BOOLEAN
        BY StateTypes
      <4> QED BY <4>1, <4>2 DEF Failure, Fault, Invalid
    <3>2. CASE Calm(i)
      <4>1. state' = Fold(i, Keep(i))
        BY <1>4, <3>2
      <4> QED BY <1>6, <4>1, EventFields
    <3> QED BY <1>2, <1>6, <3>1, <3>2
  <2>3. IsLatest(state'.final, TakenOf({"text"})')
    <3>1. IsLatest(i, TakenOf({"text"}) \cup {i})
      BY <1>0, TakenOfProperties, LatestGrows
    <3> QED BY <1>1, <2>1, <2>2, <3>1
  <2>4. IF TakenOf(Failure)' # {} THEN IsLatest(state'.error, TakenOf(Failure)')
        ELSE IsEarliest(state'.error, TakenOf(Fault)')
    <3>1. CASE script[i] \in Failure
      <4>1. IsLatest(i, TakenOf(Failure) \cup {i})
        BY <1>0, TakenOfProperties, LatestGrows
      <4>2. TakenOf(Failure)' = TakenOf(Failure) \cup {i} /\ state'.error = i
        BY <1>1, <2>2, <3>1
      <4> QED BY <4>1, <4>2
    <3>2. CASE script[i] \in Fault
      <4>1. /\ TakenOf(Failure)' = TakenOf(Failure)
            /\ TakenOf(Fault)' = TakenOf(Fault) \cup {i}
            /\ state'.error = IF state.error = 0 THEN i ELSE state.error
        BY <1>1, <2>2, <3>2 DEF Failure, Fault
      <4>2. CASE TakenOf(Failure) # {}
        <5>1. state.error \in TakenOf(Failure)
          BY <2>1, <4>2 DEF IsLatest
        <5>2. state.error # 0
          BY <5>1, TakenOfProperties
        <5> QED BY <2>1, <4>1, <4>2, <5>2
      <4>3. CASE TakenOf(Failure) = {}
        <5>1. IsEarliest(state.error, TakenOf(Fault))
          BY <2>1, <4>3
        <5>2. IsEarliest(IF state.error = 0 THEN taken + 1 ELSE state.error,
                         TakenOf(Fault) \cup {taken + 1})
          BY <5>1, <1>0, TakenOfProperties, EarliestGrows
        <5> QED BY <4>1, <4>3, <5>2
      <4> QED BY <4>2, <4>3
    <3>3. CASE script[i] \notin Failure \cup Fault
      <4>1. /\ TakenOf(Failure)' = TakenOf(Failure)
            /\ TakenOf(Fault)' = TakenOf(Fault)
            /\ state'.error = state.error
        BY <1>1, <2>2, <3>3
      <4> QED BY <2>1, <4>1
    <3> QED BY <3>1, <3>2, <3>3
  <2>5. state'.turns = Cardinality(TakenOf({"turn"})')
    <3>1. IsFiniteSet(TakenOf({"turn"})) /\ i \notin TakenOf({"turn"})
      BY <1>0, TakenOfProperties
    <3>2. Cardinality(TakenOf({"turn"}) \cup {i}) = Cardinality(TakenOf({"turn"})) + 1
      BY <3>1, FS_AddElement
    <3> QED BY <1>1, <2>1, <2>2, <3>2
  <2>6. state'.invalid = (TakenOf(Invalid)' # {})
    <3>1. CASE script[i] \in Invalid
      <4>1. TakenOf(Invalid)' = TakenOf(Invalid) \cup {i} /\ state'.invalid = TRUE
        BY <1>1, <2>2, <3>1
      <4> QED BY <4>1
    <3>2. CASE script[i] \notin Invalid
      <4>1. TakenOf(Invalid)' = TakenOf(Invalid) /\ state'.invalid = (state.invalid \/ FALSE)
        BY <1>1, <2>2, <3>2
      <4>2. state.invalid \in BOOLEAN
        BY StateTypes
      <4> QED BY <2>1, <4>1, <4>2
    <3> QED BY <3>1, <3>2
  <2> QED BY <2>3, <2>4, <2>5, <2>6
<1>7. state'.invalid = state.invalid \/ cli = "codex"
  <2>1. CASE Skipped(i)
    BY <2>1, EventFields DEF Skipped
  <2>2. CASE Calm(i)
    BY <1>0, <1>4, <2>2, EventFields
  <2>3. CASE Dropped(i)
    BY <2>3, EventFields DEF Dropped
  <2> QED BY <2>1, <2>2, <2>3
<1>8. ASSUME cli = "opencode"
      PROVE  /\ {state'.json[k] : k \in DOMAIN state'.json} = TakenOf(Line)'
             /\ \A j, k \in DOMAIN state'.json : j < k => state'.json[j] < state'.json[k]
  <2>1. /\ {state.json[k] : k \in DOMAIN state.json} = TakenOf(Line)
        /\ \A j, k \in DOMAIN state.json : j < k => state.json[j] < state.json[k]
    BY <1>8 DEF Folded
  <2>2. TakenOf(Line)' = IF script[i] \in Line THEN TakenOf(Line) \cup {i} ELSE TakenOf(Line)
    <3>1. TakenOf(Line)' = {j \in 1..taken' : script[j] \in Line}
      BY <1>0 DEF TakenOf
    <3>2. \A j : j \in 1..taken' <=> j \in 1..taken \/ j = i
      BY <1>0
    <3> QED BY <3>1, <3>2 DEF TakenOf
  <2>3. state'.json = IF script[i] \in Line THEN Append(state.json, i) ELSE state.json
    <3>0. KeptJson(i) = Append(state.json, i) /\ Keep(i).json = KeptJson(i)
      BY <1>8, EventFields DEF KeptJson
    <3>1. CASE Skipped(i)
      <4>1. script[i] = "junk" \/ script[i] = "null"
        BY <3>1 DEF Skipped
      <4>2. CASE script[i] = "junk"
        BY <1>0, <3>1, <4>2 DEF Skipped
      <4>3. CASE script[i] = "null"
        BY <1>0, <1>8, <3>0, <3>1, <4>3 DEF Skipped
      <4> QED BY <4>1, <4>2, <4>3
    <3>2. CASE script[i] \in Line \ {"null"} /\ Calm(i)
      <4>1. state'.json = KeptJson(i)
        BY <1>4, <3>2, EventFields
      <4> QED BY <3>0, <3>2, <4>1
    <3>3. CASE script[i] \in Line \ {"null"} /\ Dropped(i)
      <4>1. state'.json = KeptJson(i)
        BY <3>3, EventFields DEF Dropped
      <4> QED BY <3>0, <3>3, <4>1
    <3> QED BY <3>1, <3>2, <3>3
  <2>4. CASE script[i] \in Line
    <3>1. /\ state.json \in Seq(1..Length) /\ TakenOf(Line) \subseteq 1..taken /\ taken + 1 \in 1..Length
      BY <1>0, StateTypes, TakenOfProperties
    <3>2. LET t == Append(state.json, taken + 1)
          IN  /\ {t[k] : k \in DOMAIN t} = TakenOf(Line) \cup {taken + 1}
              /\ \A j, k \in DOMAIN t : j < k => t[j] < t[k]
      BY <1>0, <2>1, <3>1, JsonGrows
    <3> QED BY <2>2, <2>3, <2>4, <3>2
  <2>5. CASE script[i] \notin Line
    BY <2>1, <2>2, <2>3, <2>5
  <2> QED BY <2>4, <2>5
<1>9. cli # "codex" => state'.invalid = FALSE
  BY <1>7 DEF Folded
<1> QED BY <1>5, <1>6, <1>8, <1>9 DEF Folded

\* ... and by every step.
LEMMA FoldedStep ==
    ASSUME StreamTypeOK, Told, Reader, Folded, [StreamNext]_streamVars
    PROVE  Folded'
<1>1. ASSUME NEW kind \in Line \cup {"junk"}, Write(kind) PROVE Folded'
  <2>1. script' = Append(script, kind) /\ UNCHANGED <<cli, taken, threw, state>>
    BY <1>1 DEF Write
  <2> QED BY <2>1, FoldedKept
<1>2. CASE Cut
  <2>1. script' = Append(script, "junk") /\ UNCHANGED <<cli, taken, threw, state>>
    BY <1>2 DEF Cut
  <2> QED BY <2>1, FoldedKept
<1>3. CASE (\E n \in 1..Capacity : Read(n)) \/ Eof
  <2>1. UNCHANGED <<cli, taken, threw, state, script>>
    BY <1>3 DEF Read, Eof, processVars
  <2> QED BY <2>1, FoldedKept
<1>4. CASE Take
  <2> DEFINE i == taken'
  <2>1. /\ i \in 1..Len(script) /\ i = taken + 1 /\ UNCHANGED <<cli, script>>
        /\ (Skipped(i) \/ (script[i] \in Line \ {"null"} /\ Handle(i)))
    BY <1>4, TakeCases
  <2>2. Skipped(i) \/ (script[i] \in Line \ {"null"} /\ (Calm(i) \/ Dropped(i)))
    BY <2>1, HandleCases
  <2> QED BY <2>1, <2>2, FoldedTaken
<1>5. ASSUME NEW answer \in {"allow", "abort", "throw"}, Answer(answer) PROVE Folded'
  <2>1. asking # <<>>
    BY <1>5 DEF Answer, Reader
  <2>2. /\ UNCHANGED <<cli, script, taken>> /\ (threw' = threw \/ threw' # "none")
        /\ state' = [state EXCEPT
              !.seen = IF cli \in {"codex", "opencode"} THEN @ \cup {Head(asking)} ELSE @,
              !.denied = IF Decision(answer) = "abort" THEN Head(asking) ELSE @]
    BY <1>5, <2>1, AnswerCases
  <2>3. /\ state'.final = state.final /\ state'.error = state.error /\ state'.turns = state.turns
        /\ state'.invalid = state.invalid /\ state'.json = state.json
    BY <2>2, TypeParts DEF State
  <2> QED BY <2>2, <2>3, FoldedKept
<1>6. CASE Show
  <2>1. UNCHANGED <<cli, taken, state, script>> /\ (threw' = threw \/ threw' # "none")
    BY <1>6, ShowCases
  <2> QED BY <2>1, FoldedKept
<1>7. CASE Conclude
  <2>1. UNCHANGED <<cli, taken, threw, state, script>>
    BY <1>7 DEF Conclude, processVars
  <2> QED BY <2>1, FoldedKept
<1>8. CASE ChildExits \/ Stop \/ UNCHANGED streamVars
  <2>1. UNCHANGED <<cli, taken, threw, state, script>>
    BY <1>8, AsideTypes DEF Aside
  <2> QED BY <2>1, FoldedKept
<1> QED BY <1>1, <1>2, <1>3, <1>4, <1>5, <1>6, <1>7, <1>8 DEF StreamNext, Reads, Asks, Outside

-----------------------------------------------------------------------------
(* What was asked for *)

\* The members of a sequence.
LEMMA ToSetIs ==
    ASSUME NEW S, NEW s \in Seq(S)
    PROVE  /\ ToSet(s) = {s[k] : k \in 1..Len(s)} /\ ToSet(s) \subseteq S
           /\ ToSet(<<>>) = {}
           /\ s # <<>> => ToSet(s) = {Head(s)} \cup ToSet(Tail(s))
           /\ \A e \in S : ToSet(Append(s, e)) = ToSet(s) \cup {e}
<1>1. ToSet(s) = {s[k] : k \in 1..Len(s)} /\ ToSet(s) \subseteq S /\ ToSet(<<>>) = {}
  BY DEF ToSet
<1>2. ASSUME s # <<>> PROVE ToSet(s) = {Head(s)} \cup ToSet(Tail(s))
  <2>1. /\ Tail(s) \in Seq(S) /\ Len(Tail(s)) = Len(s) - 1 /\ Len(s) \in Nat \ {0}
        /\ \A k \in 1..Len(Tail(s)) : Tail(s)[k] = s[k + 1]
        /\ Head(s) = s[1]
    BY <1>2, HeadTailProperties
  <2>2. ToSet(Tail(s)) = {Tail(s)[k] : k \in 1..Len(Tail(s))}
    <3>1. DOMAIN Tail(s) = 1..Len(Tail(s))
      BY <2>1
    <3> QED BY <3>1 DEF ToSet
  <2>3. ASSUME NEW k \in 1..Len(s) PROVE s[k] \in {Head(s)} \cup ToSet(Tail(s))
    <3>1. k = 1 \/ (k - 1 \in 1..Len(Tail(s)) /\ (k - 1) + 1 = k)
      BY <2>1
    <3> QED BY <2>1, <2>2, <3>1
  <2>4. ASSUME NEW k \in 1..Len(Tail(s)) PROVE Tail(s)[k] \in ToSet(s)
    <3>1. k + 1 \in 1..Len(s)
      BY <2>1
    <3> QED BY <1>1, <2>1, <3>1
  <2>5. Head(s) \in ToSet(s)
    BY <1>1, <2>1
  <2> QED BY <1>1, <2>2, <2>3, <2>4, <2>5
<1>3. ASSUME NEW e \in S PROVE ToSet(Append(s, e)) = ToSet(s) \cup {e}
  <2> DEFINE t == Append(s, e)
  <2>1. /\ DOMAIN t = 1..(Len(s) + 1) /\ Len(s) \in Nat
        /\ \A k \in 1..Len(s) : t[k] = s[k]
        /\ t[Len(s) + 1] = e
    BY AppendProperties
  <2>2. \A k : k \in 1..(Len(s) + 1) <=> k \in 1..Len(s) \/ k = Len(s) + 1
    BY <2>1
  <2>3. ToSet(t) = {t[k] : k \in 1..(Len(s) + 1)}
    BY <2>1 DEF ToSet
  <2>4. ToSet(t) = ToSet(s) \cup {e}
    <3> HIDE DEF t
    <3> QED BY <1>1, <2>1, <2>2, <2>3
  <2> QED BY <2>4
<1> QED BY <1>1, <1>2, <1>3

\* The tools of a line are named by it and the lines before.
LEMMA ToolsKept ==
    ASSUME StreamTypeOK, NEW i \in 1..Len(script),
           script' = script \/ \E kind : script' = Append(script, kind)
    PROVE  Tools(i)' = Tools(i)
<1>1. \A j \in 1..i : script'[j] = script[j]
  <2>1. script \in Seq(Line \cup {"junk"}) /\ Len(script) \in Nat
    BY TextTypes
  <2>2. \A j \in 1..i : j \in 1..Len(script)
    BY <2>1
  <2> QED BY <2>1, <2>2
<1>2. i \in 1..i /\ \A j \in 1..(i - 1) : j \in 1..i
  BY TextTypes
<1>3. {j \in 1..(i - 1) : script[j] = "tool"}' = {j \in 1..(i - 1) : script[j] = "tool"}
  BY <1>1, <1>2
<1>4. Named(i)' = Named(i)
  BY <1>1, <1>2, <1>3 DEF Named
<1> QED BY <1>1, <1>2, <1>4 DEF Tools

\* What the child writes does not change the tools of earlier lines.
LEMMA ToolsUptoKept ==
    ASSUME StreamTypeOK, taken' = taken,
           script' = script \/ \E kind : script' = Append(script, kind)
    PROVE  ToolsUpto(taken)' = ToolsUpto(taken)
<1>1. \A i \in 1..taken : i \in 1..Len(script)
  <2>1. taken \in Nat /\ Len(script) \in Nat /\ taken <= Len(script)
    BY TextTypes
  <2> QED BY <2>1
<1>2. \A i \in 1..taken : Tools(i)' = Tools(i)
  BY <1>1, ToolsKept
<1> QED BY <1>2 DEF ToolsUpto, ToSet

\* One more line adds its tools.
LEMMA ToolsUptoGrows ==
    ASSUME StreamTypeOK, taken' = taken + 1, taken' \in 1..Len(script), script' = script
    PROVE  ToolsUpto(taken)' = ToolsUpto(taken) \cup ToSet(Tools(taken'))
<1>1. \A i : i \in 1..taken' <=> i \in 1..taken \/ i = taken'
  <2>1. taken \in Nat
    BY TextTypes
  <2> QED BY <2>1
<1>2. \A i \in 1..taken' : i \in 1..Len(script)
  BY TextTypes
<1>3. ASSUME NEW i \in 1..taken' PROVE Tools(i)' = Tools(i)
  BY <1>2, ToolsKept
<1>4. ToolsUpto(taken)' = UNION {ToSet(Tools(i)) : i \in 1..taken'}
  BY <1>3 DEF ToolsUpto, ToSet
<1> QED BY <1>1, <1>4 DEF ToolsUpto

\* The types of what was asked.
LEMMA AskedTypes ==
    ASSUME StreamTypeOK
    PROVE  /\ asked \in Seq([tool : Tool, turn : 0..(Length + 1)])
           /\ Len(asked) \in Nat /\ DOMAIN asked = 1..Len(asked)
           /\ \A k \in DOMAIN asked : asked[k].tool \in Tool /\ asked[k].turn \in Nat
           /\ AskedTools \subseteq Tool
           /\ \A k \in DOMAIN asked : asked[k].tool \in AskedTools
           /\ asking \in Seq(Tool) /\ DOMAIN asking = 1..Len(asking) /\ Len(asking) \in Nat
           /\ aborts \in Seq(Tool)
<1>1. asked \in Seq([tool : Tool, turn : 0..(Length + 1)]) /\ asking \in Seq(Tool)
      /\ aborts \in Seq(Tool) /\ Length \in Nat
  BY TypeParts, TextTypes
<1>2. \A k \in DOMAIN asked : asked[k] \in [tool : Tool, turn : 0..(Length + 1)]
  <2> DEFINE S == [tool : Tool, turn : 0..(Length + 1)]
  <2>1. asked \in Seq(S)
    BY <1>1
  <2> HIDE DEF S
  <2>2. \A k \in DOMAIN asked : asked[k] \in S
    BY <2>1
  <2> QED BY <2>2 DEF S
<1>3. \A k \in DOMAIN asked : asked[k].tool \in Tool /\ asked[k].turn \in Nat
  BY <1>1, <1>2
<1> QED BY <1>1, <1>3 DEF AskedTools

\* Asked is preserved by the steps that ask nothing,
LEMMA AskedKept ==
    ASSUME StreamTypeOK, Asked, UNCHANGED <<cli, taken, asked, asking, aborts>>,
           script' = script \/ \E kind : script' = Append(script, kind),
           threw' = threw \/ threw' # "none",
           state'.seen = state.seen, state'.turns = state.turns
    PROVE  Asked'
<1>1. Turn' = Turn /\ AskedTools' = AskedTools /\ ToSet(asking)' = ToSet(asking)
  BY DEF Turn, AskedTools, ToSet
<1>2. ToolsUpto(taken)' = ToolsUpto(taken)
  BY ToolsUptoKept
<1>3. threw' = "none" => threw = "none"
  OBVIOUS
<1> QED BY <1>1, <1>2, <1>3 DEF Asked

\* The turn told to the callback never goes back.
LEMMA TurnGrows ==
    ASSUME StreamTypeOK, cli' = cli, state'.turns \in {state.turns, state.turns + 1}
    PROVE  /\ Turn \in Nat /\ Turn' \in Nat /\ Turn <= Turn'
           /\ state'.turns # state.turns => 1 <= Turn'
           /\ cli # "claude" => 1 <= Turn'
           /\ cli = "claude" => Turn' = state'.turns
<1>1. state.turns \in Nat /\ cli \in {"claude", "cursor", "codex", "opencode"}
  BY StateTypes, TypeParts, RunStreamAssumption
<1> QED BY <1>1 DEF Turn

\* The tools of an event that the callback is asked for are new to it.
LEMMA CalmAsks ==
    ASSUME StreamTypeOK, Asked, Denied, asking = <<>>, NEW i \in 1..Len(script), i = taken + 1, Calm(i),
           cli' = cli
    PROVE  /\ asking' \in {<<>>, Tools(i)} /\ asking' \in Seq(Tool)
           /\ asking' # <<>> => 1 <= Turn'
           /\ \A j \in 1..Len(asking') : asking'[j] \notin AskedTools
           /\ \A j, k \in 1..Len(asking') : j < k => asking'[j] # asking'[k]
           /\ cli \in {"claude", "cursor"} => \A j \in 1..Len(asking') : asking'[j][1] = i
           /\ threw = "none" /\ aborts = <<>> =>
                 AskedTools \cup ToSet(asking') = AskedTools \cup ToSet(Tools(i))
<1> DEFINE s == Fold(i, Keep(i))
<1>0. taken \in Nat /\ cli \in {"claude", "cursor", "codex", "opencode"}
  BY TextTypes, Kinds
<1>1. asking' = AskFor(i, s) /\ state' = s /\ s.seen = state.seen /\ s.denied = state.denied
  BY EventFields DEF Calm
<1>2. asking' \in {<<>>, Tools(i)} /\ asking' \in Seq(Tool)
  BY <1>1, AskForProperties
<1>3. /\ Tools(i) \in Seq(Tool) /\ Len(Tools(i)) \in 0..2
      /\ script[i] \notin {"tool", "again", "tools"} => Tools(i) = <<>>
      /\ cli \in {"claude", "cursor"} => \A k \in 1..Len(Tools(i)) : Tools(i)[k][1] = i
      /\ cli # "claude" => Len(Tools(i)) \in 0..1
      /\ \A j, k \in 1..Len(Tools(i)) : j < k => Tools(i)[j] # Tools(i)[k]
  BY ToolsProperties
<1>4. \A j \in 1..Len(<<>>) : FALSE
  OBVIOUS
<1>5. ASSUME asking' # <<>> PROVE 1 <= Turn'
  <2>1. script[i] \in {"tool", "again", "tools"} /\ (script[i] = "again" => cli # "claude")
    BY <1>2, <1>3, <1>5, Kinds
  <2>2. cli = "claude" => state'.turns = state.turns + 1
    BY <1>1, <2>1, EventFields DEF Assistant
  <2>3. state.turns \in Nat /\ state'.turns \in {state.turns, state.turns + 1}
    BY StateTypes, TakenFields
  <2> QED BY <2>2, <2>3, TurnGrows
<1>6. ASSUME NEW j \in 1..Len(asking') PROVE asking'[j] \notin AskedTools
  <2>1. asking' = Tools(i)
    BY <1>2, <1>4, <1>6
  <2>2. CASE cli \in {"claude", "cursor"}
    <3>1. asking'[j][1] = i
      BY <1>3, <1>6, <2>1, <2>2
    <3>2. \A t \in AskedTools : t[1] <= taken
      BY <2>2 DEF Asked
    <3>3. ~(i <= taken)
      BY <1>0
    <3> QED BY <3>1, <3>2, <3>3
  <2>3. CASE cli \in {"codex", "opencode"}
    <3>1. ~(ToSet(Tools(i)) \subseteq state.seen)
      <4>1. asking' # <<>>
        BY <1>4, <1>6
      <4> HIDE DEF s
      <4> QED BY <1>1, <2>3, <4>1 DEF AskFor
    <3>2. state.seen = AskedTools
      BY <2>3 DEF Asked
    <3>3. Len(Tools(i)) \in 0..1 /\ j \in 1..Len(Tools(i))
      BY <1>3, <1>6, <2>1, <2>3
    <3>4. j = 1 /\ Len(Tools(i)) = 1
      <4>1. \A x \in 0..1 : j \in 1..x => j = 1 /\ x = 1
        OBVIOUS
      <4> QED BY <3>3, <4>1
    <3>5. ToSet(Tools(i)) = {Tools(i)[j]}
      <4>1. ToSet(Tools(i)) = {Tools(i)[k] : k \in 1..Len(Tools(i))}
        BY <1>3, ToSetIs
      <4>2. \A k \in 1..1 : k = 1
        OBVIOUS
      <4> QED BY <3>4, <4>1, <4>2
    <3> QED BY <2>1, <3>1, <3>2, <3>5
  <2> QED BY <1>0, <2>2, <2>3
<1>7. \A j, k \in 1..Len(asking') : j < k => asking'[j] # asking'[k]
  BY <1>2, <1>3, <1>4
<1>8. cli \in {"claude", "cursor"} => \A j \in 1..Len(asking') : asking'[j][1] = i
  BY <1>2, <1>3, <1>4
<1>9. ASSUME threw = "none", aborts = <<>>
      PROVE  AskedTools \cup ToSet(asking') = AskedTools \cup ToSet(Tools(i))
  <2>1. CASE cli \in {"claude", "cursor"}
    <3>1. state.denied = None
      BY <1>9 DEF Denied
    <3>2. asking' = Tools(i)
      <4> HIDE DEF s
      <4> QED BY <1>1, <2>1, <3>1 DEF AskFor
    <3> QED BY <3>2
  <2>2. CASE cli \in {"codex", "opencode"}
    <3>1. state.seen = AskedTools
      BY <2>2 DEF Asked
    <3>2. asking' = Tools(i) \/ (ToSet(Tools(i)) \subseteq AskedTools /\ asking' = <<>>)
      <4> HIDE DEF s
      <4> QED BY <1>1, <2>2, <3>1 DEF AskFor
    <3>3. ToSet(<<>>) = {}
      BY DEF ToSet
    <3> QED BY <3>2, <3>3
  <2> QED BY <1>0, <2>1, <2>2
<1> QED BY <1>2, <1>5, <1>6, <1>7, <1>8, <1>9

\* by the handling of a line,
LEMMA AskedTaken ==
    ASSUME StreamTypeOK, Asked, Denied, asking = <<>>, NEW i \in 1..Len(script), i = taken + 1,
           taken' = i, UNCHANGED <<cli, script, asked, aborts>>,
           Skipped(i) \/ (script[i] \in Line \ {"null"} /\ (Calm(i) \/ Dropped(i)))
    PROVE  Asked'
<1>1. Skipped(i) \/ Calm(i) \/ Dropped(i)
  OBVIOUS
<1>2. AskedTools' = AskedTools /\ ToSet(<<>>) = {} /\ Len(<<>>) = 0 /\ taken \in Nat
      /\ cli \in {"claude", "cursor", "codex", "opencode"}
  BY TextTypes, Kinds DEF AskedTools, ToSet
<1>3. state'.seen = state.seen /\ state'.turns \in {state.turns, state.turns + 1}
  BY <1>1, TakenFields
<1>4. /\ asking' \in Seq(Tool)
      /\ asking' # <<>> => 1 <= Turn'
      /\ \A j \in 1..Len(asking') : asking'[j] \notin AskedTools
      /\ \A j, k \in 1..Len(asking') : j < k => asking'[j] # asking'[k]
      /\ cli \in {"claude", "cursor"} => \A j \in 1..Len(asking') : asking'[j][1] = i
  <2>1. CASE Skipped(i) \/ Dropped(i)
    <3>1. asking' = <<>>
      BY <2>1 DEF Skipped, Dropped
    <3> QED BY <1>2, <3>1
  <2>2. CASE Calm(i)
    BY <2>2, CalmAsks
  <2> QED BY <1>1, <2>1, <2>2
<1>5. ASSUME NEW k \in DOMAIN asked PROVE 1 <= asked[k].turn /\ asked[k].turn <= Turn'
  <2>1. 1 <= asked[k].turn /\ asked[k].turn <= Turn /\ asked[k].turn \in Nat
    BY AskedTypes DEF Asked
  <2>2. Turn \in Nat /\ Turn' \in Nat /\ Turn <= Turn'
    BY <1>3, TurnGrows
  <2> QED BY <2>1, <2>2
<1>6. ASSUME cli \in {"claude", "cursor"}
      PROVE  \A t \in AskedTools \cup ToSet(asking') : t[1] <= taken'
  <2>1. ToSet(asking') = {asking'[k] : k \in 1..Len(asking')}
    BY <1>4, ToSetIs
  <2>2. \A t \in ToSet(asking') : t[1] <= taken'
    BY <1>2, <1>4, <1>6, <2>1
  <2>3. ASSUME NEW t \in AskedTools PROVE t[1] <= taken'
    <3>1. t[1] <= taken /\ t \in Tool
      BY <1>6, AskedTypes DEF Asked
    <3>2. t[1] \in Nat
      BY <3>1, TextTypes DEF Tool
    <3> QED BY <1>2, <3>1, <3>2
  <2> QED BY <2>2, <2>3
<1>7. ASSUME threw' = "none", aborts = <<>>
      PROVE  AskedTools \cup ToSet(asking') = ToolsUpto(taken)'
  <2>1. threw = "none" /\ (Skipped(i) \/ Calm(i))
    BY <1>1, <1>7, RunStreamAssumption DEF Skipped, Calm, Dropped, Callback
  <2>2. AskedTools = ToolsUpto(taken)
    BY <1>2, <1>7, <2>1 DEF Asked
  <2>3. ToolsUpto(taken)' = ToolsUpto(taken) \cup ToSet(Tools(i))
    BY ToolsUptoGrows
  <2>4. AskedTools \cup ToSet(asking') = AskedTools \cup ToSet(Tools(i))
    <3>1. CASE Skipped(i)
      <4>1. asking' = <<>> /\ Tools(i) = <<>>
        BY <3>1, ToolsProperties DEF Skipped
      <4> QED BY <4>1
    <3>2. CASE Calm(i)
      BY <1>7, <2>1, <3>2, CalmAsks
    <3> QED BY <2>1, <3>1, <3>2
  <2> QED BY <2>2, <2>3, <2>4
<1>8. \A j, k \in DOMAIN asked : j < k => asked[j].tool # asked[k].tool /\ asked[j].turn <= asked[k].turn
  BY DEF Asked
<1>9. cli \in {"codex", "opencode"} => state'.seen = AskedTools
  BY <1>3 DEF Asked
<1>10. DOMAIN asking' = 1..Len(asking')
  BY <1>4
<1>11. ToSet(asking)' = ToSet(asking')
  BY DEF ToSet
<1> QED BY <1>2, <1>4, <1>5, <1>6, <1>7, <1>8, <1>9, <1>10, <1>11 DEF Asked

\* and by an answer of the callback.
LEMMA AskedAnswered ==
    ASSUME StreamTypeOK, Asked, asking # <<>>,
           NEW answer \in {"allow", "abort", "throw"}, Answer(answer)
    PROVE  Asked'
<1> DEFINE tool == Head(asking)
           n == Len(asked)
<1>1. /\ tool \in Tool /\ Tail(asking) \in Seq(Tool) /\ tool = asking[1]
      /\ UNCHANGED <<cli, script, taken>> /\ Turn \in 0..(taken + 1)
      /\ asked' = Append(asked, [tool |-> tool, turn |-> Turn])
      /\ state' = [state EXCEPT
            !.seen = IF cli \in {"codex", "opencode"} THEN @ \cup {tool} ELSE @,
            !.denied = IF Decision(answer) = "abort" THEN tool ELSE @]
      /\ asking' = (IF Decision(answer) = "allow" THEN Tail(asking) ELSE <<>>)
      /\ aborts' = (IF answer = "abort" THEN Append(aborts, tool) ELSE aborts)
      /\ threw' = (IF answer = "throw" THEN "onToolUseObserved" ELSE threw)
      /\ answer # "throw" => Decision(answer) = answer
  BY AnswerCases
<1>2. /\ n \in Nat /\ asked \in Seq([tool : Tool, turn : 0..(Length + 1)]) /\ DOMAIN asked = 1..n
      /\ \A k \in DOMAIN asked : asked[k].tool \in Tool /\ asked[k].turn \in Nat
      /\ asking \in Seq(Tool) /\ DOMAIN asking = 1..Len(asking) /\ Len(asking) \in Nat \ {0}
      /\ aborts \in Seq(Tool) /\ AskedTools \subseteq Tool
      /\ \A k \in DOMAIN asked : asked[k].tool \in AskedTools
  BY AskedTypes, EmptySeq
<1>3. /\ DOMAIN asked' = 1..(n + 1)
      /\ \A k \in 1..n : asked'[k] = asked[k]
      /\ asked'[n + 1].tool = tool /\ asked'[n + 1].turn = Turn
      /\ \A k : k \in 1..(n + 1) <=> k \in 1..n \/ k = n + 1
  <2>1. \A k : k \in 1..(n + 1) <=> k \in 1..n \/ k = n + 1
    BY <1>2
  <2>2. /\ Len(asked') = n + 1 /\ DOMAIN asked' = 1..(n + 1)
        /\ \A k \in 1..n : asked'[k] = asked[k]
        /\ asked'[n + 1] = [tool |-> tool, turn |-> Turn]
    <3> HIDE DEF tool
    <3> QED BY <1>1, <1>2
  <2> QED BY <2>1, <2>2
<1>4. AskedTools' = AskedTools \cup {tool} /\ tool \notin AskedTools
  <2>1. AskedTools' = {asked'[k].tool : k \in 1..(n + 1)}
    BY <1>3 DEF AskedTools
  <2>2. AskedTools = {asked[k].tool : k \in 1..n}
    BY <1>2 DEF AskedTools
  <2>3. 1 \in DOMAIN asking
    BY <1>2
  <2>4. tool \notin AskedTools
    BY <1>1, <2>3 DEF Asked
  <2> HIDE DEF tool, n
  <2> QED BY <1>3, <2>1, <2>2, <2>4
<1>5. Turn' = Turn /\ 1 <= Turn /\ Turn \in Nat
  <2>1. state'.turns = state.turns /\ cli' = cli
    BY <1>1, TypeParts DEF State
  <2>2. Turn' = Turn
    BY <2>1 DEF Turn
  <2>3. 1 <= Turn
    BY DEF Asked
  <2>4. Turn \in Nat
    BY <1>1, TextTypes
  <2> QED BY <2>2, <2>3, <2>4
<1>6. /\ \A k \in 1..n : 1 <= asked[k].turn /\ asked[k].turn <= Turn
      /\ \A j, k \in 1..n : j < k => asked[j].tool # asked[k].tool /\ asked[j].turn <= asked[k].turn
  BY <1>2 DEF Asked
<1>7. \A k \in 1..(n + 1) : 1 <= asked'[k].turn /\ asked'[k].turn <= Turn
  <2> HIDE DEF tool, n
  <2> QED BY <1>3, <1>5, <1>6
<1>8. ASSUME NEW j \in 1..(n + 1), NEW k \in 1..(n + 1), j < k
      PROVE  asked'[j].tool # asked'[k].tool /\ asked'[j].turn <= asked'[k].turn
  <2>1. j \in 1..n
    BY <1>2, <1>8
  <2>2. CASE k \in 1..n
    <3> HIDE DEF tool, n
    <3> QED BY <1>3, <1>6, <1>8, <2>1, <2>2
  <2>3. CASE k = n + 1
    <3>1. asked[j].tool \in AskedTools
      BY <1>2, <2>1
    <3> HIDE DEF tool, n
    <3> QED BY <1>3, <1>4, <1>6, <2>1, <2>3, <3>1
  <2> QED BY <1>3, <2>2, <2>3
<1>9. /\ asking' \in Seq(Tool)
      /\ \A k \in 1..Len(asking') : asking'[k] = asking[k + 1] /\ k + 1 \in 1..Len(asking)
      /\ ToSet(asking') \subseteq ToSet(asking)
  <2>1. /\ Len(Tail(asking)) = Len(asking) - 1
        /\ \A k \in 1..Len(Tail(asking)) : Tail(asking)[k] = asking[k + 1]
    BY <1>2, HeadTailProperties
  <2>2. ToSet(asking) = {tool} \cup ToSet(Tail(asking)) /\ ToSet(<<>>) = {}
    BY <1>2, ToSetIs
  <2>3. CASE asking' = Tail(asking)
    <3>1. \A k \in 1..(Len(asking) - 1) : k + 1 \in 1..Len(asking)
      BY <1>2
    <3> QED BY <1>1, <2>1, <2>2, <2>3, <3>1
  <2>4. CASE asking' = <<>>
    BY <2>2, <2>4
  <2> QED BY <1>1, <2>3, <2>4
<1>10. /\ \A k \in 1..Len(asking') : asking'[k] \notin AskedTools'
       /\ \A j, k \in 1..Len(asking') : j < k => asking'[j] # asking'[k]
  <2>1. /\ \A k \in 1..Len(asking) : asking[k] \notin AskedTools
        /\ \A j, k \in 1..Len(asking) : j < k => asking[j] # asking[k]
    BY <1>2 DEF Asked
  <2>2. ASSUME NEW k \in 1..Len(asking') PROVE asking'[k] \notin AskedTools'
    <3>1. asking'[k] = asking[k + 1] /\ k + 1 \in 1..Len(asking) /\ 1 \in 1..Len(asking) /\ 1 < k + 1
      BY <1>2, <1>9
    <3>2. asking[k + 1] # tool
      <4>1. asking[1] # asking[k + 1]
        BY <2>1, <3>1
      <4> QED BY <1>1, <4>1
    <3> QED BY <1>4, <2>1, <3>1, <3>2
  <2>3. ASSUME NEW j \in 1..Len(asking'), NEW k \in 1..Len(asking'), j < k
        PROVE  asking'[j] # asking'[k]
    <3>1. /\ asking'[j] = asking[j + 1] /\ j + 1 \in 1..Len(asking)
          /\ asking'[k] = asking[k + 1] /\ k + 1 \in 1..Len(asking) /\ j + 1 < k + 1
      BY <1>9, <2>3
    <3>2. asking[j + 1] # asking[k + 1]
      BY <2>1, <3>1
    <3> QED BY <3>1, <3>2
  <2> QED BY <2>2, <2>3
<1>11. tool \in ToSet(asking)
  BY <1>2, ToSetIs
<1>12. cli \in {"claude", "cursor"} => \A t \in AskedTools' \cup ToSet(asking') : t[1] <= taken
  <2> HIDE DEF tool
  <2> QED BY <1>4, <1>9, <1>11 DEF Asked
<1>13. cli \in {"codex", "opencode"} => state'.seen = AskedTools'
  <2>1. cli \in {"codex", "opencode"} => state'.seen = state.seen \cup {tool}
    BY <1>1, TypeParts DEF State
  <2> HIDE DEF tool
  <2> QED BY <1>4, <2>1 DEF Asked
<1>14. ASSUME threw' = "none", aborts' = <<>>
       PROVE  AskedTools' \cup ToSet(asking') = ToolsUpto(taken)'
  <2>1. answer = "allow" /\ threw = "none" /\ aborts = <<>>
    <3>1. Append(aborts, tool) # <<>>
      <4> HIDE DEF tool
      <4> QED BY <1>1, <1>2, AppendProperties
    <3> HIDE DEF tool
    <3> QED BY <1>1, <1>14, <3>1
  <2>2. asking' = Tail(asking)
    BY <1>1, <2>1
  <2>3. AskedTools \cup ToSet(asking) = ToolsUpto(taken)
    BY <2>1 DEF Asked
  <2>4. ToSet(asking) = {tool} \cup ToSet(Tail(asking))
    BY <1>2, ToSetIs
  <2>5. ToolsUpto(taken)' = ToolsUpto(taken)
    BY <1>1, ToolsUptoKept
  <2> HIDE DEF tool
  <2> QED BY <1>4, <2>2, <2>3, <2>4, <2>5
<1>15. DOMAIN asking' = 1..Len(asking') /\ ToSet(asking)' = ToSet(asking') /\ cli' = cli /\ taken' = taken
  <2>1. DOMAIN asking' = 1..Len(asking')
    BY <1>9
  <2> QED BY <1>1, <2>1 DEF ToSet
<1> HIDE DEF tool, n
<1> QED BY <1>3, <1>5, <1>7, <1>8, <1>10, <1>12, <1>13, <1>14, <1>15 DEF Asked

-----------------------------------------------------------------------------
(* The tool a run was aborted for *)

\* Denied is preserved by the steps that leave what it reads alone,
LEMMA DeniedKept ==
    ASSUME StreamTypeOK, Denied, UNCHANGED <<cli, aborts, extracted>>,
           asking' \in {asking, <<>>}, threw' = threw \/ threw = "none", state'.denied = state.denied
    PROVE  Denied'
BY DEF Denied

\* by an answer of the callback,
LEMMA DeniedAnswered ==
    ASSUME StreamTypeOK, Denied, asking # <<>>, extracted = Unjudged,
           NEW answer \in {"allow", "abort", "throw"}, Answer(answer)
    PROVE  Denied'
<1> DEFINE tool == Head(asking)
<1>1. /\ tool \in Tool /\ UNCHANGED <<cli, extracted>>
      /\ state' = [state EXCEPT
            !.seen = IF cli \in {"codex", "opencode"} THEN @ \cup {tool} ELSE @,
            !.denied = IF Decision(answer) = "abort" THEN tool ELSE @]
      /\ asking' = (IF Decision(answer) = "allow" THEN Tail(asking) ELSE <<>>)
      /\ aborts' = (IF answer = "abort" THEN Append(aborts, tool) ELSE aborts)
      /\ threw' = (IF answer = "throw" THEN "onToolUseObserved" ELSE threw)
      /\ answer # "throw" => Decision(answer) = answer
      /\ answer = "throw" => threw = "none"
      /\ answer = "throw" /\ Decision(answer) = "abort" => cli = "cursor"
  BY AnswerCases
<1>2. aborts \in Seq(Tool) /\ state.denied \in Tool \cup {None} /\ None \notin Tool
      /\ cli \in {"claude", "cursor", "codex", "opencode"}
  BY TypeParts, StateTypes, RunStreamAssumption DEF None, Tool
<1>3. state'.denied = IF Decision(answer) = "abort" THEN tool ELSE state.denied
  BY <1>1, TypeParts DEF State
<1>4. /\ ToSet(Append(aborts, tool)) = ToSet(aborts) \cup {tool}
      /\ Append(aborts, tool) # <<>> /\ Len(Append(aborts, tool)) = Len(aborts) + 1
  <2> HIDE DEF tool
  <2> QED BY <1>1, <1>2, ToSetIs, AppendProperties
<1>5. ToSet(aborts) \subseteq Tool
  BY <1>2, ToSetIs
<1>6. cli \in {"claude", "cursor"} => state.denied = None /\ aborts = <<>>
  <2>1. cli \in {"claude", "cursor"} => state.denied = None
    BY DEF Denied
  <2>2. state.denied = None => aborts = <<>>
    BY <1>2, <1>5 DEF Denied
  <2> QED BY <2>1, <2>2
<1>7. Len(<<>>) = 0 /\ ToSet(aborts)' = ToSet(aborts') /\ (Unjudged).kind = "none"
  BY DEF ToSet, Unjudged
<1>8. aborts' # <<>> => state'.denied \in ToSet(aborts')
  <2>1. CASE answer = "abort"
    <3> HIDE DEF tool
    <3> QED BY <1>1, <1>3, <1>4, <2>1
  <2>2. CASE answer # "abort"
    <3>1. aborts' = aborts /\ (Decision(answer) = "abort" => cli = "cursor")
      BY <1>1, <2>2
    <3>2. aborts # <<>> => state.denied \in ToSet(aborts)
      BY DEF Denied
    <3> QED BY <1>3, <1>6, <3>1, <3>2
  <2> QED BY <2>1, <2>2
<1>9. state'.denied # None =>
         aborts' # <<>> \/ (cli = "cursor" /\ threw' = "onToolUseObserved")
  <2>1. CASE Decision(answer) = "abort"
    <3> HIDE DEF tool
    <3> QED BY <1>1, <1>4, <2>1
  <2>2. CASE Decision(answer) # "abort"
    <3>1. state'.denied = state.denied /\ aborts' = aborts
      BY <1>1, <1>3, <2>2
    <3>2. state.denied # None => aborts # <<>> \/ cli = "cursor"
      BY DEF Denied
    <3> QED BY <1>6, <3>1, <3>2
  <2> QED BY <2>1, <2>2
<1>10. cli \in {"claude", "cursor"} => (state'.denied # None => asking' = <<>>) /\ Len(aborts') <= 1
  <2>1. cli \in {"claude", "cursor"} => Len(aborts) = 0
    BY <1>6
  <2>2. cli \in {"claude", "cursor"} => Len(aborts') <= 1
    <3> HIDE DEF tool
    <3> QED BY <1>1, <1>4, <2>1
  <2>3. cli \in {"claude", "cursor"} => (state'.denied # None => asking' = <<>>)
    BY <1>1, <1>3, <1>6
  <2> QED BY <2>2, <2>3
<1> HIDE DEF tool
<1> QED BY <1>1, <1>7, <1>8, <1>9, <1>10 DEF Denied

\* and by the judgement of the attempt.
LEMMA DeniedConcluded ==
    ASSUME StreamTypeOK, Denied, Conclude
    PROVE  Denied'
<1>1. UNCHANGED <<cli, aborts, state, asking, threw>>
  BY DEF Conclude, toolVars
<1>2. aborts \in Seq(Tool) /\ None \notin Tool /\ ToSet(aborts) \subseteq Tool
  BY TypeParts, ToSetIs DEF None, Tool
<1>3. aborts # <<>> => state.denied # None /\ state.denied \in ToSet(aborts)
  BY <1>2 DEF Denied
<1>4. /\ state.denied # None => extracted' = Denial
      /\ state.denied = None => extracted'.kind # "denied"
  <2>1. state.denied = None => extracted' \in {ClaudeOutput, CodexOutput, OpenCodeOutput}
    <3>1. cli \in {"claude", "cursor", "codex", "opencode"}
      BY TypeParts, RunStreamAssumption
    <3> QED BY <3>1 DEF Conclude
  <2>2. \A o \in {ClaudeOutput, CodexOutput, OpenCodeOutput} : o.kind # "denied"
    BY OutputKinds
  <2> QED BY <2>1, <2>2 DEF Conclude
<1>5. Denial.kind = "denied" /\ Denial.tool = state.denied
  BY DEF Denial
<1>6. /\ aborts # <<>> => extracted'.kind = "denied" /\ extracted'.tool \in ToSet(aborts)
      /\ extracted'.kind = "denied" =>
            aborts # <<>> \/ (cli = "cursor" /\ threw = "onToolUseObserved")
  BY <1>3, <1>4, <1>5 DEF Denied
<1> QED BY <1>1, <1>6 DEF Denied, ToSet

\* Asked and Denied are preserved by every step.
LEMMA AskedStep ==
    ASSUME StreamTypeOK, Told, Reader, Asked, Denied, [StreamNext]_streamVars
    PROVE  Asked' /\ Denied'
<1>0. /\ (reader = "asking") = (asking # <<>>)
      /\ extracted # Unjudged => reader \in {"ended", "stopped"} /\ process # "running"
  BY DEF Reader
<1>1. ASSUME NEW kind \in Line \cup {"junk"}, Write(kind) PROVE Asked' /\ Denied'
  <2>1. script' = Append(script, kind) /\ UNCHANGED <<cli, taken, asked, asking, aborts, threw, state, extracted>>
    BY <1>1 DEF Write, toolVars
  <2> QED BY <2>1, AskedKept, DeniedKept
<1>2. CASE Cut
  <2>1. script' = Append(script, "junk") /\ UNCHANGED <<cli, taken, asked, asking, aborts, threw, state, extracted>>
    BY <1>2 DEF Cut, toolVars
  <2> QED BY <2>1, AskedKept, DeniedKept
<1>3. CASE (\E n \in 1..Capacity : Read(n)) \/ Eof
  <2>1. UNCHANGED <<cli, taken, asked, asking, aborts, threw, state, extracted, script>>
    BY <1>3 DEF Read, Eof, processVars, toolVars
  <2> QED BY <2>1, AskedKept, DeniedKept
<1>4. CASE Take
  <2> DEFINE i == taken'
  <2>1. /\ i \in 1..Len(script) /\ i = taken + 1 /\ reader = "reading"
        /\ UNCHANGED <<cli, script, asked, aborts, extracted>>
        /\ (Skipped(i) \/ (script[i] \in Line \ {"null"} /\ Handle(i)))
    BY <1>4, TakeCases
  <2>2. Skipped(i) \/ (script[i] \in Line \ {"null"} /\ (Calm(i) \/ Dropped(i)))
    BY <2>1, HandleCases
  <2>3. asking = <<>>
    BY <1>0, <2>1
  <2>4. Asked'
    BY <2>1, <2>2, <2>3, AskedTaken
  <2>5. Denied'
    <3>1. state'.denied = state.denied /\ (threw' = threw \/ threw = "none")
      <4> HIDE DEF i
      <4>1. Skipped(i) \/ Calm(i) \/ Dropped(i)
        BY <2>2
      <4>2. state'.denied = state.denied
        BY <2>1, <4>1, TakenFields
      <4>3. threw' = threw \/ threw = "none"
        BY <4>1 DEF Skipped, Calm, Dropped
      <4> QED BY <4>2, <4>3
    <3>2. extracted = Unjudged
      BY <1>0, <2>1
    <3>3. state.denied # None /\ cli \in {"claude", "cursor"} => asking' = <<>>
      <4> HIDE DEF i
      <4>1. CASE Skipped(i) \/ Dropped(i)
        BY <2>3, <4>1 DEF Skipped, Dropped
      <4>2. CASE Calm(i)
        <5>1. asking' = AskFor(i, Fold(i, Keep(i))) /\ Fold(i, Keep(i)).denied = state.denied
          BY <4>2, EventFields DEF Calm
        <5> QED BY <5>1 DEF AskFor
      <4> QED BY <2>2, <4>1, <4>2
    <3>4. (Unjudged).kind = "none"
      BY DEF Unjudged
    <3> HIDE DEF i
    <3> QED BY <2>1, <3>1, <3>2, <3>3, <3>4 DEF Denied
  <2> QED BY <2>4, <2>5
<1>5. ASSUME NEW answer \in {"allow", "abort", "throw"}, Answer(answer) PROVE Asked' /\ Denied'
  <2>1. asking # <<>> /\ extracted = Unjudged
    BY <1>0, <1>5 DEF Answer
  <2> QED BY <1>5, <2>1, AskedAnswered, DeniedAnswered
<1>6. CASE Show
  <2>1. /\ UNCHANGED <<cli, taken, asked, aborts, state, script, extracted>>
        /\ (threw' = threw \/ threw' # "none") /\ reader = "showing" /\ asking' \in {asking, <<>>}
    BY <1>6, ShowCases
  <2>2. threw' = threw \/ threw = "none"
    BY <1>6 DEF Show, Thrown, MayThrow
  <2>3. asking = <<>> /\ asking' = asking
    BY <1>0, <2>1
  <2> QED BY <2>1, <2>2, <2>3, AskedKept, DeniedKept
<1>7. CASE Conclude
  <2>1. UNCHANGED <<cli, taken, asked, asking, aborts, threw, state, script>>
    BY <1>7 DEF Conclude, processVars, toolVars
  <2> QED BY <1>7, <2>1, AskedKept, DeniedConcluded
<1>8. CASE ChildExits \/ Stop \/ UNCHANGED streamVars
  <2>1. UNCHANGED <<cli, taken, asked, asking, aborts, threw, state, script, extracted>>
    BY <1>8, AsideTypes DEF Aside
  <2> QED BY <2>1, AskedKept, DeniedKept
<1> QED BY <1>1, <1>2, <1>3, <1>4, <1>5, <1>6, <1>7, <1>8 DEF StreamNext, Reads, Asks, Outside

-----------------------------------------------------------------------------
(* The output *)

\* Part of an ascending sequence, taken by the places of its elements.
LEMMA AscendingPart ==
    ASSUME NEW n \in Nat, NEW s \in Seq(1..n), \A j, k \in DOMAIN s : j < k => s[j] < s[k],
           NEW K, K \subseteq DOMAIN s
    PROVE  LET T == {s[k] : k \in K}
           IN  /\ Cardinality(K) = Cardinality(T)
               /\ [k \in 1..Cardinality(K) |-> s[Ascending(K)[k]]] = Ascending(T)
               /\ K # {} => s[Latest(K)] = Latest(T)
<1> DEFINE T == {s[k] : k \in K}
           m == Cardinality(K)
           f == [k \in 1..m |-> s[Ascending(K)[k]]]
<1>1. Len(s) \in Nat /\ DOMAIN s = 1..Len(s) /\ K \subseteq 1..Len(s) /\ T \subseteq 1..n
      /\ \A k \in K : s[k] \in Nat
  <2>1. \A k \in DOMAIN s : s[k] \in 1..n
    OBVIOUS
  <2> QED BY <2>1
<1>2. /\ m \in Nat
      /\ \A i \in Nat : Rank(K, i) \in Nat
      /\ \A i, j \in K : i < j => Rank(K, i) < Rank(K, j)
      /\ \A i \in K : Rank(K, i) \in 1..m
  BY <1>1, RankProperties
<1>3. /\ \A k \in 1..m : Ascending(K)[k] \in K /\ Rank(K, Ascending(K)[k]) = k
      /\ \A i \in K : Ascending(K)[Rank(K, i)] = i
  BY <1>1, AscendingProperties
<1>4. ASSUME NEW i \in 1..m, NEW j \in 1..m, i < j
      PROVE  Ascending(K)[i] < Ascending(K)[j]
  <2> DEFINE x == Ascending(K)[i]
             y == Ascending(K)[j]
  <2>1. x \in K /\ y \in K /\ Rank(K, x) = i /\ Rank(K, y) = j
    BY <1>3
  <2>2. x \in Nat /\ y \in Nat
    <3> HIDE DEF x, y
    <3> QED BY <1>1, <2>1
  <2>3. x # y /\ ~(y < x)
    <3> HIDE DEF x, y
    <3>1. y < x => j < i
      BY <1>2, <2>1
    <3>2. x = y => i = j
      BY <2>1
    <3>3. i # j /\ ~(j < i)
      BY <1>4
    <3> QED BY <3>1, <3>2, <3>3
  <2>4. x < y
    <3> HIDE DEF x, y
    <3> QED BY <2>2, <2>3
  <2> QED BY <2>4
<1>5. f \in [1..m -> 1..n] /\ \A i, j \in 1..m : i < j => f[i] < f[j]
  BY <1>1, <1>3, <1>4
<1>6. T = {f[i] : i \in 1..m}
  <2>1. \A k \in K : Rank(K, k) \in 1..m /\ f[Rank(K, k)] = s[k]
    BY <1>2, <1>3
  <2>2. \A i \in 1..m : Ascending(K)[i] \in K /\ f[i] = s[Ascending(K)[i]]
    BY <1>3
  <2>3. T = {s[k] : k \in K}
    OBVIOUS
  <2> HIDE DEF f, T, m
  <2>4. \A t \in T : \E i \in 1..m : t = f[i]
    BY <2>1, <2>3
  <2>5. \A i \in 1..m : f[i] \in T
    BY <2>2, <2>3
  <2> QED BY <2>4, <2>5
<1>7. Cardinality(T) = m /\ Ascending(T) = f
  <2> HIDE DEF f, T, m
  <2> QED BY <1>2, <1>5, <1>6, AscendingIs
<1>8. ASSUME K # {} PROVE s[Latest(K)] = Latest(T)
  <2>1. Latest(K) \in K /\ \A j \in K : j <= Latest(K)
    BY <1>1, <1>8, LatestProperties
  <2>2. T # {}
    BY <1>8
  <2>3. Latest(T) \in T /\ \A j \in T : j <= Latest(T)
    <3> HIDE DEF T
    <3> QED BY <1>1, <2>2, LatestProperties
  <2>4. PICK k \in K : Latest(T) = s[k]
    BY <2>3
  <2>5. s[Latest(K)] <= s[k]
    BY <2>1, <2>3, <2>4
  <2>6. k = Latest(K) \/ k < Latest(K)
    BY <1>1, <2>1
  <2>7. k < Latest(K) => s[k] < s[Latest(K)]
    BY <1>1, <2>1
  <2> QED BY <1>1, <2>1, <2>4, <2>5, <2>6, <2>7
<1> QED BY <1>7, <1>8

\* The latest line is the one the state holds.
LEMMA IsLatestIs ==
    ASSUME NEW n \in Nat, NEW S, S \subseteq 1..n, S # {}, NEW i, IsLatest(i, S)
    PROVE  i = Latest(S) /\ i # 0
<1>1. Latest(S) \in S /\ \A j \in S : j <= Latest(S)
  BY LatestProperties
<1>2. i \in S /\ \A j \in S : j <= i
  BY DEF IsLatest
<1>3. \A j \in S : j \in Nat /\ j # 0
  OBVIOUS
<1>4. i <= Latest(S) /\ Latest(S) <= i /\ i \in Nat /\ Latest(S) \in Nat
  BY <1>1, <1>2, <1>3
<1> QED BY <1>2, <1>3, <1>4

\* So is the earliest.
LEMMA IsEarliestIs ==
    ASSUME NEW n \in Nat, NEW S, S \subseteq 1..n, S # {}, NEW i, IsEarliest(i, S)
    PROVE  i = Earliest(S) /\ i # 0
<1>1. Earliest(S) \in S /\ \A j \in S : Earliest(S) <= j
  BY EarliestProperties
<1>2. i \in S /\ \A j \in S : i <= j
  BY DEF IsEarliest
<1>3. \A j \in S : j \in Nat /\ j # 0
  OBVIOUS
<1>4. i <= Earliest(S) /\ Earliest(S) <= i /\ i \in Nat /\ Earliest(S) \in Nat
  BY <1>1, <1>2, <1>3
<1> QED BY <1>2, <1>3, <1>4

\* At the end every line is taken.
LEMMA AllTaken ==
    ASSUME StreamTypeOK, taken = Len(script), NEW kinds
    PROVE  TakenOf(kinds) = Of(kinds) /\ Of(kinds) \subseteq 1..taken /\ taken \in Nat
<1>1. DOMAIN script = 1..taken
  BY TextTypes
<1>2. TakenOf(kinds) = Of(kinds)
  BY <1>1 DEF TakenOf, Of
<1> QED BY <1>2, TakenOfProperties

ResultSays ==
    LET last == Latest(Of({"good", "bad"}))
    IN  IF Of({"good", "bad"}) = {} THEN extracted = Nothing
        ELSE Says(<<last>>, script[last] = "bad", last)

\* What the attempt makes of its state is what its lines say: Claude and Cursor,
LEMMA OutputOfClaude ==
    ASSUME StreamTypeOK, Folded, taken = Len(script), cli \in {"claude", "cursor"}, threw = "none",
           script' = script, extracted' = ClaudeOutput
    PROVE  ResultSays'
<1> DEFINE S == Of({"good", "bad"})
<1>1. S' = S /\ Of(Invalid)' = Of(Invalid)
  BY DEF Of
<1>2. IsLatest(state.final, S) /\ state.invalid = FALSE /\ S \subseteq 1..taken /\ taken \in Nat
  BY AllTaken DEF Folded
<1>3. Of(Invalid) = {}
  <2>1. \A i \in 1..Len(script) : script[i] \notin Invalid
    BY Kinds
  <2> QED BY <2>1, TextTypes DEF Of
<1>4. CASE S = {}
  <2>1. state.final = 0
    BY <1>2, <1>4 DEF IsLatest
  <2>2. extracted' = Nothing
    BY <2>1 DEF ClaudeOutput
  <2> QED BY <1>1, <1>4, <2>2 DEF ResultSays
<1>5. CASE S # {}
  <2>1. state.final = Latest(S) /\ state.final # 0
    <3> HIDE DEF S
    <3> QED BY <1>2, <1>5, IsLatestIs
  <2>2. extracted' = Output(<<state.final>>, script[state.final] = "bad", state.final)
    BY <2>1 DEF ClaudeOutput
  <2>3. /\ extracted'.kind = "output" /\ extracted'.text = <<state.final>>
        /\ extracted'.is_error = (script[state.final] = "bad") /\ extracted'.turns = state.final
        /\ extracted'.invalid = state.invalid
    BY <2>2 DEF Output
  <2>4. state.invalid = (Of(Invalid)' # {})
    BY <1>1, <1>2, <1>3
  <2>5. /\ extracted'.kind = "output" /\ extracted'.text = <<Latest(S')>>
        /\ extracted'.is_error = (script'[Latest(S')] = "bad") /\ extracted'.turns = Latest(S')
        /\ extracted'.invalid = (Of(Invalid)' # {}) /\ S' # {}
    <3> HIDE DEF S
    <3> QED BY <1>1, <1>5, <2>1, <2>3, <2>4
  <2> QED BY <2>5 DEF Says, ResultSays
<1> QED BY <1>4, <1>5

\* Codex,
LEMMA OutputOfCodex ==
    ASSUME StreamTypeOK, Folded, taken = Len(script), cli = "codex", threw = "none",
           script' = script, extracted' = CodexOutput
    PROVE  Says(CodexSays, Of(Failure \cup Fault) # {}, Cardinality(Of({"turn"})))'
<1> DEFINE F == Of(Failure)
           E == Of(Fault)
           T == Of({"text"})
<1>1. /\ F \subseteq 1..taken /\ E \subseteq 1..taken /\ T \subseteq 1..taken /\ taken \in Nat
      /\ TakenOf(Failure) = F /\ TakenOf(Fault) = E /\ TakenOf({"text"}) = T
      /\ TakenOf({"turn"}) = Of({"turn"}) /\ TakenOf(Invalid) = Of(Invalid)
  BY AllTaken
<1>2. /\ IsLatest(state.final, T)
      /\ IF F # {} THEN IsLatest(state.error, F) ELSE IsEarliest(state.error, E)
      /\ state.turns = Cardinality(Of({"turn"}))
      /\ state.invalid = (Of(Invalid) # {})
  BY <1>1 DEF Folded
<1>3. Of(Failure \cup Fault) = F \cup E
  BY DEF Of
<1>4. /\ CodexSays' = CodexSays /\ Of(Failure \cup Fault)' = Of(Failure \cup Fault)
      /\ Of({"turn"})' = Of({"turn"}) /\ Of(Invalid)' = Of(Invalid)
  BY DEF Of, CodexSays
<1> HIDE DEF F, E, T
<1>5. /\ state.error # 0 <=> F \cup E # {}
      /\ F # {} => state.error = Latest(F)
      /\ F = {} /\ E # {} => state.error = Earliest(E)
      /\ T = {} => state.final = 0
      /\ T # {} => state.final = Latest(T) /\ state.final # 0
  <2>1. F # {} => state.error = Latest(F) /\ state.error # 0
    BY <1>1, <1>2, IsLatestIs
  <2>2. F = {} /\ E # {} => state.error = Earliest(E) /\ state.error # 0
    BY <1>1, <1>2, IsEarliestIs
  <2>3. F = {} /\ E = {} => state.error = 0
    BY <1>2 DEF IsEarliest
  <2>4. T # {} => state.final = Latest(T) /\ state.final # 0
    BY <1>1, <1>2, IsLatestIs
  <2>5. T = {} => state.final = 0
    BY <1>2 DEF IsLatest
  <2> QED BY <2>1, <2>2, <2>3, <2>4, <2>5
<1>6. CodexSays = (IF F # {} THEN <<Latest(F)>>
                   ELSE IF E # {} THEN <<Earliest(E)>>
                   ELSE IF T = {} THEN <<>> ELSE <<Latest(T)>>)
  BY DEF CodexSays, F, E, T
<1>7. CodexOutput = Output(CodexSays, F \cup E # {}, state.turns)
  <2>1. CASE state.error # 0
    <3>1. CodexSays = <<state.error>> /\ (F \cup E # {}) = TRUE
      BY <1>5, <1>6, <2>1
    <3> QED BY <2>1, <3>1 DEF CodexOutput
  <2>2. CASE state.error = 0 /\ state.final # 0
    <3>1. CodexSays = <<state.final>> /\ (F \cup E # {}) = FALSE
      BY <1>5, <1>6, <2>2
    <3> QED BY <2>2, <3>1 DEF CodexOutput
  <2>3. CASE state.error = 0 /\ state.final = 0
    <3>1. CodexSays = <<>> /\ (F \cup E # {}) = FALSE
      BY <1>5, <1>6, <2>3
    <3> QED BY <2>3, <3>1 DEF CodexOutput
  <2> QED BY <2>1, <2>2, <2>3
<1>8. /\ extracted'.kind = "output" /\ extracted'.text = CodexSays
      /\ extracted'.is_error = (F \cup E # {}) /\ extracted'.turns = state.turns
      /\ extracted'.invalid = state.invalid
  BY <1>7 DEF Output
<1> QED BY <1>2, <1>3, <1>4, <1>8 DEF Says

\* and OpenCode.
LEMMA OutputOfOpenCode ==
    ASSUME StreamTypeOK, Folded, taken = Len(script), cli = "opencode", cli' = cli,
           script' = script, extracted' = OpenCodeOutput, extracted'.kind # "broken"
    PROVE  (IF Of(Line) = {} THEN extracted = Nothing
            ELSE Says(OpenCodeSays, Of({"error"}) # {}, Cardinality(Of({"step"}))))'
<1> DEFINE json == state.json
           at(kind) == {k \in DOMAIN json : script[json[k]] = kind}
           texts == [k \in 1..Cardinality(at("text")) |-> json[Ascending(at("text"))[k]]]
<1>1. /\ json \in Seq(1..Length) /\ Length \in Nat /\ state.invalid = FALSE
      /\ \A j, k \in DOMAIN json : j < k => json[j] < json[k]
      /\ {json[k] : k \in DOMAIN json} = Of(Line)
  BY StateTypes, TextTypes, AllTaken DEF Folded
<1>2. /\ Of(Line)' = Of(Line) /\ Of({"error"})' = Of({"error"}) /\ Of({"step"})' = Of({"step"})
      /\ Of(Invalid)' = Of(Invalid) /\ OpenCodeSays' = OpenCodeSays
  BY DEF Of, Line, OpenCodeSays
<1>3. Of(Invalid) = {}
  <2>1. \A i \in 1..Len(script) : script[i] \notin Invalid
    BY Kinds
  <2> QED BY <2>1, TextTypes DEF Of
<1>4. ASSUME NEW kind \in Line PROVE {json[k] : k \in at(kind)} = Of({kind})
  <2>1. \A i \in Of({kind}) : i \in Of(Line) /\ script[i] = kind
    BY DEF Of
  <2>2. \A k \in DOMAIN json : json[k] \in Of(Line) /\ json[k] \in DOMAIN script
    BY <1>1 DEF Of
  <2>3. ASSUME NEW k \in at(kind) PROVE json[k] \in Of({kind})
    BY <2>2, <2>3 DEF Of
  <2>4. ASSUME NEW i \in Of({kind}) PROVE \E k \in at(kind) : i = json[k]
    <3>1. PICK k \in DOMAIN json : i = json[k]
      BY <1>1, <2>1
    <3> QED BY <2>1, <3>1
  <2> QED BY <2>3, <2>4
<1>5. ASSUME NEW kind \in Line
      PROVE  /\ Cardinality(at(kind)) = Cardinality(Of({kind}))
             /\ [k \in 1..Cardinality(at(kind)) |-> json[Ascending(at(kind))[k]]] = Ascending(Of({kind}))
             /\ at(kind) # {} => json[Latest(at(kind))] = Latest(Of({kind}))
             /\ at(kind) # {} <=> Of({kind}) # {}
  <2> DEFINE K == at(kind)
  <2>1. K \subseteq DOMAIN json /\ {json[k] : k \in K} = Of({kind})
    BY <1>4
  <2>2. LET T == {json[k] : k \in K}
        IN  /\ Cardinality(K) = Cardinality(T)
            /\ [k \in 1..Cardinality(K) |-> json[Ascending(K)[k]]] = Ascending(T)
            /\ K # {} => json[Latest(K)] = Latest(T)
    <3> HIDE DEF K, json
    <3> QED BY <1>1, <2>1, AscendingPart
  <2> HIDE DEF K
  <2>3. K # {} <=> Of({kind}) # {}
    BY <2>1
  <2> QED BY <2>1, <2>2, <2>3 DEF K
<1>6. {"error", "text", "step"} \subseteq Line
  BY DEF Line, OpenCodeLine
<1>7. CASE json = <<>>
  <2>1. Of(Line) = {}
    BY <1>1, <1>7
  <2>2. extracted' = Nothing
    BY <1>7 DEF OpenCodeOutput
  <2> QED BY <1>2, <2>1, <2>2
<1>8. CASE json # <<>>
  <2>1. Of(Line) # {}
    <3>1. Len(json) \in Nat \ {0}
      BY <1>1, <1>8, EmptySeq
    <3>2. 1 \in DOMAIN json
      BY <1>1, <3>1
    <3> QED BY <1>1, <3>2
  <2>2. at("null") = {}
    <3>1. SUFFICES ASSUME at("null") # {} PROVE FALSE
      OBVIOUS
    <3>2. extracted' = Broken
      BY <1>8, <3>1 DEF OpenCodeOutput
    <3> QED BY <3>2 DEF Broken
  <2>3. extracted' = Output(IF at("error") # {} THEN <<json[Latest(at("error"))]>> ELSE texts,
                            at("error") # {}, Cardinality(at("step")))
    BY <1>8, <2>2 DEF OpenCodeOutput
  <2>4. /\ texts = Ascending(Of({"text"})) /\ Cardinality(at("step")) = Cardinality(Of({"step"}))
        /\ at("error") # {} => json[Latest(at("error"))] = Latest(Of({"error"}))
        /\ (at("error") # {}) = (Of({"error"}) # {})
    <3>1. texts = Ascending(Of({"text"}))
      BY <1>5, <1>6
    <3>2. Cardinality(at("step")) = Cardinality(Of({"step"}))
      BY <1>5, <1>6
    <3>3. /\ at("error") # {} => json[Latest(at("error"))] = Latest(Of({"error"}))
          /\ at("error") # {} <=> Of({"error"}) # {}
      BY <1>5, <1>6
    <3> QED BY <3>1, <3>2, <3>3
  <2> HIDE DEF texts, at, json
  <2>5. extracted' = Output(OpenCodeSays, Of({"error"}) # {}, Cardinality(Of({"step"})))
    BY <2>3, <2>4 DEF OpenCodeSays
  <2>6. /\ extracted'.kind = "output" /\ extracted'.text = OpenCodeSays
        /\ extracted'.is_error = (Of({"error"}) # {})
        /\ extracted'.turns = Cardinality(Of({"step"}))
        /\ extracted'.invalid = (Of(Invalid) # {})
    <3>1. extracted'.invalid = state.invalid
      BY <2>5 DEF Output
    <3>2. state.invalid = (Of(Invalid) # {})
      BY <1>1, <1>3
    <3> QED BY <2>5, <3>1, <3>2 DEF Output
  <2> QED BY <1>2, <2>1, <2>6 DEF Says
<1> QED BY <1>7, <1>8

\* The judgement makes the output a faithful one ...
LEMMA OutputConcluded ==
    ASSUME StreamTypeOK, Reader, Folded, Conclude
    PROVE  OutputFaithful'
<1>1. /\ UNCHANGED <<cli, script, threw, reader, state, taken>>
      /\ reader \in {"ended", "stopped"}
      /\ extracted' = IF state.denied # None THEN Denial
                      ELSE CASE cli \in {"claude", "cursor"} -> ClaudeOutput
                             [] cli = "codex"                -> CodexOutput
                             [] cli = "opencode"             -> OpenCodeOutput
  BY DEF Conclude, processVars
<1>2. SUFFICES ASSUME extracted'.kind \in {"output", "nothing"}, threw = "none" \/ cli = "opencode"
               PROVE  OutputFaithful'
  BY <1>1 DEF OutputFaithful
<1>3. taken = Len(script)
  BY <1>1, <1>2 DEF Reader
<1>4. state.denied = None
  BY <1>1, <1>2 DEF Denial
<1>5. cli \in {"claude", "cursor"} => ResultSays'
  <2>1. ASSUME cli \in {"claude", "cursor"} PROVE ResultSays'
    <3>1. extracted' = ClaudeOutput
      BY <1>1, <1>4, <2>1
    <3> QED BY <1>1, <1>2, <1>3, <2>1, <3>1, OutputOfClaude
  <2> QED BY <2>1
<1>6. cli = "codex" => Says(CodexSays, Of(Failure \cup Fault) # {}, Cardinality(Of({"turn"})))'
  <2>1. ASSUME cli = "codex"
        PROVE  Says(CodexSays, Of(Failure \cup Fault) # {}, Cardinality(Of({"turn"})))'
    <3>1. extracted' = CodexOutput
      BY <1>1, <1>4, <2>1
    <3> QED BY <1>1, <1>2, <1>3, <2>1, <3>1, OutputOfCodex
  <2> QED BY <2>1
<1>7. cli = "opencode" =>
         (IF Of(Line) = {} THEN extracted = Nothing
          ELSE Says(OpenCodeSays, Of({"error"}) # {}, Cardinality(Of({"step"}))))'
  <2>1. ASSUME cli = "opencode"
        PROVE  (IF Of(Line) = {} THEN extracted = Nothing
                ELSE Says(OpenCodeSays, Of({"error"}) # {}, Cardinality(Of({"step"}))))'
    <3>1. extracted' = OpenCodeOutput
      BY <1>1, <1>4, <2>1
    <3> QED BY <1>1, <1>2, <1>3, <2>1, <3>1, OutputOfOpenCode
  <2> QED BY <2>1
<1> QED BY <1>1, <1>5, <1>6, <1>7 DEF OutputFaithful, ResultSays

\* An attempt that is judged has come to its end: nothing happens to it.
LEMMA JudgedIsFinal ==
    ASSUME Reader, [StreamNext]_streamVars
    PROVE  Conclude \/ (extracted = Unjudged /\ extracted' = Unjudged) \/ UNCHANGED streamVars
<1>1. SUFFICES ASSUME StreamNext, ~Conclude PROVE extracted = Unjudged /\ extracted' = Unjudged
  OBVIOUS
<1>2. extracted' = extracted /\ (reader \in {"reading", "asking", "showing"} \/ process = "running"
                                 \/ extracted = Unjudged)
  BY <1>1 DEF StreamNext, Reads, Asks, Outside, Read, Eof, Take, Show, Answer, Write, ChildExits, Cut,
              Stop
<1> QED BY <1>2 DEF Reader

\* ... and every other step keeps it.
LEMMA OutputStep ==
    ASSUME StreamTypeOK, Reader, Folded, OutputFaithful, [StreamNext]_streamVars
    PROVE  OutputFaithful'
<1>1. CASE Conclude
  BY <1>1, OutputConcluded
<1>2. CASE extracted' = Unjudged
  <2>1. extracted'.kind = "none"
    BY <1>2 DEF Unjudged
  <2> QED BY <2>1 DEF OutputFaithful
<1>3. CASE UNCHANGED streamVars
  BY <1>3 DEF streamVars, processVars, OutputFaithful, Says, CodexSays, OpenCodeSays, Of, Line
<1> QED BY <1>1, <1>2, <1>3, JudgedIsFinal

-----------------------------------------------------------------------------
(* The theorems *)

StreamInd == StreamTypeOK /\ Told /\ Reader /\ Folded /\ Asked /\ Denied /\ OutputFaithful

\* The invariant is true at first ...
LEMMA StreamInitially == StreamInit => StreamInd
<1> SUFFICES ASSUME StreamInit PROVE StreamInd
  OBVIOUS
<1>1. /\ cli \in Cli /\ script = <<>> /\ bare = FALSE /\ process = "running" /\ signalled = FALSE
      /\ pipe = <<>> /\ buffer = <<>> /\ lines = <<>> /\ taken = 0 /\ reader = "reading"
      /\ asking = <<>> /\ state = FreshState /\ inits = 0 /\ asked = <<>> /\ aborts = <<>>
      /\ threw = "none" /\ extracted = Unjudged
  BY DEF StreamInit
<1>2. Length \in Nat /\ Capacity \in Nat
  BY RunStreamAssumption
<1>3. \A S : <<>> \in Seq(S) /\ Len(<<>>) = 0 /\ DOMAIN <<>> = {}
  OBVIOUS
<1>4. state \in State /\ state.turns = 0 /\ state.final = 0 /\ state.error = 0 /\ state.json = <<>>
      /\ state.invalid = FALSE /\ state.seen = {} /\ state.denied = None
  BY <1>1, <1>3 DEF State, FreshState
<1>5. extracted.kind = "none"
  BY <1>1 DEF Unjudged
<1>6. StreamTypeOK
  <2>1. script \in Seq(Line \cup {"junk"}) /\ Len(script) <= Length
    BY <1>1, <1>2, <1>3
  <2>2. {pipe, buffer} \subseteq Seq(Glyph) /\ Len(pipe) <= Capacity /\ lines \in Seq(Seq(Glyph))
    BY <1>1, <1>2, <1>3
  <2>3. taken \in 0..Len(script) /\ inits \in 0..taken
        /\ {state.final, state.error, state.turns} \subseteq 0..taken
    BY <1>1, <1>3, <1>4
  <2>4. {asking, aborts} \subseteq Seq(Tool) /\ asked \in Seq([tool : Tool, turn : 0..(Length + 1)])
    BY <1>1, <1>3
  <2> QED BY <1>1, <1>4, <1>5, <2>1, <2>2, <2>3, <2>4 DEF StreamTypeOK
<1>7. Told
  <2>1. Left = <<>>
    BY <1>1 DEF Left
  <2>2. AtHand = 0 /\ Len(script) = AtHand + 0
    BY <1>1 DEF AtHand
  <2>3. LengthOfLeft(0)
    BY <1>1, <2>1 DEF LengthOfLeft
  <2>4. \A k : ~(k \in 1..Len(Left)) /\ ~(k \in 1..Len(lines))
    BY <1>1, <2>1
  <2>5. Left \in Seq(Glyph) /\ Tells(Left, AtHand) /\ AtHand \in Nat
    BY <2>1, <2>2, <2>4 DEF Tells
  <2>6. \A k \in 1..Len(lines) : LineAtHand(lines[k], taken + k)
    BY <2>4
  <2> QED BY <2>2, <2>3, <2>5, <2>6 DEF Told
<1>8. Reader
  BY <1>1, <1>3 DEF Reader
<1>9. \A kinds : TakenOf(kinds) = {}
  BY <1>1 DEF TakenOf
<1>10. Folded
  <2>1. Cardinality({}) = 0
    BY FS_EmptySet
  <2>2. {state.json[k] : k \in DOMAIN state.json} = {} /\ DOMAIN state.json = {}
    BY <1>3, <1>4
  <2> QED BY <1>1, <1>4, <1>9, <2>1, <2>2 DEF Folded, IsLatest, IsEarliest
<1>11. Asked
  <2>1. AskedTools = {} /\ ToSet(asking) = {} /\ ToolsUpto(taken) = {}
    BY <1>1, <1>3 DEF AskedTools, ToSet, ToolsUpto
  <2> QED BY <1>1, <1>3, <1>4, <2>1 DEF Asked
<1>12. Denied
  BY <1>1, <1>3, <1>4, <1>5 DEF Denied
<1>13. OutputFaithful
  BY <1>5 DEF OutputFaithful
<1> QED BY <1>6, <1>7, <1>8, <1>10, <1>11, <1>12, <1>13 DEF StreamInd

\* ... and preserved by every step.
LEMMA StreamStep == StreamInd /\ [StreamNext]_streamVars => StreamInd'
<1> SUFFICES ASSUME StreamInd, [StreamNext]_streamVars PROVE StreamInd'
  OBVIOUS
<1>1. StreamTypeOK' /\ Told' /\ Reader'
  BY ReaderStep DEF StreamInd
<1>2. Folded'
  BY FoldedStep DEF StreamInd
<1>3. Asked' /\ Denied'
  BY AskedStep DEF StreamInd
<1>4. OutputFaithful'
  BY OutputStep DEF StreamInd
<1> QED BY <1>1, <1>2, <1>3, <1>4 DEF StreamInd

\* No newline is left in a line or in the buffer.
LEMMA NoNewlineWithin ==
    ASSUME StreamTypeOK, Told, Reader
    PROVE  LineEnds(buffer) = {} /\ \A k \in DOMAIN lines : LineEnds(lines[k]) = {}
<1>1. /\ buffer \in Seq(Glyph) /\ pipe \in Seq(Glyph) /\ Len(buffer) \in Nat /\ Len(pipe) \in Nat
      /\ DOMAIN lines = 1..Len(lines) /\ taken \in Nat /\ Len(buffer) <= 2
      /\ DOMAIN buffer = 1..Len(buffer)
  BY TextTypes DEF Reader
<1>2. ASSUME NEW k \in DOMAIN buffer PROVE buffer[k] # Newline
  <2>1. k \in 1..(Len(buffer) + Len(pipe)) /\ k <= Len(buffer)
    BY <1>1, <1>2
  <2>2. Left[k] = buffer[k] /\ k \in 1..Len(Left)
    BY <1>1, <2>1, ConcatProperties DEF Left
  <2>3. k \in 1..3 /\ 3 * (1 - 1) + k = k /\ 1 \in Nat \ {0} /\ k # 3
    BY <1>1, <1>2
  <2>4. Left[k] = Symbol(AtHand + 1, k)
    BY <2>2, <2>3 DEF Told, Tells
  <2>5. AtHand + 1 \in Nat \ {0}
    BY DEF Told
  <2>6. Symbol(AtHand + 1, 1) # Newline /\ Symbol(AtHand + 1, 2) # Newline
    BY <2>5, BodyProperties
  <2>7. k = 1 \/ k = 2
    BY <2>3
  <2> QED BY <2>2, <2>4, <2>6, <2>7
<1>3. ASSUME NEW k \in DOMAIN lines PROVE LineEnds(lines[k]) = {}
  <2>1. LineAtHand(lines[k], taken + k) /\ taken + k \in Nat \ {0}
    BY <1>1, <1>3 DEF Told
  <2>2. LineEnds(Body(taken + k)) = {} /\ LineEnds(<<Symbol(taken + k, 1)>>) = {}
    BY <2>1, BodyProperties
  <2> QED BY <2>1, <2>2 DEF LineAtHand
<1> QED BY <1>2, <1>3 DEF LineEnds

\* The invariant implies the property of the callback.
LEMMA AllToolsAsked == StreamInd => ToolsObserved
<1> SUFFICES ASSUME StreamInd PROVE ToolsObserved
  OBVIOUS
<1>1. StreamTypeOK /\ Reader /\ Asked /\ Denied
  BY DEF StreamInd
<1>2. ASSUME extracted # Unjudged, threw = "none", aborts = <<>>
      PROVE  {asked[k].tool : k \in DOMAIN asked} = UNION {ToSet(Tools(i)) : i \in DOMAIN script}
  <2>1. taken = Len(script) /\ asking = <<>>
    BY <1>1, <1>2 DEF Reader
  <2>2. AskedTools \cup ToSet(asking) = ToolsUpto(taken)
    BY <1>1, <1>2 DEF Asked
  <2>3. DOMAIN script = 1..taken /\ ToSet(asking) = {}
    BY <1>1, <2>1, TextTypes DEF ToSet
  <2> QED BY <2>2, <2>3 DEF AskedTools, ToolsUpto
<1>3. /\ \A j, k \in DOMAIN asked : j < k =>
            asked[j].tool # asked[k].tool /\ asked[j].turn <= asked[k].turn
      /\ \A k \in DOMAIN asked : 1 <= asked[k].turn
  BY <1>1 DEF Asked
<1>4. \A k \in DOMAIN asked : asked[k].turn >= 1
  <2>1. \A k \in DOMAIN asked : asked[k].turn \in Nat
    BY <1>1, AskedTypes
  <2> QED BY <1>3, <2>1
<1>5. /\ cli \in {"claude", "cursor"} => Len(aborts) <= 1
      /\ extracted # Unjudged =>
            /\ aborts # <<>> => extracted.kind = "denied" /\ extracted.tool \in ToSet(aborts)
            /\ extracted.kind = "denied" =>
                  aborts # <<>> \/ (cli = "cursor" /\ threw = "onToolUseObserved")
  BY <1>1 DEF Denied
<1> QED BY <1>2, <1>3, <1>4, <1>5 DEF ToolsObserved

\* The text of the child reaches the handlers line by line, whatever the chunks
\* the pipe gives it out in, and the callback is asked only while the reader
\* waits for it (claude/process.ts:582-607 and its copies).
THEOREM StreamInvariant == StreamSpec => []StreamInv
<1>1. StreamInit => StreamInd
  BY StreamInitially
<1>2. StreamInd /\ [StreamNext]_streamVars => StreamInd'
  BY StreamStep
<1>3. StreamInd => StreamInv
  <2> SUFFICES ASSUME StreamInd PROVE StreamInv
    OBVIOUS
  <2>1. StreamTypeOK /\ Told /\ Reader
    BY DEF StreamInd
  <2>2. Conserved
    BY <2>1, ConservedFromTold
  <2> QED BY <2>1, <2>2, NoNewlineWithin DEF StreamInv, Reader
<1> QED BY <1>1, <1>2, <1>3, PTL DEF StreamSpec

\* An attempt that ends reports what its lines say, and its callback was asked
\* for the tools they tell, each once and in turn.
THEOREM RunIsFaithful == StreamSpec => []RunFaithful
<1>1. StreamInit => StreamInd
  BY StreamInitially
<1>2. StreamInd /\ [StreamNext]_streamVars => StreamInd'
  BY StreamStep
<1>3. StreamInd => RunFaithful
  BY AllToolsAsked DEF StreamInd, RunFaithful
<1> QED BY <1>1, <1>2, <1>3, PTL DEF StreamSpec

=============================================================================
