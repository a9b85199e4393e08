----------------------------- MODULE Invocation -----------------------------
(***************************************************************************)
(* invokeClaudeCli, invokeCursorCli, invokeCodexCli, invokeOpenCodeCli     *)
(* (claude, cursor, codex, opencode/process.ts) and invokeViaAcp           *)
(* (runtime/acp/adapter.ts): one run of a CLI or of a front, in several    *)
(* attempts with a growing pause between two of them.  An attempt prepares *)
(* its files, spawns a child, listens to the caller's signal and to its    *)
(* own timer, opens the log, reads the child's events to their end and     *)
(* judges what it read; over ACP it shakes hands with a front, prompts it, *)
(* and disposes of it whatever came.                                       *)
(*                                                                         *)
(* The five have one loop; what differs is in the operators that carry a   *)
(* runtime's name.  Children are known by their attempt.  A child is       *)
(* external: it ends when it likes, and a CLI behind SIGTERM sooner or     *)
(* later.  So does a front behind dispose(), which escalates to SIGKILL    *)
(* once its writer lets go of the line in flight: it is assumed that the   *)
(* front reads that line or exits (see Blocked in AcpClient).              *)
(***************************************************************************)
EXTENDS Naturals, FiniteSets

CONSTANTS Runtime,      \* the CLIs of the instance, and "acp"
          MaxAttempts,  \* opts.maxRetries; over ACP opts.maxRetries + 1
          Files,        \* mcpServers or outputSchema may be given
          Log           \* streamLogPath is given

ASSUME InvocationAssumption ==
    /\ Runtime \subseteq {"claude", "cursor", "codex", "opencode", "acp"}
    /\ MaxAttempts \in Nat \ {0}
    /\ {Files, Log} \subseteq BOOLEAN

Attempt == 1..MaxAttempts
Shared  == 0    \* in `files`: the schema file that serves every attempt

VARIABLES runtime,
          prepares,    \* the run needs a file before its child is spawned
          aborted,     \* opts.signal is aborted
          phase,       \* "called", "preparing", "opening", "reading", "closing",
                       \* "draining", "judged", "backoff", "returned"
          attempt,
          child,       \* of each attempt: "none", "running", "ok", "failed"
          registered,  \* the children the registry knows
          listening,   \* the attempts whose abort listener would still fire
          termed,      \* the children that were sent SIGTERM, the fronts disposed of
          late,        \* the attempts whose timer fired while it was heard
          files,       \* the temporary files there are
          result,      \* what the attempt's events say: "none", "success", "error",
                       \* "invalid"
          denied, stalled, fatal,  \* the flags of the attempt
          watched,     \* a log is watched for the provider's refusal
          verdict,     \* how each attempt was judged
          reported,    \* how often onResult() was called
          outcome      \* what the call returned

osVars   == <<child, registered, termed>>
stopVars == <<aborted, listening, late>>
seenVars == <<result, denied, stalled, fatal, watched>>
endVars  == <<verdict, reported, outcome>>
vars == <<runtime, prepares, phase, attempt, files, osVars, stopVars, seenVars, endVars>>

-----------------------------------------------------------------------------

Init ==
    /\ runtime \in Runtime
    /\ prepares \in (IF Files /\ runtime \in {"claude", "codex"} THEN BOOLEAN ELSE {FALSE})
    /\ aborted \in BOOLEAN
    /\ phase = "called"
    /\ attempt = 0
    /\ child = [a \in Attempt |-> "none"]
    /\ registered = {}
    /\ listening = {}
    /\ termed = {}
    /\ late = {}
    /\ files = {}
    /\ result = "none"
    /\ denied = FALSE
    /\ stalled = FALSE
    /\ fatal = FALSE
    /\ watched = FALSE
    /\ verdict = [a \in Attempt |-> "none"]
    /\ reported = 0
    /\ outcome = "none"

Returns(o) == phase' = "returned" /\ outcome' = o

-----------------------------------------------------------------------------
(* An attempt starts *)

\* Claude writes a file for each attempt, Codex one ahead of the first.
Prepares(a) == prepares /\ (runtime = "claude" \/ a = 1)

\* The child of attempt a, with its listener; a signal that is aborted by now
\* will not fire it, nor will the timer combined with it.
Spawn(a) ==
    /\ child' = [child EXCEPT ![a] = "running"]
    /\ registered' = registered \cup {a}
    /\ listening' = IF aborted THEN listening ELSE listening \cup {a}
    /\ phase' = "opening"

SpawnFails(a) ==
    /\ phase' = "judged"
    /\ verdict' = [verdict EXCEPT ![a] = "threw"]
    /\ UNCHANGED <<child, registered, listening>>

Fresh ==
    /\ result' = "none"
    /\ denied' = FALSE
    /\ stalled' = FALSE
    /\ fatal' = FALSE
    /\ watched' = FALSE

\* One turn of the loop up to its first await.
Enter(a) ==
    /\ attempt' = a
    /\ Fresh
    /\ IF Prepares(a)
       THEN phase' = "preparing" /\ UNCHANGED <<child, registered, listening, verdict>>
       ELSE (Spawn(a) /\ UNCHANGED verdict) \/ SpawnFails(a)
    /\ UNCHANGED <<runtime, prepares, aborted, termed, late, files, reported, outcome>>

Begin ==
    /\ phase = "called"
    /\ IF aborted
       THEN /\ Returns("aborted")
            /\ UNCHANGED <<runtime, prepares, attempt, files, osVars, stopVars, seenVars, verdict,
                           reported>>
       ELSE Enter(1)

\* An option ACP cannot carry.
RefusesOptions ==
    /\ phase = "called"
    /\ runtime = "acp" /\ ~aborted
    /\ Returns("thrown")
    /\ UNCHANGED <<runtime, prepares, attempt, files, osVars, stopVars, seenVars, verdict, reported>>

\* The file is written and the child spawned; the signal is not looked at again.
FileOf(a) == IF runtime = "claude" THEN a ELSE Shared

Prepared ==
    /\ phase = "preparing"
    /\ files' = files \cup {FileOf(attempt)}
    /\ (Spawn(attempt) /\ UNCHANGED verdict) \/ SpawnFails(attempt)
    /\ UNCHANGED <<runtime, prepares, attempt, aborted, termed, late, seenVars, reported, outcome>>

\* No file can be written.  That fails the attempt of Claude, which may leave an
\* empty directory behind, and the call of Codex.
PrepareFails ==
    /\ phase = "preparing"
    /\ \/ /\ runtime = "claude"
          /\ files' \in {files, files \cup {attempt}}
          /\ phase' = "judged"
          /\ verdict' = [verdict EXCEPT ![attempt] = "threw"]
          /\ UNCHANGED outcome
       \/ /\ runtime = "codex"
          /\ Returns("thrown")
          /\ UNCHANGED <<files, verdict>>
    /\ UNCHANGED <<runtime, prepares, attempt, osVars, stopVars, seenVars, reported>>

-----------------------------------------------------------------------------
(* An attempt ends *)

\* What `finally` does: the child is forgotten and the attempt's file removed.
Reap(a) ==
    /\ registered' = registered \ {a}
    /\ files' = files \ {a}

Opened ==
    /\ phase = "opening"
    /\ runtime # "acp"
    /\ phase' = "reading"
    /\ UNCHANGED <<runtime, prepares, attempt, files, osVars, stopVars, seenVars, endVars>>

\* The log cannot be opened, or Codex does not take its prompt: the attempt fails
\* and its child is forgotten as it is, its listener left behind.
OpenFailsUnheard ==    \* slip: its listener is removed with it
    /\ phase = "opening"
    /\ Log /\ runtime # "acp"
    /\ phase' = "judged"
    /\ verdict' = [verdict EXCEPT ![attempt] = "threw"]
    /\ listening' = listening \ {attempt}
    /\ Reap(attempt)
    /\ UNCHANGED <<runtime, prepares, attempt, child, termed, aborted, late, seenVars, reported,
                   outcome>>
OpenFails ==
    /\ phase = "opening"
    /\ (Log /\ runtime # "acp") \/ runtime = "codex"
    /\ phase' = "judged"
    /\ verdict' = [verdict EXCEPT ![attempt] = "threw"]
    /\ Reap(attempt)
    /\ UNCHANGED <<runtime, prepares, attempt, child, termed, stopVars, seenVars, reported,
                   outcome>>

\* An event of the child tells how its turn ended.  Bound: one does.
Hears ==
    /\ phase = "reading"
    /\ runtime # "acp"
    /\ result = "none"
    /\ result' \in {"success", "error"} \cup (IF runtime = "codex" THEN {"invalid"} ELSE {})
    /\ UNCHANGED <<runtime, prepares, phase, attempt, files, osVars, stopVars, denied, stalled,
                   fatal, watched, endVars>>

Terminate(a) == termed' = termed \cup {a}

\* onToolUseObserved() says "abort".
Deny ==
    /\ phase = "reading"
    /\ runtime # "acp"
    /\ ~denied
    /\ denied' = TRUE
    /\ Terminate(attempt)
    /\ UNCHANGED <<runtime, prepares, phase, attempt, files, child, registered, stopVars, result,
                   stalled, fatal, watched, endVars>>

\* No event came for streamStallTimeoutSeconds.
Stall ==
    /\ runtime = "opencode"
    /\ phase \in {"opening", "reading"}
    /\ ~stalled
    /\ stalled' = TRUE
    /\ Terminate(attempt)
    /\ UNCHANGED <<runtime, prepares, phase, attempt, files, child, registered, stopVars, result,
                   denied, fatal, watched, endVars>>

\* The detector settles for the newest log in the directory, which may be one that
\* another run of the CLI is writing, and looks for no other.  It may find none in
\* the five seconds it has.
LogFound ==
    /\ runtime = "opencode"
    /\ phase \in {"opening", "reading"}
    /\ ~watched
    /\ watched' = TRUE
    /\ UNCHANGED <<runtime, prepares, phase, attempt, files, osVars, stopVars, result, denied,
                   stalled, fatal, endVars>>

\* A line of the watched log tells that the provider refuses for good.
LogRefuses == runtime = "opencode" /\ watched

UpstreamFatal ==
    /\ LogRefuses
    /\ phase \in {"opening", "reading"}
    /\ ~fatal
    /\ fatal' = TRUE
    /\ Terminate(attempt)
    /\ UNCHANGED <<runtime, prepares, phase, attempt, files, child, registered, stopVars, result,
                   denied, stalled, watched, endVars>>

\* How an attempt whose child ended is judged.
ClaudeVerdict ==
    CASE denied             -> "denied"
      [] ~denied /\ aborted -> "aborted"
      [] OTHER              -> IF result = "none" THEN "threw" ELSE result

CursorVerdict == ClaudeVerdict

CodexVerdict ==
    CASE denied             -> "denied"
      [] ~denied /\ aborted -> "aborted"
      [] OTHER              -> IF result \in {"error", "invalid"} THEN result
                               ELSE IF child[attempt] = "failed" THEN "threw"
                               ELSE IF prepares /\ result = "none" THEN "error" ELSE "success"

OpenCodeVerdict ==
    CASE stalled                                     -> "stalled"
      [] fatal /\ ~stalled                           -> "fatal"
      [] denied /\ ~stalled /\ ~fatal                -> "denied"
      [] aborted /\ ~stalled /\ ~fatal /\ ~denied    -> "aborted"
      [] OTHER -> IF result = "none" \/ attempt \in late THEN "threw"
                  ELSE IF child[attempt] = "failed" /\ result # "error" THEN "threw" ELSE result

JudgedByStatus ==    \* slip: the signal is not asked for
    IF denied THEN "denied" ELSE IF result = "none" THEN "threw" ELSE result
Judged ==
    CASE runtime = "claude"   -> ClaudeVerdict
      [] runtime = "cursor"   -> CursorVerdict
      [] runtime = "codex"    -> CodexVerdict
      [] runtime = "opencode" -> OpenCodeVerdict

\* The child ended and its pipes are read to their end.
Judge ==
    /\ phase = "reading"
    /\ runtime # "acp"
    /\ child[attempt] # "running"
    /\ phase' = "judged"
    /\ verdict' = [verdict EXCEPT ![attempt] = Judged]
    /\ listening' = listening \ {attempt}
    /\ Reap(attempt)
    /\ UNCHANGED <<runtime, prepares, attempt, child, termed, aborted, late, seenVars, reported,
                   outcome>>

-----------------------------------------------------------------------------
(* An attempt over ACP *)

Handshaken ==
    /\ phase = "opening"
    /\ runtime = "acp"
    /\ phase' = "reading"
    /\ UNCHANGED <<runtime, prepares, attempt, files, osVars, stopVars, seenVars, endVars>>

\* The kinds an error is classified as, by its text and the status in it; which texts
\* are of which kind is left open.
Kind == {"auth", "policy", "context_window", "token_budget", "rate_limit", "plan_limit", "quota",
         "runtime_error"}
TerminalKind == {"auth", "policy", "context_window", "token_budget", "plan_limit"}

\* A failure of no kind is retried like one of a kind that may pass.
Judgment(kind) == IF kind \in TerminalKind THEN "invalid" ELSE "threw"

\* The kind of an RPC error, "none" for another exception, goes before that of the
\* tail of stderr, which is "none" for a text that is of no kind; an error of the
\* protocol that says nothing else is a runtime_error.
PickedKind(rpc, stderr) ==
    IF rpc = "none" \/ (rpc = "runtime_error" /\ stderr # "none") THEN stderr ELSE rpc

\* How the prompt's stop reason is judged: end_turn is a success, an error without
\* a kind, which cancelled is, is final, and so is one of a terminal kind.
StopReason == {"end_turn", "cancelled", "max_tokens", "max_turn_requests", "refusal", "other"}
StopKind(reason) ==
    CASE reason = "max_tokens" -> "token_budget"
      [] reason = "refusal"    -> "policy"
      [] OTHER                 -> "runtime_error"
Stopped(reason) ==
    CASE reason = "end_turn"  -> "success"
      [] reason = "cancelled" -> "invalid"
      [] OTHER -> IF StopKind(reason) \in TerminalKind THEN "invalid" ELSE "error"

PromptAnswered ==
    /\ phase = "reading"
    /\ runtime = "acp"
    /\ result = "none"
    /\ \E reason \in StopReason : result' = Stopped(reason)
    /\ UNCHANGED <<runtime, prepares, phase, attempt, files, osVars, stopVars, denied, stalled,
                   fatal, watched, endVars>>

\* What an exception is taken for: the listener has told why, or the kind of the
\* RPC error or of the tail of stderr does; only some kinds are retried.
Caught ==
    IF attempt \in termed THEN {"aborted"}
    ELSE {Judgment(PickedKind(rpc, stderr)) : rpc, stderr \in Kind \cup {"none"}}

\* `finally`: nobody listens any more, and dispose() is called.  It returns at once
\* if the listener has called it, and the drain loop is waited for, which ends
\* with the front.
Closes(v) ==
    /\ phase' = IF attempt \in termed THEN "draining" ELSE "closing"
    /\ verdict' = [verdict EXCEPT ![attempt] = v]
    /\ listening' = listening \ {attempt}
    /\ Terminate(attempt)
    /\ UNCHANGED <<runtime, prepares, attempt, files, child, registered, aborted, late, seenVars,
                   outcome>>

\* A request of the handshake or the prompt is rejected, the front lacks a
\* capability, or onInit() throws.
RunFails ==
    /\ phase \in {"opening", "reading"}
    /\ runtime = "acp"
    /\ result = "none"
    /\ \E v \in Caught \cup (IF phase = "opening" THEN {"unsupported"} ELSE {}) : Closes(v)
    /\ UNCHANGED reported

\* The updates in the queue were waited for, however the attempt was stopped
\* meanwhile, and onResult() is called, which may throw.
Concludes ==
    /\ phase = "reading"
    /\ runtime = "acp"
    /\ result # "none"
    /\ \E v \in Caught \cup {result} : Closes(v)
    /\ reported' = reported + 1

\* dispose() has seen the front end.  One the listener called may be behind the
\* attempt by then.
FrontDisposed(a) ==
    /\ runtime = "acp"
    /\ a \in registered \cap termed
    /\ child[a] # "running"
    /\ registered' = registered \ {a}
    /\ UNCHANGED <<runtime, prepares, phase, attempt, files, child, termed, stopVars, seenVars,
                   endVars>>

Closed ==
    /\ \/ phase = "closing" /\ attempt \notin registered
       \/ phase = "draining" /\ child[attempt] # "running"
    /\ phase' = "judged"
    /\ UNCHANGED <<runtime, prepares, attempt, files, osVars, stopVars, seenVars, endVars>>

-----------------------------------------------------------------------------
(* The loop *)

\* A verdict no further attempt can change, with what is returned for it.
CodexTerminal    == runtime = "codex" /\ verdict[attempt] = "invalid"
OpenCodeTerminal == runtime = "opencode" /\ verdict[attempt] \in {"stalled", "fatal"}
AcpTerminal      == runtime = "acp" /\ verdict[attempt] \in {"invalid", "unsupported"}

TerminalNever == FALSE    \* slip: every failure is retried
Terminal == CodexTerminal \/ OpenCodeTerminal \/ AcpTerminal

\* The schema file goes when the call returns.  Claude's onResult() is called
\* behind the call, with whatever output it has; over ACP it was called before.
Done(o) ==
    /\ Returns(o)
    /\ files' = files \ {Shared}
    /\ reported' = IF \/ o = "output" /\ runtime # "acp"
                      \/ runtime = "claude" /\ verdict[attempt] \in {"error", "denied"}
                   THEN reported + 1 ELSE reported

Retried == verdict[attempt] \notin {"success", "aborted"} /\ ~Terminal /\ attempt < MaxAttempts

Settle ==
    /\ phase = "judged"
    /\ \/ verdict[attempt] = "success" /\ Done("output")
       \/ verdict[attempt] = "aborted" /\ Done("aborted")
       \/ verdict[attempt] = "unsupported" /\ Done("thrown")
       \/ verdict[attempt] \notin {"success", "aborted", "unsupported"} /\ ~Retried /\ Done("error")
       \/ Retried /\ phase' = "backoff" /\ UNCHANGED <<files, reported, outcome>>
    /\ UNCHANGED <<runtime, prepares, attempt, osVars, stopVars, seenVars, verdict>>

\* onResult() is called within the loop by the other CLIs: if it throws, the
\* attempt that succeeded counts as failed.
ResultHookThrows ==
    /\ phase = "judged"
    /\ runtime \notin {"claude", "acp"}
    /\ verdict[attempt] = "success"
    /\ reported' = reported + 1
    /\ verdict' = [verdict EXCEPT ![attempt] = "unreported"]
    /\ UNCHANGED <<runtime, prepares, phase, attempt, files, osVars, stopVars, seenVars, outcome>>

SleepEnds == phase = "backoff" /\ ~aborted /\ Enter(attempt + 1)

SleepAbortsNever == FALSE /\ UNCHANGED vars    \* slip: the signal does not reach the pause
SleepAborts ==
    /\ phase = "backoff"
    /\ aborted
    /\ Done("aborted")
    /\ UNCHANGED <<runtime, prepares, attempt, osVars, stopVars, seenVars, verdict>>

-----------------------------------------------------------------------------
(* The signal, the timers and the children *)

AbortDeaf ==    \* slip: nobody listens
    /\ ~aborted
    /\ aborted' = TRUE
    /\ UNCHANGED <<runtime, prepares, phase, attempt, files, child, registered, termed, listening,
                   late, seenVars, endVars>>
Abort ==
    /\ ~aborted
    /\ aborted' = TRUE
    /\ listening' = {}
    /\ termed' = termed \cup listening
    /\ UNCHANGED <<runtime, prepares, phase, attempt, files, child, registered, late, seenVars,
                   endVars>>

Timeout(a) ==
    /\ a \in listening
    /\ listening' = listening \ {a}
    /\ late' = late \cup {a}
    /\ Terminate(a)
    /\ UNCHANGED <<runtime, prepares, phase, attempt, files, child, registered, aborted, seenVars,
                   endVars>>

Exit(a) ==
    /\ child[a] = "running"
    /\ \E status \in {"ok", "failed"} : child' = [child EXCEPT ![a] = status]
    /\ UNCHANGED <<runtime, prepares, phase, attempt, files, registered, termed, stopVars, seenVars,
                   endVars>>

-----------------------------------------------------------------------------

Start == Begin \/ RefusesOptions \/ Prepared \/ PrepareFails \/ Opened \/ OpenFails
Loop  == Judge \/ Settle \/ SleepEnds \/ SleepAborts
Sees  == Hears \/ Deny \/ Stall \/ LogFound \/ UpstreamFatal \/ ResultHookThrows
AcpFront == Handshaken \/ PromptAnswered \/ RunFails
Ending == Concludes \/ Closed \/ \E a \in Attempt : FrontDisposed(a)
World == Abort \/ \E a \in Attempt : Timeout(a) \/ Exit(a)

Next == Start \/ Loop \/ Sees \/ AcpFront \/ Ending \/ World

Spec == Init /\ [][Next]_vars

\* Files are written or not, a child that was sent SIGTERM ends, and timers
\* fire; what was asked of a front that is gone is rejected.  A front that is
\* disposed reads on or exits, so that dispose() gets as far as its signals.  No
\* child ends on its own, no front need answer, and nothing else is sure to come.
FrontGone == phase \in {"opening", "reading"} /\ child[attempt] # "running"
Fairness ==
    /\ WF_vars(Start)
    /\ WF_vars(Loop)
    /\ WF_vars(Ending)
    /\ WF_vars(FrontGone /\ RunFails)
    /\ \A a \in Attempt : WF_vars(Timeout(a)) /\ WF_vars(a \in termed /\ Exit(a))

FairSpec == Spec /\ Fairness

-----------------------------------------------------------------------------
(* Properties *)

Verdict == {"none", "success", "error", "invalid", "denied", "aborted", "threw", "stalled", "fatal",
            "unreported", "unsupported"}

TypeOK ==
    /\ runtime \in Runtime
    /\ {prepares, aborted, denied, stalled, fatal, watched} \subseteq BOOLEAN
    /\ phase \in {"called", "preparing", "opening", "reading", "closing", "draining",
                  "judged", "backoff", "returned"}
    /\ attempt \in 0..MaxAttempts
    /\ child \in [Attempt -> {"none", "running", "ok", "failed"}]
    /\ {registered, listening, termed, late} \subseteq SUBSET Attempt
    /\ files \subseteq Attempt \cup {Shared}
    /\ result \in {"none", "success", "error", "invalid"}
    /\ verdict \in [Attempt -> Verdict]
    /\ reported \in 0..MaxAttempts
    /\ outcome \in {"none", "output", "error", "aborted", "thrown"}

Lasting == {"opening", "reading", "closing", "draining"}

\* Attempts follow each other: a child runs behind its attempt only if the
\* attempt of a CLI broke off while it was opened; whoever is read is registered,
\* but for a front that is gone, and nobody else is, but such a front.
Succession ==
    /\ \A a \in Attempt : child[a] = "running" =>
          (a = attempt /\ phase \in Lasting) \/ (verdict[a] = "threw" /\ runtime # "acp")
    /\ phase \in Lasting => attempt \in registered \/ (runtime = "acp" /\ child[attempt] # "running")
    /\ \A a \in registered : \/ a = attempt /\ phase \in Lasting
                             \/ runtime = "acp" /\ a \in termed /\ child[a] # "running"

\* A child that nothing is going to stop: neither signalled nor listening.
Unwatched(a) == child[a] = "running" /\ a \notin listening \cup termed

\* A child, also one its attempt has forgotten, can be stopped by the signal and
\* by its timer, unless the signal was aborted while its file was being written.
Watched == \A a \in Attempt : Unwatched(a) => aborted /\ Prepares(a)

\* The type invariant with the succession of the attempts and their children.
Supervised == TypeOK /\ Succession /\ Watched

\* When the call has returned its files are gone, but for those of an attempt
\* that had no child.
FilesReaped ==
    phase = "returned" => Shared \notin files /\ \A a \in files : child[a] = "none"

\* The attempts and their children in order while the call lasts, and no file
\* behind it (claude/process.ts:341-402, 691-699).
InvocationInv == Supervised /\ FilesReaped

\* An abort reaches every child there is, and behind it no child starts but one
\* whose file was being written (adapter-types.ts:127-133).
AbortReaches ==
    [][/\ ~aborted /\ aborted' => \A a \in Attempt : child[a] = "running" => a \in termed'
       /\ aborted => \A a \in Attempt : child'[a] = "running" =>
                        child[a] = "running" \/ Prepares(a)]_vars

\* An output that is returned as good comes from a child that ended, told no
\* error, and was not stopped for a denial, a stall or a refusal, whatever came
\* in between; OpenCode's is in time, and Codex's and OpenCode's exited well.
\* A front is disposed of by then.
Truthful ==
    outcome = "output" =>
        /\ result = "success" \/ (runtime = "codex" /\ result = "none")
        /\ ~denied /\ ~stalled /\ ~fatal
        /\ runtime = "opencode" => attempt \notin late
        /\ \/ child[attempt] = "ok"
           \/ child[attempt] = "failed" /\ runtime \in {"claude", "cursor", "acp"}

\* Behind an abort, a success, a permanent rejection, a stall or a provider's
\* refusal no attempt is made, nor behind a failure of a terminal kind over ACP
\* (codex/process.ts:184-190, opencode 209-228, runtime/acp/adapter.ts:237-273).
OnlyFailuresAreRetried ==
    \A a \in 1..(attempt - 1) : verdict[a] \in {"error", "denied", "threw", "unreported"}

\* The call returns, with a timer on every attempt, unless a child started that
\* nothing can stop.
Ends == <>(phase = "returned" \/ \E a \in Attempt : Unwatched(a))

-----------------------------------------------------------------------------
(* What the documents say and the code does not do *)

\* "Returning "abort" stops the run" (adapter-types.ts:167): no attempt is made
\* behind one the callback stopped.
DenialEnds == \A a \in 1..(attempt - 1) : verdict[a] # "denied"

\* "When aborted, the runtime's underlying subprocess receives SIGTERM"
\* (adapter-types.ts:127-128).
AbortTerminates == aborted => \A a \in Attempt : child[a] = "running" => a \in termed

\* onResult() "fires exactly once after the run terminates with its final
\* output" (capability-types.ts:112).
ResultOnce == outcome = "output" => reported = 1

\* The file is reaped on "success / retry / abort / crash" (claude/mcp.ts:10).
NoFileStays == phase = "returned" => files = {}

\* "External abort (user signal or timeout) ... the retry loop treats this as
\* terminal and does not retry" (claude/process.ts:662-663).
TimeoutEnds == runtime = "claude" => \A a \in 1..(attempt - 1) : a \notin late

=============================================================================
