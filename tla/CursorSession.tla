--------------------------- MODULE CursorSession ---------------------------
(***************************************************************************)
(* openCursorSession (cursor/session.ts, cursor/pumps.ts, cursor/chat.ts): *)
(* a streaming session emulated with one `cursor agent -p --resume`        *)
(* subprocess per send.  send() only appends to `pending`; a worker loop   *)
(* takes the messages one by one, and pumps copy each subprocess's stdout  *)
(* into the session's event queue.                                         *)
(*                                                                         *)
(* Messages are numbered in the order send() accepted them.  The event     *)
(* queue is the log and the closed flag of EventChannel.  The consumer may *)
(* call anything between two steps of the worker, which awaits in three    *)
(* places: create-chat, the waker, and the end of a subprocess.            *)
(***************************************************************************)
EXTENDS Naturals, Sequences, FiniteSets

CONSTANTS MaxSend,      \* bound on accepted sends
          MaxLine,      \* bound on the stdout lines of one subprocess
          SystemPrompt  \* a new chat was opened with a system prompt

ASSUME SessionAssumption ==
    /\ MaxSend \in Nat
    /\ MaxLine \in Nat
    /\ SystemPrompt \in BOOLEAN

Message == 1..MaxSend
NoStatus == [exitCode |-> "null", signal |-> "null"]

VARIABLES phase,        \* of openCursorSession(): creating, open, refused
          signalled,    \* opts.signal is aborted
          pending, inputClosed, aborted,
          worker,       \* waiting on the waker, woken, running, ended
          cli,          \* each message's subprocess
          ran,          \* the messages runSingleSend() was called with
          lines,        \* stdout lines each subprocess wrote
          pipe,         \* lines the stdout pump has not read yet
          termed,       \* messages whose subprocess abort() signalled
          prompt,       \* pendingSystemPrompt is still to be sent
          carriers,     \* messages that were sent with the system prompt
          lastStatus,   \* lastExitCode and lastSignal
          notified,     \* messages onSendFailed was called for
          log, closed,  \* the event queue
          consumerLeft, \* the consumer broke out of `events`
          sent          \* number of accepted sends

openVars == <<phase, signalled>>
inputVars == <<pending, inputClosed, aborted, sent>>
procVars == <<cli, lines, pipe>>
runVars == <<ran, prompt, carriers>>
reportVars == <<termed, lastStatus, notified>>
streamVars == <<log, closed, consumerLeft>>
vars == <<openVars, inputVars, procVars, runVars, reportVars, streamVars, worker>>

-----------------------------------------------------------------------------

Init ==
    /\ phase = "creating"
    /\ signalled = FALSE
    /\ pending = <<>>
    /\ inputClosed = FALSE
    /\ aborted = FALSE
    /\ worker = "waiting"
    /\ cli = [m \in Message |-> "none"]
    /\ ran = <<>>
    /\ lines = [m \in Message |-> 0]
    /\ pipe = <<>>
    /\ termed = {}
    /\ prompt = SystemPrompt
    /\ carriers = {}
    /\ lastStatus = NoStatus
    /\ notified = {}
    /\ log = <<>>
    /\ closed = FALSE
    /\ consumerLeft = FALSE
    /\ sent = 0

\* What push() makes of the log: nothing once the queue is closed.
Pushed(event) == IF closed THEN log ELSE Append(log, event)

Failed == {"failed", "killed", "unspawned"}

\* The message of the subprocess the worker waits for, if there is one.
Current == ran[Len(ran)]

\* wakeWorker(): resolves the waker if the worker waits on one.
WokenNever == worker    \* slip: the waker is not called
Woken == IF worker = "waiting" THEN "woken" ELSE worker

\* pending.push().
EnqueuedInFront(m) == <<m>> \o pending    \* slip: the newest runs first
Enqueued(m) == Append(pending, m)

\* Where abort() sends SIGTERM.
Signalled == IF worker = "running" THEN termed \cup {Current} ELSE termed

\* A message the loop may take.
RunnableAborted == pending # <<>>    \* slip: `aborted` is not tested
Runnable == pending # <<>> /\ ~aborted

\* Both pumps have reached EOF.
EofIgnored == TRUE    \* slip: only the exit is awaited
Eof == pipe = <<>>

\* The failure that is reported: a bad exit or a spawn() that threw.
Reportable == cli[Current] \in Failed /\ ~aborted

-----------------------------------------------------------------------------
(* Opening *)

\* `create-chat` succeeded: the queue starts with the init event and the
\* worker with its first wait.  A signal that fired during the await aborts
\* the session before the caller gets it.
Open ==
    /\ phase = "creating"
    /\ phase' = "open"
    /\ log' = <<[event |-> "init", of |-> 0]>>
    /\ aborted' = signalled
    /\ inputClosed' = signalled
    /\ worker' = IF signalled THEN "woken" ELSE "waiting"
    /\ UNCHANGED <<procVars, runVars, reportVars, signalled, pending,
                   closed, consumerLeft, sent>>

\* `create-chat` failed, timed out or printed no id: the open rejects.
OpenFails ==
    /\ phase = "creating"
    /\ phase' = "refused"
    /\ UNCHANGED <<inputVars, procVars, runVars, reportVars, streamVars,
                   signalled, worker>>

-----------------------------------------------------------------------------
(* The caller's side *)

\* send(): refused after abort() or endInput(), else queued.
Send ==
    /\ phase = "open"
    /\ ~aborted
    /\ ~inputClosed
    /\ sent < MaxSend
    /\ sent' = sent + 1
    /\ pending' = Enqueued(sent + 1)
    /\ worker' = Woken
    /\ UNCHANGED <<openVars, procVars, runVars, reportVars, streamVars,
                   inputClosed, aborted>>

EndInput ==
    /\ phase = "open"
    /\ ~inputClosed
    /\ inputClosed' = TRUE
    /\ worker' = Woken
    /\ UNCHANGED <<openVars, procVars, runVars, reportVars, streamVars,
                   pending, aborted, sent>>

\* abort(), called or through opts.signal: SIGTERM for the subprocess that
\* runs.  Queued messages stay in `pending` and nobody looks at them again.
Abort ==
    /\ phase = "open"
    /\ ~aborted
    /\ aborted' = TRUE
    /\ inputClosed' = TRUE
    /\ termed' = Signalled
    /\ worker' = Woken
    /\ UNCHANGED <<openVars, procVars, runVars, streamVars, pending,
                   lastStatus, notified, sent>>

\* opts.signal fires before the session is open: create-chat does not see it.
SignalEarly ==
    /\ phase = "creating"
    /\ ~signalled
    /\ signalled' = TRUE
    /\ UNCHANGED <<inputVars, procVars, runVars, reportVars, streamVars,
                   phase, worker>>

\* The consumer leaves its `for await`: return() closes the queue.
ConsumerLeaves ==
    /\ phase = "open"
    /\ ~consumerLeft
    /\ consumerLeft' = TRUE
    /\ closed' = TRUE
    /\ UNCHANGED <<openVars, inputVars, procVars, runVars, reportVars,
                   worker, log>>

-----------------------------------------------------------------------------
(* The subprocess and the pumps *)

Running(m) == worker = "running" /\ m = Current /\ cli[m] = "running"

Write(m) ==
    /\ Running(m)
    /\ lines[m] < MaxLine
    /\ lines' = [lines EXCEPT ![m] = @ + 1]
    /\ pipe' = Append(pipe, m)
    /\ UNCHANGED <<openVars, inputVars, runVars, reportVars, streamVars,
                   worker, cli>>

\* The subprocess ends, with code 0, another code, or by a signal.
Exit(m) ==
    /\ Running(m)
    /\ \E outcome \in {"ok", "failed", "killed"} :
          cli' = [cli EXCEPT ![m] = outcome]
    /\ UNCHANGED <<openVars, inputVars, runVars, reportVars, streamVars,
                   worker, lines, pipe>>

\* pumpCursorStdout: one more line reaches the queue.
Pump ==
    /\ pipe # <<>>
    /\ pipe' = Tail(pipe)
    /\ log' = Pushed([event |-> "line", of |-> Head(pipe)])
    /\ UNCHANGED <<openVars, inputVars, runVars, reportVars, worker, cli,
                   lines, closed, consumerLeft>>

-----------------------------------------------------------------------------
(* The worker *)

\* One round of runWorker()'s loop, which has no await before its end: wait
\* again, leave and close the queue, or run the next message.  spawn() may
\* throw, and the system prompt is used up even then.
RoundSleeps ==
    /\ pending = <<>> /\ ~inputClosed /\ ~aborted
    /\ worker' = "waiting"
    /\ UNCHANGED <<pending, cli, runVars, closed>>

RoundEnds ==
    /\ aborted \/ (pending = <<>> /\ inputClosed)
    /\ worker' = "ended"
    /\ closed' = TRUE
    /\ UNCHANGED <<pending, cli, runVars>>

RoundRuns ==
    /\ Runnable
    /\ worker' = "running"
    /\ pending' = Tail(pending)
    /\ ran' = Append(ran, Head(pending))
    /\ \E outcome \in {"running", "unspawned"} :
          cli' = [cli EXCEPT ![Head(pending)] = outcome]
    /\ prompt' = FALSE
    /\ carriers' = IF prompt THEN carriers \cup {Head(pending)} ELSE carriers
    /\ UNCHANGED closed

Round == RoundSleeps \/ RoundEnds \/ RoundRuns

\* The waker's promise resolved.
Wake ==
    /\ worker = "woken"
    /\ Round
    /\ UNCHANGED <<openVars, reportVars, inputClosed, aborted, lines,
                   pipe, log, consumerLeft, sent>>

\* What is recorded of a subprocess that was spawned.
StatusOf(outcome) ==
    CASE outcome = "ok"     -> [exitCode |-> "0", signal |-> "null"]
      [] outcome = "failed" -> [exitCode |-> "1", signal |-> "null"]
      [] outcome = "killed" -> [exitCode |-> "143", signal |-> "SIGTERM"]

\* The subprocess has ended and both pumps are at EOF: its status is kept, a
\* failure is reported unless the session was aborted, and the loop goes on.
Finish ==
    /\ worker = "running"
    /\ cli[Current] # "running"
    /\ Eof
    /\ lastStatus' = IF cli[Current] = "unspawned" THEN lastStatus
                     ELSE StatusOf(cli[Current])
    /\ IF Reportable
       THEN /\ notified' = notified \cup {Current}
            /\ log' = Pushed([event |-> "send_failed", of |-> Current])
       ELSE UNCHANGED <<notified, log>>
    /\ Round
    /\ UNCHANGED <<openVars, inputClosed, aborted, lines, pipe, termed,
                   consumerLeft, sent>>

-----------------------------------------------------------------------------

Next ==
    \/ Open \/ OpenFails
    \/ Send \/ EndInput \/ Abort \/ SignalEarly \/ ConsumerLeaves
    \/ \E m \in Message : Write(m) \/ Exit(m)
    \/ Pump \/ Wake \/ Finish

Spec == Init /\ [][Next]_vars

\* The event loop runs what is ready, and a subprocess ends: by itself, or
\* because of the SIGTERM it was sent.  There is no SIGKILL in this module.
Fairness ==
    /\ WF_vars(Wake) /\ WF_vars(Pump) /\ WF_vars(Finish)
    /\ \A m \in Message : WF_vars(Exit(m))

FairSpec == Spec /\ Fairness

-----------------------------------------------------------------------------
(* Properties *)

\* Every variable has its type.
TypeOK ==
    /\ phase \in {"creating", "open", "refused"}
    /\ signalled \in BOOLEAN
    /\ pending \in Seq(Message)
    /\ inputClosed \in BOOLEAN
    /\ aborted \in BOOLEAN
    /\ worker \in {"waiting", "woken", "running", "ended"}
    /\ cli \in [Message -> {"none", "running", "ok"} \cup Failed]
    /\ ran \in Seq(Message)
    /\ lines \in [Message -> Nat]
    /\ pipe \in Seq(Message)
    /\ termed \in SUBSET Message
    /\ prompt \in BOOLEAN
    /\ carriers \in SUBSET Message
    /\ lastStatus \in [exitCode : {"null", "0", "1", "143"},
                       signal : {"null", "SIGTERM"}]
    /\ notified \in SUBSET Message
    /\ log \in Seq([event : {"init", "line", "send_failed"},
                    of : 0..MaxSend])
    /\ closed \in BOOLEAN
    /\ consumerLeft \in BOOLEAN
    /\ sent \in 0..MaxSend

\* Every accepted send is queued or was handed to a subprocess, exactly once
\* and in the order of the calls, across wakeups, failures and aborts.
SendsInOrder ==
    /\ Len(ran) + Len(pending) = sent
    /\ \A i \in 1..Len(ran) : ran[i] = i
    /\ \A i \in 1..Len(pending) : pending[i] = Len(ran) + i

\* At most one subprocess runs, the one the worker waits for, and the worker
\* is asleep only while there is nothing for it to do (no lost wakeup).
OneAtATime ==
    /\ \A m \in Message : cli[m] = "running" =>
          worker = "running" /\ ran # <<>> /\ m = Current
    /\ worker = "waiting" => pending = <<>> /\ ~inputClosed /\ ~aborted
    /\ worker = "running" => ran # <<>> /\ cli[Current] # "none"

\* An abort reaches whatever runs: nothing is left running unsignalled.
AbortReaches ==
    aborted => \A m \in Message : cli[m] = "running" => m \in termed

\* After an abort no message is handed to a subprocess any more.
NothingStartsAfterAbort ==
    [][aborted => ran' = ran]_vars

\* The stream tells the turns apart: the events of one subprocess come
\* before those of the next, and its failure, once, after its last line.
TurnsDoNotMix ==
    \A i, j \in 1..Len(log) : i < j =>
        /\ log[i].of <= log[j].of
        /\ log[i].event = "send_failed" => log[i].of < log[j].of

\* A failed subprocess is reported unless the session was aborted, and only
\* a failed one is.
FailuresReported ==
    /\ \A m \in notified : cli[m] \in Failed
    /\ \A i \in 1..Len(ran) :
          /\ ~aborted
          /\ worker # "running" \/ i < Len(ran)
          => (ran[i] \in notified <=> cli[ran[i]] \in Failed)

\* When the session ends without an abort every accepted send has run, and
\* every line was delivered to a consumer that stayed.
EndsDrained ==
    worker = "ended" =>
        /\ closed
        /\ ~aborted => pending = <<>> /\ Len(ran) = sent
        /\ ~consumerLeft => \A m \in Message :
              Cardinality({i \in 1..Len(log) :
                 log[i] = [event |-> "line", of |-> m]}) = lines[m]

\* What the consumer and the callbacks of a session are told.
EventsFaithful == TurnsDoNotMix /\ FailuresReported /\ EndsDrained

\* The system prompt goes with the first message of a new chat, and with no
\* other (it is lost if that subprocess could not be spawned).
PromptOnce ==
    /\ carriers = IF SystemPrompt /\ ran # <<>> THEN {1} ELSE {}
    /\ prompt <=> SystemPrompt /\ ran = <<>>

\* After endInput() or abort() the worker ends, so `done` resolves.
DoneResolves ==
    inputClosed ~> worker = "ended"

\* cursor/session.ts:217 says that abort() rejects pending sends: no
\* message that was accepted goes away without a run or a report.
AbortReportsPending ==
    worker = "ended" =>
        \A m \in 1..sent : cli[m] # "none" \/ m \in notified

\* cursor/session.ts:148-149 says that exitCode is null when the session
\* was aborted.
AbortedHasNoExitCode ==
    worker = "ended" /\ aborted => lastStatus.exitCode = "null"

\* The inductive invariant of CursorSessionProofs.
NothingRunsUnopened == phase # "open" => worker = "waiting"

SessionInv ==
    /\ TypeOK
    /\ NothingRunsUnopened
    /\ SendsInOrder
    /\ OneAtATime
    /\ AbortReaches
    /\ PromptOnce

=============================================================================
