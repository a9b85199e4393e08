# A TLA+ model of ai-ide-cli

`@korchasa/ai-ide-cli` wraps four agent CLIs (Claude Code, OpenCode, Cursor,
Codex) behind one interface. It spawns them, talks to them over pipes, HTTP or
JSON-RPC, and turns their output into one stream of events. It has one thread
and no persistent state. What makes it hard is that everything interesting
happens between two `await`s: subprocesses end at any moment, callers send,
close and abort at any moment, and messages wait in pipes while they do.

This directory models the parts of the library where that matters, checks the
models with TLC and proves the main invariants with TLAPS. Paths below are
relative to `src/`.

## 1. Inventory

### Components, their state and their operations

| Component | State | Operations | Hard behaviour |
|---|---|---|---|
| Event queue (`runtime/event-queue.ts`, `codex/app-server-internals.ts`) | stored items, waiting `next()` calls, closed, iterated | push, close, next, return, iterate | several calls outstanding; close with waiters; items left when closed |
| Process registry (`process-registry.ts`) | tracked children, group leaders, shutdown callbacks | register, unregister, onShutdown and its disposer, killAll | killAll awaits twice while everything else goes on |
| Cursor session (`cursor/session.ts`, `pumps.ts`, `chat.ts`) | queue of sends, worker, current subprocess, flags | open, send, endInput, abort, worker loop, pumps | one subprocess per send; abort at any point; output races exit |
| Codex app-server client (`codex/app-server.ts`) | pending requests by id, stdin, stdout pump, notification queue | spawn, request, notify, close, abort, handleLine, exit | responses, process exit, abort and write errors race for one request |
| Codex session (`codex/session.ts`) | active turn id, flags, notification pump | open, send (`turn/start` or `turn/steer`), endInput, abort | the turn id is read before an await and written after it |
| OpenCode session (`opencode/session.ts`, `sse.ts`) | HTTP server child, SSE stream, busy flag, idle waiter | open, send, endInput, abort, SSE pump | shutdown waits for an idle event that may never come |
| Claude session (`claude/session.ts`) | one child, stdin writer, session id, flags | open, send, endInput, abort, pumps | external abort, stdin errors, exit |
| ACP client (`runtime/acp/client.ts`, `inbound.ts`) | pending requests, notification buffer and waiter, child | request, notify, respond, next, dispose | exit against buffered output; a shutdown that waits for the writer, then SIGTERM, then SIGKILL |
| ACP session and connection (`runtime/acp/adapter.ts`, `handshake.ts`) | sessions by id, early notes, delivery counts | openConnection, openSession, send, leave, drain loop | notes that arrive before their session; turn end behind its notes |
| One-shot invocation and retry (`claude/process.ts`, `codex/process.ts`, `opencode/process.ts`, `cursor/process.ts`, `invokeViaAcp`) | attempt counter, timer, abort flag | invoke, attempt, backoff, abort | timeout, abort and result race; retry of terminal failures |
| ACP commands probe (`runtime/acp/commands.ts`) | one notification wait | fetch, settle | timeout against the answer, settle once |
| ACP client file system and permissions (`client-fs.ts`, `permissions.ts`) | the write root, one temporary file per write | confined read/write, option choice | the agent replaces a path between its check and its use; deny by default |
| Session adapter, callback safety (`runtime/session-adapter.ts`, `callback-safety.ts`) | one generator | adapt events, wrap callbacks | a second iteration; a callback that throws |
| Stream parsers and run state (`claude/stream.ts`, `codex/run-state.ts`, `codex/events.ts`, `cursor/stream.ts`, `opencode/events.ts`, `content.ts` files) | accumulators of one run | apply event, extract output | partial lines, order of events |
| Error analysis (`runtime/runtime-error-analysis.ts`, `opencode/upstream-error-detector.ts`) | none; one log watcher | classify, watch | precedence of rules; a watcher that outlives its run |
| Runtime adapters, argument and environment builders (`*-adapter.ts`, `argv.ts`, `run-options.ts`, `mcp-injection.ts`, `spawn-env.ts`, `tool-filter.ts`, `reasoning-effort.ts`, `acp/mapping.ts` ...) | one warning latch per option and adapter | validate, render, hand over in the handshake | a refusal behind the spawn; an option dropped without a word; reserved flags |
| Skill parser, capability inventory (`skill/`, `capabilities.ts`) | none | parse, probe | none beyond parsing |

### How they interact

A runtime adapter opens a session or invokes a CLI. Every subprocess is
registered with the `ProcessRegistry` the caller passed and unregistered when it
ended, so that `killAll()` can reap what is left. A session owns a
`SessionEventQueue`: pumps on the subprocess's output push into it, the consumer
iterates it, and the session closes it when its transport has ended.
The Codex session talks to its subprocess through `CodexAppServerClient`, which
has a queue of its own for notifications; the ACP runtimes do the same through
`AcpClient`, and several ACP sessions may share one connection. Everything a
session promises is one contract (`runtime/session-types.ts`): `send` is
refused after `endInput` or `abort` and otherwise accepts, `events` ends when the
transport ends and carries one turn end per completed turn, `done` always
resolves.

### What makes each part correct

- Queue: FIFO, nothing lost or doubled, no call left waiting.
- Registry: no running child is untracked; `killAll()` returns; when it runs its
  callbacks nothing it signalled still runs.
- Sessions: accepted sends reach the runtime once and in order, the events of
  turns do not mix, an abort stops everything, `done` resolves.
- JSON-RPC clients: a request settles exactly once, with its own answer, and
  none is left pending when the process is gone.
- Retry: a terminal failure or an abort is not retried, the number of attempts
  is bounded.

## 2. Plan

The order follows the hazards: first what every session is built on, then the
sessions whose interleavings are hardest, then the one-shot path, last the pure
functions.

| Step | Modules | State |
|---|---|---|
| 1 | `EventChannel`, `EventQueue` and its proofs | done |
| 2 | `ProcessRegistry` and its proofs | done |
| 3 | `CursorSession` and its proofs | done |
| 4 | `CodexAppServer` and its proofs | done |
| 5 | `SessionContract`, `CodexSession` and its proofs | done |
| 6 | `OpenCodeSession` and its proofs | done |
| 7 | `AcpClient`, `AcpConnection` and their proofs | done |
| 8 | `ClaudeSession` with the session adapter around it, and its proofs | done |
| 9 | `Invocation` and its proofs: attempts, backoff, timer and abort of the four CLI runtimes and of a front over ACP | done; an abstract "one result, at most N attempts, none after an abort" is not stated |
| 10 | `AcpServices` and its proofs: the commands probe and the client's file system over `AcpClient` | done |
| 11 | `RunStream`: chunks, lines, callbacks, the state of a run and its output against what the lines say; its proofs | done |
| 12 | `RunOptions` and its proofs: what becomes of an option, from the validators to the child | done |
| 13 | The text patterns of the error analysis and the extraction of content as functions, checked against a reference definition; the log watcher's reads in detail | not done |

Composition: `EventQueue` refines `EventChannel`, and the sessions contain the
channel, not the queue. `CodexSession` stands on what `CodexAppServer` shows
(responses settle their own request, notifications keep their order), and
`AcpConnection` on `AcpClient` in the same way. `CodexSession`,
`OpenCodeSession` and `ClaudeSession` refine `SessionContract`. `Invocation` takes the
reading of a CLI's attempt for one step, which is `RunStream` in detail, and `dispose()`
for what `AcpClient` shows of it. `AcpServices` contains `AcpClient` whole: the probe and the
file system are its callers, and its actions are taken as they are.

Every safety invariant, action property and refinement that a run checks is also proved
(section 6). Liveness is left to TLC.

Those parts of the plan that are hazards today are in the hazard list with
a note.

## 3. The modules and the code

One thread runs everything, so code between two `await`s is one step. Each
action is such a stretch: a method body up to its first `await`, a continuation
behind one, or a step of the outside world. Promises are values in a sequence
with one entry per call. A promise that settles and the continuation that
waits for it are separate steps where another task can run between them.

### EventQueue, EventChannel

`Push`, `Close`, `CallNext`, `Return` and `Iterate` are the methods of
`SessionEventQueue`; `items`, `resolvers`, `closed`, `iterated` are its fields.
`answers[k]` is the promise of the k-th `next()`, so that a caller that does not
await is covered. `log` records what `push()` accepted.
`EventChannel` keeps only the log, the number of calls and whether the channel
is shut: the k-th call is answered with the k-th event, or with the end.
`NotificationQueue` is the same code; `Next` is mapped to it.

### ProcessRegistry

A `Proc` is a child, and `child` its operating system state; `tool` is a
process it forked into its group. `Register` and `Unregister` are what owners
do around `status`. `KillAll`, `Expire`, `Sweep`, `Proceed` and `Resume` are the
stretches of `killAll()`: signal everything, the timer, the sweep with SIGKILL,
and the callback loop, which awaits each callback. Two callers may be in it at
once. `DisposeDuringRun` allows disposers during that loop.

### CursorSession

`Open`, `Send`, `EndInput`, `Abort`, `SignalEarly` are the handle; `Round`,
`Wake` and `Finish` the worker loop up to its sleep, from it, and behind the end
of a subprocess; `Pump` and `Eof` the stdout pump. `Write` and `Exit` are the
subprocess. `cli[m]` is how the subprocess of message m goes: a spawn may fail,
a process may succeed, fail, or end by a signal. `pipe` holds lines that are
written and unread, which is what races the exit. Lines are known by their
message only.

### CodexAppServer

`Request`, `Notify`, `CloseStdin`, `Abort`, `ConsumerLeaves` are calls.
`writing` is the writer's queue; `Flush` moves its first line into the pipe and
`WriteFails` breaks it. `ReadLine` is `handleLine`: `HandleJunk`, `HandleId` and
`HandleNote` are its three outcomes. `ExitSeen`, `Finalize`, `WriterCloses` and
`RejectPending` are the task behind `done`. A request of the server carries an
id and so runs into `HandleId` like a response: `ServerId` holds those ids, and as
nothing keeps them apart from the client's, one may settle a request of the client that
has its number. `AnswersMatch` allows just that: a promise takes what a line with its own id
carried that no response of that id precedes, and every response read leaves its request
settled.
`OnlyResponsesAnswer`, which excludes the server's requests, fails (section 7). A line
`null` (`NullRead`) ends the pump.

### CodexSession

Opening is `OpenAnswered` (twice), `OpenFails`, `Reaped`, `OpenThrows`.
`Send` chooses `turn/steer` or `turn/start` by `activeTurnId` as it is at the
call; `Resume` is the continuation of its answer; `Pump` handles one
notification and `Tracked` is `updateActiveTurnId`. `wire` holds the server's
lines that have had no effect. Responses may overtake notifications on it,
never the reverse: a response resumes its caller one microtask after it is
read, while notifications go through a queue.

### OpenCodeSession

`Listens`, `StartFails`, `Created`, `CreateRefused`, `CreateThrows` are the
opening. `Send`, `SendSettles`, `EndInput`, `Abort`, `AbortSettles` and
`SignalFires` are the handle. The teardown task has two waits, a window of
500 ms behind the last `send()` (`recent`, `SendAges`, `WindowEnds`) and the next
idle event (`Wakes`, `TeardownResumes`). `Dispatch` handles one SSE event: `Busy`,
`Idle` and `EndsTurn` are what it does to `isIdle`. `SseEnds` is the end of the
stream and `Done` the chain behind the exit.

### AcpClient

As `CodexAppServer`, with the differences of the code: `ExitSeen` does not wait
for the stdout pump, the consumer's loop over `notifications()` is a waiter on
one slot that may also be left (`ConsumerLeaves`, the iterator's `return()`), inbound
requests are answered by a handler that settles later
(`HandleAsk`, `HandlerSettles`), and `dispose()` is a chain of waits (`Dispose`,
`WriterCloses` or `WriterAborts`, `GraceEnds`, `FrontGone`, `DisposeReturns`). Two of them
have timers. `close()` of the writer has one: when it fires, `WriterAborts` calls `abort()`,
which drops the queued lines (`Drop`) but not the line in flight, the first of `writing`,
and settles only when that one was taken (`FlushLast`) or the pipe broke. A front that
neither reads nor exits keeps `dispose()` there (`Blocked`), ahead of its SIGTERM;
`Settles` says that nothing else does, and `DisposeNeverHangs` fails (section 7).

### AcpServices

What the library does with that client besides prompts. `user` is who has it: "any" leaves
`AcpClient` as it is, "probe" is `fetchAcpCommands()`, "session" one that declared
`acpClientFs`. `ProbeRequests`, `ProbeWaits` and `ProbeNext` are the way of the probe,
`ProbeFinds`, `ProbeTimesOut`, `ProbeFails` and `ProbeAborts` its four ends, `ProbeCloses`
and `ProbeReturns` the `finally`. The signal has two listeners, so `ProbeAborts` disposes
the client and gives up the wait in one step; an abort during the handshake comes back
through the rejected request.

A request of the front for a file is a line of `AcpClient`, and its handler takes one step
per system call: `FsRead`, or `FsWrite` (the path), `FsCheck` (`lstat` of the target),
`FsResolve` (the real paths), `FsMake` (`mkdir`), `FsCreate`, `FsFill` and `FsRename`
(`replaceFile()`), `FsRemove` behind a failure. Two handlers may be under way, and
`AgentReplaces` lets the agent's own tools put a file, a hard link, a symbolic link or
nothing in the place of the target between any two. `entry` is what the name stands for,
`text` what each file holds. Handlers go on behind `dispose()`, as in the code.

### RunOptions

One call after another, of one runtime in one process. A call has a transport, a kind
(invoke or session) and some options, each with a well-formed, malformed or conflicting
value. `Checks` is the list of validators and warnings the adapter runs, in its order;
`Refuse` and `Pass` take the head of it. `Prepare` renders (`Emits`) and writes the file of
the MCP servers or of the schema, `Spawn` and `SpawnFails` start the child, and over ACP
`HandshakeStep` and `HandshakeFails` go through `HandshakeSteps` with what the front
offers (`declared`). `carried` are the options that reached the child, `told` those the
caller's error sink heard of, `warned` the latches of the process, which outlive a call.
Only the checks of the CLI transport set a latch. `CapabilitiesHold` says who hears of an
option that is not honoured on either transport; over ACP that is not what
`runtime/capability-types.ts` promises (`WarnedWhenFalse`, section 7).

### AcpConnection

`OpenSession` asks for a session, `OpenAnswered` is the front's reply, `Register`
and `Flush` the registration and the delivery of `early` with an `onEvent` await
between two entries, `OpenReturns` the handle. `DrainTakes`, `Hold` and
`DrainDelivers` are the drain loop, which stops at the await of a session's
callback with the entry it took. `SendAnswered`, `SendMarks` and `SendEnds` are
`send()` behind the response: it waits until the loop has handled what was
received by then, and pushes the turn-end. `EndInput`, `Abort`, `Close`,
`LeaveMap` and `CloseAnswered` are the ways out.

`owned` tells `openSessionViaAcp` from `openAcpConnection`: one session, opened behind
`initialize` (`Initialized`, `OpenOwned`), which disposes the front when it ends or when
its handshake fails (`Lifecycle`, `OpenAnswered`) and whose drain loop starts with its
registration (`Draining`). `OpenAnswered` takes the handshake a request at a time: the
session first, then mode, effort and model ("setting"). When one of those is refused on
a shared front the front keeps a session no handle knows ("orphaned"): nobody closes it
and its updates stay in `early`. `AskRead` routes a request of the front when it is read,
`Inbound` is the choice by method, `Decide` and `Picked` are the permission handler; on a
shared front a request that arrives while its session is being opened is refused, although
an update is held.

### Invocation

`invokeClaudeCli`, `invokeCursorCli`, `invokeCodexCli` and `invokeOpenCodeCli` are
four copies of one loop, so they are one module and `runtime` says which copy a
behaviour is of. `Begin`, `Settle`, `SleepEnds` and `SleepAborts` are the loop;
`Enter` is one turn of it up to its first await: `Spawn` (register, timer,
listener) or, if a file is to be written, `Prepared` behind it. `Opened` and
`OpenFails` are the log and Codex's prompt; `Hears`, `Deny`, `Stall` and
`UpstreamFatal` are what comes while the child's output is read. OpenCode's detector
must find a log first (`LogFound`): it takes the newest one in the directory, also
that of another run, within five seconds, and looks for no other later. `Judge` is the
end of the read with everything the code tests then, in the order of each copy
(`ClaudeVerdict` ...). `Reap` is `finally`. `ResultHookThrows` is an `onResult()`
that throws: three of the copies call it inside their `try`. `listening` holds
the attempts whose listener would fire, so an attempt that gave up without
removing it stays there. A child has ended when it exited and nobody holds its
pipes. The Claude adapter's own `onResult()` call is part of `Done`.

`invokeViaAcp` is a fifth loop with the same shape, so it shares the loop, the signal
and the children, and has actions of its own for the attempt: `RefusesOptions`,
`Handshaken`, `PromptAnswered` (the kinds of stop reason), `RunFails` and `Concludes`,
which end the attempt as `Closes` says, and `FrontDisposed` and `Closed`, the wait for
`dispose()` in `finally`. A second `dispose()` returns at once: when the abort listener
has called it already, the attempt only waits for its drain loop, that is for the
front's end (`draining`), and the registry may know the front a little longer
(`Succession` allows it). `Caught` is the classification of an exception: `Kind` are the
kinds an error has, `PickedKind` is how the RPC error and the tail of stderr are weighed
against each other, `Judgment` what is retried; which texts are of which kind is left
open. `Stopped` does the same for a stop reason. `MaxAttempts` is `maxRetries` of the CLIs and
`maxRetries + 1` over ACP; with `maxRetries` of 0 a CLI makes no attempt, which is not
modelled.

### RunStream

What an attempt of the four CLIs reads, one module for the four copies again. `Write`,
`ChildExits` and `Cut` are the child; a line is two halves and a newline in `pipe`, so
that `Read(n)` may end a chunk anywhere. `Complete` and `Rest` are the split,
`Eof` the flush of an unterminated line. `Take` hands one line to `Handle`:
`Calm` is the course of an event (onEvent, onInit, the fold into `state`, the tools
to be asked for), the other two disjuncts are a callback that throws. `Answer` is
`onToolUseObserved` with what each copy makes of a throw (`Decision`), `Show` is
`onOutput`. `ClaudeFold`, `CodexFold` and `OpenCodeFold` are the accumulators,
`ClaudeOutput`, `CodexOutput` and `OpenCodeOutput` the output made of them. Codex's failed
turns (`Failure`) and its `error` events (`Fault`) both come with and without a text that
makes the request an invalid one (`Invalid`); a `pending` tool of OpenCode is one whose
status is not final, of which nobody is asked. `script`
is the history of line kinds, from which `CodexSays`, `OpenCodeSays` and
`OutputFaithful` read what the output should say without any of these. `Conclude` is the
judgement.

### ClaudeSession

`Spawns` and `SpawnFails` are `openClaudeSession()` behind the rendering of the
MCP file; `Send`, `EndInput`, `Abort`, `SignalFires` the handle.
`ForceCloseStdin` is the part of `forceCloseStdin()` ahead of its await, which
three callers share; `WriteLands`, `WriteFails` and `WriterCloses` are the stdin
stream. `StdoutPump`, `StdoutEnds` and `StderrEnds` are the pumps, `DoneProceeds`
and `DoneResolves` the task behind `done`. `Takes` and `Heard` are
`mapEvents()` and `adaptEventCallback()` of `runtime/session-adapter.ts`, through
which the consumer sees the session. `wire` keeps lines with their kind;
`partial` marks one without its newline. `helper` is a process of the CLI that
holds stdout and stderr open beyond its exit.

### SessionContract

What `runtime/session-types.ts` promises of any session: how a `send()` may end
in each phase, a synthetic turn-end behind every native one, no event behind the
end of `events`, `done` behind it. `published` is compared by kind.

## 4. Runs

| Run | What is asked | Bounds |
|---|---|---|
| `event_queue` | FIFO, no stranded call, refinement of `EventChannel` | 2 events, 4 pushes, 4 calls |
| `process_registry` | no child lost, callbacks after the wait and complete, `killAll()` returns | 2 children, one forks; 2 callbacks; 2 overlapping calls |
| `cursor_session` | order and uniqueness of sends, no mixing of turns, abort, end of the worker | 3 sends, 2 lines each |
| `codex_client` | requests settle by their own response; exit leaves none; notifications in order | 2 requests, 3 lines, server ids 0 and 1 (1 is a request's too), junk and `null` |
| `codex_session` | `activeTurnId` against the server, turn-ends, failed opening, contract | 3 sends, 2 turns, malformed announcements |
| `opencode_session` | turn-ends per busy spell, teardown, contract, `done` | 2 sends, 1 foreign event, stream may drop |
| `acp_client` | requests, notifications, `dispose()` up to a blocked writer; the commands probe; writes of files confined | 2 requests, 2 lines (two files' requests at once); each of the three users |
| `acp_connection` | turn-end behind its updates, no update lost, leaving and resuming, exit | 2 openings, 1 send, 2 updates or one request of the front, both kinds of front |
| `invocation` | the call returns and tells the truth, retries only what it may, removes its files, leaves no child out of reach | 4 CLIs and ACP, 3 attempts, files and logs given or not |
| `run_stream` | chunks, output against the lines, tools asked for once, the child never left blocked | 4 CLIs, 3 lines, a pipe of 5 symbols, 1 callback that throws |
| `claude_session` | stdin, delivery of results with their turn-ends, cleanup, contract, `done` | 2 sends, pipe for 1, 1 other line, a helper |
| `run_options` | a refusal leaves nothing behind; an option is honoured, or announced to whom the transport announces it | each runtime, transport and kind; at most 2 options per call, with every value; 4 kinds of front |

Why the bounds are enough for the interesting cases: an ordering between two
parties needs two requests, sends or calls; "overtaken while waiting" needs a
third, which is why sends go to three in the Cursor and Codex sessions (one
running, one waiting, one made behind `endInput` or `abort`). Two turns are one
that is over and one that is named. Two openings suffice for a resumption that
replaces a handle, which is the only way two handles meet. Three attempts are a
first, a last and one in between. Three lines are a result that is replaced, or a
tool, its repetition and one more; a pipe that holds less than two lines has chunks end in
every place and a writer that waits. Two options are enough for each rule of the code about
options, as each relates one or two of them; the latches make calls depend on those before
them, and any number of calls may follow one another. The queue holds as many
calls as events so that each of "more calls", "more events" and "as many" occurs
with at least two of each left over. Counters of history (`calls`, `turns`,
`foreign`) exist only to carry a bound. What is proved does not depend on any
bound.

`CHECK_DEADLOCK FALSE` is set everywhere but in `run_options`, which goes on for ever: with its bounded input used up and its
process gone a component may stop, and that state is the goal. That it stops
nowhere else is what the liveness properties say.

Each passing run's properties have a mutant: a slip of a mapped action, kept in the module
right before the action and marked `slip`, that must break the property.

## 5. Fairness

Fairness is weak and covers only what the runtime or the operating system does
without anyone's decision: a continuation whose promise has settled, a timer
that was started, data that waits in a pipe, the exit of a process that was sent
SIGKILL. No call of the embedder is fair, and neither is anything the external
process decides, with these exceptions:

- a Cursor subprocess ends (`Exit`); one that hangs would hold the worker
  until `abort()`;
- an OpenCode server that serves a prompt finishes it, and one that was sent
  SIGTERM exits;
- a one-shot CLI that was sent SIGTERM ends; one that does not hear from its
  timer or the signal may run for ever;
- in `Invocation` and `AcpConnection` the ACP front exits once `dispose()` was called.
  `AcpClient` assumes less, the exit of a front that was sent SIGKILL, and shows what
  the other two take for granted: that the front goes on reading its stdin until
  `dispose()` has sent its signals, or exits on its own. One that does neither while a
  line is in flight is `Blocked`. A request to a front that is gone is rejected; no
  front need answer.

In `AcpServices` the probe goes on and its timer fires, but no signal need come and no
front need answer: `ProbeEnds` starts from the wait or the signal, as the handshake has no
timer of its own. The probe's few short lines fit into an empty pipe, so there, and only
there, their writes land (`Flush`, `FlushLast`). Handlers of files are not fair.

In `RunStream` only the reader, the caller's answers and the verdict are fair: the
child may write or end when it likes, and nobody need stop it.

Of the Claude CLI nothing is assumed, nor of its reaction to SIGTERM:
`ExitResolvesDone` starts from its exit.

Without the first two no code in the library could end the session, as neither
has a timeout of its own.

## 6. Proofs

Theorems hold for every value of the constants under the `ASSUME` of their module.

- `SharedProofs`, the parts that stand by themselves: queue, registry, options and the
  Codex app-server client. Their names differ (`QueueSpec`, `OptionsSpec`, `ClientSpec`, and
  `Spec` for the registry), so that one module extends all four; nothing of one is used for
  another.
  - Queue. `QueueInv` says that stored items and waiting calls
    exclude each other, that `resolvers` are exactly the last waiting calls, and
    that items are exactly the rest of the log. It is inductive as it stands;
    `NoStrandedCall` and `FollowsLog` follow. `QueueImplementsChannel` maps
    every step to a step of the channel or to a stutter.
  - Registry. `RegistryInv` is `RunningIsTracked`, `CallbacksAfterWait`
    and `SpawnedIsKnown`, that what is tracked or awaited was spawned: without it
    a child could start running behind the wait of a call that awaits it.
    `CallbacksRunAfterWait` follows.
  - Options. TLC sets two options at a time; `NothingStartsByHalves` and `AdvertisedIsHonoured`
    hold for any combination, and any offer of a front. A check that is not ahead any more did
    not fail (`Cleared`), each list of checks holds the validators of what is malformed
    (`ChecksListed`, `HandshakeListed`), and over ACP the effort and the servers are left to
    the handshake (`Looked`). `CapabilitiesHold` needs in addition what each stage has behind it
    (`CarryInd`): every step passed has set its latch (`Announced`) or sent what it sends
    (`SentOff`), the last one has told the sink if there is one (`DegradedTold`), and
    nothing is told otherwise (`ToldThroughSink`).
  - App-server client. `ClientInv` gives `EveryRequestSettles` whatever the
    server sends. `AnswerInv` adds that a request is in one place (writer, server
    or answered), that a response in the pipe finds its request waiting unless the server
    has used its number for a request of its own, and that a pump which stopped has read
    everything or a line `null` (`AwaitedInPipe`); it gives
    `AnswersReachTheirRequest` and `AnsweredIsKept`, for whatever ids and lines the server
    sends. `NotesInv` gives the order of the notifications.
- `CursorSessionProofs`. `SessionInv` joins the type with the worker's
  position, the queue and the one running subprocess. `SendsInOrder` and
  `AbortReaches` follow from it; `NothingStartsAfterAbort` is an action property
  proved from the definition of the steps. `EventsFaithful` speaks of what came out, and
  `StreamInd` adds to `SessionInv` what ties it to what went in: the log is in the order of the
  messages and the pipe holds lines of the running one only (`Ordered`), no message is reported
  before it runs (`Reported`), and each line of a consumer that stayed is in the log or in the
  pipe, so none is missing when the queue is closed (`Delivered`).
- `CodexSessionProofs`. `ActiveTurnAgrees` compares two parties with a wire between them and
  is not inductive: a line read out of turn would break it. `CodexInd` adds that a
  send is on its way to the server or back, once (`Flight`); that what ends stays ended, in the
  order subprocess, client, pump, `done` (`Ends`); that a completed turn is either on the wire or
  published, once (`TurnsEnd`); and how lines follow one another: what names a turn is ahead of
  its completion, and nothing on the wire completes the server's present turn (`Sequel`).
  `SessionInv` and `ActiveTurnAgrees` (as `Agrees`) follow, and `SessionKeepsContract` maps each
  step to a step of `SessionContract` or a stutter.
- `OpenCodeSessionProofs`. `OpenCodeInd` counts turns and prompts against the sends they come from
  (`Budget`, for the types), says that a teardown that is over has killed the server or left that
  to `abort()` and that nothing is torn down before the handle is returned (`Lifecycle`), and
  that `isIdle` holds exactly when no busy spell is open in the events published (`Spells`).
  `SessionInv` and the refinement of `SessionContract` follow; `TeardownSparesBusy` is an action
  property proved from the same invariant.
- `ClaudeSessionProofs`. `SessionInv` speaks of results and outcomes that are many steps
  apart. `ClaudeInd` adds when the child is there (`Begun`), that a stdin that is closed has
  nothing left to write (`Closing`), the order of the ends: helpers and child, stdout, queue,
  cleanup, `done` (`Ending`), and why no message stays without its result (`Answers`): up to
  the death of the CLI the results pushed and those on the wire, a last one without its newline
  included, are as many as the messages served, and a CLI that finished has served all it was
  given. `YieldedInOrder` says that what was yielded is `Twinned` of a prefix of what was
  pushed; `Twinned` is a recursive function: that there is one, and how it grows by an event, are
  lemmas, and nothing else of it is used. `SessionInvariant` and `SessionKeepsContract` follow.
- `AcpConnectionProofs`. Neither `ConnectionInv` nor `UpdatesFaithful` is inductive.
  `ConnectionInd` adds: the updates handled, in hand and in the queue are consecutive
  (`Numbered`), which is why one cannot overtake another before the loop has it; what a send
  waits for was read and covers what the front wrote ahead of the response (`SendsCounted`), and
  a turn-end published is of an accepted send whose updates were handled, or the loop is over
  (`EndsFit`); one handle at most is being opened or flushed for an id, and one that was not
  opened has no events and has not left (`Lives`); what is held for an id was handled, belongs to it and is held once, and a handle
  being flushed has a prefix of it (`Placed`), so that a step of the flush moves one update. Types
  without the moving bounds come first (`Shaped`), and the counts of `NothingLost` are reduced
  to "one taker at most, and then not held" (`OnePlace`). The assumption `MaxOpen > 0` is there
  because a front of its own has its one session, number 1, from the start.
- `InvocationProofs`. `InvocationInv` is not inductive: that a child whose
  listener is gone has ended needs the numbering of the attempts, and `Truthful`
  needs that nothing reaches the flags of an attempt behind its verdict, a late
  timer included (`Good`, `Sound`). `IInv` adds these, the count of reports, the
  verdicts of each CLI and of ACP and the owner of each file; each is one lemma with a
  step per action. `AbortsReach` is an action property proved from it.

  The second half of the module is what one attempt reads (`RunStream`, whose names differ).
  `StreamInv` and `RunFaithful` follow from `StreamInd`, whose parts are: the text behind the
  lines at hand, with the *number* of lines in it (`Told`), without which a cut last line cannot
  be told from a chunk's end; that the reader ends behind the last line and stops early only for
  a callback that threw (`Reader`); that the state of each CLI says what the lines taken say, its
  latest result, its first error, whether any failure or error of Codex said that the
  request was invalid, its turns, OpenCode's lines in order (`Folded`); that the
  tools asked for and those still to be asked are those of the lines taken (`Asked`); why an
  attempt is a denial (`Denied`); and that an output, once made, stays the right one
  (`OutputFaithful`). The split of a text at its newlines is not recursive: `Complete` cuts
  between the newlines in ascending order, and the lemmas about `Rank` and `Ascending` say
  what order and count are, for a set of any size.
- `AcpServicesProofs`. The client comes first: `ClientInv` is not inductive. That a line handed to the waiter keeps
  the order needs that the waiter found the queue empty (`WaiterIdle`), and that the front
  is gone when `dispose()` returns needs that it was when the draining began
  (`DisposalOrder`); a response can name only a request within the bound (`Bounded`). The
  invariant falls into types, promises, notifications and disposal, one lemma each, with a
  step per action.
  `ServicesUseClient` shows that every step of the probe, of the file
  system and of the rest is a step of the client or leaves it alone, so `ClientInv` is
  inherited. `ProbeTruthful` adds what a phase of the probe knows of its answers
  (`ProbePhases`), and that what the client does on its own takes neither a settled answer
  nor a delivered notification back (`ClientAlone`). `WritesConfined` adds what each stage
  of a request has behind it (`Progress`): a request past its checks had a path inside, its
  file is whole before the rename, and a temporary file has a handler at work. Each proof
  covers any number of requests at once, and the agent between any two of their steps.

Induction over data is done by hand where it is needed. The induction theorems of the library
take an operator, which the provers cannot instantiate; `LeastNatural`, that a set of
numbers has a least element (from `WFMin`), does the same work: a claim that fails for some
number fails first for one, and the step below it gives the contradiction. That is how ranks
are shown to reach every member of a set, texts of any length to be cut where their
newlines are, and the recursive function behind `Twinned` to exist.

Only model-checked, as the provers reach neither fairness nor ENABLED: the liveness properties
`DoneResolves`, `KillAllCompletes`, `ExitSettles`, `ExitSettlesDone`, `ExitResolvesDone`,
`Settles`, `ProbeEnds`, `KeepsReading` and `Ends`.

## 7. Where the code and its documentation differ

They are reproduced by configurations kept beside the runs, which list nothing but
properties that fail:

| Configuration | Property | Code | Says |
|---|---|---|---|
| `RegistryDocs` | `GroupsAreSwept` | `process-registry.ts:101`: a leader that exits on SIGTERM is unregistered before the sweep, so a member of its group that ignores SIGTERM survives | `:120-122` |
| `RegistryDocs` | `TermBeforeKill` | `process-registry.ts:148`: a child registered during the wait gets SIGKILL at once | `:119` "Sends `SIGTERM`, waits up to `graceMs`" |
| `RegistryDocs` | `CallbacksComplete` | `process-registry.ts:113`: a disposer called in the loop shifts it past a callback | `:117` "run shutdown callbacks" |
| `CursorDocs` | `AbortReportsPending` | `cursor/session.ts:345`: accepted messages vanish | `:217` "reject pending sends" |
| `CursorDocs` | `AbortedHasNoExitCode` | `cursor/session.ts:429`: the last subprocess's code | `:148-149` "`null` when the session was aborted" |
| `CodexSessionDocs` | `DoneNeverRejects` | `codex/session.ts:468`: a `turn/started` without `params.turn` throws inside the pump | `runtime/session-types.ts:289` "`done` always" resolves |
| `CodexClientDocs` | `DrainedBeforeDone` | `codex/app-server.ts:497`: a line `null` ends the pump | `:484-487` non-JSON lines are ignored |
| `CodexClientDocs` | `OnlyResponsesAnswer` | `codex/app-server.ts:499`: a request of the server settles the client's request of that id | `:338-344` resolves with the response |
| `CodexSessionDocs` | `FollowUpSteers` | `codex/session.ts:315`: an answer that comes while the old turn is named is not promoted | `:305-308` |
| `CodexSessionDocs` | `AbortedSendSaysSo` | `codex/session.ts:288`: behind the signal `send()` fails as undelivered | `runtime/session-types.ts:270` |
| `OpenCodeDocs` | `EndInputResolvesDone` | `opencode/session.ts:548`: the SSE stream ends while the session is busy and the teardown of `endInput()` waits for ever | `:169-171` |
| `OpenCodeDocs` | `EndInputServesAll` | `opencode/session.ts:539`: the window ends before the server took the prompt | `:138-139` |
| `OpenCodeDocs` | `TurnEndPerTurn` | `opencode/session.ts:444`: a turn served before the stream is connected has no turn-end | `runtime/session-types.ts:285-286` |
| `OpenCodeDocs` | `OnlySessionEvents` | `opencode/session.ts:381`: events without a session id pass | `:159-161` |
| `OpenCodeDocs` | `AbortIsPosted` | `opencode/session.ts:317`: the signal posts no abort | `:88-89` |
| `AcpClientDocs` | `AnsweredNeverRejected` | `runtime/acp/client.ts:236`: a response in the pipe at the exit is lost | `:245` |
| `AcpClientDocs` | `PumpSurvives` | `runtime/acp/client.ts:493`: a line `null` ends the pump | `:488-489` |
| `AcpClientDocs` | `DisposeStopsReading` | `runtime/acp/client.ts:409`: the pump may outlive `dispose()` | `:402-406` |
| `AcpClientDocs` | `DisposeNeverHangs` | `runtime/acp/client.ts:380`: `abort()` of the writer waits for the write in flight, which a full pipe holds for ever; SIGTERM comes only behind it | `:357-359` "discards queued bytes without blocking" |
| `AcpConnectionDocs` | `HeldFirst` | `runtime/acp/adapter.ts:1125`: a held update is overtaken by a later one | `:963-965` "held and delivered on registration" |
| `AcpConnectionDocs` | `DoneTellsExit` | `runtime/acp/adapter.ts:1060`: when the front exits, `done` of its sessions carries no exit code | `:926-929` |
| `RunOptionsDocs` | `WarnedWhenFalse` | `runtime/acp/adapter.ts:84`: over ACP a tool list is dropped without a `console.warn`, and a caller without `onCallbackError` hears nothing at all | `runtime/capability-types.ts:31-33` "emit one `console.warn` on first use per process" |
| `RunOptionsDocs` | `UniformValidation` | `runtime/acp/adapter.ts:785`: over ACP the tool lists are not validated | `runtime/tool-filter.ts:44` "uniform across all four adapters" |
| `RunOptionsDocs` | `ReservedRefused` | `codex/session.ts:128`: sessions of Codex and OpenCode do not look for reserved keys, those of Cursor do in every `send()` | `runtime/session-types.ts:53-55` "throws synchronously" |
| `RunOptionsDocs` | `PromptIsPrepended` | `runtime/acp/adapter.ts:768`: a session over ACP never sends `systemPrompt` | `runtime/acp/mapping.ts:421` "prepended to the user prompt" |
| `RunOptionsDocs` | `ThrowsBeforeSpawn` | `runtime/acp/handshake.ts:298`: effort and MCP servers are validated behind the spawn | `runtime/reasoning-effort.ts:74` "Throws synchronously" |
| `RunOptionsDocs` | `NothingDroppedSilently` | `runtime/opencode-adapter.ts:223` and others: an option is dropped and nobody told | `runtime/session-types.ts:53` "forwarded to the runtime" |
| `InvocationDocs` | `DenialEnds` | `claude/process.ts:354` and its copies: an attempt that `onToolUseObserved()` stopped is an error and so is made again | `runtime/adapter-types.ts:167` |
| `InvocationDocs` | `AbortTerminates` | `claude/process.ts:508`, `codex/process.ts:135`: an abort while the file is written reaches neither the child nor its timer | `runtime/adapter-types.ts:127-128` |
| `InvocationDocs` | `ResultOnce` | `cursor/process.ts:291` and two copies: if `onResult()` throws, the run that succeeded is made again; over ACP each attempt with a stop reason reports (`runtime/acp/adapter.ts:531`) | `runtime/capability-types.ts:112` "exactly once" |
| `InvocationDocs` | `NoFileStays` | `claude/process.ts:532`: a spawn that throws leaves the directory | `claude/mcp.ts:10` |
| `InvocationDocs` | `TimeoutEnds` | `claude/process.ts:677`: an attempt the timer stopped is retried | `:662-663` |
| `RunStreamDocs` | `LoopStaysAlive` | `claude/process.ts:606` and two copies: a callback that throws ends the reading | `runtime/adapter-types.ts:246-248` |
| `RunStreamDocs` | `ThrowAllows` | `cursor/process.ts:449`: a throw of `onToolUseObserved` aborts | `runtime/adapter-types.ts:253-257` |
| `RunStreamDocs` | `InitOnce` | `claude/stream.ts:404`: `onInit` fires for every system event | `runtime/capability-types.ts:110` |
| `RunStreamDocs` | `LinesAreIgnored` | `opencode/events.ts:207`: a line `null` makes the run throw | `opencode/process.ts:613` |
| `ClaudeSessionDocs` | `FailedOpenLeavesNoFile` | `claude/session.ts:339`: a spawn that throws leaves the directory | `claude/mcp.ts:8-10` |
| `ClaudeSessionDocs` | `InputClosedByCaller` | `claude/session.ts:499`: behind the end of the CLI `send()` fails as input-closed | `runtime/session-types.ts:269` "closed via `endInput`" |
| `ClaudeSessionDocs` | `TurnEndHeard` | `runtime/session-adapter.ts:153`: a callback that throws on the result hears no turn-end | `:140-142` |
| `ClaudeSessionDocs` | `ExitAloneResolvesDone` | `claude/session.ts:471`: `done` waits for the pipes too | `:193` "when the subprocess exits" |

Run one with `tlc -continue -config <name>.cfg MC<module>`: `-continue` goes on behind the first property that fails. A state that
breaks two invariants is reported for the first of them, so `UniformValidation` and
`ThrowAllows` show up when they are listed alone.

## 8. What is not modelled

- The shape of prompts, parameters, arguments and events: messages are known
  by kind, id and turn.
- Chunking of pipes into lines, but in `RunStream`: elsewhere a line is a unit.
- Callbacks that throw (`onEvent`, `onStderr`), which the sessions wrap by
  `runtime/callback-safety.ts`, except where the Claude session's `onEvent` goes
  through the adapter; those the code awaits in the ACP connection
  and those of a one-shot run are modelled.
- The HITL callback server. Of the permission handler the choice of the option is
  modelled (`Picked`, `Decide`), not the turn counter it is told.
- Of the commands probe the two refusals ahead of the spawn and the contents of a command;
  of the file system the lines of a read, file modes and directories that change under a
  write, which the code gives up (`runtime/acp/client-fs.ts:101-104`).
- Of the builders the text of the arguments and the precedence of environment values.
- `runtime/capabilities.ts`: a prompt that asks the runtime for its skills. It passes
  `maxRetries: 0` to the CLI's loop (`runtime/capabilities.ts:250`), which then makes no
  attempt.
- The skill parser, scripts and end-to-end suites: pure or outside the library.
