-------------------------- MODULE ProcessRegistry --------------------------
(***************************************************************************)
(* ProcessRegistry (process-registry.ts): the children one scope spawned,  *)
(* its shutdown callbacks, and killAll(), which sends SIGTERM, waits for   *)
(* the exits or for graceMs, sends SIGKILL and runs the callbacks.         *)
(*                                                                         *)
(* killAll() has two awaits, the race of the exits with the timer and      *)
(* `await cb()`, and everything else may run at either: other killAll()    *)
(* calls, sessions that register, unregister or fork, disposers.  A Killer *)
(* is one such caller; a Callback is one closure given to onShutdown().    *)
(***************************************************************************)
EXTENDS Naturals, Sequences, FiniteSets

CONSTANTS Proc, Callback, Killer,
          Forking,           \* the children that fork processes of their own
          MaxCalls,          \* bound on killAll() calls
          DisposeDuringRun   \* disposers may be called while callbacks run

ASSUME RegistryAssumption ==
    /\ Forking \subseteq Proc
    /\ MaxCalls \in Nat
    /\ DisposeDuringRun \in BOOLEAN

VARIABLES child,       \* the OS process: unborn, running, killed or gone
          tool,        \* a process the child forked: none, running, killed
          detached,    \* children spawned as leader of their own group
          termed,      \* children that were sent SIGTERM
          processes, groupLeaders, shutdownCallbacks,
          pc,          \* of each caller: idle, waiting or callback
          waitFor,     \* the children whose status the call awaits
          expired,     \* the call's grace timer fired
          index,       \* position of the call in shutdownCallbacks
          registered,  \* history: callbacks given to onShutdown()
          ran,         \* history: callbacks that were called
          owed,        \* history: callbacks each call has to run
          calls        \* history: killAll() calls made

osVars == <<child, tool, detached, termed>>
killVars == <<pc, waitFor, expired, index, owed, calls>>
vars == <<child, tool, detached, termed, processes, groupLeaders,
          shutdownCallbacks, pc, waitFor, expired, index, registered, ran,
          owed, calls>>

-----------------------------------------------------------------------------

Init ==
    /\ child = [p \in Proc |-> "unborn"]
    /\ tool = [p \in Proc |-> "none"]
    /\ detached = {}
    /\ termed = {}
    /\ processes = {}
    /\ groupLeaders = {}
    /\ shutdownCallbacks = <<>>
    /\ pc = [k \in Killer |-> "idle"]
    /\ waitFor = [k \in Killer |-> {}]
    /\ expired = [k \in Killer |-> FALSE]
    /\ index = [k \in Killer |-> 0]
    /\ registered = {}
    /\ ran = {}
    /\ owed = [k \in Killer |-> {}]
    /\ calls = 0

-----------------------------------------------------------------------------
(* The operating system *)

\* A running child forks a tool that stays in the child's group.
Fork(p) ==
    /\ p \in Forking
    /\ child[p] = "running"
    /\ tool[p] = "none"
    /\ tool' = [tool EXCEPT ![p] = "running"]
    /\ UNCHANGED <<child, detached, termed, processes, groupLeaders,
                   shutdownCallbacks, registered, ran, killVars>>

\* A child ends, on its own, on SIGTERM or on SIGKILL, and its `status`
\* resolves.  A child may also ignore SIGTERM: nothing forces this step.
Exit(p) ==
    /\ child[p] \in {"running", "killed"}
    /\ child' = [child EXCEPT ![p] = "gone"]
    /\ UNCHANGED <<tool, detached, termed, processes, groupLeaders,
                   shutdownCallbacks, registered, ran, killVars>>

\* The timer of a waiting call fires.
Expire(k) ==
    /\ pc[k] = "waiting"
    /\ ~expired[k]
    /\ expired' = [expired EXCEPT ![k] = TRUE]
    /\ UNCHANGED <<osVars, processes, groupLeaders, shutdownCallbacks, pc,
                   waitFor, index, registered, ran, owed, calls>>

-----------------------------------------------------------------------------
(* register, unregister, onShutdown and its disposer *)

\* The callers spawn and register in one synchronous stretch.
Register(p, processGroup) ==
    /\ child[p] = "unborn"
    /\ child' = [child EXCEPT ![p] = "running"]
    /\ detached' = IF processGroup THEN detached \cup {p} ELSE detached
    /\ processes' = processes \cup {p}
    /\ groupLeaders' = IF processGroup THEN groupLeaders \cup {p}
                       ELSE groupLeaders
    /\ UNCHANGED <<tool, termed, shutdownCallbacks, registered, ran, killVars>>

\* Slip: a caller unregisters before the child ended.
UnregisterEarly(p) ==
    /\ p \in processes
    /\ processes' = processes \ {p}
    /\ groupLeaders' = groupLeaders \ {p}
    /\ UNCHANGED <<osVars, shutdownCallbacks, registered, ran, killVars>>

\* The callers unregister once `status` has resolved.
Unregister(p) ==
    /\ child[p] = "gone"
    /\ p \in processes
    /\ processes' = processes \ {p}
    /\ groupLeaders' = groupLeaders \ {p}
    /\ UNCHANGED <<osVars, shutdownCallbacks, registered, ran, killVars>>

OnShutdown(c) ==
    /\ c \notin registered
    /\ registered' = registered \cup {c}
    /\ shutdownCallbacks' = Append(shutdownCallbacks, c)
    /\ UNCHANGED <<osVars, processes, groupLeaders, ran, killVars>>

\* The disposer splices the callback out; every later one moves down.
Dispose(c) ==
    /\ DisposeDuringRun \/ \A k \in Killer : pc[k] # "callback"
    /\ \E i \in 1..Len(shutdownCallbacks) :
          /\ shutdownCallbacks[i] = c
          /\ shutdownCallbacks' =
                [j \in 1..(Len(shutdownCallbacks) - 1) |->
                    shutdownCallbacks[IF j < i THEN j ELSE j + 1]]
    /\ owed' = [k \in Killer |-> owed[k] \ {c}]
    /\ UNCHANGED <<osVars, processes, groupLeaders, pc, waitFor, expired,
                   index, registered, ran, calls>>

-----------------------------------------------------------------------------
(* killAll *)

\* The `for ... of` over the callbacks reaches position i: it calls that
\* callback and awaits it, or it is past the end, empties the array and the
\* call returns.
Proceed(k, i) ==
    IF i <= Len(shutdownCallbacks)
    THEN /\ pc' = [pc EXCEPT ![k] = "callback"]
         /\ index' = [index EXCEPT ![k] = i]
         /\ ran' = ran \cup {shutdownCallbacks[i]}
         /\ UNCHANGED shutdownCallbacks
    ELSE /\ pc' = [pc EXCEPT ![k] = "idle"]
         /\ index' = [index EXCEPT ![k] = 0]
         /\ shutdownCallbacks' = <<>>
         /\ UNCHANGED ran

\* A call signals every tracked child and awaits their exits; with none
\* tracked it goes on to the callbacks without an await.
KillAll(k) ==
    /\ pc[k] = "idle"
    /\ calls < MaxCalls
    /\ calls' = calls + 1
    /\ waitFor' = [waitFor EXCEPT ![k] = processes]
    /\ expired' = [expired EXCEPT ![k] = FALSE]
    /\ termed' = termed \cup processes
    /\ owed' = [owed EXCEPT ![k] = {c \in Callback :
                   \E i \in 1..Len(shutdownCallbacks) :
                      shutdownCallbacks[i] = c}]
    /\ \/ /\ processes # {}
          /\ pc' = [pc EXCEPT ![k] = "waiting"]
          /\ UNCHANGED <<index, shutdownCallbacks, ran>>
       \/ /\ processes = {}
          /\ Proceed(k, 1)
    /\ UNCHANGED <<child, tool, detached, processes, groupLeaders, registered>>

\* SIGKILL for one child: a leader's signal reaches its whole group, also
\* when the leader itself is gone.
KillOutcome(p) == IF child[p] = "running" THEN "killed" ELSE child[p]

KillGroups ==
    tool' = [p \in Proc |->
                IF p \in groupLeaders /\ tool[p] = "running"
                THEN "killed" ELSE tool[p]]

\* The race is decided: SIGKILL for what is tracked now, which may differ
\* from what was signalled; the sets are cleared and the callbacks start.
Sweep(k) ==
    /\ pc[k] = "waiting"
    /\ expired[k] \/ \A p \in waitFor[k] : child[p] = "gone"
    /\ child' = [p \in Proc |-> IF p \in processes THEN KillOutcome(p)
                                ELSE child[p]]
    /\ KillGroups
    /\ processes' = {}
    /\ groupLeaders' = {}
    /\ Proceed(k, 1)
    /\ UNCHANGED <<detached, termed, waitFor, expired, registered, owed, calls>>

\* Slip: the loop skips a position.
ResumeSkips(k) ==
    /\ pc[k] = "callback"
    /\ Proceed(k, index[k] + 2)
    /\ UNCHANGED <<osVars, processes, groupLeaders, waitFor, expired,
                   registered, owed, calls>>

\* A callback settled, resolved or rejected: on to the next position.
Resume(k) ==
    /\ pc[k] = "callback"
    /\ Proceed(k, index[k] + 1)
    /\ UNCHANGED <<osVars, processes, groupLeaders, waitFor, expired,
                   registered, owed, calls>>

-----------------------------------------------------------------------------

Next ==
    \/ \E p \in Proc : Fork(p) \/ Exit(p) \/ Unregister(p)
    \/ \E p \in Proc, processGroup \in BOOLEAN : Register(p, processGroup)
    \/ \E c \in Callback : OnShutdown(c) \/ Dispose(c)
    \/ \E k \in Killer : KillAll(k) \/ Expire(k) \/ Sweep(k) \/ Resume(k)

Spec == Init /\ [][Next]_vars

\* A timer fires, the event loop runs what is ready, and every callback
\* settles.  No child is assumed to exit.
Fairness ==
    \A k \in Killer : WF_vars(Expire(k)) /\ WF_vars(Sweep(k)) /\ WF_vars(Resume(k))

FairSpec == Spec /\ Fairness

-----------------------------------------------------------------------------
(* Properties *)

\* Every variable has its type.
TypeOK ==
    /\ child \in [Proc -> {"unborn", "running", "killed", "gone"}]
    /\ tool \in [Proc -> {"none", "running", "killed"}]
    /\ detached \in SUBSET Proc
    /\ termed \in SUBSET Proc
    /\ processes \in SUBSET Proc
    /\ groupLeaders \in SUBSET Proc
    /\ shutdownCallbacks \in Seq(Callback)
    /\ pc \in [Killer -> {"idle", "waiting", "callback"}]
    /\ waitFor \in [Killer -> SUBSET Proc]
    /\ expired \in [Killer -> BOOLEAN]
    /\ index \in [Killer -> Nat]
    /\ registered \in SUBSET Callback
    /\ ran \in SUBSET Callback
    /\ owed \in [Killer -> SUBSET Callback]
    /\ calls \in Nat

\* A child that runs is tracked: no sweep and no unregister loses one that
\* is alive, whatever killAll() calls overlap.
RunningIsTracked ==
    \A p \in Proc : child[p] = "running" => p \in processes

\* While a call runs its callbacks, no child it signalled still runs:
\* "callbacks run after the process wait completes", also when another call
\* swept and cleared the sets during this call's wait.
CallbacksAfterWait ==
    \A k \in Killer : pc[k] = "callback" =>
        \A p \in waitFor[k] : child[p] # "running"

\* A call that returns has run every callback that was registered when it
\* was made and not disposed since, itself or through an overlapping call.
CallbacksComplete ==
    [][\A k \in Killer :
          pc[k] # "idle" /\ pc'[k] = "idle" => owed[k] \subseteq ran']_vars

\* killAll() returns, also when every child ignores SIGTERM.
KillAllReturns ==
    \A k \in Killer : pc[k] # "idle" ~> pc[k] = "idle"

\* Every call returns, and has then run every callback it owes
\* (process-registry.ts:125-162).
KillAllCompletes == CallbacksComplete /\ KillAllReturns

\* process-registry.ts:119 says SIGTERM, then the grace window, then
\* SIGKILL: no child is killed that was not asked to end first.
TermBeforeKill ==
    \A p \in Proc : child[p] = "killed" => p \in termed

\* process-registry.ts:120-122 says that a group member that ignores SIGTERM
\* is killed when the wait for the leaders is over.
GroupsAreSwept ==
    \A k \in Killer : pc[k] = "callback" =>
        \A p \in waitFor[k] \cap detached : tool[p] # "running"

\* The inductive invariant of SharedProofs: what is tracked or
\* awaited was spawned.
SpawnedIsKnown ==
    /\ \A p \in processes : child[p] # "unborn"
    /\ \A k \in Killer : \A p \in waitFor[k] : child[p] # "unborn"

RegistryInv ==
    /\ TypeOK
    /\ RunningIsTracked
    /\ SpawnedIsKnown
    /\ CallbacksAfterWait

=============================================================================
