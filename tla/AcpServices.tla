----------------------------- MODULE AcpServices -----------------------------
(***************************************************************************)
(* What the library does with an AcpStdioClient besides sessions' prompts: *)
(* the probe for a front's commands (runtime/acp/commands.ts), which opens *)
(* a session, waits for one update and throws the front away, and the file *)
(* system that a session serves to its front (runtime/acp/client-fs.ts),   *)
(* whose handlers run while the client, its front and the agent go on.     *)
(*                                                                         *)
(* `user` says who has the client: any caller (AcpClient as it is), the    *)
(* probe, or a session that declared the file system.                      *)
(*                                                                         *)
(* The file system is one entry of the write root, the file outside it     *)
(* that a link may lead to, and the files that the writes create.  The     *)
(* agent's own tools may replace the entry at any moment.  Directories do  *)
(* not change: the code says that a directory swapped for a link between   *)
(* the check and the write is out of its reach (client-fs.ts:101-104).     *)
(***************************************************************************)
EXTENDS AcpClient

CONSTANTS Users    \* a subset of {"any", "probe", "session"}

ASSUME UsersAssumption == Users \subseteq {"any", "probe", "session"}

VARIABLES user,
          probe,    \* "initialize", "session", "waiting", "closing", "returned"
          result,   \* what the probe returns or throws: "none", "commands", "timeout", "error"
          aborted,  \* the caller's signal
          op,       \* op[k]: the file-system request in the k-th line
          entry,    \* what the name in the write root stands for: a file, None or Link
          text,     \* text[f]: what the file f holds: "none", "old", "part", "whole"
          temps     \* the requests whose temporary file exists
probeVars == <<probe, result, aborted>>
fsVars    == <<op, entry, text, temps>>
allVars   == <<vars, user, probeVars, fsVars>>

Ops     == 1..MaxLine     \* a request; the file its write creates
Outside == 0              \* the file outside; as an entry, a hard link to it
Own     == MaxLine + 1    \* a file of the agent's
None    == MaxLine + 2    \* no entry
Link    == MaxLine + 3    \* a symbolic link to the file outside
Files   == {Outside, Own} \cup Ops

(* What a path names: the entry, the same through a link to a directory outside, or a *)
(* place that is not strictly inside the write root, as it is written.                *)
Path  == {"inside", "through", "outside"}
Stage == {"none", "checking", "resolving", "making", "creating", "filling", "renaming", "removing",
          "done", "refused", "failed"}
NoOp  == [path |-> "inside", stage |-> "none", seen |-> "none"]

ServicesInit ==
    /\ Init
    /\ user \in Users
    /\ probe = "initialize" /\ result = "none" /\ aborted = FALSE
    /\ op = [k \in Ops |-> NoOp]
    /\ entry \in IF user = "session" THEN {None, Own, Outside, Link} ELSE {None}
    /\ text = [f \in Files |-> IF f \in Ops THEN "none" ELSE "old"]
    /\ temps = {}

-----------------------------------------------------------------------------
(* The probe *)

(* initialize and session/new, one behind the other, with no timer of their own. *)
ProbeRequests ==
    /\ \/ probe = "initialize" /\ Len(answer) = 0 /\ UNCHANGED probe
       \/ probe = "initialize" /\ Len(answer) = 1 /\ answer[1] = "result" /\ probe' = "session"
    /\ Request
    /\ UNCHANGED <<result, aborted>>

(* The second answer is there: the wait begins, unless the signal was faster. *)
ProbeWaits ==
    /\ probe = "session" /\ answer[2] = "result"
    /\ IF aborted THEN probe' = "closing" /\ result' = "timeout"
                  ELSE probe' = "waiting" /\ UNCHANGED result
    /\ UNCHANGED <<vars, aborted>>

(* Either request failed.  One that the signal's dispose() made fail is a timeout. *)
HandshakeErrorRaw == "error"    \* slip: it is passed on as it is
HandshakeError == IF aborted THEN "timeout" ELSE "error"

ProbeFails ==
    /\ probe \in {"initialize", "session"}
    /\ Len(answer) > 0 /\ answer[Len(answer)] \in {"error", "rejected", "refused"}
    /\ probe' = "closing" /\ result' = HandshakeError
    /\ UNCHANGED <<vars, aborted>>

Found == \E i \in DOMAIN delivered : sent[delivered[i]].kind = "commands"

ProbeNext ==
    /\ probe = "waiting" /\ ~Found
    /\ ConsumerNext
    /\ UNCHANGED probeVars

(* The loop returns from the iterator, which closes it. *)
ProbeFinds ==
    /\ probe = "waiting" /\ Found
    /\ probe' = "closing" /\ result' = "commands"
    /\ ConsumerLeaves
    /\ UNCHANGED aborted

(* The ceiling, or the end of the notifications. *)
ProbeTimesOut ==
    /\ probe = "waiting"
    /\ probe' = "closing" /\ result' = "timeout"
    /\ UNCHANGED <<vars, aborted>>

(* Two listeners: one disposes the client, the other gives up the wait. *)
ProbeAbortsDeaf ==    \* slip: the signal is heard only while waiting
    /\ ~aborted /\ probe \in {"initialize", "session", "waiting"} /\ Len(answer) > 0
    /\ aborted' = TRUE
    /\ IF probe = "waiting" THEN Dispose /\ probe' = "closing" /\ result' = "timeout"
                            ELSE UNCHANGED <<vars, probe, result>>
ProbeAborts ==
    /\ ~aborted /\ probe \in {"initialize", "session", "waiting"} /\ Len(answer) > 0
    /\ aborted' = TRUE
    /\ Dispose
    /\ IF probe = "waiting" THEN probe' = "closing" /\ result' = "timeout"
                            ELSE UNCHANGED <<probe, result>>

(* `finally`: dispose() is awaited, and returns at once if the signal has called it. *)
ProbeCloses ==
    /\ probe = "closing" /\ ~disposed
    /\ Dispose
    /\ UNCHANGED probeVars

ProbeReturns ==
    /\ probe = "closing" /\ disposed
    /\ aborted \/ disposer = "returned"
    /\ probe' = "returned"
    /\ UNCHANGED <<vars, result, aborted>>

ProbeGoesOn ==
    \/ ProbeRequests \/ ProbeWaits \/ ProbeFails \/ ProbeNext \/ ProbeFinds \/ ProbeTimesOut
    \/ ProbeCloses \/ ProbeReturns

Probe == ProbeGoesOn \/ ProbeAborts

-----------------------------------------------------------------------------
(* The file system of a session *)

Staged(k, s) == op' = [op EXCEPT ![k].stage = s]

At(k, s) == k \in handling /\ op[k].stage = s

FsRead(k) ==
    /\ At(k, "none")
    /\ \E p \in Path :
          LET f == IF p = "inside" /\ entry # Link THEN entry ELSE Outside IN
          op' = [op EXCEPT ![k] = IF f = None THEN [path |-> p, stage |-> "failed", seen |-> "none"]
                                  ELSE [path |-> p, stage |-> "done", seen |-> text[f]]]
    /\ UNCHANGED <<entry, text, temps>>

(* confineClientFsWrite(): the path as it is written, *)
FsWrite(k) ==
    /\ At(k, "none")
    /\ \E p \in Path :
          op' = [op EXCEPT ![k].path = p, ![k].stage = IF p = "outside" THEN "refused" ELSE "checking"]
    /\ UNCHANGED <<entry, text, temps>>

(* the entry itself, *)
IsLink(k) == op[k].path = "inside" /\ entry = Link

FsCheck(k) ==
    /\ At(k, "checking")
    /\ Staged(k, IF IsLink(k) THEN "refused" ELSE "resolving")
    /\ UNCHANGED <<entry, text, temps>>

(* and what both paths really are. *)
FsResolve(k) ==
    /\ At(k, "resolving")
    /\ Staged(k, IF IsLink(k) \/ op[k].path = "through" THEN "refused" ELSE "making")
    /\ UNCHANGED <<entry, text, temps>>

(* mkdir(), and the mode of what is there *)
FsMake(k) ==
    /\ At(k, "making")
    /\ Staged(k, "creating") \/ Staged(k, "failed")
    /\ UNCHANGED <<entry, text, temps>>

(* replaceFile(): a new file beside the target, written and renamed over it *)
FsCreate(k) ==
    /\ At(k, "creating")
    /\ \/ /\ Staged(k, "filling")
          /\ temps' = temps \cup {k} /\ text' = [text EXCEPT ![k] = "part"]
       \/ Staged(k, "removing") /\ UNCHANGED <<temps, text>>
    /\ UNCHANGED entry

FsFill(k) ==
    /\ At(k, "filling")
    /\ \/ Staged(k, "renaming") /\ text' = [text EXCEPT ![k] = "whole"]
       \/ Staged(k, "removing") /\ UNCHANGED text
    /\ UNCHANGED <<entry, temps>>

FsRenameThrough(k) ==    \* slip: the content is copied into what the target names
    /\ At(k, "renaming")
    /\ LET f == IF entry = Link THEN Outside ELSE IF entry = None THEN k ELSE entry IN
       text' = [text EXCEPT ![f] = "whole"] /\ entry' = IF entry = None THEN k ELSE entry
    /\ temps' = temps \ {k} /\ Staged(k, "done")
FsRename(k) ==
    /\ At(k, "renaming")
    /\ \/ entry' = k /\ temps' = temps \ {k} /\ Staged(k, "done")
       \/ Staged(k, "removing") /\ UNCHANGED <<entry, temps>>
    /\ UNCHANGED text

FsRemove(k) ==
    /\ At(k, "removing")
    /\ temps' = temps \ {k} /\ Staged(k, "failed")
    /\ UNCHANGED <<entry, text>>

FsStep(k) ==
    /\ \/ FsRead(k) \/ FsWrite(k) \/ FsCheck(k) \/ FsResolve(k) \/ FsMake(k) \/ FsCreate(k)
       \/ FsFill(k) \/ FsRename(k) \/ FsRemove(k)
    /\ UNCHANGED vars

FsSettles(k) ==
    /\ op[k].stage \in {"done", "refused", "failed"}
    /\ Reply(k)
    /\ UNCHANGED fsVars

(* The agent's own tools, beside its requests *)
AgentReplaces ==
    /\ child = "running"
    /\ \E e \in {None, Own, Outside, Link} : entry' = e
    /\ UNCHANGED <<vars, op, text, temps>>

Session ==
    \/ (Dispose /\ UNCHANGED fsVars)
    \/ \E k \in Ops : FsStep(k) \/ FsSettles(k)
    \/ AgentReplaces

-----------------------------------------------------------------------------

(* The front of a session asks, and its other lines are of no concern here; the probe *)
(* answers each request of its front as a method it does not have.                    *)
ClientSteps ==
    /\ \/ Flush \/ FlushLast \/ FrontAnswers \/ FrontExits
       \/ FrontSpeaks /\ (user = "session" => \A i \in DOMAIN sent' : sent'[i].kind = "ask")
       \/ Tasks \/ Disposal
       \/ user = "any" /\ (Calls \/ Consumer)
       \/ user = "probe" /\ HandlerSettles
    /\ UNCHANGED <<probeVars, fsVars>>

Others == UNCHANGED <<user, probeVars, fsVars>>

ServicesNext ==
    /\ \/ ClientSteps
       \/ user = "probe" /\ Probe /\ UNCHANGED fsVars
       \/ user = "session" /\ Session /\ UNCHANGED probeVars
    /\ UNCHANGED user

ServicesSpec == ServicesInit /\ [][ServicesNext]_allVars

(* The event loop runs every task and timer, the probe goes on, and a front that was sent   *)
(* SIGKILL is gone.  A SIGTERM may be ignored for ever, a process of the front's may keep   *)
(* its stdout from ending, no front need answer or read, and no signal need fire.  The few  *)
(* short lines of a probe fit the pipe, read or not, and so are written.                    *)
FairSpec ==
    /\ ServicesSpec
    /\ WF_allVars(WriteFails /\ Others)
    /\ WF_allVars(ReadLine /\ Others)
    /\ WF_allVars(ExitSeen /\ Others)
    /\ WF_allVars(Disposal /\ Others)
    /\ WF_allVars(FrontExits /\ killed /\ Others)
    /\ WF_allVars(user = "probe" /\ (Flush \/ FlushLast) /\ Others)
    /\ WF_allVars(user = "probe" /\ ProbeGoesOn /\ UNCHANGED <<user, fsVars>>)

-----------------------------------------------------------------------------
(* Properties *)

(* Type invariant. *)
ServicesTypeOK ==
    /\ TypeOK
    /\ user \in Users
    /\ probe \in {"initialize", "session", "waiting", "closing", "returned"}
    /\ result \in {"none", "commands", "timeout", "error"}
    /\ aborted \in BOOLEAN
    /\ op \in [Ops -> [path : Path, stage : Stage, seen : {"none", "old", "part", "whole"}]]
    /\ entry \in Files \cup {None, Link}
    /\ text \in [Files -> {"none", "old", "part", "whole"}]
    /\ temps \subseteq Ops

(* The probe returns commands only if the front pushed some behind no answer it lacks, an   *)
(* aborted probe reports the timeout and nothing else, whichever of the handshake, the wait *)
(* and dispose() the signal met, and a probe that returned on its own has its front dead    *)
(* and unregistered (runtime/acp/commands.ts:139-243).                                      *)
ProbeTruthful ==
    /\ ServicesTypeOK
    /\ result = "commands" => Found /\ answer = <<"result", "result">>
    /\ aborted => result \in {"none", "timeout"}
    /\ result = "none" <=> probe \notin {"closing", "returned"}
    /\ probe = "returned" => disposed /\ (aborted \/ disposer = "returned")

(* A signal ends the probe wherever it is, also over a front that answers nothing; a wait   *)
(* ends by itself; and behind either the front does not stay (runtime/acp/commands.ts:      *)
(* 139-144, 207-222).                                                                       *)
ProbeEnds ==
    /\ aborted \/ probe = "waiting" ~> probe = "returned"
    /\ probe = "returned" ~> child = "exited"

(* Whatever the agent makes of the entry meanwhile, no write changes the file outside or    *)
(* leads there, nobody finds half a file, two writes do not mix, and a request that was     *)
(* answered leaves no temporary file and, if it was refused, no file at all                 *)
(* (runtime/acp/client-fs.ts:15-22, 99-163).                                                *)
WritesConfined ==
    /\ text[Outside] = "old"
    /\ entry \in Files => text[entry] \in {"old", "whole"}
    /\ \A k \in Ops :
          /\ op[k].seen \in {"none", "old", "whole"}
          /\ k \in temps => k \in handling /\ entry # k
          /\ op[k].stage = "refused" => text[k] = "none"
          /\ op[k].path # "inside" => text[k] = "none"
=============================================================================
