----------------------------- MODULE RunOptions -----------------------------
(***************************************************************************)
(* What becomes of the options of a call.                                  *)
(*                                                                         *)
(* A caller states options once, in runtime-neutral form, and picks one of *)
(* four runtimes, a transport and a kind of call (one-shot or session).    *)
(* On the way to the child process a call passes the validators of its     *)
(* adapter, some of which fire a warning once per process; its argv is     *)
(* rendered; a temporary file may be written; a child is spawned; and over *)
(* ACP a handshake with the front follows, whose answer decides what more  *)
(* can be sent.  Each of these steps may refuse the call or lose an option.*)
(*                                                                         *)
(* The module keeps the whole path with its order; the value of an option  *)
(* is abstracted to what some validator or renderer tells apart:           *)
(*   "good"      any well-formed value      "bad"      malformed           *)
(*   "minimal"   the effort Claude lacks    "bypass"   bypassPermissions   *)
(*   "plan"      another neutral mode       "unknown"  a name of no mode   *)
(*   "empty"     [] (as a list)             "taken"    MCP servers beside a*)
(*               non-empty OPENCODE_CONFIG_CONTENT in the caller's env     *)
(*   "free", "reserved", "clash"  extra arguments that hold only other     *)
(*               flags, a reserved flag, the flags of the typed options    *)
(***************************************************************************)
EXTENDS Naturals, Sequences, FiniteSets

CONSTANTS
    Calls,     \* the calls a caller may make (records, see IsCall)
    Offers     \* what an ACP front may offer (subsets of Offerable)

Runtimes == {"claude", "codex", "opencode", "cursor"}
ToolLists == {"allowedTools", "disallowedTools"}
Options == ToolLists \cup {"reasoningEffort", "mcpServers", "strictMcpConfig", "permissionMode",
    "model", "agent", "systemPrompt", "systemPromptFile", "extraArgs", "outputSchema", "ephemeral",
    "settingSources", "resumeSessionId", "streamStallTimeoutSeconds", "processGroup", "acpFront",
    "acpOnly", "onCallbackError"}
    \* "acpOnly" stands for the options in ACP_ONLY_SESSION_OPTIONS; a processGroup that is
    \* "bad" is one asked for on Windows
Values == {"good", "bad", "minimal", "bypass", "plan", "unknown", "empty", "taken", "free",
    "reserved", "clash"}

(* opts is a function from the options that are set to their values. *)
IsCall(c) ==
    /\ c.runtime \in Runtimes /\ c.transport \in {"cli", "acp"} /\ c.kind \in {"invoke", "session"}
    /\ DOMAIN c.opts \subseteq Options /\ \A o \in DOMAIN c.opts : c.opts[o] \in Values

Offerable == {"loadSession", "mode", "thought_level", "model"}

ASSUME OffersAssumption == Offers \subseteq SUBSET Offerable
ASSUME CallsAssumption == \A c \in Calls : IsCall(c)

NoCall == [runtime |-> "none", transport |-> "cli", kind |-> "invoke", opts |-> [o \in {} |-> "good"]]

VARIABLES
    call,      \* the call under way
    stage,     \* how far it got
    todo,      \* the checks (then the handshake's steps) it has still to pass
    warned,    \* the warnings this process has printed, one latch each
    carried,   \* the options that reached the child or the front
    told,      \* the options reported to the caller's onCallbackError
    declared,  \* what the ACP front offers
    file,      \* a temporary file of the call exists
    stray,     \* a file of an ended call does
    childRuns  \* its child process runs
optionVars == <<call, stage, todo, warned, carried, told, declared, file, stray, childRuns>>

------------------------------------------------------------------------------
(* Helpers over the call under way *)

Given(o) == o \in DOMAIN call.opts
Has(o, v) == Given(o) /\ call.opts[o] = v
OneOf(S) == S \cap DOMAIN call.opts # {}
Acp == call.transport = "acp"
Session == call.kind = "session"

(* The options refused because the runtime or the wire cannot honour them. *)
Unsupported ==
    IF Acp THEN {"agent", "extraArgs", "strictMcpConfig", "outputSchema", "ephemeral"}
                  \cup (IF Session THEN {} ELSE {"systemPromptFile", "streamStallTimeoutSeconds"})
    ELSE (IF Session THEN {"acpOnly"} ELSE {})
         \cup (IF call.runtime = "claude" THEN {} ELSE {"settingSources", "systemPromptFile"})
         \cup (IF call.runtime \in {"claude", "codex"} THEN {} ELSE {"outputSchema", "ephemeral"})

ToolFilterMalformed ==
    \/ ToolLists \subseteq DOMAIN call.opts
    \/ \E o \in ToolLists : Has(o, "bad") \/ Has(o, "empty") \/ (Given(o) /\ Has("extraArgs", "clash"))

EffortMalformed ==
    Given("reasoningEffort") /\ (Has("reasoningEffort", "bad") \/ Has("extraArgs", "clash"))

McpMalformed ==
    \/ Has("mcpServers", "bad")
    \/ call.runtime = "claude" /\ Given("mcpServers") /\ Has("extraArgs", "clash")
    \/ call.runtime = "opencode" /\ Has("mcpServers", "taken")

ClaudeOptionsMalformed ==
    \/ \E o \in {"outputSchema", "settingSources"} : Has(o, "bad")
    \/ OneOf({"settingSources", "outputSchema", "ephemeral"}) /\ Has("extraArgs", "clash")

PromptDeliveryMalformed ==
    Given("systemPromptFile") /\ (Given("systemPrompt") \/ Has("extraArgs", "clash"))

CodexOptionsMalformed ==
    \/ Has("outputSchema", "bad")
    \/ OneOf({"outputSchema", "ephemeral"}) /\ Has("extraArgs", "clash")

(* What makes the validator k throw. *)
Fails(k) ==
    \/ k = "processGroup" /\ Has("processGroup", "bad")
    \/ k = "unsupported" /\ OneOf(Unsupported)
    \/ k = "promptDelivery" /\ PromptDeliveryMalformed
    \/ k = "permissionMode" /\ Has("permissionMode", "unknown")
    \/ k = "toolFilter" /\ ToolFilterMalformed
    \/ k = "effort" /\ EffortMalformed
    \/ k = "mcpServers" /\ McpMalformed
    \/ k = "claudeOptions" /\ ClaudeOptionsMalformed
    \/ k = "codexOptions" /\ CodexOptionsMalformed
    \/ k = "schema" /\ Has("outputSchema", "bad")
    \/ k = "ephemeralResume" /\ {"ephemeral", "resumeSessionId"} \subseteq DOMAIN call.opts
    \/ k = "stall" /\ Has("streamStallTimeoutSeconds", "bad")
    \/ k = "extraArgs" /\ Has("extraArgs", "reserved")
    \/ k = "pilot" /\ call.runtime = "cursor" /\ ~Given("acpFront")
    \/ k = "resume" /\ Given("resumeSessionId") /\ "loadSession" \notin declared

(* slip: one latch for all warnings *)
WarningShared(k) ==
    IF /\ warned = {}
       /\ \/ k = "warnToolFilter" /\ OneOf(ToolLists)
          \/ k = "warnEffort" /\ Given("reasoningEffort")
          \/ k = "warnMcp" /\ Given("mcpServers")
          \/ k = "mapEffort" /\ Has("reasoningEffort", "minimal")
    THEN {k} ELSE {}

(* The latch the step k sets: a warning is printed on the first use only. *)
Warning(k) ==
    IF \/ k = "warnToolFilter" /\ OneOf(ToolLists)
       \/ k = "warnEffort" /\ Given("reasoningEffort")
       \/ k = "warnMcp" /\ Given("mcpServers")
       \/ k = "mapEffort" /\ Has("reasoningEffort", "minimal")
                          /\ (Session \/ ~Given("resumeSessionId"))
    THEN {k} ELSE {}

------------------------------------------------------------------------------
(* The validators of each adapter, in the order the code calls them *)

ClaudeChecks(s) ==
    (IF s THEN <<>> ELSE <<"promptDelivery">>)
      \o <<"permissionMode", "toolFilter", "effort", "mapEffort", "mcpServers", "claudeOptions",
           "extraArgs">>
CodexChecks(s) ==
    <<"toolFilter", "warnToolFilter", "effort", "mcpServers">>
      \o (IF s THEN <<"ephemeralResume", "schema">> ELSE <<"codexOptions", "extraArgs">>)
OpenCodeChecks(s) ==
    <<"toolFilter", "warnToolFilter", "effort", "warnEffort", "mcpServers">>
      \o (IF s THEN <<>> ELSE <<"stall", "extraArgs">>)
CursorChecks(s) ==
    <<"toolFilter", "warnToolFilter", "effort", "warnEffort", "mcpServers", "warnMcp">>
      \o (IF s THEN <<>> ELSE <<"extraArgs">>)

Checks(c) ==
    LET s == c.kind = "session"
        own == IF c.transport = "acp" THEN <<"pilot">>
               ELSE CASE c.runtime = "claude"   -> ClaudeChecks(s)
                      [] c.runtime = "codex"    -> CodexChecks(s)
                      [] c.runtime = "opencode" -> OpenCodeChecks(s)
                      [] c.runtime = "cursor"   -> CursorChecks(s)
    IN  <<"processGroup", "unsupported">> \o own

(* initialize and session/new or session/load, then mode, effort and model *)
HandshakeSteps == <<"resume", "mcpServers", "newSession", "mode", "effort", "setEffort", "setModel",
                    "report">>

------------------------------------------------------------------------------
(* What the renderers emit *)

IfNew(S) == IF Given("resumeSessionId") THEN {} ELSE S

(* the modes Codex knows, the neutral ones here; an unknown name is dropped *)
KnownMode == IF Has("permissionMode", "unknown") THEN {} ELSE {"permissionMode"}
Bypass == IF Has("permissionMode", "bypass") THEN {"permissionMode"} ELSE {}

ClaudeEmits ==
    ToolLists \cup {"permissionMode", "mcpServers", "outputSchema", "ephemeral", "settingSources",
        "extraArgs", "resumeSessionId"}
      \cup (IF Given("mcpServers") THEN {"strictMcpConfig"} ELSE {})
      \cup (IF Session THEN {"reasoningEffort"} ELSE IfNew({"reasoningEffort"}))
      \cup IfNew({"agent", "systemPrompt", "systemPromptFile", "model"})
CodexEmits ==
    KnownMode \cup {"model", "systemPrompt", "reasoningEffort", "mcpServers", "outputSchema",
        "ephemeral", "extraArgs", "resumeSessionId"}
OpenCodeEmits ==
    {"reasoningEffort", "mcpServers", "systemPrompt", "resumeSessionId"}
      \cup (IF Session THEN {"model", "agent"}
            ELSE Bypass \cup IfNew({"model", "agent"})
                   \cup {"extraArgs", "streamStallTimeoutSeconds"})
CursorEmits ==
    Bypass \cup {"extraArgs", "resumeSessionId"}
      \cup (IF Session THEN IfNew({"systemPrompt"}) ELSE {"systemPrompt"} \cup IfNew({"model"}))

(* the sink of the callbacks' errors: the one-shot runs of Claude and Cursor have none *)
Sink == IF Session \/ call.runtime \in {"codex", "opencode"} THEN {"onCallbackError"} ELSE {}

Emits ==
    {"processGroup"} \cup Sink \cup
      (CASE call.runtime = "claude"   -> ClaudeEmits
         [] call.runtime = "codex"    -> CodexEmits
         [] call.runtime = "opencode" -> OpenCodeEmits
         [] call.runtime = "cursor"   -> CursorEmits)

(* over ACP: with the spawn, and what the step k of the handshake sends *)
AcpSpawnEmits ==
    {"processGroup", "onCallbackError", "acpFront"}
      \cup (IF call.runtime = "codex" THEN {"model"} ELSE {})

AcpStepEmits(k) ==
    CASE k = "newSession" -> {"mcpServers", "resumeSessionId", "acpOnly"}
                               \cup (IF Session THEN {} ELSE {"systemPrompt"})
      [] k = "mode" -> IF "mode" \in declared THEN {"permissionMode"} ELSE {}
      [] k = "setEffort" -> IF "thought_level" \in declared THEN {"reasoningEffort"} ELSE {}
      [] k = "setModel" -> IF "model" \in declared THEN {"model"} ELSE {}
      [] OTHER -> {}

Degraded == {"settingSources", "systemPrompt"} \cup {o \in ToolLists : ~Has(o, "empty")}

------------------------------------------------------------------------------
OptionsInit ==
    /\ call = NoCall /\ stage = "idle" /\ todo = <<>>
    /\ warned = {} /\ carried = {} /\ told = {} /\ declared = {}
    /\ file = FALSE /\ stray = FALSE /\ childRuns = FALSE

(* One process that drives one runtime: a latch is a variable of its adapter. *)
Call(c) ==
    /\ stage = "idle"
    /\ call.runtime \in {"none", c.runtime}
    /\ call' = c /\ stage' = "checking" /\ todo' = Checks(c)
    /\ UNCHANGED <<warned, carried, told, declared, file, stray, childRuns>>

(* A validator throws: the call ends before anything was created. *)
Refuse ==
    /\ stage = "checking" /\ todo # <<>> /\ Fails(Head(todo))
    /\ stage' = "refused" /\ todo' = <<>>
    /\ UNCHANGED <<call, warned, carried, told, declared, file, stray, childRuns>>

Pass ==
    /\ stage = "checking" /\ todo # <<>> /\ ~Fails(Head(todo))
    /\ warned' = warned \cup Warning(Head(todo))
    /\ todo' = Tail(todo)
    /\ UNCHANGED <<call, stage, carried, told, declared, file, stray, childRuns>>

(* The argv is complete; the file of the MCP servers or of the schema is written. *)
Prepare ==
    /\ stage = "checking" /\ todo = <<>>
    /\ stage' = "prepared"
    /\ carried' = IF Acp THEN {} ELSE Emits \cap DOMAIN call.opts
    /\ file' = /\ ~Acp
               /\ \/ call.runtime = "claude" /\ Given("mcpServers")
                  \/ call.runtime = "codex" /\ ~Session /\ Given("outputSchema")
    /\ UNCHANGED <<call, todo, warned, told, declared, stray, childRuns>>

Spawn(offer) ==
    /\ stage = "prepared"
    /\ childRuns' = TRUE
    /\ IF Acp THEN /\ stage' = "handshake" /\ todo' = HandshakeSteps /\ declared' = offer
                   /\ carried' = AcpSpawnEmits \cap DOMAIN call.opts
              ELSE stage' = "running" /\ UNCHANGED <<todo, declared, carried>>
    /\ UNCHANGED <<call, warned, told, file, stray>>

(* No PATH for an isolated child, no executable, a CODEX_CONFIG that is no object.  Codex   *)
(* removes its schema file in a finally block; Claude's directory stays.                    *)
SpawnFails ==
    /\ stage = "prepared"
    /\ stage' = "failed" /\ carried' = {}
    /\ file' = FALSE /\ stray' = (stray \/ (file /\ call.runtime = "claude"))
    /\ UNCHANGED <<call, todo, warned, told, declared, childRuns>>

(* slip: a handshake that throws leaves the front running *)
HandshakeFailsUndisposed ==
    /\ stage = "handshake" /\ todo # <<>> /\ Fails(Head(todo))
    /\ stage' = "refused" /\ todo' = <<>> /\ carried' = {}
    /\ UNCHANGED <<call, warned, told, declared, file, stray, childRuns>>

(* The handshake throws, in a validator or at the resume gate: the front is disposed. *)
HandshakeFails ==
    /\ stage = "handshake" /\ todo # <<>> /\ Fails(Head(todo))
    /\ stage' = "refused" /\ todo' = <<>> /\ carried' = {} /\ childRuns' = FALSE
    /\ UNCHANGED <<call, warned, told, declared, file, stray>>

(* The last step reports the degraded options, if the caller gave a sink. *)
HandshakeStep ==
    /\ stage = "handshake" /\ todo # <<>> /\ ~Fails(Head(todo))
    /\ carried' = carried \cup (AcpStepEmits(Head(todo)) \cap DOMAIN call.opts)
    /\ told' = IF Head(todo) = "report" /\ Given("onCallbackError")
              THEN Degraded \cap DOMAIN call.opts ELSE told
    /\ stage' = IF Len(todo) = 1 THEN "running" ELSE "handshake"
    /\ todo' = Tail(todo)
    /\ UNCHANGED <<call, warned, declared, file, stray, childRuns>>

(* The run or the session is over, or the caller has seen the error. *)
Finish ==
    /\ stage \in {"running", "refused", "failed"}
    /\ stage' = "idle" /\ call' = [NoCall EXCEPT !.runtime = call.runtime]
    /\ carried' = {} /\ told' = {} /\ declared' = {}
    /\ file' = FALSE /\ childRuns' = FALSE
    /\ UNCHANGED <<todo, warned, stray>>

OptionsNext ==
    \/ \E c \in Calls : Call(c)
    \/ Refuse \/ Pass \/ Prepare
    \/ \E offer \in Offers : Spawn(offer)
    \/ SpawnFails \/ HandshakeFails \/ HandshakeStep
    \/ Finish

OptionsSpec == OptionsInit /\ [][OptionsNext]_optionVars

------------------------------------------------------------------------------
Stages == {"idle", "checking", "prepared", "handshake", "running", "refused", "failed"}

Steps == {"processGroup", "unsupported", "pilot", "promptDelivery", "permissionMode", "toolFilter",
    "warnToolFilter", "effort", "mapEffort", "warnEffort", "mcpServers", "warnMcp", "claudeOptions",
    "codexOptions", "ephemeralResume", "schema", "stall", "extraArgs", "resume", "newSession",
    "mode", "setEffort", "setModel", "report"}

(* Type invariant. *)
OptionsTypeOK ==
    /\ call \in Calls \cup {[NoCall EXCEPT !.runtime = r] : r \in Runtimes \cup {"none"}}
    /\ stage \in Stages /\ todo \in Seq(Steps)
    /\ warned \subseteq {"warnToolFilter", "warnEffort", "warnMcp", "mapEffort"}
    /\ carried \subseteq Options /\ told \subseteq Options
    /\ declared \subseteq Offerable
    /\ file \in BOOLEAN /\ stray \in BOOLEAN /\ childRuns \in BOOLEAN

(* What every validator of the module calls malformed, whatever the runtime.  Over ACP the  *)
(* tool lists are not looked at (see UniformValidation).                                    *)
Malformed ==
    \/ EffortMalformed \/ McpMalformed \/ Has("outputSchema", "bad")
    \/ ~Acp /\ ToolFilterMalformed

(* A call that an option stops leaves nothing behind: no child (the front that the          *)
(* handshake had started is disposed) and no temporary file; a child never starts on        *)
(* malformed options, at whatever step of the path they are found; and only a spawn of      *)
(* Claude that threw (claude/process.ts:507) leaves a file behind.                          *)
NoHalfStart ==
    /\ OptionsTypeOK
    /\ stage = "running" => childRuns /\ ~Malformed
    /\ stage = "refused" => ~childRuns /\ ~file /\ carried = {}
    /\ stage \in {"idle", "checking"} => ~childRuns
    /\ file => stage \in {"prepared", "running"}
    /\ stray => call.runtime = "claude"

(* The capabilities of runtime/<runtime>-adapter.ts that promise something of an option. *)
Governed == ToolLists \cup {"reasoningEffort", "mcpServers"}
Advertised(o) ==
    IF o \in ToolLists THEN call.runtime = "claude" /\ ~Acp ELSE call.runtime # "cursor"
Latch(o) ==
    IF o \in ToolLists THEN "warnToolFilter"
    ELSE IF o = "reasoningEffort" THEN "warnEffort" ELSE "warnMcp"

(* a one-shot Claude run resumes with the session's own effort; a front may offer none *)
Inherited(o) ==
    /\ o = "reasoningEffort"
    /\ \/ call.runtime = "claude" /\ ~Acp /\ ~Session /\ Given("resumeSessionId")
       \/ Acp /\ "thought_level" \notin declared

(* When a call runs, an option of an advertised capability has reached the child, and one   *)
(* of a capability that is not advertised has not.  Who hears of the latter depends on the  *)
(* transport: over the CLI this process has printed the warning of that very option, in     *)
(* this call or an earlier one, refused calls included (warnToolFilter and its like in      *)
(* runtime/<runtime>-adapter.ts); over ACP nothing is printed, the caller's error sink is   *)
(* told of a tool list that is not [], and a caller without a sink hears nothing            *)
(* (runtime/acp/adapter.ts:80-97; see WarnedWhenFalse).  A lossy mapping of the effort has  *)
(* been warned of too.  (cursor's capabilitiesFor throws over ACP.)                         *)
CapabilitiesHold ==
    stage = "running" /\ ~(Acp /\ call.runtime = "cursor") =>
        /\ \A o \in Governed \cap DOMAIN call.opts :
              IF Advertised(o) THEN o \in carried \/ Inherited(o)
              ELSE /\ o \notin carried
                   /\ IF Acp THEN o \in told <=> Given("onCallbackError") /\ ~Has(o, "empty")
                      ELSE Latch(o) \in warned
        /\ (Has("reasoningEffort", "minimal") /\ call.runtime = "claude" /\ ~Acp
               /\ "reasoningEffort" \in carried) => "mapEffort" \in warned

------------------------------------------------------------------------------
(* What the documentation says and the code does not do *)

(* runtime/capability-types.ts:29-34 (and :36-52 of the effort and the MCP servers): an     *)
(* adapter whose capability is `false` prints one console.warn on first use per process.    *)
(* Over ACP none is printed, and a caller without onCallbackError is told nothing at all    *)
(* (runtime/acp/adapter.ts:84).                                                             *)
WarnedWhenFalse ==
    stage = "running" /\ ~(Acp /\ call.runtime = "cursor") /\ ~ToolFilterMalformed =>
        \A o \in Governed \cap DOMAIN call.opts : ~Advertised(o) => Latch(o) \in warned

(* runtime/tool-filter.ts:44-45 calls the validation of the tool lists uniform and          *)
(* ToolFilterMalformed a throw; over ACP the validator is not called.                       *)
UniformValidation == stage = "running" => ~ToolFilterMalformed

(* runtime/session-types.ts:53-55: a reserved key of extraArgs throws; the sessions of      *)
(* Codex, OpenCode and Cursor do not look (Cursor finds it in every send).                  *)
ReservedRefused == stage = "running" => ~Has("extraArgs", "reserved")

(* runtime/acp/mapping.ts:421 reports the system prompt as prepended to the prompt; a       *)
(* session over ACP never sends it.                                                         *)
PromptIsPrepended == stage = "running" /\ "systemPrompt" \in told => "systemPrompt" \in carried

(* runtime/reasoning-effort.ts:74 and runtime/mcp-injection.ts:71 throw synchronously; over *)
(* ACP both are looked at in the handshake, when the front runs.                            *)
ThrowsBeforeSpawn == stage = "handshake" => ~EffortMalformed /\ ~McpMalformed

(* Options the documentation lets a runtime drop: strictMcpConfig (adapter-types.ts:237-242),*)
(* acpFront (session-types.ts:133), streamStallTimeoutSeconds (OpenCode's), the model and   *)
(* the system prompt of a Cursor session (session-types.ts:311-317), an unknown mode        *)
(* (codex/permission-mode.ts:91) and what a resumed session keeps (claude/process.ts:432).  *)
MayDrop ==
    {"strictMcpConfig", "acpFront", "streamStallTimeoutSeconds"}
      \cup (IF call.runtime = "cursor" /\ Session THEN {"model"} ELSE {})
      \cup ({"permissionMode"} \ KnownMode)
      \cup (IF Given("resumeSessionId")
            THEN {"agent", "systemPrompt", "systemPromptFile", "model", "reasoningEffort"} ELSE {})

(* Over the CLI nothing else is dropped without a word.  An OpenCode session loses          *)
(* extraArgs and permissionMode, a Codex or Cursor run the agent, a one-shot Claude or      *)
(* Cursor run onCallbackError, and so on.                                                   *)
NothingDroppedSilently ==
    stage = "running" /\ ~Acp =>
        \A o \in DOMAIN call.opts : o \in carried \cup MayDrop \/ Latch(o) \in warned
=============================================================================
