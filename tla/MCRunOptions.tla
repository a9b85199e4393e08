---------------------------- MODULE MCRunOptions ----------------------------
(* Instances of RunOptions: every call with at most MaxOptions options, each  *)
(* with each of its values.                                                   *)
EXTENDS RunOptions

CONSTANTS
    MaxOptions,   \* how many options a call sets
    MCRuntimes,   \* the runtimes called
    MCOptions     \* the options set

MCValues(o) ==
    CASE o \in ToolLists -> {"good", "bad", "empty"}
      [] o = "reasoningEffort" -> {"good", "minimal", "bad"}
      [] o = "mcpServers" -> {"good", "bad", "taken"}
      [] o = "permissionMode" -> {"bypass", "plan", "unknown"}
      [] o = "extraArgs" -> {"free", "reserved", "clash"}
      [] o = "settingSources" -> {"good", "bad", "empty"}
      [] o \in {"outputSchema", "streamStallTimeoutSeconds", "processGroup"} -> {"good", "bad"}
      [] OTHER -> {"good"}

MCOpts == UNION {{f \in [S -> Values] : \A o \in S : f[o] \in MCValues(o)} :
                    S \in {S \in SUBSET MCOptions : Cardinality(S) <= MaxOptions}}

(* The options of the other kind do not exist in the call's type. *)
MCCalls == {c \in [runtime : MCRuntimes, transport : {"cli", "acp"}, kind : {"invoke", "session"},
                  opts : MCOpts] :
             IF c.kind = "session"
             THEN {"systemPromptFile", "streamStallTimeoutSeconds"} \cap DOMAIN c.opts = {}
             ELSE "acpOnly" \notin DOMAIN c.opts}
MCOffers == {{}, {"loadSession"}, {"mode", "model"}, Offerable}
=============================================================================
