SPECIFICATION OptionsSpec
CONSTANTS
  MaxOptions = 2
  MCRuntimes = {"claude", "codex", "opencode", "cursor"}
  MCOptions = {"allowedTools", "disallowedTools", "reasoningEffort", "mcpServers", "strictMcpConfig", "permissionMode", "model", "agent", "systemPrompt", "systemPromptFile", "extraArgs", "outputSchema", "ephemeral", "settingSources", "resumeSessionId", "streamStallTimeoutSeconds", "processGroup", "acpFront", "acpOnly", "onCallbackError"}
  Calls <- MCCalls
  Offers <- MCOffers
INVARIANTS WarnedWhenFalse UniformValidation ReservedRefused PromptIsPrepended ThrowsBeforeSpawn NothingDroppedSilently
