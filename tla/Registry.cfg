SPECIFICATION FairSpec
CONSTANTS
    Proc = {p1, p2}
    Forking = {p1}
    Callback = {c1, c2}
    Killer = {k1, k2}
    MaxCalls = 2
    DisposeDuringRun = FALSE
INVARIANTS
    RegistryInv
PROPERTIES
    KillAllCompletes
CHECK_DEADLOCK FALSE
