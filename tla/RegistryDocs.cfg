SPECIFICATION Spec
CONSTANTS
    Proc = {p1, p2}
    Forking = {p1}
    Callback = {c1, c2}
    Killer = {k1}
    MaxCalls = 2
    DisposeDuringRun = TRUE
INVARIANTS
    TermBeforeKill
    GroupsAreSwept
PROPERTIES
    CallbacksComplete
CHECK_DEADLOCK FALSE
