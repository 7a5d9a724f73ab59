\* A snapshot persists while batches are applied: its flush writes back bytes
\* that the FSM has replaced meanwhile.
SPECIFICATION Spec
CONSTANTS
    NoGame = NoGame
    a1 = a1
    a2 = a2
    a3 = a3
    Action = {a1, a2, a3}
    Finalizing = {a2}
    MaxScan = 2
    Node = {n1}
    Command <- MCAppend
    MaxBatch = 1
    MaxLog = 3
    MaxCrash = 0
    DeleteAlone = TRUE
    PersistOverlaps = TRUE
    HubLoads = FALSE
INVARIANTS
    ServesTheLog
CHECK_DEADLOCK FALSE
