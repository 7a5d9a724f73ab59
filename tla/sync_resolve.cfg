\* Two browsers act from the start, lose a connection and a call, and
\* resolve their conflicts in every way.
SPECIFICATION Spec
CONSTANTS
    NoGame = NoGame
    NotLoaded = NotLoaded
    NoRev = NoRev
    s = s
    a1 = a1
    a2 = a2
    a3 = a3
    b1 = b1
    w = w
    v = v
    Action = {s, a1, b1}
    Finalizing = {b1}
    MaxScan = 3
    Client = {w, v}
    Start = s
    Own <- MCPair
    QueueCap = 2
    BatchSize = 2
    MaxRetries = 0
    MaxDrop = 1
    MaxFail = 1
    MaxReload = 0
    MaxFaults = 2
    CanIdle = TRUE
    CanResolve = {"overwrite", "force", "fork"}
    ActEarly = TRUE
INVARIANTS
    TypeOK
    NoDoubleAction
    AckedIsCommitted
\* Nothing is left to do once all actions are made and all is synced.
CHECK_DEADLOCK FALSE
