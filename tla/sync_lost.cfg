\* Two browsers act and nothing fails.
SPECIFICATION Spec
CONSTANTS
    NoGame = NoGame
    NotLoaded = NotLoaded
    NoRev = NoRev
    s = s
    a1 = a1
    a2 = a2
    a3 = a3
    b1 = b1
    w = w
    v = v
    Action = {s, a1, b1}
    Finalizing = {b1}
    MaxScan = 3
    Client = {w, v}
    Start = s
    Own <- MCPair
    QueueCap = 6
    BatchSize = 2
    MaxRetries = 0
    MaxDrop = 0
    MaxFail = 0
    MaxReload = 0
    MaxFaults = 0
    CanIdle = FALSE
    CanResolve = {}
    ActEarly = FALSE
INVARIANTS
    SyncedIsCommitted
\* Nothing is left to do once all actions are made and all is synced.
CHECK_DEADLOCK FALSE
