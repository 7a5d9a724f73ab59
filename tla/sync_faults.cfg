\* Two browsers act from the start, one of them twice, and one connection,
\* call or page is lost.
SPECIFICATION Spec
CONSTANTS
    NoGame = NoGame
    NotLoaded = NotLoaded
    NoRev = NoRev
    s = s
    a1 = a1
    a2 = a2
    a3 = a3
    b1 = b1
    w = w
    v = v
    Action = {s, a1, a2, b1}
    Finalizing = {b1}
    MaxScan = 3
    Client = {w, v}
    Start = s
    Own <- MCBoth
    QueueCap = 2
    BatchSize = 2
    MaxRetries = 1
    MaxDrop = 1
    MaxFail = 1
    MaxReload = 1
    MaxFaults = 1
    CanIdle = TRUE
    CanResolve = {}
    ActEarly = TRUE
INVARIANTS
    NoDoubleAction
    OwnOrderKept
\* Nothing is left to do once all actions are made and all is synced.
CHECK_DEADLOCK FALSE
