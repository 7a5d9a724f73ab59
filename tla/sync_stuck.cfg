\* One browser acts, one watches, and one connection is lost.
SPECIFICATION FairSpec
CONSTANTS
    NoGame = NoGame
    NotLoaded = NotLoaded
    NoRev = NoRev
    s = s
    a1 = a1
    a2 = a2
    a3 = a3
    b1 = b1
    w = w
    v = v
    Action = {s, a1, a2}
    Finalizing = {}
    MaxScan = 3
    Client = {w, v}
    Start = s
    Own <- MCWriter2
    QueueCap = 6
    BatchSize = 2
    MaxRetries = 2
    MaxDrop = 1
    MaxFail = 0
    MaxReload = 0
    MaxFaults = 1
    CanIdle = FALSE
    CanResolve = {}
    ActEarly = FALSE
PROPERTIES
    ActionsGetThrough
\* Nothing is left to do once all actions are made and all is synced.
CHECK_DEADLOCK FALSE
