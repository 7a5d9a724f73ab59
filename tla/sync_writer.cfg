\* One browser acts and one watches; calls fail, connections do not.
SPECIFICATION FairSpec
CONSTANTS
    NoGame = NoGame
    NotLoaded = NotLoaded
    NoRev = NoRev
    s = s
    a1 = a1
    a2 = a2
    a3 = a3
    b1 = b1
    w = w
    v = v
    Action = {s, a1, a2, a3}
    Finalizing = {a3}
    MaxScan = 4
    Client = {w, v}
    Start = s
    Own <- MCWriter
    QueueCap = 6
    BatchSize = 2
    MaxRetries = 2
    MaxDrop = 0
    MaxFail = 2
    MaxReload = 0
    MaxFaults = 2
    CanIdle = FALSE
    CanResolve = {}
    ActEarly = FALSE
INVARIANTS
    WatcherIsBehind
    AckedIsCommitted
PROPERTIES
    AllSynced
\* Nothing is left to do once all actions are made and all is synced.
CHECK_DEADLOCK FALSE
