\* One node, every kind of command, crashes and snapshots; Raft delivers each
\* delete in a batch of its own and no other goroutine touches the game.
SPECIFICATION FairSpec
CONSTANTS
    NoGame = NoGame
    a1 = a1
    a2 = a2
    a3 = a3
    Action = {a1, a2, a3}
    Finalizing = {a2}
    MaxScan = 2
    Node = {n1}
    Command <- MCCommand
    MaxBatch = 2
    MaxLog = 3
    MaxCrash = 1
    DeleteAlone = TRUE
    PersistOverlaps = FALSE
    HubLoads = FALSE
INVARIANTS
    TypeOK
    ServesTheLog
    CrashRecovers
PROPERTIES
    FileNeverRollsBack
    AllApplied
CHECK_DEADLOCK FALSE
