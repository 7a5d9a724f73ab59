\* The same node with every goroutine running: batches are applied while a
\* snapshot persists, a hub loads the game, deletes share batches.
SPECIFICATION FairSpec
CONSTANTS
    NoGame = NoGame
    a1 = a1
    a2 = a2
    a3 = a3
    Action = {a1, a2, a3}
    Finalizing = {a2}
    MaxScan = 2
    Node = {n1}
    Command <- MCFew
    MaxBatch = 2
    MaxLog = 3
    MaxCrash = 1
    DeleteAlone = FALSE
    PersistOverlaps = TRUE
    HubLoads = TRUE
INVARIANTS
    NoPhantomAction
    NoDoubleApply
    IndexNotAhead
PROPERTIES
    AllApplied
CHECK_DEADLOCK FALSE
