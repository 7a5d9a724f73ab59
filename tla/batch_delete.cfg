\* Two nodes apply the same three-word history in batches of their own choice:
\* what a command after a delete does depends on where the batch ends.
SPECIFICATION Spec
CONSTANTS
    NoGame = NoGame
    a1 = a1
    a2 = a2
    a3 = a3
    Action = {a1, a2, a3}
    Finalizing = {a2}
    MaxScan = 2
    Node = {n1, n2}
    Command <- MCFew
    MaxBatch = 2
    MaxLog = 3
    MaxCrash = 0
    DeleteAlone = FALSE
    PersistOverlaps = FALSE
    HubLoads = FALSE
INVARIANTS
    ReplicasAgree
CHECK_DEADLOCK FALSE
