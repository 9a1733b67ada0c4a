CONSTANTS
    ROOT = ROOT
    TRASH = TRASH
    LIMBO = LIMBO
    Nil = Nil
    Replica = {1, 2}
    Name <- OneName
    Cid = {1, 2}
    Time = {1}
    Command <- Merged
    MaxLamport = 4
    MaxMoves = 3
    MaxNodes = 1
    MaxVersions = 2
SPECIFICATION Spec
INVARIANTS
    ViewsMatchLogs
    MergedAgree
CHECK_DEADLOCK FALSE
