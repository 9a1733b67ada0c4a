CONSTANTS
    ROOT = ROOT
    TRASH = TRASH
    LIMBO = LIMBO
    Nil = Nil
    Replica = {1}
    Name <- OneName
    Cid = {1, 2}
    Time = {1, 2}
    Command <- Everyday
    MaxLamport = 5
    MaxMoves = 8
    MaxNodes = 3
    MaxVersions = 2
SPECIFICATION Spec
INVARIANTS
    EverySaveKept
PROPERTIES
    NewNodesAreNew
    RestoreBringsBack
    CompactKeepsPlaces
CHECK_DEADLOCK FALSE
