CONSTANTS
    ROOT = ROOT
    TRASH = TRASH
    LIMBO = LIMBO
    Nil = Nil
    Replica = {1}
    Name <- TwoNames
    Cid = {1}
    Time = {1}
    Command <- CommandLine
    MaxLamport = 3
    MaxMoves = 8
    MaxNodes = 3
    MaxVersions = 2
SPECIFICATION Spec
PROPERTIES
    NewNodesAreNew
CHECK_DEADLOCK FALSE
