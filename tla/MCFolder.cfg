CONSTANTS
    ROOT = ROOT
    TRASH = TRASH
    LIMBO = LIMBO
    Nil = Nil
    x = x
    y = y
    Replica = {1}
    Name <- OneName
    Cid = {1, 2}
    Time = {1, 2}
    Command <- Meanwhile
    MaxLamport = 3
    MaxMoves = 8
    MaxNodes = 2
    MaxVersions = 2
    ChunksOf <- Chunks
    EditPath <- NestedPaths
    Hollow = 3
    MaxPushed = 12
    MaxEdits = 2
    MaxRuns = 2
SPECIFICATION FolderSpec
INVARIANTS
    RecordedIsStored
    RivalsListedApart
PROPERTIES
    PushKeepsFolder
    PushTakesNewer
    PushTrashesDeleted
    MirroredPushIsNoop
    MaterializeWritesAll
CHECK_DEADLOCK FALSE
