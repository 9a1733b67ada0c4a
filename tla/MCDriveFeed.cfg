CONSTANTS
    ROOT = ROOT
    TRASH = TRASH
    LIMBO = LIMBO
    Nil = Nil
    Replica = {1}
    Name <- OneName
    Cid = {1}
    Time = {1}
    Command <- Feeding
    MaxLamport = 6
    MaxMoves = 8
    MaxNodes = 1
    Limit = {0, 1, 2}
    MaxVersions = 2
SPECIFICATION FeedSpec
INVARIANTS
    FeedMissesNothing
    FeedInOrder
    CreatedOnce
CHECK_DEADLOCK FALSE
