CONSTANTS
    ROOT = ROOT
    TRASH = TRASH
    LIMBO = LIMBO
    Nil = Nil
    Replica = {1}
    Page = {2}
    Name <- OneName
    Cid = {1, 2}
    Time = {1}
    Command <- DeviceCalls
    Minting <- PageCalls
    MaxLamport = 5
    MaxTick = 2
    MaxMoves = 3
    MaxNodes = 1
    MaxVersions = 2
    MaxHeard = 2
    MaxReloads = 1
SPECIFICATION BrowserSpec
INVARIANTS
    TreesAgree
    BlobsKept
    ConflictsAsListed
PROPERTIES
    FreshEverywhere
CHECK_DEADLOCK FALSE
