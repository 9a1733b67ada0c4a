CONSTANTS
    ROOT = ROOT
    TRASH = TRASH
    LIMBO = LIMBO
    Nil = Nil
    Replica = {1}
    Page = {2}
    Name <- OneName
    Cid = {1, 2}
    Time = {1}
    Command <- Versioning
    Minting <- NoCalls
    MaxLamport = 5
    MaxTick = 2
    MaxMoves = 3
    MaxNodes = 1
    MaxVersions = 2
    MaxHeard = 3
    MaxReloads = 0
SPECIFICATION BrowserSpec
INVARIANTS
    SameFoldEverywhere
CHECK_DEADLOCK FALSE
