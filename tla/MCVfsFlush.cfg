CONSTANTS
    ROOT = ROOT
    TRASH = TRASH
    LIMBO = LIMBO
    Nil = Nil
    k1 = k1
    k2 = k2
    Replica = {1}
    Me = 1
    Peer = 2
    Call = {k1, k2}
    Mounted <- TwoFiles
    Edit = {1, 2}
    Os = {"winfsp"}
    Room = {1}
    MaxHandles = 1
    Name <- TwoNames
    Cid = {3}
    Time = {1}
    Command <- AllCalls
    MaxLamport = 6
    MaxMoves = 8
    MaxNodes = 1
    MaxVersions = 3
SYMMETRY Symmetric
SPECIFICATION MountSpec
INVARIANTS
    CleanIsUploaded
CHECK_DEADLOCK FALSE
