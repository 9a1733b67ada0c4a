CONSTANTS
    ROOT = ROOT
    TRASH = TRASH
    LIMBO = LIMBO
    Nil = Nil
    t1 = t1
    t2 = t2
    u = u
    Replica = {1, 2}
    Task <- TwoAndOne
    Name <- OneName
    Cid = {1, 2}
    Time = {1}
    MaxOps = 3
    MaxFailures = 1
    MaxVersions = 3
SYMMETRY Symmetric
SPECIFICATION Spec
INVARIANTS
    MoveKeysUnique
    SavesKept
    SavedNodesExist
PROPERTIES
    NewNodesAreNew
CHECK_DEADLOCK FALSE
