CONSTANTS
    ROOT = ROOT
    TRASH = TRASH
    LIMBO = LIMBO
    Nil = Nil
    dirA = dirA
    dirB = dirB
    plain = plain
    NodeId = {ROOT, TRASH, dirA, dirB}
    Movable = {dirA, dirB}
    Name <- PlainNames
    Kind = {dir}
    Replica = {1, 2}
    MaxLamport = 2
    DeliveryTick = 0
    MaxMoves = 3
SPECIFICATION FairSpec
INVARIANTS
    TypeOK
    Acyclic
    IndexConsistent
    Convergence
    PathsLeadBack
PROPERTIES
    ImplementsSharedTree
    EventuallyConverged
CHECK_DEADLOCK FALSE
