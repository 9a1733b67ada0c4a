--------------------------- MODULE TreeRefinement ---------------------------
(***************************************************************************)
(* TreeReplicas implements SharedTree: the loops of DriveTree::integrate   *)
(* are one atomic Take of the operation, at the step in which they end.    *)
(***************************************************************************)
EXTENDS TreeReplicas

\* The move of ops that k - 1 moves of ops come before.
Nth(ops, k) == CHOOSE o \in ops : Cardinality({p \in ops : TsLess(p.ts, o.ts)}) = k - 1

\* The tree that results from doing a set of moves once each, in timestamp
\* order, from the empty tree: the definition of what integrate must compute.
CanonicalTree(ops) ==
    LET built[k \in 0 .. Cardinality(ops)] ==
            IF k = 0 THEN EmptyTree ELSE PushMove(built[k - 1], Nth(ops, k))
    IN  built[Cardinality(ops)]

\* The moves that a writer within the bound on the ticks can stamp.
BoundedMove ==
    [ts : [lamport : 1 .. MaxLamport, replica : Replica], child : Movable,
     new_parent : NodeId, new_name : Name, kind : Kind]

\* A move being integrated counts as taken in once integrate returns; until then
\* the tree is exclusively borrowed.
TakenIn(r) == IF IsIdle(r) THEN Known(r) ELSE Known(r) \ {job[r].op}

ShownBy(r) == IF IsIdle(r) THEN tree[r] ELSE Nil

\* None is no tree.
ASSUME HiddenAssumption == Nil \notin TreeType

Shared == INSTANCE SharedTree
    WITH Operation <- BoundedMove,
         Before    <- TsLess,
         Value     <- CanonicalTree,
         Hidden    <- Nil,
         published <- sent,
         taken     <- [r \in Replica |-> TakenIn(r)],
         shown     <- [r \in Replica |-> ShownBy(r)]

\* Whenever a replica can be read, its tree, index and displaced edges are the
\* replay of the set of moves it has integrated, for every order of arrival: the
\* comment on DriveTree, "two replicas that integrate the same set of moves ...
\* converge to the identical tree", with the value they converge to.
ImplementsSharedTree == Shared!Spec
=============================================================================
