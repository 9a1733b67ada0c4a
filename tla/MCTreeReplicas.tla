--------------------------- MODULE MCTreeReplicas ---------------------------
(***************************************************************************)
(* TLC instances of TreeReplicas and its refinement, and the properties of *)
(* the views of the tree.                                                  *)
(***************************************************************************)
EXTENDS TreeRefinement

CONSTANTS dirA, dirB, plain

PlainNames == {<<plain>>}

\* The path that path() derives for a node leads resolve() back to it, unless the
\* node or a directory above it lost its bare name to a rival; and it derives a
\* path for exactly the nodes that hang below the root.
PathsLeadBack ==
    \A r \in Replica : IsIdle(r) =>
        \A m \in DOMAIN tree[r].edges :
            LET t     == tree[r]
                path  == PathOf(t, m)
                bared == \A x \in AncestorsOrSelf(t.edges, m) \cap DOMAIN t.edges :
                             KeepsName(t, <<t.edges[x].parent, t.edges[x].name, x>>)
            IN  /\ path # Nil <=> IsAncestor(t.edges, ROOT, m)
                /\ path # Nil /\ bared => Resolve(t, path) = m
                /\ path # Nil => IsLive(t.edges, m)

=============================================================================
