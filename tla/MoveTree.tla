------------------------------ MODULE MoveTree ------------------------------
(***************************************************************************)
(* The replicated directory tree of ce-drive-core/src/tree.rs as operators *)
(* on a record                                                             *)
(*                                                                         *)
(*   t = [log      |-> sequence of [op, old] in timestamp order,           *)
(*        edges    |-> function from the nodes that have an edge to it,    *)
(*        children |-> set of <<parent, name, child>>, the readdir index]  *)
(*                                                                         *)
(* Nodes, names and kinds are opaque values.  A replica id is a number:    *)
(* the code only compares replica ids, as the tie-break of a timestamp.    *)
(* The walk to the root is a recursive FUNCTION, not a RECURSIVE operator, *)
(* so that the proof modules can use this module.                          *)
(***************************************************************************)
EXTENDS Naturals, Sequences, FiniteSets

CONSTANTS ROOT,   \* the implicit root; never has an edge of its own
          TRASH,  \* the node deleted nodes are moved under
          LIMBO,  \* the node hard-deleted nodes are moved under
          Nil     \* Rust's None

-----------------------------------------------------------------------------
(* Timestamps: (lamport, replica), compared lexicographically. *)

TsLess(s, t) ==
    \/ s.lamport < t.lamport
    \/ s.lamport = t.lamport /\ s.replica < t.replica

MaxNat(m, n) == IF m > n THEN m ELSE n

-----------------------------------------------------------------------------
(* Edges and the walk to the root. *)

EmptyTree == [log |-> <<>>, edges |-> [n \in {} |-> Nil], children |-> {}]

EdgeOf(e, n) == IF n \in DOMAIN e THEN e[n] ELSE Nil

\* The nodes a walk of |edges| + 1 iterations from n visits; it stays where it
\* is once a node has no edge (ROOT, TRASH, LIMBO or an unknown parent).
AncestorsOrSelf(e, n) ==
    LET len == Cardinality(DOMAIN e)
        at[i \in 0 .. len] ==
            IF i = 0 THEN n
            ELSE IF at[i - 1] \in DOMAIN e THEN e[at[i - 1]].parent
                 ELSE at[i - 1]
    IN  {at[i] : i \in 0 .. len}

IsAncestor(e, ancestor, n) == ancestor \in AncestorsOrSelf(e, n)

IsTrashed(e, n) == IsAncestor(e, TRASH, n)
IsLimbo(e, n)   == IsAncestor(e, LIMBO, n)

IsLive(e, n) ==
    IF n \in DOMAIN e THEN ~IsTrashed(e, n) /\ ~IsLimbo(e, n) ELSE n = ROOT

\* The shape every walk relies on: no nonempty set of nodes with an edge is
\* closed under "the parent of".
AcyclicEdges(e) ==
    ~ \E S \in SUBSET DOMAIN e : S # {} /\ \A n \in S : e[n].parent \in S

-----------------------------------------------------------------------------
(* One move, its inverse, and the sorted log of moves. *)

\* Wrong variant: only the move of a node into itself counts as a cycle.
SelfMoveOnly(e, op) == op.new_parent = op.child

\* The move is skipped: it would make the child its own ancestor.
FormsCycle(e, op) ==
    \/ op.new_parent = op.child
    \/ IsAncestor(e, op.child, op.new_parent)

PutEdge(e, n, edge) == [m \in DOMAIN e \cup {n} |-> IF m = n THEN edge ELSE e[m]]

DropEdge(e, n) == [m \in DOMAIN e \ {n} |-> e[m]]

\* The index entry an edge stands for; none when there is no edge.
IndexEntries(edge, n) ==
    IF edge = Nil THEN {} ELSE {<<edge.parent, edge.name, n>>}

NewEdge(op) == [parent |-> op.new_parent, name |-> op.new_name, kind |-> op.kind]

\* The index the edges determine.
IndexOf(e) == {<<e[n].parent, e[n].name, n>> : n \in DOMAIN e}

\* Wrong variant: undoing a creation leaves an absent edge behind.
SetEdgeKeepsNil(t, n, edge) ==
    [log |-> t.log, edges |-> PutEdge(t.edges, n, edge),
     children |-> (t.children \ IndexEntries(EdgeOf(t.edges, n), n)) \cup IndexEntries(edge, n)]

\* Wrong variant: the index entry of the displaced edge stays.
SetEdgeStaleIndex(t, n, edge) ==
    [log |-> t.log,
     edges |-> IF edge = Nil THEN DropEdge(t.edges, n) ELSE PutEdge(t.edges, n, edge),
     children |-> t.children \cup IndexEntries(edge, n)]

\* Point n at `edge` (Nil: at nothing), in the edges and in the index.
SetEdge(t, n, edge) ==
    [log      |-> t.log,
     edges    |-> IF edge = Nil THEN DropEdge(t.edges, n) ELSE PutEdge(t.edges, n, edge),
     children |-> (t.children \ IndexEntries(EdgeOf(t.edges, n), n))
                      \cup IndexEntries(edge, n)]

DoMove(t, op) ==
    IF FormsCycle(t.edges, op) THEN t ELSE SetEdge(t, op.child, NewEdge(op))

UndoMove(t, entry) == SetEdge(t, entry.op.child, entry.old)

WithLog(t, log) == [log |-> log, edges |-> t.edges, children |-> t.children]

\* do_move followed by the push of the log entry that can undo it.
PushMove(t, op) ==
    WithLog(DoMove(t, op),
            Append(t.log, [op |-> op, old |-> EdgeOf(t.edges, op.child)]))

\* Undo the newest log entry and detach it.
PopMove(t) ==
    WithLog(UndoMove(t, t.log[Len(t.log)]), SubSeq(t.log, 1, Len(t.log) - 1))

\* Wrong variant: the replica is forgotten in the comparison of timestamps.
HasLamport(t, ts) == \E i \in 1 .. Len(t.log) : t.log[i].op.ts.lamport = ts.lamport

HasTs(t, ts) == \E i \in 1 .. Len(t.log) : t.log[i].op.ts = ts

\* A log in strictly ascending timestamp order.
Sorted(log) ==
    \A i, j \in 1 .. Len(log) : i < j => TsLess(log[i].op.ts, log[j].op.ts)

\* Wrong variant: every new move is simply done last.
IntegrateLast(t, op) == IF HasTs(t, op.ts) THEN t ELSE PushMove(t, op)

\* integrate: undo the entries later than op, do op, redo them oldest first.
Integrate(t, op) ==
    LET later == {i \in 1 .. Len(t.log) : TsLess(op.ts, t.log[i].op.ts)}
        n     == Cardinality(later)
        tail  == SubSeq(t.log, Len(t.log) - n + 1, Len(t.log))
        undone[i \in 0 .. n] == IF i = 0 THEN t ELSE PopMove(undone[i - 1])
        redone[i \in 0 .. n] ==
            IF i = 0 THEN PushMove(undone[n], op)
            ELSE PushMove(redone[i - 1], tail[i].op)
    IN  IF HasTs(t, op.ts) THEN t ELSE redone[n]

\* The tree that from_state builds from a list of moves in their list order.
ReplayMoves(ops) ==
    LET t[i \in 0 .. Len(ops)] ==
            IF i = 0 THEN EmptyTree ELSE Integrate(t[i - 1], ops[i])
    IN  t[Len(ops)]

LogOps(t) == {t.log[i].op : i \in 1 .. Len(t.log)}

LogMaxLamport(t) == IF t.log = <<>> THEN 0 ELSE t.log[Len(t.log)].op.ts.lamport

-----------------------------------------------------------------------------
(* Views of the tree: readdir with the conflict-rename policy, paths.       *)
(* A name is a sequence; readdir renders the name of a node that lost its   *)
(* bare name to a rival as name \o <<replica, lamport>>, which, as in the   *)
(* code, is a name that some other node may carry as its own.               *)

\* raw_children orders by name and id; both compare component by component.
LexLess(x, y) ==
    \E k \in 1 .. Len(y) :
        /\ \A i \in 1 .. k - 1 : i <= Len(x) /\ x[i] = y[i]
        /\ k > Len(x) \/ x[k] < y[k]

ChildrenOf(t, parent) == {c \in t.children : c[1] = parent}

\* The last move in the log that targets n, whether or not it was skipped.
DefiningTs(t, n) ==
    LET own == {i \in 1 .. Len(t.log) : t.log[i].op.child = n}
    IN  IF own = {} THEN [lamport |-> 0, replica |-> 0]
        ELSE t.log[CHOOSE i \in own : \A j \in own : j <= i].op.ts

\* The children a listing of parent shows: trashed nodes only in the trash.
Shown(t, parent) ==
    {c \in ChildrenOf(t, parent) : parent = TRASH \/ ~IsTrashed(t.edges, c[3])}

\* c keeps its bare name: no other node of that name was moved later.
KeepsName(t, c) ==
    \A d \in Shown(t, c[1]) \ {c} :
        d[2] = c[2] => TsLess(DefiningTs(t, d[3]), DefiningTs(t, c[3]))

\* Wrong variant: rivals are listed under their bare names.
RenderedBare(t, c) == c[2]

Rendered(t, c) ==
    IF KeepsName(t, c) THEN c[2]
    ELSE c[2] \o <<DefiningTs(t, c[3]).replica, DefiningTs(t, c[3]).lamport>>

Readdir(t, parent) ==
    {[name |-> Rendered(t, c), child |-> c[3], kind |-> t.edges[c[3]].kind] :
        c \in Shown(t, parent)}

\* Wrong variant: the walk is not checked to end at the root.
PathToAnywhere(t, n) ==
    LET len == Cardinality(DOMAIN t.edges)
        walk[i \in 0 .. len] ==
            IF i = 0 THEN [at |-> n, names |-> <<>>]
            ELSE LET w == walk[i - 1] IN
                 IF w.at \in DOMAIN t.edges
                 THEN [at |-> t.edges[w.at].parent, names |-> <<t.edges[w.at].name>> \o w.names]
                 ELSE w
    IN  walk[len].names

\* The path of n as the sequence of the bare names from the root, or Nil when
\* the walk ends anywhere but at ROOT.
PathOf(t, n) ==
    LET len == Cardinality(DOMAIN t.edges)
        walk[i \in 0 .. len] ==
            IF i = 0 THEN [at |-> n, names |-> <<>>]
            ELSE LET w == walk[i - 1] IN
                 IF w.at # ROOT /\ w.at \in DOMAIN t.edges
                 THEN [at    |-> t.edges[w.at].parent,
                       names |-> <<t.edges[w.at].name>> \o w.names]
                 ELSE w
    IN  IF walk[len].at = ROOT THEN walk[len].names ELSE Nil

\* The node a path of rendered names leads to, or Nil.  Of two nodes rendered
\* alike the listing has the shorter bare name first, and that one is found.
Resolve(t, path) ==
    LET bare(d) == Len(t.edges[d.child].name)
        at[i \in 0 .. Len(path)] ==
            IF i = 0 THEN ROOT
            ELSE LET hits == {d \in Readdir(t, at[i - 1]) : d.name = path[i]}
                 IN  IF hits = {} THEN Nil
                     ELSE (CHOOSE d \in hits : \A h \in hits : bare(d) <= bare(h)).child
    IN  at[Len(path)]

\* The nodes that resolve() can lead to: what is listed from the root downwards.
Resolvable(t) ==
    {n \in DOMAIN t.edges \cup {ROOT} :
        IsAncestor(t.edges, ROOT, n) /\ ~IsTrashed(t.edges, n)}
=============================================================================
