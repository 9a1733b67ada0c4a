---------------------------- MODULE ReplayLemmas ----------------------------
(***************************************************************************)
(* Lemmas about the operators of MoveTree and ContentMap.                  *)
(*                                                                         *)
(* For every tree and every move: the bounded walk of is_ancestor visits   *)
(* every ancestor, do_move keeps the edges acyclic and the index exact,    *)
(* undo_move is the exact inverse of do_move, and a tree is determined by  *)
(* the moves of its log.  Then integrate and replay as whole operators:    *)
(* integrate leaves a tree that is built from its sorted log, wherever the *)
(* new move belongs, so that what from_state replays depends only on the   *)
(* set of the moves; and every edge of a tree is the edge of a move in its *)
(* log.                                                                    *)
(*                                                                         *)
(* For every content map: an operation changes the record of its own node  *)
(* only, and a replay of operations loses no version that a record has     *)
(* room for.                                                               *)
(***************************************************************************)
EXTENDS MoveTree, ContentMap, FiniteSetTheorems, WellFoundedInduction, TLAPS

\* A nonempty set of natural numbers has a least element: what the proofs below
\* use instead of induction, over the steps of a walk and the entries of a log.
LEMMA LeastNat ==
  ASSUME NEW T \in SUBSET Nat, T # {}
  PROVE  \E m \in T : \A k \in T : m <= k
<1> DEFINE R == OpToRel(<, Nat)
<1>1. IsWellFoundedOn(R, Nat)
  BY NatLessThanWellFounded
<1> HIDE DEF R
<1>2. PICK m \in T : \A k \in T : ~(<<k, m>> \in R)
  BY <1>1, WFMin
<1>3. \A k \in T : ~(k < m)
  BY <1>2 DEF R, OpToRel
<1>4. QED
  BY <1>3


\* `at' is the recursive function inside AncestorsOrSelf, for a walk of len steps.
IsWalk(at, e, n, len) ==
    at = [i \in 0 .. len |->
            IF i = 0 THEN n
            ELSE IF at[i - 1] \in DOMAIN e THEN e[at[i - 1]].parent
                 ELSE at[i - 1]]

\* The walk is well defined for every number of steps.
LEMMA WalkExists ==
  ASSUME NEW e, NEW n, NEW len \in Nat
  PROVE  \E at : IsWalk(at, e, n, len)
<1> DEFINE T == {l \in Nat : ~ \E at : IsWalk(at, e, n, l)}
<1> SUFFICES ASSUME T # {} PROVE FALSE
  OBVIOUS
<1>1. PICK m \in T : \A k \in T : m <= k
  BY LeastNat
<1>2. m # 0
  <2>1. IsWalk([i \in 0 .. 0 |-> n], e, n, 0)
    BY DEF IsWalk
  <2>2. QED BY <2>1
<1>3. PICK at : IsWalk(at, e, n, m - 1)
  <2>1. m - 1 \in Nat /\ ~(m <= m - 1)
    BY <1>2
  <2>2. m - 1 \notin T
    BY <1>1, <2>1
  <2>3. QED BY <2>1, <2>2
<1> DEFINE p == at[m - 1]
<1> DEFINE q == IF p \in DOMAIN e THEN e[p].parent ELSE p
<1> DEFINE at2 == [i \in 0 .. m |-> IF i = m THEN q ELSE at[i]]
<1>4. IsWalk(at2, e, n, m)
  <2>0. m \in Nat /\ m - 1 \in Nat /\ 0 .. m - 1 \subseteq 0 .. m
    BY <1>2
  <2>1. \A i \in 0 .. m - 1 : at[i] = IF i = 0 THEN n
            ELSE IF at[i - 1] \in DOMAIN e THEN e[at[i - 1]].parent
                 ELSE at[i - 1]
    BY <1>3 DEF IsWalk
  <2>2. \A i \in 0 .. m : at2[i] = IF i = 0 THEN n
            ELSE IF at2[i - 1] \in DOMAIN e THEN e[at2[i - 1]].parent
                 ELSE at2[i - 1]
    BY <2>0, <2>1, <1>2
  <2>3. QED BY <2>2 DEF IsWalk
<1>5. QED BY <1>1, <1>4

\* AncestorsOrSelf is the set of the nodes the walk of is_ancestor visits.
LEMMA AncestorsAreWalk ==
  ASSUME NEW e, IsFiniteSet(DOMAIN e), NEW n
  PROVE  \E at, len : /\ len = Cardinality(DOMAIN e) /\ len \in Nat
                      /\ AncestorsOrSelf(e, n) = {at[i] : i \in 0 .. len}
                      /\ at[0] = n
                      /\ \A i \in 1 .. len :
                            at[i] = IF at[i - 1] \in DOMAIN e
                                    THEN e[at[i - 1]].parent ELSE at[i - 1]
<1> DEFINE len == Cardinality(DOMAIN e)
           at == CHOOSE f : IsWalk(f, e, n, len)
<1>1. len \in Nat
  BY FS_CardinalityType
<1>2. IsWalk(at, e, n, len)
  <2> HIDE DEF len
  <2>1. QED BY <1>1, WalkExists
<1>3. AncestorsOrSelf(e, n) = {at[i] : i \in 0 .. len}
  BY DEF AncestorsOrSelf, IsWalk
<1>4. /\ at[0] = n
      /\ \A i \in 1 .. len :
            at[i] = IF at[i - 1] \in DOMAIN e
                    THEN e[at[i - 1]].parent ELSE at[i - 1]
  <2> HIDE DEF len, at
  <2>1. QED BY <1>1, <1>2 DEF IsWalk
<1>5. QED
  <2> HIDE DEF at
  <2>1. QED BY <1>1, <1>3, <1>4

\* is_ancestor cuts its walk off after edges.len() + 1 iterations.  In a tree
\* without cycles the cut is never felt: the walk has visited every ancestor.
LEMMA WalkIsExhaustive ==
  ASSUME NEW e, IsFiniteSet(DOMAIN e), NEW n,
         AcyclicEdges(e)
  PROVE  /\ n \in AncestorsOrSelf(e, n)
         /\ \A m \in AncestorsOrSelf(e, n) :
                m \in DOMAIN e => e[m].parent \in AncestorsOrSelf(e, n)
<1>1. PICK at, len :
          /\ len = Cardinality(DOMAIN e) /\ len \in Nat
          /\ AncestorsOrSelf(e, n) = {at[i] : i \in 0 .. len}
          /\ at[0] = n
          /\ \A i \in 1 .. len :
                at[i] = IF at[i - 1] \in DOMAIN e
                        THEN e[at[i - 1]].parent ELSE at[i - 1]
  BY AncestorsAreWalk
<1>2. n \in AncestorsOrSelf(e, n)
  BY <1>1
<1>3. PICK j \in 0 .. len : at[j] \notin DOMAIN e
  <2> SUFFICES ASSUME \A i \in 0 .. len : at[i] \in DOMAIN e
               PROVE  FALSE
    OBVIOUS
  <2> DEFINE f == [i \in 0 .. len |-> at[i]]
  <2>1. f \in [0 .. len -> DOMAIN e]
    OBVIOUS
  <2>2. IsFiniteSet(0 .. len) /\ Cardinality(0 .. len) = len + 1
    BY <1>1, FS_Interval
  <2>3. \E x, y \in 0 .. len : x # y /\ f[x] = f[y]
    <3> DEFINE A == 0 .. len
               B == DOMAIN e
    <3>1. IsFiniteSet(A) /\ IsFiniteSet(B) /\ Cardinality(B) < Cardinality(A)
      BY <1>1, <2>2
    <3>2. f \in [A -> B]
      BY <2>1
    <3> HIDE DEF f, A, B
    <3>3. \E x, y \in A : x # y /\ f[x] = f[y]
      BY <3>1, <3>2, FS_PigeonHole
    <3>4. QED BY <3>3 DEF A
  <2>4. PICK x, y \in 0 .. len : x < y /\ at[x] = at[y]
    BY <2>3, <1>1
  <2> DEFINE S == {at[i] : i \in x .. y}
  <2>5. S # {} /\ S \subseteq DOMAIN e
    BY <2>4, <1>1
  <2>6. ASSUME NEW i \in x .. y PROVE e[at[i]].parent \in S
    <3>1. CASE i < y
      <4>1. i + 1 \in 1 .. len /\ i + 1 \in x .. y /\ (i + 1) - 1 = i
        BY <3>1, <1>1, <2>4
      <4>2. at[i + 1] = e[at[i]].parent
        BY <4>1, <1>1, <2>5
      <4>3. QED BY <4>1, <4>2
    <3>2. CASE i = y
      <4>1. x + 1 \in 1 .. len /\ x + 1 \in x .. y /\ (x + 1) - 1 = x
        BY <1>1, <2>4
      <4>2. at[x + 1] = e[at[x]].parent
        BY <4>1, <1>1, <2>4
      <4>3. QED BY <4>1, <4>2, <3>2, <2>4
    <3>3. QED BY <3>1, <3>2, <1>1, <2>4
  <2>7. QED BY <2>5, <2>6 DEF AcyclicEdges
<1>4. ASSUME NEW i \in 0 .. len, at[i] \in DOMAIN e
      PROVE  e[at[i]].parent \in AncestorsOrSelf(e, n)
  <2>1. CASE i < len
    <3>1. i + 1 \in 1 .. len /\ i + 1 \in 0 .. len /\ (i + 1) - 1 = i
      BY <2>1, <1>1
    <3>2. at[i + 1] = e[at[i]].parent
      BY <3>1, <1>1, <1>4
    <3>3. QED BY <3>1, <3>2, <1>1
  <2>2. CASE i = len
    <3> DEFINE T == {k \in Nat : k \in j .. len /\ at[k] \in DOMAIN e}
    <3>1. T # {} /\ T \subseteq Nat
      BY <1>1, <1>4, <2>2
    <3>2. PICK k \in T : \A l \in T : k <= l
      BY <3>1, LeastNat
    <3>3. k # j
      BY <1>3, <3>2
    <3>4. k \in 1 .. len /\ k - 1 \in j .. len /\ k - 1 \in Nat /\ ~(k <= k - 1)
      BY <3>2, <3>3, <1>1
    <3>5. at[k - 1] \notin DOMAIN e
      BY <3>2, <3>4
    <3>6. at[k] = at[k - 1]
      BY <3>4, <3>5, <1>1
    <3>7. QED BY <3>2, <3>5, <3>6
  <2>3. QED BY <2>1, <2>2, <1>1
<1>5. QED BY <1>1, <1>2, <1>4

-----------------------------------------------------------------------------
(* One move. *)

\* The shape of the trees that do_move and undo_move produce; Entry is the set
\* of log entries.
TreeOk(t, Entry) ==
    /\ t = [log |-> t.log, edges |-> t.edges, children |-> t.children]
    /\ t.log \in Seq(Entry)
    /\ IsFiniteSet(DOMAIN t.edges)
    /\ t.edges = [n \in DOMAIN t.edges |-> t.edges[n]]
    /\ \A n \in DOMAIN t.edges : t.edges[n] # Nil
    /\ AcyclicEdges(t.edges)
    /\ t.children = IndexOf(t.edges)

\* do_move's cycle skip keeps the edges acyclic: a cycle through the new edge
\* would put the child among the ancestors of its new parent.
LEMMA PutEdgeKeepsAcyclic ==
  ASSUME NEW e, IsFiniteSet(DOMAIN e), AcyclicEdges(e),
         NEW c, NEW x, x.parent # c, c \notin AncestorsOrSelf(e, x.parent)
  PROVE  AcyclicEdges(PutEdge(e, c, x))
<1> DEFINE f == PutEdge(e, c, x)
           W == AncestorsOrSelf(e, x.parent)
<1>1. /\ x.parent \in W
      /\ \A m \in W : m \in DOMAIN e => e[m].parent \in W
  BY WalkIsExhaustive
<1>2. /\ DOMAIN f = DOMAIN e \cup {c} /\ f[c] = x
      /\ \A m \in DOMAIN e : m # c => f[m] = e[m]
  BY DEF PutEdge
<1> HIDE DEF f, W
<1> SUFFICES ASSUME NEW S \in SUBSET DOMAIN f, S # {},
                    \A m \in S : f[m].parent \in S
             PROVE  FALSE
  BY DEF AcyclicEdges, f
<1>3. CASE c \notin S
  <2>1. S \in SUBSET DOMAIN e /\ \A m \in S : e[m].parent \in S
    BY <1>2, <1>3
  <2>2. QED BY <2>1 DEF AcyclicEdges
<1>4. CASE c \in S
  <2>1. x.parent \in S \cap W
    BY <1>1, <1>2, <1>4
  <2>2. S \cap W \in SUBSET DOMAIN e
    BY <1>2 DEF W
  <2>3. \A m \in S \cap W : e[m].parent \in S \cap W
    BY <1>1, <1>2, <2>2 DEF W
  <2>4. QED BY <2>1, <2>2, <2>3 DEF AcyclicEdges
<1>5. QED BY <1>3, <1>4

\* Removing an edge cannot close a cycle.
LEMMA DropEdgeKeepsAcyclic ==
  ASSUME NEW e, AcyclicEdges(e), NEW c
  PROVE  AcyclicEdges(DropEdge(e, c))
<1> SUFFICES ASSUME NEW S \in SUBSET DOMAIN DropEdge(e, c), S # {},
                    \A m \in S : DropEdge(e, c)[m].parent \in S
             PROVE  FALSE
  BY DEF AcyclicEdges
<1>1. S \in SUBSET DOMAIN e /\ \A m \in S : e[m].parent \in S
  BY DEF DropEdge
<1>2. QED BY <1>1 DEF AcyclicEdges

\* do_move maintains the children index: it stays the inverse of the edges.
LEMMA SetEdgeKeepsIndex ==
  ASSUME NEW t, NEW c, NEW x, x # Nil, t.children = IndexOf(t.edges),
         t = [log |-> t.log, edges |-> t.edges, children |-> t.children],
         \A n \in DOMAIN t.edges : t.edges[n] # Nil
  PROVE  /\ SetEdge(t, c, x) = [log |-> t.log, edges |-> PutEdge(t.edges, c, x),
                                children |-> IndexOf(PutEdge(t.edges, c, x))]
<1> DEFINE e == t.edges
           f == PutEdge(e, c, x)
<1>1. /\ DOMAIN f = DOMAIN e \cup {c} /\ f[c] = x
      /\ \A m \in DOMAIN e : m # c => f[m] = e[m]
  BY DEF PutEdge
<1>2. (IndexOf(e) \ IndexEntries(EdgeOf(e, c), c)) \cup {<<x.parent, x.name, c>>}
          = IndexOf(f)
  <2>1. \A y : y \in IndexOf(f) <=>
                 y = <<x.parent, x.name, c>>
                 \/ \E n \in DOMAIN e : n # c /\ y = <<e[n].parent, e[n].name, n>>
    BY <1>1 DEF IndexOf
  <2>2. \A y : y \in IndexOf(e) \ IndexEntries(EdgeOf(e, c), c) <=>
                 \E n \in DOMAIN e : n # c /\ y = <<e[n].parent, e[n].name, n>>
    <3>1. CASE c \in DOMAIN e
      <4>1. IndexEntries(EdgeOf(e, c), c) = {<<e[c].parent, e[c].name, c>>}
        BY <3>1 DEF IndexEntries, EdgeOf
      <4>2. QED BY <4>1 DEF IndexOf
    <3>2. CASE c \notin DOMAIN e
      <4>1. IndexEntries(EdgeOf(e, c), c) = {}
        BY <3>2 DEF IndexEntries, EdgeOf
      <4>2. QED BY <4>1, <3>2 DEF IndexOf
    <3>3. QED BY <3>1, <3>2
  <2> HIDE DEF f, e
  <2>3. QED BY <2>1, <2>2
<1>3. QED BY <1>2 DEF SetEdge, IndexEntries

\* undo_move restores the edge that do_move displaced: undoing right after doing
\* leaves edges and index as they were.
LEMMA SetEdgeBack ==
  ASSUME NEW t, NEW c, NEW x, x # Nil, t.children = IndexOf(t.edges),
         t = [log |-> t.log, edges |-> t.edges, children |-> t.children],
         t.edges = [n \in DOMAIN t.edges |-> t.edges[n]],
         \A n \in DOMAIN t.edges : t.edges[n] # Nil
  PROVE  SetEdge(SetEdge(t, c, x), c, EdgeOf(t.edges, c)) = t
<1> DEFINE e == t.edges
           f == PutEdge(e, c, x)
           old == EdgeOf(e, c)
           u == SetEdge(t, c, x)
<1>1. u = [log |-> t.log, edges |-> f, children |-> IndexOf(f)]
  BY SetEdgeKeepsIndex
<1>2. /\ DOMAIN f = DOMAIN e \cup {c} /\ f[c] = x
      /\ \A m \in DOMAIN e : m # c => f[m] = e[m]
  BY DEF PutEdge
<1>3. (IF old = Nil THEN DropEdge(f, c) ELSE PutEdge(f, c, old)) = e
  <2>1. CASE c \in DOMAIN e
    <3>1. old = e[c] /\ old # Nil
      BY <2>1 DEF EdgeOf
    <3>2. PutEdge(f, c, old) = e
      BY <3>1, <2>1, <1>2 DEF PutEdge
    <3>3. QED BY <3>1, <3>2
  <2>2. CASE c \notin DOMAIN e
    <3>1. old = Nil
      BY <2>2 DEF EdgeOf
    <3>2. DropEdge(f, c) = e
      BY <2>2, <1>2 DEF DropEdge
    <3>3. QED BY <3>1, <3>2
  <2>3. QED BY <2>1, <2>2
<1>4. (IndexOf(f) \ IndexEntries(x, c)) \cup IndexEntries(old, c) = IndexOf(e)
  <2>1. \A y : y \in IndexOf(f) \ IndexEntries(x, c) <=>
                 \E n \in DOMAIN e : n # c /\ y = <<e[n].parent, e[n].name, n>>
    BY <1>2 DEF IndexOf, IndexEntries
  <2>2. \A y : y \in IndexEntries(old, c) <=>
                 c \in DOMAIN e /\ y = <<e[c].parent, e[c].name, c>>
    BY DEF IndexEntries, EdgeOf
  <2>3. \A y : y \in IndexOf(e) <=>
                 \E n \in DOMAIN e : y = <<e[n].parent, e[n].name, n>>
    BY DEF IndexOf
  <2> HIDE DEF f, e, old
  <2>4. QED BY <2>1, <2>2, <2>3
<1>5. EdgeOf(u.edges, c) = x
  BY <1>1, <1>2 DEF EdgeOf
<1>6. SetEdge(u, c, old) = [log |-> t.log, edges |-> e, children |-> IndexOf(e)]
  <2> HIDE DEF old, f, e, u
  <2>1. QED BY <1>1, <1>3, <1>4, <1>5 DEF SetEdge
<1>7. QED BY <1>6

\* Restoring the edge a node already has changes nothing: undoing a skipped move.
LEMMA SetSameEdge ==
  ASSUME NEW t, NEW c, t.children = IndexOf(t.edges),
         t = [log |-> t.log, edges |-> t.edges, children |-> t.children],
         t.edges = [n \in DOMAIN t.edges |-> t.edges[n]],
         \A n \in DOMAIN t.edges : t.edges[n] # Nil
  PROVE  SetEdge(t, c, EdgeOf(t.edges, c)) = t
<1>1. CASE c \in DOMAIN t.edges
  <2>1. EdgeOf(t.edges, c) = t.edges[c] /\ t.edges[c] # Nil
    BY <1>1 DEF EdgeOf
  <2>2. PutEdge(t.edges, c, t.edges[c]) = t.edges
    BY <1>1 DEF PutEdge
  <2>3. QED BY <2>1, <2>2, SetEdgeKeepsIndex
<1>2. CASE c \notin DOMAIN t.edges
  <2>1. EdgeOf(t.edges, c) = Nil
    BY <1>2 DEF EdgeOf
  <2>2. DropEdge(t.edges, c) = t.edges
    BY <1>2 DEF DropEdge
  <2>3. QED BY <2>1, <2>2 DEF SetEdge, IndexEntries
<1>3. QED BY <1>1, <1>2

-----------------------------------------------------------------------------
(* The log. *)

\* Pushing a move keeps a tree well formed.
LEMMA PushMoveKeepsOk ==
  ASSUME NEW Entry, NEW t, TreeOk(t, Entry), NEW op,
         [op |-> op, old |-> EdgeOf(t.edges, op.child)] \in Entry,
         NewEdge(op) # Nil
  PROVE  TreeOk(PushMove(t, op), Entry)
<1> DEFINE c == op.child
           x == NewEdge(op)
           u == DoMove(t, op)
           log2 == Append(t.log, [op |-> op, old |-> EdgeOf(t.edges, op.child)])
<1>1. /\ IsFiniteSet(DOMAIN u.edges)
      /\ u.edges = [n \in DOMAIN u.edges |-> u.edges[n]]
      /\ \A n \in DOMAIN u.edges : u.edges[n] # Nil
      /\ AcyclicEdges(u.edges)
      /\ u.children = IndexOf(u.edges)
  <2>1. CASE FormsCycle(t.edges, op)
    BY <2>1 DEF DoMove, TreeOk
  <2>2. CASE ~FormsCycle(t.edges, op)
    <3>1. u = [log |-> t.log, edges |-> PutEdge(t.edges, c, x),
               children |-> IndexOf(PutEdge(t.edges, c, x))]
      <4>1. u = SetEdge(t, c, x)
        BY <2>2 DEF DoMove
      <4> HIDE DEF u, x, c
      <4>2. x # Nil
        BY DEF x
      <4>3. QED BY <4>1, <4>2, SetEdgeKeepsIndex DEF TreeOk
    <3>2. AcyclicEdges(PutEdge(t.edges, c, x))
      <4>1. x.parent = op.new_parent
        BY DEF NewEdge
      <4>2. x.parent # c /\ c \notin AncestorsOrSelf(t.edges, x.parent)
        BY <2>2, <4>1 DEF FormsCycle, IsAncestor
      <4> HIDE DEF x, c
      <4>3. QED BY <4>2, PutEdgeKeepsAcyclic DEF TreeOk
    <3>3. IsFiniteSet(DOMAIN t.edges \cup {c})
      BY FS_AddElement DEF TreeOk
    <3>4. /\ DOMAIN PutEdge(t.edges, c, x) = DOMAIN t.edges \cup {c}
          /\ \A n \in DOMAIN t.edges \cup {c} :
                PutEdge(t.edges, c, x)[n] = IF n = c THEN x ELSE t.edges[n]
          /\ PutEdge(t.edges, c, x) = [n \in DOMAIN PutEdge(t.edges, c, x) |->
                                          PutEdge(t.edges, c, x)[n]]
      BY DEF PutEdge
    <3> HIDE DEF x, c, u
    <3>5. x # Nil
      BY DEF x
    <3>6. QED BY <3>1, <3>2, <3>3, <3>4, <3>5 DEF TreeOk
  <2>3. QED BY <2>1, <2>2
<1>2. log2 \in Seq(Entry)
  BY DEF TreeOk
<1>3. PushMove(t, op) = [log |-> log2, edges |-> u.edges, children |-> u.children]
  BY DEF PushMove, WithLog
<1> HIDE DEF u, log2
<1>4. QED BY <1>1, <1>2, <1>3 DEF TreeOk

\* Undoing the newest entry is the exact inverse of having pushed it, whether the
\* move had been done or skipped as a cycle.
LEMMA PopUndoesPush ==
  ASSUME NEW Entry, NEW t, TreeOk(t, Entry), NEW op, NewEdge(op) # Nil
  PROVE  PopMove(PushMove(t, op)) = t
<1> DEFINE c == op.child
           old == EdgeOf(t.edges, c)
           entry == [op |-> op, old |-> old]
           u == DoMove(t, op)
           p == PushMove(t, op)
<1>1. p = [log |-> Append(t.log, entry), edges |-> u.edges, children |-> u.children]
  BY DEF PushMove, WithLog
<1>2. /\ Len(p.log) = Len(t.log) + 1
      /\ p.log[Len(p.log)] = entry
      /\ SubSeq(p.log, 1, Len(p.log) - 1) = t.log
  <2>1. t.log \in Seq(Entry \cup {entry})
    BY DEF TreeOk
  <2> HIDE DEF entry
  <2>2. Len(t.log) \in Nat /\ p.log = Append(t.log, entry)
    BY <2>1, <1>1
  <2>3. Len(p.log) = Len(t.log) + 1 /\ p.log[Len(p.log)] = entry
    BY <2>1, <2>2
  <2>4. SubSeq(p.log, 1, Len(t.log)) = t.log
    BY <2>1, <2>2
  <2>5. QED BY <2>2, <2>3, <2>4
<1>3. /\ SetEdge(u, c, old).edges = t.edges
      /\ SetEdge(u, c, old).children = t.children
  <2>1. CASE FormsCycle(t.edges, op)
    <3>1. u = t
      BY <2>1 DEF DoMove
    <3> HIDE DEF u, c
    <3>2. SetEdge(u, c, old) = t
      BY <3>1, SetSameEdge DEF TreeOk
    <3>3. QED BY <3>2
  <2>2. CASE ~FormsCycle(t.edges, op)
    <3> DEFINE x == NewEdge(op)
    <3>1. u = SetEdge(t, c, x) /\ x # Nil
      BY <2>2 DEF DoMove
    <3> HIDE DEF u, c, x
    <3>2. SetEdge(SetEdge(t, c, x), c, EdgeOf(t.edges, c)) = t
      BY <3>1, SetEdgeBack DEF TreeOk
    <3>3. QED BY <3>1, <3>2
  <2>3. QED BY <2>1, <2>2
<1>4. /\ SetEdge(p, c, old).edges = SetEdge(u, c, old).edges
      /\ SetEdge(p, c, old).children = SetEdge(u, c, old).children
  <2> HIDE DEF p, u, old, c, entry
  <2>1. p.edges = u.edges /\ p.children = u.children
    BY <1>1
  <2>2. QED BY <2>1 DEF SetEdge
<1>5. UndoMove(p, entry) = SetEdge(p, c, old)
  BY DEF UndoMove
<1>6. PopMove(p) = [log |-> t.log, edges |-> t.edges, children |-> t.children]
  <2> HIDE DEF p, u, old, c, entry
  <2>1. PopMove(p) = WithLog(UndoMove(p, entry), t.log)
    BY <1>2 DEF PopMove
  <2>2. QED BY <2>1, <1>3, <1>4, <1>5 DEF WithLog
<1>7. QED BY <1>6 DEF TreeOk

\* A tree is built when it results from pushing the moves of its log one after
\* the other; st[i] is the tree after the first i of them.
BuildsUp(st, t, Entry) ==
    /\ TreeOk(t, Entry)
    /\ st[0] = EmptyTree
    /\ \A i \in 0 .. Len(t.log) : TreeOk(st[i], Entry)
    /\ \A i \in 1 .. Len(t.log) : /\ st[i] = PushMove(st[i - 1], t.log[i].op)
                                  /\ NewEdge(t.log[i].op) # Nil
    /\ st[Len(t.log)] = t

Built(t, Entry) == \E st : BuildsUp(st, t, Entry)

\* The empty tree is built.
LEMMA EmptyTreeBuilt ==
  ASSUME NEW Entry
  PROVE  Built(EmptyTree, Entry)
<1> DEFINE e == [n \in {} |-> Nil]
           st == [i \in 0 .. 0 |-> EmptyTree]
<1>1. DOMAIN e = {}
  OBVIOUS
<1>2. AcyclicEdges(e) /\ IndexOf(e) = {}
  BY <1>1 DEF AcyclicEdges, IndexOf
<1>3. TreeOk(EmptyTree, Entry)
  BY <1>1, <1>2, FS_EmptySet DEF TreeOk, EmptyTree
<1>4. Len(EmptyTree.log) = 0
  BY DEF EmptyTree
<1>5. BuildsUp(st, EmptyTree, Entry)
  BY <1>3, <1>4 DEF BuildsUp
<1>6. QED BY <1>5 DEF Built

\* Doing or redoing a move keeps a tree built.
LEMMA PushKeepsBuilt ==
  ASSUME NEW Entry, NEW t, Built(t, Entry), NEW op,
         [op |-> op, old |-> EdgeOf(t.edges, op.child)] \in Entry,
         NewEdge(op) # Nil
  PROVE  Built(PushMove(t, op), Entry)
<1>1. PICK st : BuildsUp(st, t, Entry)
  BY DEF Built
<1> DEFINE n == Len(t.log)
           entry == [op |-> op, old |-> EdgeOf(t.edges, op.child)]
           u == PushMove(t, op)
           st2 == [i \in 0 .. n + 1 |-> IF i = n + 1 THEN u ELSE st[i]]
<1>2. t.log \in Seq(Entry) /\ n \in Nat /\ TreeOk(t, Entry)
  BY <1>1 DEF BuildsUp, TreeOk
<1>3. TreeOk(u, Entry)
  BY <1>2, PushMoveKeepsOk
<1>4. u.log = Append(t.log, entry)
  BY DEF PushMove, WithLog
<1> HIDE DEF u
<1>5. /\ Len(u.log) = n + 1
      /\ u.log[n + 1].op = op
      /\ \A i \in 1 .. n : u.log[i] = t.log[i]
  BY <1>2, <1>4
<1>6. BuildsUp(st2, u, Entry)
  <2>1. st2[0] = EmptyTree /\ st2[Len(u.log)] = u
    BY <1>1, <1>2, <1>5 DEF BuildsUp
  <2>2. \A i \in 0 .. Len(u.log) : TreeOk(st2[i], Entry)
    BY <1>1, <1>2, <1>3, <1>5 DEF BuildsUp
  <2>3. ASSUME NEW i \in 1 .. Len(u.log)
        PROVE  st2[i] = PushMove(st2[i - 1], u.log[i].op) /\ NewEdge(u.log[i].op) # Nil
    <3>1. CASE i = n + 1
      <4>1. st2[i] = u /\ st2[i - 1] = t
        BY <3>1, <1>1, <1>2 DEF BuildsUp
      <4>2. QED BY <4>1, <3>1, <1>5 DEF u
    <3>2. CASE i \in 1 .. n
      <4>1. st2[i] = st[i] /\ st2[i - 1] = st[i - 1]
        BY <3>2, <1>2
      <4>2. QED BY <4>1, <3>2, <1>1, <1>5 DEF BuildsUp
    <3>3. QED BY <3>1, <3>2, <1>2, <1>5
  <2> HIDE DEF st2
  <2>4. QED BY <2>1, <2>2, <2>3 DEF BuildsUp
<1>7. QED BY <1>6 DEF Built, u

\* Undoing the newest entry of a built tree leads back to the built tree before
\* it, with that entry gone from the log and nothing else changed.
LEMMA PopKeepsBuilt ==
  ASSUME NEW Entry, NEW t, Built(t, Entry), t.log # <<>>
  PROVE  /\ Built(PopMove(t), Entry)
         /\ t.log \in Seq(Entry) /\ Len(t.log) \in Nat \ {0}
         /\ PopMove(t).log \in Seq(Entry)
         /\ Len(PopMove(t).log) = Len(t.log) - 1
         /\ \A i \in 1 .. Len(t.log) - 1 : PopMove(t).log[i] = t.log[i]
<1>1. PICK st : BuildsUp(st, t, Entry)
  BY DEF Built
<1> DEFINE n == Len(t.log)
           u == st[n - 1]
           op == t.log[n].op
<1>2. t.log \in Seq(Entry) /\ n \in Nat \ {0}
  <2>1. t.log \in Seq(Entry)
    BY <1>1 DEF BuildsUp, TreeOk
  <2>2. QED BY <2>1
<1>3. /\ n \in 1 .. n /\ n - 1 \in 0 .. n
      /\ TreeOk(u, Entry) /\ t = PushMove(u, op) /\ NewEdge(op) # Nil
  BY <1>1, <1>2 DEF BuildsUp
<1>4. PopMove(t) = u
  <2> HIDE DEF u, op
  <2>1. QED BY <1>3, PopUndoesPush
<1>5. t.log = Append(u.log, [op |-> op, old |-> EdgeOf(u.edges, op.child)])
  <2> HIDE DEF u, op
  <2>1. QED BY <1>3 DEF PushMove, WithLog
<1>6. /\ u.log \in Seq(Entry)
      /\ Len(u.log) = n - 1
      /\ \A i \in 1 .. n - 1 : u.log[i] = t.log[i]
  <2>1. u.log \in Seq(Entry)
    BY <1>3 DEF TreeOk
  <2> DEFINE new == [op |-> op, old |-> EdgeOf(u.edges, op.child)]
  <2> HIDE DEF u, op, new
  <2>2. Len(t.log) = Len(u.log) + 1 /\ \A i \in 1 .. Len(u.log) : u.log[i] = t.log[i]
    BY <2>1, <1>5 DEF new
  <2>3. QED BY <2>1, <2>2, <1>2
<1>7. BuildsUp(st, u, Entry)
  <2>1. 0 .. n - 1 \subseteq 0 .. n /\ 1 .. n - 1 \subseteq 1 .. n
    BY <1>2
  <2>2. \A i \in 1 .. n - 1 : u.log[i].op = t.log[i].op
    BY <1>6
  <2>3. QED BY <2>1, <2>2, <1>1, <1>3, <1>6 DEF BuildsUp
<1>8. QED BY <1>2, <1>4, <1>6, <1>7 DEF Built

\* Every entry carries a timestamp.
Stamped(Entry) ==
    \A x \in Entry : x.op.ts.lamport \in Nat /\ x.op.ts.replica \in Nat

\* Two logs that hold the same moves, each in an order of its own.
SameMoves(p, q) ==
    {p[i].op : i \in 1 .. Len(p)} = {q[i].op : i \in 1 .. Len(q)}

\* Two sorted logs that hold the same moves hold them in the same positions.
LEMMA SortedLogsAgree ==
  ASSUME NEW Entry, Stamped(Entry),
         NEW p \in Seq(Entry), NEW q \in Seq(Entry), Sorted(p), Sorted(q),
         SameMoves(p, q)
  PROVE  Len(p) = Len(q) /\ \A i \in 1 .. Len(p) : p[i].op = q[i].op
<1>1. /\ Len(p) \in Nat /\ Len(q) \in Nat
      /\ \A i \in 1 .. Len(p) : p[i] \in Entry
      /\ \A i \in 1 .. Len(q) : q[i] \in Entry
  OBVIOUS
<1>2. \A x, y \in Entry : /\ ~(TsLess(x.op.ts, y.op.ts) /\ TsLess(y.op.ts, x.op.ts))
                          /\ x.op = y.op => ~TsLess(x.op.ts, y.op.ts)
  BY DEF TsLess, Stamped
<1>3. \A i, j \in 1 .. Len(p) : p[i].op = p[j].op => i = j
  BY <1>1, <1>2 DEF Sorted
<1>4. \A i, j \in 1 .. Len(q) : q[i].op = q[j].op => i = j
  BY <1>1, <1>2 DEF Sorted
<1>5. \A i \in 1 .. Len(p) : i \in 1 .. Len(q) /\ p[i].op = q[i].op
  <2> DEFINE T == {i \in 1 .. Len(p) : ~(i \in 1 .. Len(q) /\ p[i].op = q[i].op)}
  <2> SUFFICES ASSUME T # {} PROVE FALSE
    OBVIOUS
  <2>1. T \in SUBSET Nat
    BY <1>1
  <2>2. PICK m \in T : \A k \in T : m <= k
    BY <2>1, LeastNat
  <2>3. /\ m \in 1 .. Len(p) /\ ~(m \in 1 .. Len(q) /\ p[m].op = q[m].op)
        /\ \A k \in 1 .. m - 1 : k \in 1 .. Len(q) /\ p[k].op = q[k].op
    BY <2>2, <1>1
  <2>4. PICK j \in 1 .. Len(q) : q[j].op = p[m].op
    BY <2>3 DEF SameMoves
  <2>5. j > m
    <3>1. ~(j \in 1 .. m - 1)
      BY <2>3, <2>4, <1>1, <1>3
    <3>2. QED BY <3>1, <2>3, <2>4, <1>1
  <2>6. m \in 1 .. Len(q)
    BY <2>3, <2>4, <2>5, <1>1
  <2>7. PICK i \in 1 .. Len(p) : p[i].op = q[m].op
    BY <2>6 DEF SameMoves
  <2>8. i > m
    <3>1. ~(i \in 1 .. m - 1)
      BY <2>3, <2>6, <2>7, <1>1, <1>4
    <3>2. i # m
      BY <2>3, <2>6, <2>7
    <3>3. QED BY <3>1, <3>2, <2>3, <1>1
  <2>9. TsLess(p[m].op.ts, p[i].op.ts) /\ TsLess(q[m].op.ts, q[j].op.ts)
    BY <2>3, <2>5, <2>6, <2>8 DEF Sorted
  <2>10. QED BY <2>3, <2>4, <2>6, <2>7, <2>9, <1>1, <1>2
<1>6. Len(q) <= Len(p)
  <2> SUFFICES ASSUME Len(p) < Len(q) PROVE FALSE
    BY <1>1
  <2>1. Len(q) \in 1 .. Len(q)
    BY <1>1
  <2>2. PICK i \in 1 .. Len(p) : p[i].op = q[Len(q)].op
    BY <2>1 DEF SameMoves
  <2>3. QED BY <2>1, <2>2, <1>1, <1>4, <1>5
<1>7. Len(p) <= Len(q)
  <2>1. CASE Len(p) = 0
    BY <2>1, <1>1
  <2>2. CASE Len(p) # 0
    BY <2>2, <1>1, <1>5
  <2>3. QED BY <2>1, <2>2
<1>8. QED BY <1>1, <1>5, <1>6, <1>7

\* A tree is a function of the set of moves in its log: this is why replicas
\* that have integrated the same moves, in any order, hold the same tree.
LEMMA BuiltTreesAgree ==
  ASSUME NEW Entry, Stamped(Entry),
         NEW t, Built(t, Entry), Sorted(t.log),
         NEW u, Built(u, Entry), Sorted(u.log),
         LogOps(t) = LogOps(u)
  PROVE  t = u
<1>1. PICK st : BuildsUp(st, t, Entry)
  BY DEF Built
<1>2. PICK su : BuildsUp(su, u, Entry)
  BY DEF Built
<1>3. t.log \in Seq(Entry) /\ u.log \in Seq(Entry) /\ Len(t.log) \in Nat
  <2>1. t.log \in Seq(Entry) /\ u.log \in Seq(Entry)
    BY <1>1, <1>2 DEF BuildsUp, TreeOk
  <2>2. QED BY <2>1
<1>4. Len(t.log) = Len(u.log) /\ \A i \in 1 .. Len(t.log) : t.log[i].op = u.log[i].op
  <2> DEFINE p == t.log
             q == u.log
  <2>1. SameMoves(p, q)
    BY DEF LogOps, SameMoves
  <2>2. p \in Seq(Entry) /\ q \in Seq(Entry) /\ Sorted(p) /\ Sorted(q)
    BY <1>3
  <2> HIDE DEF p, q
  <2>3. Len(p) = Len(q) /\ \A i \in 1 .. Len(p) : p[i].op = q[i].op
    BY <2>1, <2>2, SortedLogsAgree
  <2>4. QED BY <2>3 DEF p, q
<1>5. \A i \in 0 .. Len(t.log) : st[i] = su[i]
  <2> DEFINE T == {i \in 0 .. Len(t.log) : st[i] # su[i]}
  <2> SUFFICES ASSUME T # {} PROVE FALSE
    OBVIOUS
  <2>1. T \in SUBSET Nat
    BY <1>3
  <2>2. PICK m \in T : \A k \in T : m <= k
    BY <2>1, LeastNat
  <2>3. m # 0
    BY <2>2, <1>1, <1>2 DEF BuildsUp
  <2>4. m \in 1 .. Len(t.log) /\ m - 1 \in 0 .. Len(t.log) /\ ~(m <= m - 1)
    BY <2>2, <2>3, <1>3
  <2>5. st[m - 1] = su[m - 1]
    BY <2>2, <2>4
  <2>6. st[m] = su[m]
    BY <2>4, <2>5, <1>1, <1>2, <1>4 DEF BuildsUp
  <2>7. QED BY <2>2, <2>6
<1>6. QED BY <1>1, <1>2, <1>3, <1>4, <1>5 DEF BuildsUp


-----------------------------------------------------------------------------
(* Finite sets *)

\* A function has finitely many values on a finite set.
LEMMA ImageFinite ==
  ASSUME NEW S, IsFiniteSet(S), NEW f
  PROVE  IsFiniteSet({f[x] : x \in S})
<1> DEFINE T == {f[x] : x \in S}
           g == [x \in S |-> f[x]]
<1>1. g \in Surjection(S, T)
  BY DEF Surjection
<1> HIDE DEF g, T
<1>2. IsFiniteSet(T)
  BY <1>1, FS_Surjection
<1>3. QED BY <1>2 DEF T

\* Finitely many finite sets have a finite union.
LEMMA UnionFinite ==
  ASSUME NEW S, IsFiniteSet(S), NEW f, \A x \in S : IsFiniteSet(f[x])
  PROVE  IsFiniteSet(UNION {f[x] : x \in S})
<1> DEFINE F(Q) == UNION {f[x] : x \in Q}
           T == {c \in Nat : \E Q \in SUBSET S : Cardinality(Q) = c /\ ~IsFiniteSet(F(Q))}
<1>1. \A Q \in SUBSET S : IsFiniteSet(Q) /\ Cardinality(Q) \in Nat
  BY FS_Subset, FS_CardinalityType
<1>2. ASSUME T # {} PROVE FALSE
  <2>1. PICK c \in T : \A d \in T : c <= d
    <3>1. T \in SUBSET Nat
      OBVIOUS
    <3>2. QED BY <1>2, <3>1, LeastNat
  <2>2. PICK Q \in SUBSET S : Cardinality(Q) = c /\ ~IsFiniteSet(F(Q))
    BY <2>1
  <2>3. Q # {}
    <3>1. F({}) = {}
      OBVIOUS
    <3>2. QED BY <2>2, <3>1, FS_EmptySet
  <2>4. PICK x \in Q : TRUE
    BY <2>3
  <2> DEFINE P == Q \ {x}
  <2>5. P \in SUBSET S /\ Cardinality(P) = c - 1 /\ c \in Nat /\ c - 1 \in Nat /\ ~(c <= c - 1)
    <3>1. Cardinality(P) = Cardinality(Q) - 1
      BY <1>1, <2>4, FS_RemoveElement
    <3>2. P \in SUBSET S /\ Cardinality(P) \in Nat
      BY <1>1
    <3>3. QED BY <2>1, <2>2, <3>1, <3>2
  <2>6. IsFiniteSet(F(P))
    BY <2>1, <2>5
  <2>7. F(Q) = F(P) \cup f[x]
    BY <2>4
  <2>8. IsFiniteSet(F(P) \cup f[x])
    <3>1. IsFiniteSet(f[x])
      BY <2>4
    <3> HIDE DEF F
    <3>2. QED BY <2>6, <3>1, FS_Union
  <2>9. QED BY <2>2, <2>7, <2>8
<1>3. ~(\E Q \in SUBSET S : ~IsFiniteSet(F(Q)))
  BY <1>1, <1>2
<1>4. QED BY <1>3

\* A finite set of numbers has a greatest.
LEMMA GreatestNat ==
  ASSUME NEW S \in SUBSET Nat, IsFiniteSet(S), S # {}
  PROVE  \E m \in S : \A k \in S : m >= k
<1> DEFINE Unbounded(Q) == Q # {} /\ ~ \E m \in Q : \A k \in Q : m >= k
           T == {c \in Nat : \E Q \in SUBSET S : Cardinality(Q) = c /\ Unbounded(Q)}
<1>1. \A Q \in SUBSET S : IsFiniteSet(Q) /\ Cardinality(Q) \in Nat
  BY FS_Subset, FS_CardinalityType
<1>2. ASSUME T # {} PROVE FALSE
  <2>1. PICK c \in T : \A d \in T : c <= d
    <3>1. T \in SUBSET Nat
      OBVIOUS
    <3>2. QED BY <1>2, <3>1, LeastNat
  <2>2. PICK Q \in SUBSET S : Cardinality(Q) = c /\ Unbounded(Q)
    BY <2>1
  <2>3. PICK x \in Q : TRUE
    BY <2>2
  <2> DEFINE P == Q \ {x}
  <2>4. P \in SUBSET S /\ Cardinality(P) = c - 1 /\ c \in Nat /\ c - 1 \in Nat /\ ~(c <= c - 1)
    <3>1. Cardinality(P) = Cardinality(Q) - 1
      BY <1>1, <2>3, FS_RemoveElement
    <3>2. P \in SUBSET S /\ Cardinality(P) \in Nat
      BY <1>1
    <3>3. QED BY <2>1, <2>2, <3>1, <3>2
  <2>5. ~Unbounded(P)
    BY <2>1, <2>4
  <2>6. CASE P = {}
    <3>1. \A k \in Q : k = x
      BY <2>6
    <3>2. x \in Nat
      BY <2>3
    <3>3. QED BY <2>2, <2>3, <3>1, <3>2
  <2>7. CASE P # {}
    <3>1. PICK m \in P : \A k \in P : m >= k
      BY <2>5, <2>7
    <3>2. m \in Q /\ m \in Nat /\ x \in Nat /\ \A k \in Q : k \in Nat /\ (k = x \/ k \in P)
      BY <2>3
    <3>3. CASE m >= x
      BY <2>2, <3>1, <3>2, <3>3
    <3>4. CASE ~(m >= x)
      <4>1. \A k \in Q : x >= k
        BY <3>1, <3>2, <3>4
      <4>2. QED BY <2>2, <2>3, <4>1
    <3>5. QED BY <3>3, <3>4
  <2>8. QED BY <2>6, <2>7
<1>3. ~(\E Q \in SUBSET S : Unbounded(Q))
  BY <1>1, <1>2
<1>4. QED BY <1>3

-----------------------------------------------------------------------------
(* Trees as integrate leaves them *)

\* Moves that carry a timestamp of numbers, and whose edges are not the absent edge.
MovesOk(Ops) ==
    \A o \in Ops : /\ o.ts = [lamport |-> o.ts.lamport, replica |-> o.ts.replica]
                   /\ o.ts.lamport \in Nat /\ o.ts.replica \in Nat
                   /\ NewEdge(o) # Nil

\* The log entries that such moves can have.
LogEntries(Ops) == [op : Ops, old : {NewEdge(o) : o \in Ops} \cup {Nil}]

\* A tree as integrate leaves it: built from its log, which is in timestamp order.
Replayed(t, Ops) == Built(t, LogEntries(Ops)) /\ Sorted(t.log)

LEMMA EntriesStamped == ASSUME NEW Ops, MovesOk(Ops) PROVE Stamped(LogEntries(Ops))
BY DEF MovesOk, LogEntries, Stamped

\* Timestamps of moves are totally ordered.
LEMMA TsTotal ==
  ASSUME NEW Ops, MovesOk(Ops), NEW o \in Ops, NEW p \in Ops
  PROVE  /\ TsLess(o.ts, p.ts) \/ o.ts = p.ts \/ TsLess(p.ts, o.ts)
         /\ ~TsLess(o.ts, o.ts)
         /\ ~(TsLess(o.ts, p.ts) /\ TsLess(p.ts, o.ts))
         /\ \A q \in Ops : TsLess(o.ts, p.ts) /\ TsLess(p.ts, q.ts) => TsLess(o.ts, q.ts)
<1>1. \A q \in Ops : q.ts.lamport \in Nat /\ q.ts.replica \in Nat
  BY DEF MovesOk
<1>2. o.ts.lamport = p.ts.lamport /\ o.ts.replica = p.ts.replica => o.ts = p.ts
  BY DEF MovesOk
<1>3. QED BY <1>1, <1>2 DEF TsLess

\* The log of a built tree is a sequence of entries, and its moves are of Ops.
LEMMA BuiltLog ==
  ASSUME NEW Ops, NEW t, Built(t, LogEntries(Ops))
  PROVE  /\ t.log \in Seq(LogEntries(Ops)) /\ Len(t.log) \in Nat
         /\ \A i \in 1 .. Len(t.log) : t.log[i] \in LogEntries(Ops) /\ t.log[i].op \in Ops
         /\ LogOps(t) \subseteq Ops
<1>1. t.log \in Seq(LogEntries(Ops))
  BY DEF Built, BuildsUp, TreeOk
<1>2. \A x \in LogEntries(Ops) : x.op \in Ops
  BY DEF LogEntries
<1>3. Len(t.log) \in Nat /\ \A i \in 1 .. Len(t.log) : t.log[i] \in LogEntries(Ops)
  BY <1>1
<1>4. QED BY <1>1, <1>2, <1>3 DEF LogOps

\* What a tree says of a node, its parent, its name and its kind, is what some
\* move of the log made of it.
LEMMA EdgesOfMoves ==
  ASSUME NEW Ops, NEW t, Built(t, LogEntries(Ops)), NEW n \in DOMAIN t.edges
  PROVE  \E i \in 1 .. Len(t.log) : /\ t.log[i].op.child = n
                                    /\ t.edges[n] = NewEdge(t.log[i].op)
<1> DEFINE log == t.log
           From(e, k) == \A m \in DOMAIN e : \E i \in 1 .. k :
                             log[i].op.child = m /\ e[m] = NewEdge(log[i].op)
<1>1. PICK st : BuildsUp(st, t, LogEntries(Ops))
  BY DEF Built
<1>2. Len(log) \in Nat
  BY BuiltLog
<1>3. \A k \in 0 .. Len(log) : From(st[k].edges, k)
  <2> DEFINE T == {k \in 0 .. Len(log) : ~From(st[k].edges, k)}
  <2> SUFFICES ASSUME T # {} PROVE FALSE
    OBVIOUS
  <2>1. T \in SUBSET Nat
    BY <1>2
  <2>2. PICK k \in T : \A j \in T : k <= j
    BY <2>1, LeastNat
  <2>3. k # 0
    <3>1. st[0] = EmptyTree
      BY <1>1 DEF BuildsUp
    <3>2. DOMAIN EmptyTree.edges = {}
      BY DEF EmptyTree
    <3>3. From(st[0].edges, 0)
      BY <3>1, <3>2
    <3>4. QED BY <3>3, <2>2
  <2>4. k \in 1 .. Len(log) /\ k - 1 \in 0 .. Len(log) /\ ~(k <= k - 1)
    BY <2>2, <2>3, <1>2
  <2>5. From(st[k - 1].edges, k - 1)
    BY <2>2, <2>4
  <2> DEFINE u == st[k - 1]
             op == log[k].op
  <2>6. st[k] = PushMove(u, op) /\ NewEdge(op) # Nil
    BY <2>4, <1>1 DEF BuildsUp
  <2>7. \/ st[k].edges = u.edges
        \/ st[k].edges = PutEdge(u.edges, op.child, NewEdge(op))
    BY <2>6 DEF PushMove, WithLog, DoMove, SetEdge
  <2>8. 1 .. k - 1 \subseteq 1 .. k /\ k \in 1 .. k
    BY <2>4
  <2>9. From(st[k].edges, k)
    <3>1. CASE st[k].edges = u.edges
      BY <3>1, <2>5, <2>8
    <3>2. CASE st[k].edges = PutEdge(u.edges, op.child, NewEdge(op))
      <4> SUFFICES ASSUME NEW m \in DOMAIN st[k].edges
                   PROVE  \E i \in 1 .. k : /\ log[i].op.child = m
                                            /\ st[k].edges[m] = NewEdge(log[i].op)
        OBVIOUS
      <4>1. CASE m = op.child
        <5>1. st[k].edges[m] = NewEdge(op)
          BY <3>2, <4>1 DEF PutEdge
        <5>2. QED BY <5>1, <4>1, <2>8
      <4>2. CASE m # op.child
        <5>1. m \in DOMAIN u.edges /\ st[k].edges[m] = u.edges[m]
          BY <3>2, <4>2 DEF PutEdge
        <5>2. QED BY <5>1, <2>5, <2>8
      <4>3. QED BY <4>1, <4>2
    <3>3. QED BY <3>1, <3>2, <2>7
  <2>10. QED BY <2>2, <2>9
<1>4. st[Len(log)] = t
  BY <1>1 DEF BuildsUp
<1>5. From(t.edges, Len(log))
  BY <1>2, <1>3, <1>4
<1>6. QED BY <1>5

\* The entry that a move gets in the log is one of the entries.
LEMMA EntryOfMove ==
  ASSUME NEW Ops, NEW t, Built(t, LogEntries(Ops)), NEW op \in Ops
  PROVE  [op |-> op, old |-> EdgeOf(t.edges, op.child)] \in LogEntries(Ops)
<1> DEFINE Olds == {NewEdge(o) : o \in Ops} \cup {Nil}
<1>1. EdgeOf(t.edges, op.child) \in Olds
  <2>1. CASE op.child \in DOMAIN t.edges
    <3>1. PICK i \in 1 .. Len(t.log) : t.edges[op.child] = NewEdge(t.log[i].op)
      BY <2>1, EdgesOfMoves
    <3>2. t.log[i].op \in Ops
      BY <3>1, BuiltLog
    <3>3. QED BY <2>1, <3>1, <3>2 DEF EdgeOf
  <2>2. CASE op.child \notin DOMAIN t.edges
    BY <2>2 DEF EdgeOf
  <2>3. QED BY <2>1, <2>2
<1> HIDE DEF Olds
<1>2. [op |-> op, old |-> EdgeOf(t.edges, op.child)] \in [op : Ops, old : Olds]
  BY <1>1
<1>3. QED BY <1>2 DEF LogEntries, Olds

\* op is later than the whole log of t.
LaterThan(t, op) == \A i \in 1 .. Len(t.log) : TsLess(t.log[i].op.ts, op.ts)

\* The log of u is that of t and an entry for op.
LogGains(u, t, op) ==
    /\ Len(u.log) = Len(t.log) + 1
    /\ u.log[Len(t.log) + 1].op = op
    /\ \A i \in 1 .. Len(t.log) : u.log[i] = t.log[i]

\* Pushing a move that is later than the whole log.
LEMMA PushLater ==
  ASSUME NEW Ops, MovesOk(Ops), NEW t, Replayed(t, Ops), NEW op \in Ops, LaterThan(t, op)
  PROVE  Replayed(PushMove(t, op), Ops) /\ LogGains(PushMove(t, op), t, op)
<1> DEFINE u == PushMove(t, op)
           n == Len(t.log)
           entry == [op |-> op, old |-> EdgeOf(t.edges, op.child)]
<1>1. entry \in LogEntries(Ops) /\ NewEdge(op) # Nil /\ entry.op = op
  BY EntryOfMove DEF MovesOk, Replayed
<1>2. Built(u, LogEntries(Ops))
  BY <1>1, PushKeepsBuilt DEF Replayed
<1>3. u.log = Append(t.log, entry)
  BY DEF PushMove, WithLog
<1>4. t.log \in Seq(LogEntries(Ops)) /\ n \in Nat
  BY BuiltLog DEF Replayed
<1> HIDE DEF u, entry
<1>5. /\ Len(u.log) = n + 1
      /\ u.log[n + 1].op = op
      /\ \A i \in 1 .. n : u.log[i] = t.log[i]
  BY <1>1, <1>3, <1>4
<1>6. Sorted(u.log)
  <2> SUFFICES ASSUME NEW i \in 1 .. Len(u.log), NEW j \in 1 .. Len(u.log), i < j
               PROVE  TsLess(u.log[i].op.ts, u.log[j].op.ts)
    BY DEF Sorted
  <2>1. i \in 1 .. n /\ (j = n + 1 \/ j \in 1 .. n)
    BY <1>4, <1>5
  <2>2. QED BY <2>1, <1>5 DEF Replayed, Sorted, LaterThan
<1>7. QED BY <1>2, <1>5, <1>6 DEF Replayed, LogGains, u

-----------------------------------------------------------------------------
(* The loops of integrate and from_state are recursive functions; each is well *)
(* defined for every number of rounds.                                        *)

IsUndone(f, t, n) ==
    f = [i \in 0 .. n |-> IF i = 0 THEN t ELSE PopMove(f[i - 1])]

IsRedone(f, u, op, tail, n) ==
    f = [i \in 0 .. n |-> IF i = 0 THEN PushMove(u, op) ELSE PushMove(f[i - 1], tail[i].op)]

IsReplay(f, ops, n) ==
    f = [i \in 0 .. n |-> IF i = 0 THEN EmptyTree ELSE Integrate(f[i - 1], ops[i])]

LEMMA UndoneExists ==
  ASSUME NEW t, NEW n \in Nat
  PROVE  \E f : IsUndone(f, t, n)
<1> DEFINE T == {l \in Nat : ~ \E f : IsUndone(f, t, l)}
<1> SUFFICES ASSUME T # {} PROVE FALSE
  OBVIOUS
<1>1. PICK m \in T : \A k \in T : m <= k
  BY LeastNat
<1>2. m # 0
  <2>1. IsUndone([i \in 0 .. 0 |-> t], t, 0)
    BY DEF IsUndone
  <2>2. QED BY <2>1
<1>3. m \in Nat /\ m - 1 \in Nat /\ 0 .. m - 1 \subseteq 0 .. m /\ ~(m <= m - 1)
  BY <1>2
<1>4. PICK f : IsUndone(f, t, m - 1)
  BY <1>1, <1>3
<1> DEFINE g == [i \in 0 .. m |-> IF i = m THEN PopMove(f[m - 1]) ELSE f[i]]
<1>5. \A i \in 0 .. m - 1 : f[i] = IF i = 0 THEN t ELSE PopMove(f[i - 1])
  BY <1>4 DEF IsUndone
<1>6. \A i \in 0 .. m : g[i] = IF i = 0 THEN t ELSE PopMove(g[i - 1])
  BY <1>2, <1>3, <1>5
<1>7. IsUndone(g, t, m)
  <2> HIDE DEF g
  <2>1. g = [i \in 0 .. m |-> g[i]]
    BY DEF g
  <2>2. QED BY <1>6, <2>1 DEF IsUndone
<1>8. QED BY <1>1, <1>7

LEMMA RedoneExists ==
  ASSUME NEW u, NEW op, NEW tail, NEW n \in Nat
  PROVE  \E f : IsRedone(f, u, op, tail, n)
<1> DEFINE T == {l \in Nat : ~ \E f : IsRedone(f, u, op, tail, l)}
<1> SUFFICES ASSUME T # {} PROVE FALSE
  OBVIOUS
<1>1. PICK m \in T : \A k \in T : m <= k
  BY LeastNat
<1>2. m # 0
  <2>1. IsRedone([i \in 0 .. 0 |-> PushMove(u, op)], u, op, tail, 0)
    BY DEF IsRedone
  <2>2. QED BY <2>1
<1>3. m \in Nat /\ m - 1 \in Nat /\ 0 .. m - 1 \subseteq 0 .. m /\ ~(m <= m - 1)
  BY <1>2
<1>4. PICK f : IsRedone(f, u, op, tail, m - 1)
  BY <1>1, <1>3
<1> DEFINE g == [i \in 0 .. m |-> IF i = m THEN PushMove(f[m - 1], tail[m].op) ELSE f[i]]
<1>5. \A i \in 0 .. m - 1 : f[i] = IF i = 0 THEN PushMove(u, op)
                                   ELSE PushMove(f[i - 1], tail[i].op)
  BY <1>4 DEF IsRedone
<1>6. \A i \in 0 .. m : g[i] = IF i = 0 THEN PushMove(u, op)
                               ELSE PushMove(g[i - 1], tail[i].op)
  BY <1>2, <1>3, <1>5
<1>7. IsRedone(g, u, op, tail, m)
  <2> HIDE DEF g
  <2>1. g = [i \in 0 .. m |-> g[i]]
    BY DEF g
  <2>2. QED BY <1>6, <2>1 DEF IsRedone
<1>8. QED BY <1>1, <1>7

LEMMA ReplayExists ==
  ASSUME NEW ops, NEW n \in Nat
  PROVE  \E f : IsReplay(f, ops, n)
<1> DEFINE T == {l \in Nat : ~ \E f : IsReplay(f, ops, l)}
<1> SUFFICES ASSUME T # {} PROVE FALSE
  OBVIOUS
<1>1. PICK m \in T : \A k \in T : m <= k
  BY LeastNat
<1>2. m # 0
  <2>1. IsReplay([i \in 0 .. 0 |-> EmptyTree], ops, 0)
    BY DEF IsReplay
  <2>2. QED BY <2>1
<1>3. m \in Nat /\ m - 1 \in Nat /\ 0 .. m - 1 \subseteq 0 .. m /\ ~(m <= m - 1)
  BY <1>2
<1>4. PICK f : IsReplay(f, ops, m - 1)
  BY <1>1, <1>3
<1> DEFINE g == [i \in 0 .. m |-> IF i = m THEN Integrate(f[m - 1], ops[m]) ELSE f[i]]
<1>5. \A i \in 0 .. m - 1 : f[i] = IF i = 0 THEN EmptyTree ELSE Integrate(f[i - 1], ops[i])
  BY <1>4 DEF IsReplay
<1>6. \A i \in 0 .. m : g[i] = IF i = 0 THEN EmptyTree ELSE Integrate(g[i - 1], ops[i])
  BY <1>2, <1>3, <1>5
<1>7. IsReplay(g, ops, m)
  <2> HIDE DEF g
  <2>1. g = [i \in 0 .. m |-> g[i]]
    BY DEF g
  <2>2. QED BY <1>6, <2>1 DEF IsReplay
<1>8. QED BY <1>1, <1>7

-----------------------------------------------------------------------------
(* integrate *)

\* The entries that integrate undoes are the last ones of the log.
LEMMA LaterIsTail ==
  ASSUME NEW Ops, MovesOk(Ops), NEW t, Replayed(t, Ops), NEW op \in Ops
  PROVE  LET L     == Len(t.log)
             later == {i \in 1 .. L : TsLess(op.ts, t.log[i].op.ts)}
             n     == Cardinality(later)
         IN  n \in 0 .. L /\ later = L - n + 1 .. L
<1> DEFINE L     == Len(t.log)
           later == {i \in 1 .. L : TsLess(op.ts, t.log[i].op.ts)}
           n     == Cardinality(later)
<1>1. L \in Nat /\ \A i \in 1 .. L : t.log[i].op \in Ops
  BY BuiltLog DEF Replayed
<1>2. CASE later = {}
  <2>1. n = 0
    BY <1>2, FS_EmptySet
  <2> HIDE DEF n
  <2>2. n \in 0 .. L /\ L - n + 1 .. L = {}
    BY <1>1, <2>1
  <2>3. QED BY <1>2, <2>2 DEF n
<1>3. CASE later # {}
  <2>1. PICK m \in later : \A k \in later : m <= k
    <3>1. later \in SUBSET Nat
      BY <1>1
    <3>2. QED BY <1>3, <3>1, LeastNat
  <2>2. m \in 1 .. L /\ TsLess(op.ts, t.log[m].op.ts)
    BY <2>1
  <2>3. ASSUME NEW i \in m .. L
        PROVE  i \in later
    <3>1. i \in 1 .. L /\ (i = m \/ m < i)
      BY <1>1, <2>2
    <3>2. CASE i = m
      BY <3>2, <2>1
    <3>3. CASE m < i
      <4>1. TsLess(t.log[m].op.ts, t.log[i].op.ts)
        BY <2>2, <3>1, <3>3 DEF Replayed, Sorted
      <4>2. t.log[m].op \in Ops /\ t.log[i].op \in Ops
        BY <1>1, <2>2, <3>1
      <4>3. TsLess(op.ts, t.log[i].op.ts)
        BY <2>2, <4>1, <4>2, TsTotal
      <4>4. QED BY <3>1, <4>3
    <3>4. QED BY <3>1, <3>2, <3>3
  <2>4. later = m .. L
    <3>1. later \subseteq m .. L
      BY <1>1, <2>1
    <3>2. QED BY <2>3, <3>1
  <2>5. n = L - m + 1
    <3>1. m \in Int /\ L \in Int /\ m <= L
      BY <1>1, <2>2
    <3>2. Cardinality(m .. L) = L - m + 1
      BY <3>1, FS_Interval
    <3>3. QED BY <2>4, <3>2
  <2> HIDE DEF n
  <2>6. n \in 0 .. L /\ L - n + 1 = m
    BY <1>1, <2>2, <2>5
  <2>7. QED BY <2>4, <2>6 DEF n
<1>4. QED BY <1>2, <1>3

\* What is left when the last i entries of the log are undone.
LEMMA UndoneTrees ==
  ASSUME NEW Ops, NEW t, Replayed(t, Ops), NEW n \in 0 .. Len(t.log),
         NEW f, IsUndone(f, t, n), NEW i \in 0 .. n
  PROVE  /\ Replayed(f[i], Ops)
         /\ Len(f[i].log) = Len(t.log) - i
         /\ \A j \in 1 .. Len(t.log) - i : f[i].log[j] = t.log[j]
<1> DEFINE L == Len(t.log)
           Good(k) == /\ Replayed(f[k], Ops)
                      /\ Len(f[k].log) = L - k
                      /\ \A j \in 1 .. L - k : f[k].log[j] = t.log[j]
           T == {k \in 0 .. n : ~Good(k)}
<1> SUFFICES ASSUME T # {} PROVE FALSE
  OBVIOUS
<1>1. L \in Nat
  BY BuiltLog DEF Replayed
<1>2. PICK k \in T : \A j \in T : k <= j
  <2>1. T \in SUBSET Nat
    BY <1>1
  <2>2. QED BY <2>1, LeastNat
<1>3. \A j \in 0 .. n : f[j] = IF j = 0 THEN t ELSE PopMove(f[j - 1])
  BY DEF IsUndone
<1>4. k # 0
  <2>1. f[0] = t
    BY <1>1, <1>3
  <2>2. Good(0)
    BY <1>1, <2>1
  <2>3. QED BY <1>2, <2>2
<1>5. k \in 1 .. n /\ k - 1 \in 0 .. n /\ ~(k <= k - 1) /\ k <= L
  BY <1>1, <1>2, <1>4
<1>6. Good(k - 1)
  BY <1>2, <1>5
<1> DEFINE u == f[k - 1]
<1>7. Built(u, LogEntries(Ops)) /\ Sorted(u.log) /\ Len(u.log) = L - (k - 1)
  BY <1>6 DEF Replayed
<1>8. u.log # <<>>
  BY <1>1, <1>5, <1>7
<1>9. /\ Built(PopMove(u), LogEntries(Ops))
      /\ Len(PopMove(u).log) = Len(u.log) - 1
      /\ \A j \in 1 .. Len(u.log) - 1 : PopMove(u).log[j] = u.log[j]
  BY <1>7, <1>8, PopKeepsBuilt
<1>10. f[k] = PopMove(u)
  BY <1>3, <1>5
<1> HIDE DEF u
<1>11. Len(f[k].log) = L - k /\ 1 .. L - k \subseteq 1 .. Len(u.log) /\ Len(u.log) - 1 = L - k
  <2> HIDE DEF L
  <2>1. k \in Nat /\ L - (k - 1) - 1 = L - k /\ L - k <= L - (k - 1)
    BY <1>1, <1>5
  <2>2. QED BY <1>1, <1>7, <1>9, <1>10, <2>1
<1>12. Sorted(f[k].log)
  BY <1>7, <1>9, <1>10, <1>11 DEF Sorted
<1>13. \A j \in 1 .. L - k : f[k].log[j] = t.log[j]
  BY <1>6, <1>9, <1>10, <1>11 DEF u
<1>14. Good(k)
  BY <1>9, <1>10, <1>11, <1>12, <1>13 DEF Replayed
<1>15. QED BY <1>2, <1>14

\* op belongs after the first p of the p + n entries of t's log.
Divides(t, op, p, n) ==
    /\ Len(t.log) = p + n
    /\ \A j \in 1 .. p : TsLess(t.log[j].op.ts, op.ts)
    /\ \A j \in p + 1 .. p + n : TsLess(op.ts, t.log[j].op.ts)

\* The log of u is the first p entries of t's.
LogIsPrefix(u, t, p) == Len(u.log) = p /\ \A j \in 1 .. p : u.log[j] = t.log[j]

\* The n entries of t's log that follow the first p.
LogIsTail(tail, t, p, n) == \A j \in 1 .. n : tail[j] = t.log[p + j]

\* The log of u is p moves of t's, then op, then i further moves of t's.
LogInserts(u, t, op, p, i) ==
    /\ Len(u.log) = p + 1 + i
    /\ \A j \in 1 .. p : u.log[j].op = t.log[j].op
    /\ u.log[p + 1].op = op
    /\ \A j \in 1 .. i : u.log[p + 1 + j].op = t.log[p + j].op

\* The new move is done on what was left, u, and i of the n undone moves are
\* redone after it: the log holds the moves in timestamp order again.
LEMMA RedoneTrees ==
  ASSUME NEW Ops, MovesOk(Ops), NEW t, Replayed(t, Ops), NEW op \in Ops,
         NEW p \in Nat, NEW n \in Nat, Divides(t, op, p, n),
         NEW u, Replayed(u, Ops), LogIsPrefix(u, t, p),
         NEW tail, LogIsTail(tail, t, p, n),
         NEW g, IsRedone(g, u, op, tail, n), NEW i \in 0 .. n
  PROVE  Replayed(g[i], Ops) /\ LogInserts(g[i], t, op, p, i)
<1> USE DEF Divides, LogIsPrefix, LogIsTail, LogInserts
<1> DEFINE Good(k) == /\ Replayed(g[k], Ops)
                      /\ Len(g[k].log) = p + 1 + k
                      /\ \A j \in 1 .. p : g[k].log[j].op = t.log[j].op
                      /\ g[k].log[p + 1].op = op
                      /\ \A j \in 1 .. k : g[k].log[p + 1 + j].op = t.log[p + j].op
           T == {k \in 0 .. n : ~Good(k)}
<1> SUFFICES ASSUME T # {} PROVE FALSE
  OBVIOUS
<1>1. PICK k \in T : \A j \in T : k <= j
  <2>1. T \in SUBSET Nat
    OBVIOUS
  <2>2. QED BY <2>1, LeastNat
<1>2. \A j \in 0 .. n : g[j] = IF j = 0 THEN PushMove(u, op)
                               ELSE PushMove(g[j - 1], tail[j].op)
  BY DEF IsRedone
<1>3. k # 0
  <2>1. g[0] = PushMove(u, op)
    <3>1. 0 \in 0 .. n
      OBVIOUS
    <3>2. QED BY <1>2, <3>1
  <2>2. LaterThan(u, op)
    <3>1. \A j \in 1 .. p : u.log[j] = t.log[j] /\ TsLess(t.log[j].op.ts, op.ts)
      OBVIOUS
    <3>2. Len(u.log) = p
      OBVIOUS
    <3>3. QED BY <3>1, <3>2 DEF LaterThan
  <2>3. Replayed(PushMove(u, op), Ops) /\ LogGains(PushMove(u, op), u, op)
    BY <2>2, PushLater
  <2>4. /\ Replayed(g[0], Ops)
        /\ Len(g[0].log) = p + 1
        /\ g[0].log[p + 1].op = op
        /\ \A j \in 1 .. p : g[0].log[j].op = t.log[j].op
    BY <2>1, <2>3 DEF LogGains
  <2>5. p + 1 + 0 = p + 1 /\ 1 .. 0 = {}
    OBVIOUS
  <2>6. Good(0)
    BY <2>4, <2>5
  <2>7. QED BY <1>1, <2>6
<1>4. k \in 1 .. n /\ k - 1 \in 0 .. n /\ ~(k <= k - 1)
  BY <1>1, <1>3
<1>5. Good(k - 1)
  BY <1>1, <1>4
<1> DEFINE w == g[k - 1]
           x == t.log[p + k].op
<1>6. p + k \in 1 .. Len(t.log) /\ p + k \in p + 1 .. p + n /\ x \in Ops
  <2>1. p + k \in 1 .. p + n /\ p + k \in p + 1 .. p + n
    BY <1>4
  <2>2. \A j \in 1 .. Len(t.log) : t.log[j].op \in Ops
    BY BuiltLog DEF Replayed
  <2>3. QED BY <2>1, <2>2
<1>7. ASSUME NEW j \in 1 .. Len(w.log)
      PROVE  TsLess(w.log[j].op.ts, x.ts)
  <2>1. Len(w.log) = p + k
    BY <1>4, <1>5
  <2>2. CASE j \in 1 .. p
    <3>1. w.log[j].op = t.log[j].op
      BY <1>5, <2>2
    <3>2. j \in 1 .. Len(t.log) /\ j < p + k
      BY <1>4, <2>2
    <3>3. TsLess(t.log[j].op.ts, t.log[p + k].op.ts)
      BY <1>6, <3>2 DEF Replayed, Sorted
    <3>4. QED BY <3>1, <3>3
  <2>3. CASE j = p + 1
    <3>1. w.log[j].op = op
      BY <1>5, <2>3
    <3>2. TsLess(op.ts, t.log[p + k].op.ts)
      BY <1>6
    <3>3. QED BY <3>1, <3>2
  <2>4. CASE j \in p + 2 .. p + k
    <3> DEFINE h == j - (p + 1)
    <3>1. h \in 1 .. k - 1 /\ j = p + 1 + h /\ p + h \in 1 .. Len(t.log) /\ p + h < p + k
      BY <1>4, <2>4
    <3> HIDE DEF h
    <3>2. w.log[j].op = t.log[p + h].op
      BY <1>5, <3>1
    <3>3. TsLess(t.log[p + h].op.ts, t.log[p + k].op.ts)
      BY <1>6, <3>1 DEF Replayed, Sorted
    <3>4. QED BY <3>2, <3>3
  <2>5. j \in 1 .. p \/ j = p + 1 \/ j \in p + 2 .. p + k
    BY <1>4, <2>1
  <2>6. QED BY <2>2, <2>3, <2>4, <2>5
<1>8. g[k] = PushMove(w, x)
  <2>1. tail[k].op = x
    BY <1>4
  <2>2. k \in 0 .. n /\ k # 0
    BY <1>3, <1>4
  <2>3. g[k] = PushMove(g[k - 1], tail[k].op)
    BY <1>2, <2>2
  <2> HIDE DEF x
  <2>4. QED BY <2>1, <2>3
<1>9. Replayed(w, Ops) /\ Len(w.log) = p + k
  BY <1>4, <1>5
<1> HIDE DEF w, x
<1>10. /\ Replayed(g[k], Ops)
       /\ Len(g[k].log) = p + k + 1
       /\ g[k].log[p + k + 1].op = x
       /\ \A j \in 1 .. p + k : g[k].log[j] = w.log[j]
  <2>1. LaterThan(w, x) /\ x \in Ops
    BY <1>6, <1>7 DEF LaterThan
  <2>2. Replayed(PushMove(w, x), Ops) /\ LogGains(PushMove(w, x), w, x)
    BY <1>9, <2>1, PushLater
  <2>3. QED BY <1>8, <1>9, <2>2 DEF LogGains
<1>11. \A j \in 1 .. p : g[k].log[j].op = t.log[j].op
  <2>1. 1 .. p \subseteq 1 .. p + k
    BY <1>4
  <2>2. \A j \in 1 .. p : w.log[j].op = t.log[j].op
    BY <1>5 DEF w
  <2>3. QED BY <1>10, <2>1, <2>2
<1>12. g[k].log[p + 1].op = op
  <2>1. p + 1 \in 1 .. p + k
    BY <1>4
  <2>2. QED BY <1>5, <1>10, <2>1 DEF w
<1>13. ASSUME NEW j \in 1 .. k
       PROVE  g[k].log[p + 1 + j].op = t.log[p + j].op
  <2>1. CASE j = k
    <3>1. p + 1 + j = p + k + 1
      BY <2>1
    <3>2. QED BY <1>10, <2>1, <3>1 DEF x
  <2>2. CASE j # k
    <3>1. j \in 1 .. k - 1 /\ p + 1 + j \in 1 .. p + k
      BY <1>4, <2>2
    <3>2. QED BY <1>5, <1>10, <3>1 DEF w
  <2>3. QED BY <2>1, <2>2
<1>14. Len(g[k].log) = p + 1 + k
  BY <1>4, <1>10
<1>15. Good(k)
  BY <1>10, <1>11, <1>12, <1>13, <1>14
<1>16. QED BY <1>1, <1>15

\* integrate, wherever the move belongs: a tree that was built from its sorted log
\* is afterwards built from its sorted log, which has gained the move, unless a move
\* of that timestamp was there.
LEMMA IntegrateReplayed ==
  ASSUME NEW Ops, MovesOk(Ops), NEW t, Replayed(t, Ops), NEW op \in Ops
  PROVE  LET u == Integrate(t, op) IN
         /\ Replayed(u, Ops)
         /\ HasTs(t, op.ts) => u = t
         /\ ~HasTs(t, op.ts) => LogOps(u) = LogOps(t) \cup {op}
<1> DEFINE L     == Len(t.log)
           later == {i \in 1 .. L : TsLess(op.ts, t.log[i].op.ts)}
           n     == Cardinality(later)
           tail  == SubSeq(t.log, L - n + 1, L)
           f     == CHOOSE h : IsUndone(h, t, n)
           g     == CHOOSE h : IsRedone(h, f[n], op, tail, n)
           p     == L - n
<1>1. Integrate(t, op) = IF HasTs(t, op.ts) THEN t ELSE g[n]
  BY DEF Integrate, IsUndone, IsRedone
<1>2. L \in Nat /\ n \in 0 .. L /\ later = L - n + 1 .. L
  BY BuiltLog, LaterIsTail DEF Replayed
<1>3. \A j \in 1 .. L : j \in later <=> TsLess(op.ts, t.log[j].op.ts)
  OBVIOUS
<1>4. t.log \in Seq(LogEntries(Ops)) /\ \A j \in 1 .. L : t.log[j].op \in Ops
  BY BuiltLog DEF Replayed
<1>5. SUFFICES ASSUME ~HasTs(t, op.ts)
               PROVE  /\ Replayed(g[n], Ops)
                      /\ LogOps(g[n]) = LogOps(t) \cup {op}
  BY <1>1
<1> HIDE DEF n
<1>6. IsUndone(f, t, n) /\ IsRedone(g, f[n], op, tail, n)
  <2>1. n \in Nat
    BY <1>2
  <2>2. IsUndone(f, t, n)
    BY <2>1, UndoneExists
  <2> HIDE DEF f, tail
  <2>3. QED BY <2>1, <2>2, RedoneExists
<1> HIDE DEF f, g
<1>7. /\ Replayed(f[n], Ops)
      /\ Len(f[n].log) = p
      /\ \A j \in 1 .. p : f[n].log[j] = t.log[j]
  <2>1. n \in 0 .. n /\ n \in 0 .. Len(t.log)
    BY <1>2
  <2>2. QED BY <1>6, <2>1, UndoneTrees
<1>8. p \in Nat /\ n \in Nat /\ L = p + n /\ L - n + 1 = p + 1
  BY <1>2
<1>9. \A j \in 1 .. n : tail[j] = t.log[p + j]
  <2> HIDE DEF L
  <2>1. \A j \in 1 .. n : (p + 1) + j - 1 = p + j
    BY <1>8
  <2>2. p + 1 \in 1 .. L + 1 /\ L - (p + 1) + 1 = n
    BY <1>8
  <2> DEFINE q == t.log
  <2>3. q \in Seq(LogEntries(Ops)) /\ L = Len(q)
    BY <1>4 DEF L
  <2> HIDE DEF q
  <2>4. SubSeq(q, p + 1, L) = [j \in 1 .. L - (p + 1) + 1 |-> q[(p + 1) + j - 1]]
    BY <1>8, <2>3
  <2>5. tail = SubSeq(q, p + 1, L)
    BY <1>8 DEF q
  <2> HIDE DEF tail, p, L
  <2>6. \A j \in 1 .. n : tail[j] = q[p + j]
    BY <2>1, <2>2, <2>4, <2>5
  <2>7. QED BY <2>6 DEF q
<1>10. \A j \in p + 1 .. p + n : TsLess(op.ts, t.log[j].op.ts)
  BY <1>2, <1>3, <1>8
<1>11. \A j \in 1 .. p : TsLess(t.log[j].op.ts, op.ts)
  <2> SUFFICES ASSUME NEW j \in 1 .. p
               PROVE  TsLess(t.log[j].op.ts, op.ts)
    OBVIOUS
  <2>1. j \in 1 .. L /\ j \notin L - n + 1 .. L
    BY <1>8
  <2>2. ~TsLess(op.ts, t.log[j].op.ts)
    BY <1>2, <1>3, <2>1
  <2>3. t.log[j].op.ts # op.ts
    BY <1>5, <2>1 DEF HasTs
  <2>4. QED BY <1>4, <2>1, <2>2, <2>3, TsTotal
<1> HIDE DEF L, later, tail, p
<1>12. /\ Replayed(g[n], Ops)
       /\ Len(g[n].log) = p + 1 + n
       /\ \A j \in 1 .. p : g[n].log[j].op = t.log[j].op
       /\ g[n].log[p + 1].op = op
       /\ \A j \in 1 .. n : g[n].log[p + 1 + j].op = t.log[p + j].op
  <2>1. Len(t.log) = p + n /\ n \in 0 .. n
    BY <1>8 DEF L
  <2>2. \A j \in 1 .. p : TsLess(t.log[j].op.ts, op.ts)
    BY <1>11
  <2>3. Divides(t, op, p, n)
    BY <1>10, <2>1, <2>2 DEF Divides
  <2>4. LogIsPrefix(f[n], t, p)
    BY <1>7 DEF LogIsPrefix
  <2>5. LogIsTail(tail, t, p, n)
    BY <1>9 DEF LogIsTail
  <2>6. Replayed(g[n], Ops) /\ LogInserts(g[n], t, op, p, n)
    BY <1>6, <1>7, <1>8, <2>1, <2>3, <2>4, <2>5, RedoneTrees
  <2>7. QED BY <2>6 DEF LogInserts
<1>13. LogOps(g[n]) = LogOps(t) \cup {op}
  <2>1. ASSUME NEW j \in 1 .. Len(g[n].log)
        PROVE  g[n].log[j].op \in LogOps(t) \cup {op}
    <3>1. CASE j \in 1 .. p
      <4>1. j \in 1 .. Len(t.log)
        BY <1>8, <3>1 DEF L
      <4>2. QED BY <1>12, <3>1, <4>1 DEF LogOps
    <3>2. CASE j = p + 1
      BY <1>12, <3>2
    <3>3. CASE j \notin 1 .. p /\ j # p + 1
      <4> DEFINE h == j - (p + 1)
      <4>1. h \in 1 .. n /\ j = p + 1 + h /\ p + h \in 1 .. Len(t.log)
        BY <1>8, <1>12, <3>3 DEF L
      <4> HIDE DEF h
      <4>2. QED BY <1>12, <4>1 DEF LogOps
    <3>4. QED BY <3>1, <3>2, <3>3
  <2>2. op \in LogOps(g[n])
    <3>1. p + 1 \in 1 .. Len(g[n].log)
      BY <1>8, <1>12
    <3>2. QED BY <1>12, <3>1 DEF LogOps
  <2>3. ASSUME NEW j \in 1 .. Len(t.log)
        PROVE  t.log[j].op \in LogOps(g[n])
    <3>1. CASE j \in 1 .. p
      <4>1. j \in 1 .. Len(g[n].log)
        BY <1>8, <1>12, <3>1
      <4>2. QED BY <1>12, <3>1, <4>1 DEF LogOps
    <3>2. CASE j \notin 1 .. p
      <4> DEFINE h == j - p
      <4>1. h \in 1 .. n /\ j = p + h /\ p + 1 + h \in 1 .. Len(g[n].log)
        BY <1>8, <1>12, <3>2 DEF L
      <4> HIDE DEF h
      <4>2. QED BY <1>12, <4>1 DEF LogOps
    <3>3. QED BY <3>1, <3>2
  <2>4. QED BY <2>1, <2>2, <2>3 DEF LogOps
<1>14. QED BY <1>12, <1>13

-----------------------------------------------------------------------------
(* from_state *)

LEMMA EmptyTreeReplayed ==
  ASSUME NEW Ops
  PROVE  Replayed(EmptyTree, Ops) /\ LogOps(EmptyTree) = {}
<1>1. EmptyTree.log = <<>> /\ Len(EmptyTree.log) = 0
  BY DEF EmptyTree
<1>2. Built(EmptyTree, LogEntries(Ops))
  BY EmptyTreeBuilt
<1>3. QED BY <1>1, <1>2 DEF Replayed, Sorted, LogOps

\* A timestamp stands for one move.
Keyed(S) == \A o, p \in S : o.ts = p.ts => o = p

\* What from_state makes of a list of moves: its log is their set in timestamp
\* order, where no two of them share a timestamp.
LEMMA ReplayMovesReplayed ==
  ASSUME NEW Ops, MovesOk(Ops), NEW ops, Len(ops) \in Nat,
         \A i \in 1 .. Len(ops) : ops[i] \in Ops
  PROVE  LET given == {ops[i] : i \in 1 .. Len(ops)} IN
         /\ Replayed(ReplayMoves(ops), Ops)
         /\ LogOps(ReplayMoves(ops)) \subseteq given
         /\ Keyed(given) => LogOps(ReplayMoves(ops)) = given
<1> DEFINE L    == Len(ops)
           Given(k) == {ops[i] : i \in 1 .. k}
           f    == CHOOSE h : IsReplay(h, ops, L)
           Good(k) == /\ Replayed(f[k], Ops)
                      /\ LogOps(f[k]) \subseteq Given(k)
                      /\ Keyed(Given(L)) => LogOps(f[k]) = Given(k)
           T == {k \in 0 .. L : ~Good(k)}
<1>1. ReplayMoves(ops) = f[L]
  BY DEF ReplayMoves, IsReplay
<1>2. IsReplay(f, ops, L)
  <2> HIDE DEF L
  <2>1. L \in Nat
    BY DEF L
  <2>2. QED BY <2>1, ReplayExists
<1> HIDE DEF f
<1>3. \A j \in 0 .. L : f[j] = IF j = 0 THEN EmptyTree ELSE Integrate(f[j - 1], ops[j])
  BY <1>2 DEF IsReplay
<1>4. ASSUME T # {} PROVE FALSE
  <2>1. PICK k \in T : \A j \in T : k <= j
    <3>1. T \in SUBSET Nat
      OBVIOUS
    <3>2. QED BY <1>4, <3>1, LeastNat
  <2>2. k # 0
    <3>1. f[0] = EmptyTree
      BY <1>3
    <3>2. Given(0) = {}
      OBVIOUS
    <3>3. Good(0)
      BY <3>1, <3>2, EmptyTreeReplayed
    <3>4. QED BY <2>1, <3>3
  <2>3. k \in 1 .. L /\ k - 1 \in 0 .. L /\ ~(k <= k - 1)
    BY <2>1, <2>2
  <2>4. Good(k - 1)
    BY <2>1, <2>3
  <2> DEFINE t == f[k - 1]
             op == ops[k]
  <2>5. f[k] = Integrate(t, op) /\ op \in Ops
    BY <1>3, <2>3
  <2>6. Given(k) = Given(k - 1) \cup {op}
    <3>1. 1 .. k = (1 .. k - 1) \cup {k}
      BY <2>3
    <3>2. QED BY <3>1
  <2>7. /\ Replayed(Integrate(t, op), Ops)
        /\ HasTs(t, op.ts) => Integrate(t, op) = t
        /\ ~HasTs(t, op.ts) => LogOps(Integrate(t, op)) = LogOps(t) \cup {op}
    BY <2>4, <2>5, IntegrateReplayed
  <2>8. HasTs(t, op.ts) /\ Keyed(Given(L)) => op \in LogOps(t)
    <3> SUFFICES ASSUME HasTs(t, op.ts), Keyed(Given(L)) PROVE op \in LogOps(t)
      OBVIOUS
    <3>1. PICK i \in 1 .. Len(t.log) : t.log[i].op.ts = op.ts
      BY DEF HasTs
    <3>2. t.log[i].op \in LogOps(t)
      BY <3>1 DEF LogOps
    <3>3. Given(k - 1) \subseteq Given(L) /\ op \in Given(L)
      BY <2>3
    <3>4. t.log[i].op \in Given(L)
      BY <2>4, <3>2, <3>3
    <3>5. t.log[i].op = op
      BY <3>1, <3>3, <3>4 DEF Keyed
    <3>6. QED BY <3>2, <3>5
  <2> HIDE DEF t, op, Given
  <2>9. LogOps(f[k]) \subseteq Given(k)
    BY <2>4, <2>5, <2>6, <2>7 DEF t
  <2>10. Keyed(Given(L)) => LogOps(f[k]) = Given(k)
    BY <2>4, <2>5, <2>6, <2>7, <2>8 DEF t
  <2>11. Good(k)
    BY <2>5, <2>7, <2>9, <2>10
  <2>12. QED BY <2>1, <2>11
<1>5. L \in 0 .. L
  OBVIOUS
<1>6. Good(L)
  BY <1>4, <1>5
<1>7. QED BY <1>1, <1>6

\* Two trees that were replayed, in whatever orders the moves came, agree when
\* their logs hold the same moves.
LEMMA ReplayedAgree ==
  ASSUME NEW Ops, MovesOk(Ops), NEW t, Replayed(t, Ops), NEW u, Replayed(u, Ops),
         LogOps(t) = LogOps(u)
  PROVE  t = u
BY EntriesStamped, BuiltTreesAgree DEF Replayed

-----------------------------------------------------------------------------
(* The content map: one operation changes one record *)

\* Two content maps say the same of n.
SameAt(m, p, n) == (n \in DOMAIN m <=> n \in DOMAIN p) /\ (n \in DOMAIN m => m[n] = p[n])

IsMap(m) == m = [n \in DOMAIN m |-> m[n]]

LEMMA WithElsewhere ==
  ASSUME NEW m, NEW id, NEW c, NEW n, n # id
  PROVE  SameAt(WithRecord(m, id, c), m, n) /\ SameAt(WithoutRecord(m, id), m, n)
<1>1. SameAt(WithRecord(m, id, c), m, n)
  BY DEF WithRecord, SameAt
<1>2. SameAt(WithoutRecord(m, id), m, n)
  BY DEF WithoutRecord, SameAt
<1>3. QED BY <1>1, <1>2

LEMMA WithHere ==
  ASSUME NEW m, NEW p, NEW id, NEW c
  PROVE  SameAt(WithRecord(m, id, c), WithRecord(p, id, c), id)
BY DEF WithRecord, SameAt

LEMMA WithoutHere ==
  ASSUME NEW m, NEW p, NEW id
  PROVE  SameAt(WithoutRecord(m, id), WithoutRecord(p, id), id)
BY DEF WithoutRecord, SameAt

LEMMA WithIsMap ==
  ASSUME NEW m, NEW id, NEW c
  PROVE  IsMap(WithRecord(m, id, c))
<1> DEFINE S == DOMAIN m \cup {id}
           w == [n \in S |-> IF n = id THEN c ELSE m[n]]
<1>1. w = [n \in DOMAIN w |-> w[n]]
  OBVIOUS
<1>2. WithRecord(m, id, c) = w
  BY DEF WithRecord
<1> HIDE DEF w
<1>3. QED BY <1>1, <1>2 DEF IsMap

LEMMA WithoutIsMap ==
  ASSUME NEW m, NEW id
  PROVE  IsMap(WithoutRecord(m, id))
<1> DEFINE S == DOMAIN m \ {id}
           w == [n \in S |-> m[n]]
<1>1. w = [n \in DOMAIN w |-> w[n]]
  OBVIOUS
<1>2. WithoutRecord(m, id) = w
  BY DEF WithoutRecord
<1> HIDE DEF w
<1>3. QED BY <1>1, <1>2 DEF IsMap

\* What one operation makes of the record of its node.
Effect(m, op) ==
    IF op.type = "set"
    THEN IF op.id \in DOMAIN m THEN Record(m[op.id], op.cid, op.at)
         ELSE [cid |-> op.cid, mtime |-> op.at, versions |-> <<>>]
    ELSE RestoreRecord(m[op.id], op.cid, op.at)

Keeps(m, op) == op.type = "restore" /\ op.id \notin DOMAIN m

LEMMA ApplyIs ==
  ASSUME NEW op, op.type \in {"set", "restore", "remove"}, NEW m
  PROVE  /\ op.type = "remove" => ApplyContent(m, op) = WithoutRecord(m, op.id)
         /\ op.type # "remove" /\ ~Keeps(m, op)
              => ApplyContent(m, op) = WithRecord(m, op.id, Effect(m, op))
         /\ Keeps(m, op) => ApplyContent(m, op) = m
<1>1. CASE op.type = "set"
  BY <1>1 DEF ApplyContent, Effect, Keeps
<1>2. CASE op.type = "restore"
  BY <1>2 DEF ApplyContent, Effect, Keeps
<1>3. CASE op.type = "remove"
  BY <1>3 DEF ApplyContent, Keeps
<1>4. QED BY <1>1, <1>2, <1>3

\* An operation changes one record.
LEMMA ApplyElsewhere ==
  ASSUME NEW op, op.type \in {"set", "restore", "remove"}, NEW m, NEW n, n # op.id
  PROVE  SameAt(ApplyContent(m, op), m, n)
<1>1. CASE op.type = "remove"
  <2>1. ApplyContent(m, op) = WithoutRecord(m, op.id)
    BY <1>1, ApplyIs
  <2>2. SameAt(WithoutRecord(m, op.id), m, n)
    BY WithElsewhere
  <2>3. QED BY <2>1, <2>2
<1>2. CASE op.type # "remove" /\ ~Keeps(m, op)
  <2>1. ApplyContent(m, op) = WithRecord(m, op.id, Effect(m, op))
    BY <1>2, ApplyIs
  <2>2. SameAt(WithRecord(m, op.id, Effect(m, op)), m, n)
    BY WithElsewhere
  <2>3. QED BY <2>1, <2>2
<1>3. CASE Keeps(m, op)
  <2>1. ApplyContent(m, op) = m
    BY <1>3, ApplyIs
  <2>2. QED BY <2>1 DEF SameAt
<1>4. QED BY <1>1, <1>2, <1>3

\* What it makes of that record does not depend on the rest of the map.
LEMMA ApplyHere ==
  ASSUME NEW op, op.type \in {"set", "restore", "remove"}, NEW m, NEW p, SameAt(m, p, op.id)
  PROVE  SameAt(ApplyContent(m, op), ApplyContent(p, op), op.id)
<1> DEFINE id == op.id
           made(x) == WithRecord(x, id, Effect(x, op))
<1>1. CASE op.type = "remove"
  <2>1. ApplyContent(m, op) = WithoutRecord(m, id) /\ ApplyContent(p, op) = WithoutRecord(p, id)
    BY <1>1, ApplyIs
  <2>2. SameAt(WithoutRecord(m, id), WithoutRecord(p, id), id)
    BY WithoutHere
  <2>3. QED BY <2>1, <2>2
<1>2. CASE op.type # "remove" /\ ~Keeps(m, op)
  <2>1. ~Keeps(p, op)
    BY <1>2 DEF Keeps, SameAt
  <2>2. ApplyContent(m, op) = made(m) /\ ApplyContent(p, op) = made(p)
    BY <1>2, <2>1, ApplyIs
  <2>3. Effect(m, op) = Effect(p, op)
    BY <1>2 DEF Effect, SameAt, Keeps
  <2>4. SameAt(made(m), made(p), id)
    BY <2>3, WithHere
  <2>5. QED BY <2>2, <2>4
<1>3. CASE Keeps(m, op)
  <2>1. Keeps(p, op)
    BY <1>3 DEF Keeps, SameAt
  <2>2. ApplyContent(m, op) = m /\ ApplyContent(p, op) = p
    BY <1>3, <2>1, ApplyIs
  <2>3. QED BY <2>2
<1>4. QED BY <1>1, <1>2, <1>3 DEF Keeps

LEMMA ApplyKeywise ==
  ASSUME NEW op, op.type \in {"set", "restore", "remove"}, NEW m, NEW p, NEW n,
         SameAt(m, p, n)
  PROVE  SameAt(ApplyContent(m, op), ApplyContent(p, op), n)
<1>1. CASE n = op.id
  BY <1>1, ApplyHere
<1>2. CASE n # op.id
  <2>1. SameAt(ApplyContent(m, op), m, n) /\ SameAt(ApplyContent(p, op), p, n)
    BY <1>2, ApplyElsewhere
  <2> DEFINE a == ApplyContent(m, op)
             b == ApplyContent(p, op)
  <2> HIDE DEF a, b
  <2>2. SameAt(a, m, n) /\ SameAt(b, p, n) => SameAt(a, b, n)
    BY DEF SameAt
  <2>3. QED BY <2>1, <2>2 DEF a, b
<1>3. QED BY <1>1, <1>2

LEMMA ApplyIsMap ==
  ASSUME NEW op, op.type \in {"set", "restore", "remove"}, NEW m, IsMap(m)
  PROVE  IsMap(ApplyContent(m, op))
<1>1. ApplyContent(m, op) \in {m, WithoutRecord(m, op.id), WithRecord(m, op.id, Effect(m, op))}
  BY ApplyIs
<1>2. IsMap(WithoutRecord(m, op.id)) /\ IsMap(WithRecord(m, op.id, Effect(m, op)))
  BY WithIsMap, WithoutIsMap
<1>3. QED BY <1>1, <1>2

LEMMA SameMap ==
  ASSUME NEW m, NEW p, IsMap(m), IsMap(p), \A n : SameAt(m, p, n)
  PROVE  m = p
BY DEF IsMap, SameAt

LEMMA SameSteps ==
  ASSUME NEW m, NEW p, NEW q, NEW n, SameAt(m, p, n)
  PROVE  /\ SameAt(p, m, n)
         /\ SameAt(p, q, n) => SameAt(m, q, n)
         /\ SameAt(q, p, n) => SameAt(q, m, n)
BY DEF SameAt

-----------------------------------------------------------------------------
(* Records have a history that is a sequence *)

IsSequence(q) == \E S : q \in Seq(S)

HasHistory(c) ==
    c = [cid |-> c.cid, mtime |-> c.mtime, versions |-> c.versions] /\ IsSequence(c.versions)

Histories(m) == \A n \in DOMAIN m : HasHistory(m[n])

LEMMA PushVersionSequence ==
  ASSUME NEW q, IsSequence(q), NEW v
  PROVE  IsSequence(PushVersion(q, v))
<1>1. PICK S : q \in Seq(S)
  BY DEF IsSequence
<1> DEFINE W == S \cup {v}
<1>2. q \in Seq(W) /\ v \in W
  BY <1>1
<1> HIDE DEF W
<1>3. Len(q) = MaxVersions => Append(Tail(q), v) \in Seq(W)
  <2> SUFFICES ASSUME Len(q) = MaxVersions PROVE Append(Tail(q), v) \in Seq(W)
    OBVIOUS
  <2>1. q # <<>>
    BY <1>2, MaxVersionsAssumption
  <2>2. Tail(q) \in Seq(W)
    BY <1>2, <2>1
  <2>3. QED BY <1>2, <2>2
<1>4. Append(q, v) \in Seq(W)
  BY <1>2
<1>5. PushVersion(q, v) \in Seq(W)
  BY <1>2, <1>3, <1>4 DEF PushVersion
<1>6. QED BY <1>5 DEF IsSequence

LEMMA RecordHistory ==
  ASSUME NEW c, HasHistory(c), NEW cid, NEW at
  PROVE  HasHistory(Record(c, cid, at)) /\ HasHistory(RestoreRecord(c, cid, at))
<1>1. \A v : IsSequence(PushVersion(c.versions, v))
  BY PushVersionSequence DEF HasHistory
<1>2. HasHistory(Record(c, cid, at))
  <2>1. CASE cid = c.cid
    BY <2>1 DEF Record
  <2>2. CASE cid # c.cid /\ Wins(c, cid, at)
    <3> DEFINE v == Version(c.cid, c.mtime, at = c.mtime)
               q == PushVersion(c.versions, v)
    <3>1. Record(c, cid, at) = [cid |-> cid, mtime |-> at, versions |-> q]
      BY <2>2 DEF Record
    <3>2. IsSequence(q)
      BY <1>1
    <3> HIDE DEF q
    <3>3. QED BY <3>1, <3>2 DEF HasHistory
  <2>3. CASE cid # c.cid /\ ~Wins(c, cid, at)
    <3> DEFINE v == Version(cid, at, at >= c.mtime)
               q == PushVersion(c.versions, v)
    <3>1. Record(c, cid, at) = [c EXCEPT !.versions = q]
      BY <2>3 DEF Record
    <3>2. IsSequence(q)
      BY <1>1
    <3> HIDE DEF q
    <3>3. Record(c, cid, at) = [cid |-> c.cid, mtime |-> c.mtime, versions |-> q]
      BY <3>1 DEF HasHistory
    <3>4. QED BY <3>2, <3>3 DEF HasHistory
  <2>4. QED BY <2>1, <2>2, <2>3
<1>3. HasHistory(RestoreRecord(c, cid, at))
  <2> DEFINE v == Version(c.cid, c.mtime, FALSE)
             q == PushVersion(c.versions, v)
  <2>1. \/ RestoreRecord(c, cid, at) = [cid |-> cid, mtime |-> at, versions |-> q]
        \/ RestoreRecord(c, cid, at) = c
    BY DEF RestoreRecord
  <2>2. IsSequence(q)
    BY <1>1
  <2> HIDE DEF q
  <2>3. QED BY <2>1, <2>2 DEF HasHistory
<1>4. QED BY <1>2, <1>3

LEMMA EffectHistory ==
  ASSUME NEW op, op.type \in {"set", "restore", "remove"}, NEW m, Histories(m), ~Keeps(m, op),
         op.type # "remove"
  PROVE  HasHistory(Effect(m, op))
<1> DEFINE c == m[op.id]
<1>1. CASE op.id \notin DOMAIN m
  <2>1. Effect(m, op) = [cid |-> op.cid, mtime |-> op.at, versions |-> <<>>]
    BY <1>1 DEF Effect, Keeps
  <2>2. <<>> \in Seq({})
    OBVIOUS
  <2>3. IsSequence(<<>>)
    BY <2>2 DEF IsSequence
  <2>4. QED BY <2>1, <2>3 DEF HasHistory
<1>2. CASE op.id \in DOMAIN m
  <2>1. HasHistory(c)
    BY <1>2 DEF Histories
  <2>2. Effect(m, op) = IF op.type = "set" THEN Record(c, op.cid, op.at)
                        ELSE RestoreRecord(c, op.cid, op.at)
    BY <1>2 DEF Effect
  <2>3. QED BY <2>1, <2>2, RecordHistory
<1>3. QED BY <1>1, <1>2

LEMMA ApplyHistories ==
  ASSUME NEW op, op.type \in {"set", "restore", "remove"}, NEW m, Histories(m)
  PROVE  Histories(ApplyContent(m, op))
<1>1. CASE op.type = "remove"
  <2>1. ApplyContent(m, op) = WithoutRecord(m, op.id)
    BY <1>1, ApplyIs
  <2>2. QED BY <2>1 DEF WithoutRecord, Histories
<1>2. CASE op.type # "remove" /\ ~Keeps(m, op)
  <2>1. ApplyContent(m, op) = WithRecord(m, op.id, Effect(m, op))
    BY <1>2, ApplyIs
  <2>2. HasHistory(Effect(m, op))
    BY <1>2, EffectHistory
  <2>3. QED BY <2>1, <2>2 DEF WithRecord, Histories
<1>3. CASE Keeps(m, op)
  BY <1>3, ApplyIs
<1>4. QED BY <1>1, <1>2, <1>3 DEF Keeps

-----------------------------------------------------------------------------
(* A record keeps what is saved while its history is not full. *)

VersionCids(q) == {q[i].cid : i \in DOMAIN q}

\* A history that has room loses nothing to a version that is pushed.
LEMMA PushVersionKeeps ==
  ASSUME NEW q, IsSequence(q), NEW v
  PROVE  /\ Len(q) \in Nat /\ Len(PushVersion(q, v)) \in Nat
         /\ Len(PushVersion(q, v)) <= Len(q) + 1
         /\ Len(q) < MaxVersions =>
               VersionCids(q) \cup {v.cid} \subseteq VersionCids(PushVersion(q, v))
<1> DEFINE p == PushVersion(q, v)
           L == Len(q)
<1>1. PICK S : q \in Seq(S)
  BY DEF IsSequence
<1> DEFINE W == S \cup {v}
<1>2. q \in Seq(W) /\ v \in W /\ L \in Nat /\ DOMAIN q = 1 .. L
  BY <1>1
<1> HIDE DEF W
<1>3. CASE q # <<>> /\ Last(q).cid = v.cid
  <2>1. p = q
    BY <1>3 DEF PushVersion
  <2>2. L \in DOMAIN q /\ Last(q) = q[L]
    BY <1>2, <1>3 DEF Last
  <2>3. v.cid \in VersionCids(q)
    BY <1>3, <2>2 DEF VersionCids
  <2>4. QED BY <1>2, <2>1, <2>3
<1>4. CASE ~(q # <<>> /\ Last(q).cid = v.cid) /\ L = MaxVersions
  <2>1. p = Append(Tail(q), v) /\ q # <<>>
    BY <1>2, <1>4, MaxVersionsAssumption DEF PushVersion
  <2>2. Tail(q) \in Seq(W) /\ Len(Tail(q)) = L - 1
    BY <1>2, <2>1
  <2>3. Len(p) = L
    BY <1>2, <2>1, <2>2
  <2>4. QED BY <1>2, <1>4, <2>3, MaxVersionsAssumption
<1>5. CASE ~(q # <<>> /\ Last(q).cid = v.cid) /\ L # MaxVersions
  <2>1. p = Append(q, v)
    BY <1>5 DEF PushVersion
  <2>2. /\ Len(p) = L + 1 /\ DOMAIN p = 1 .. L + 1 /\ p[L + 1] = v
        /\ \A i \in 1 .. L : p[i] = q[i]
    BY <1>2, <2>1
  <2> HIDE DEF p
  <2>3. VersionCids(q) \subseteq VersionCids(p)
    BY <1>2, <2>2 DEF VersionCids
  <2>4. L + 1 \in DOMAIN p
    BY <1>2, <2>2
  <2>5. v.cid \in VersionCids(p)
    BY <2>2, <2>4 DEF VersionCids
  <2>6. QED BY <1>2, <2>2, <2>3, <2>5 DEF p
<1>6. QED BY <1>3, <1>4, <1>5

\* What an operation of either kind makes of a record.
LEMMA RecordForms ==
  ASSUME NEW c, NEW d, NEW cid, NEW at,
         d = Record(c, cid, at) \/ d = RestoreRecord(c, cid, at)
  PROVE  \/ d = c /\ (d = Record(c, cid, at) => cid = c.cid)
         \/ \E v : /\ d = [cid |-> cid, mtime |-> at, versions |-> PushVersion(c.versions, v)]
                   /\ v.cid = c.cid
         \/ \E v : /\ d = [c EXCEPT !.versions = PushVersion(c.versions, v)]
                   /\ v.cid = cid
<1>1. CASE d = Record(c, cid, at)
  <2>1. CASE cid = c.cid
    BY <1>1, <2>1 DEF Record
  <2>2. CASE cid # c.cid /\ Wins(c, cid, at)
    <3> DEFINE v == Version(c.cid, c.mtime, at = c.mtime)
    <3>1. d = [cid |-> cid, mtime |-> at, versions |-> PushVersion(c.versions, v)]
      BY <1>1, <2>2 DEF Record
    <3>2. v.cid = c.cid
      BY DEF Version
    <3> HIDE DEF v
    <3>3. QED BY <3>1, <3>2, Zenon
  <2>3. CASE cid # c.cid /\ ~Wins(c, cid, at)
    <3> DEFINE v == Version(cid, at, at >= c.mtime)
    <3>1. d = [c EXCEPT !.versions = PushVersion(c.versions, v)]
      BY <1>1, <2>3 DEF Record
    <3>2. v.cid = cid
      BY DEF Version
    <3> HIDE DEF v
    <3>3. QED BY <3>1, <3>2, Zenon
  <2>4. QED BY <2>1, <2>2, <2>3
<1>2. CASE d = RestoreRecord(c, cid, at) /\ d # Record(c, cid, at)
  <2> DEFINE v == Version(c.cid, c.mtime, FALSE)
  <2>1. d = c \/ d = [cid |-> cid, mtime |-> at, versions |-> PushVersion(c.versions, v)]
    BY <1>2 DEF RestoreRecord
  <2>2. v.cid = c.cid
    BY DEF Version
  <2> HIDE DEF v
  <2>3. QED BY <1>2, <2>1, <2>2
<1>3. QED BY <1>1, <1>2

\* What a save or a restore makes of the record c: nothing new, or it becomes the
\* current version, or it goes to the history.
RecordGains(c, d, op) ==
    \/ d = c /\ (op.type = "set" => op.cid = c.cid)
    \/ \E v : /\ v.cid = c.cid
              /\ d = [cid |-> op.cid, mtime |-> op.at, versions |-> PushVersion(c.versions, v)]
    \/ \E v : /\ v.cid = op.cid
              /\ d = [cid |-> c.cid, mtime |-> c.mtime, versions |-> PushVersion(c.versions, v)]

\* What an operation makes of the map m.
Applied(m, p, op) ==
    IF op.type = "remove" THEN p = WithoutRecord(m, op.id)
    ELSE IF op.id \in DOMAIN m
    THEN \E d : RecordGains(m[op.id], d, op) /\ p = WithRecord(m, op.id, d)
    ELSE IF op.type = "set"
    THEN p = WithRecord(m, op.id, [cid |-> op.cid, mtime |-> op.at, versions |-> <<>>])
    ELSE p = m

LEMMA RecordChanges ==
  ASSUME NEW c, HasHistory(c), NEW op, op.type \in {"set", "restore"},
         NEW d, \/ op.type = "set" /\ d = Record(c, op.cid, op.at)
                \/ op.type = "restore" /\ d = RestoreRecord(c, op.cid, op.at)
  PROVE  RecordGains(c, d, op)
<1> DEFINE q(v) == PushVersion(c.versions, v)
<1>1. \/ d = c /\ (d = Record(c, op.cid, op.at) => op.cid = c.cid)
      \/ \E v : d = [cid |-> op.cid, mtime |-> op.at, versions |-> q(v)] /\ v.cid = c.cid
      \/ \E v : d = [c EXCEPT !.versions = q(v)] /\ v.cid = op.cid
  BY RecordForms
<1>2. CASE d = c /\ (d = Record(c, op.cid, op.at) => op.cid = c.cid)
  BY <1>2 DEF RecordGains
<1>3. CASE \E v : d = [cid |-> op.cid, mtime |-> op.at, versions |-> q(v)] /\ v.cid = c.cid
  BY <1>3, Zenon DEF RecordGains
<1>4. ASSUME NEW v, d = [c EXCEPT !.versions = q(v)], v.cid = op.cid
      PROVE  RecordGains(c, d, op)
  <2> DEFINE p == q(v)
  <2> HIDE DEF p
  <2>1. d = [c EXCEPT !.versions = p]
    BY <1>4 DEF p
  <2>2. d = [cid |-> c.cid, mtime |-> c.mtime, versions |-> p]
    BY <2>1 DEF HasHistory
  <2>3. QED BY <1>4, <2>2, Zenon DEF RecordGains, p
<1>5. QED BY <1>1, <1>2, <1>3, <1>4

\* ApplyContent is such an operation.
LEMMA ContentApplied ==
  ASSUME NEW op, op.type \in {"set", "restore", "remove"}, NEW m, Histories(m)
  PROVE  Applied(m, ApplyContent(m, op), op)
<1>1. CASE op.type = "remove"
  BY <1>1, ApplyIs DEF Applied
<1>2. CASE op.type # "remove" /\ op.id \in DOMAIN m
  <2> DEFINE c == m[op.id]
             d == Effect(m, op)
  <2>1. HasHistory(c) /\ op.type \in {"set", "restore"}
    BY <1>2 DEF Histories
  <2>2. d = IF op.type = "set" THEN Record(c, op.cid, op.at) ELSE RestoreRecord(c, op.cid, op.at)
    BY <1>2 DEF Effect
  <2>3. ApplyContent(m, op) = WithRecord(m, op.id, d)
    BY <1>2, ApplyIs DEF Keeps
  <2> HIDE DEF c, d
  <2>4. RecordGains(c, d, op)
    BY <2>1, <2>2, RecordChanges
  <2>5. QED BY <1>2, <2>3, <2>4 DEF Applied, c
<1>3. CASE op.type # "remove" /\ op.id \notin DOMAIN m
  <2>1. CASE op.type = "set"
    BY <1>3, <2>1, ApplyIs DEF Applied, Effect, Keeps
  <2>2. CASE op.type = "restore"
    BY <1>3, <2>2, ApplyIs DEF Applied, Keeps
  <2>3. QED BY <1>3, <2>1, <2>2
<1>4. QED BY <1>1, <1>2, <1>3

\* It keeps what a record with room holds.
LEMMA RecordedKeeps ==
  ASSUME NEW c, HasHistory(c), NEW d, NEW op, RecordGains(c, d, op)
  PROVE  /\ HasHistory(d)
         /\ Len(c.versions) \in Nat /\ Len(d.versions) \in Nat
         /\ Len(d.versions) <= Len(c.versions) + 1
         /\ Len(c.versions) < MaxVersions => CidsOf(c) \subseteq CidsOf(d)
         /\ Len(c.versions) < MaxVersions /\ op.type = "set" => op.cid \in CidsOf(d)
<1> DEFINE q == c.versions
<1>1. c = [cid |-> c.cid, mtime |-> c.mtime, versions |-> q] /\ IsSequence(q)
  BY DEF HasHistory
<1>2. CidsOf(c) = {c.cid} \cup VersionCids(q)
  BY DEF CidsOf, VersionCids
<1>3. \A v : /\ Len(q) \in Nat /\ Len(PushVersion(q, v)) \in Nat
             /\ Len(PushVersion(q, v)) <= Len(q) + 1
             /\ Len(q) < MaxVersions =>
                   VersionCids(q) \cup {v.cid} \subseteq VersionCids(PushVersion(q, v))
             /\ IsSequence(PushVersion(q, v))
  BY <1>1, PushVersionKeeps, PushVersionSequence
<1>4. CASE d = c /\ (op.type = "set" => op.cid = c.cid)
  BY <1>2, <1>3, <1>4
<1>5. ASSUME NEW cid, NEW at, NEW v,
             d = [cid |-> cid, mtime |-> at, versions |-> PushVersion(q, v)],
             {cid, v.cid} = {c.cid, op.cid}
      PROVE  /\ HasHistory(d)
             /\ Len(d.versions) \in Nat /\ Len(d.versions) <= Len(q) + 1
             /\ Len(q) < MaxVersions => CidsOf(c) \cup {op.cid} \subseteq CidsOf(d)
  <2> DEFINE p == PushVersion(q, v)
  <2> HIDE DEF p
  <2>1. d = [cid |-> cid, mtime |-> at, versions |-> p]
    BY <1>5 DEF p
  <2>2. CidsOf(d) = {cid} \cup VersionCids(p) /\ d.versions = p
    BY <2>1 DEF CidsOf, VersionCids
  <2>3. HasHistory(d)
    <3>1. IsSequence(p)
      BY <1>3 DEF p
    <3>2. QED BY <2>1, <3>1 DEF HasHistory
  <2>4. /\ Len(p) \in Nat /\ Len(p) <= Len(q) + 1
        /\ Len(q) < MaxVersions => VersionCids(q) \cup {v.cid} \subseteq VersionCids(p)
    BY <1>3 DEF p
  <2>5. Len(q) < MaxVersions => CidsOf(c) \cup {op.cid} \subseteq CidsOf(d)
    <3> DEFINE V == VersionCids(q)
               P == VersionCids(p)
               x == v.cid
    <3>1. {cid, x} = {c.cid, op.cid}
      BY <1>5
    <3>2. Len(q) < MaxVersions => V \cup {x} \subseteq P
      BY <2>4
    <3> HIDE DEF V, P, x
    <3>3. Len(q) < MaxVersions => ({c.cid} \cup V) \cup {op.cid} \subseteq {cid} \cup P
      BY <3>1, <3>2
    <3>4. QED BY <1>2, <2>2, <3>3 DEF V, P
  <2>6. QED BY <2>2, <2>3, <2>4, <2>5
<1>6. CASE \E v : /\ v.cid = c.cid
                  /\ d = [cid |-> op.cid, mtime |-> op.at, versions |-> PushVersion(q, v)]
  BY <1>3, <1>5, <1>6
<1>7. CASE \E v : /\ v.cid = op.cid
                  /\ d = [cid |-> c.cid, mtime |-> c.mtime, versions |-> PushVersion(q, v)]
  BY <1>3, <1>5, <1>7
<1>8. QED BY <1>4, <1>6, <1>7 DEF RecordGains

\* The operations on n among the first k of a log since its record was removed.
SinceIn(log, n, k) ==
    {i \in 1 .. k :
        /\ log[i].op.id = n
        /\ \A j \in 1 .. k : log[j].op.id = n /\ log[j].op.type = "remove" => j < i}

SavedIn(log, n, k) ==
    {log[i].op.cid : i \in {j \in SinceIn(log, n, k) : log[j].op.type = "set"}}

LEMMA SinceSteps ==
  ASSUME NEW log, NEW n, NEW k \in Nat, k # 0
  PROVE  /\ IsFiniteSet(SinceIn(log, n, k - 1)) /\ k \notin SinceIn(log, n, k - 1)
         /\ Cardinality(SinceIn(log, n, k)) \in Nat
         /\ log[k].op.id # n => SinceIn(log, n, k) = SinceIn(log, n, k - 1)
         /\ log[k].op.id = n /\ log[k].op.type = "remove" => SinceIn(log, n, k) = {}
         /\ log[k].op.id = n /\ log[k].op.type # "remove" =>
               SinceIn(log, n, k) = SinceIn(log, n, k - 1) \cup {k}
<1>1. \A i : i \in 1 .. k <=> i \in 1 .. k - 1 \/ i = k
  OBVIOUS
<1>2. \A i \in 1 .. k - 1 : i < k /\ ~(k < i)
  OBVIOUS
<1>3. /\ log[k].op.id # n => SinceIn(log, n, k) = SinceIn(log, n, k - 1)
      /\ log[k].op.id = n /\ log[k].op.type = "remove" => SinceIn(log, n, k) = {}
      /\ log[k].op.id = n /\ log[k].op.type # "remove" =>
            SinceIn(log, n, k) = SinceIn(log, n, k - 1) \cup {k}
  <2>1. ~(k < k)
    OBVIOUS
  <2>2. QED BY <1>1, <1>2, <2>1 DEF SinceIn
<1>4. \A l \in Nat : IsFiniteSet(SinceIn(log, n, l)) /\ Cardinality(SinceIn(log, n, l)) \in Nat
  <2> SUFFICES ASSUME NEW l \in Nat
               PROVE  IsFiniteSet(SinceIn(log, n, l)) /\ Cardinality(SinceIn(log, n, l)) \in Nat
    OBVIOUS
  <2>1. IsFiniteSet(1 .. l)
    BY FS_Interval
  <2>2. SinceIn(log, n, l) \in SUBSET (1 .. l)
    BY DEF SinceIn
  <2>3. QED BY <2>1, <2>2, FS_Subset, FS_CardinalityType
<1>5. k - 1 \in Nat /\ k \notin 1 .. k - 1
  OBVIOUS
<1>6. QED BY <1>3, <1>4, <1>5 DEF SinceIn

\* Of the map m after k operations of a log: the record of n is no longer than what
\* was done to it, and has what was saved unless its history may be full.
KeepsSaves(m, log, n, k) ==
    LET since == Cardinality(SinceIn(log, n, k)) IN
    IF n \in DOMAIN m
    THEN /\ HasHistory(m[n]) /\ Len(m[n].versions) \in Nat /\ Len(m[n].versions) + 1 <= since
         /\ since <= MaxVersions + 1 => SavedIn(log, n, k) \subseteq CidsOf(m[n])
    ELSE SavedIn(log, n, k) = {}

\* One more operation, on whatever node.
LEMMA AppliedKeepsSaves ==
  ASSUME NEW log, NEW n, NEW k \in Nat, k # 0, NEW m, KeepsSaves(m, log, n, k - 1),
         NEW p, Applied(m, p, log[k].op), log[k].op.type \in {"set", "restore", "remove"}
  PROVE  KeepsSaves(p, log, n, k)
<1> DEFINE op == log[k].op
           old == SinceIn(log, n, k - 1)
           new == SinceIn(log, n, k)
           made == [cid |-> op.cid, mtime |-> op.at, versions |-> <<>>]
<1>1. CASE op.id # n
  <2>1. SameAt(p, m, n)
    <3>1. \/ p = WithoutRecord(m, op.id) \/ p = m
          \/ \E d : p = WithRecord(m, op.id, d)
      BY DEF Applied
    <3>2. SameAt(m, m, n)
      BY DEF SameAt
    <3>3. QED BY <1>1, <3>1, <3>2, WithElsewhere
  <2>2. new = old
    BY <1>1, SinceSteps
  <2>3. SavedIn(log, n, k) = SavedIn(log, n, k - 1)
    BY <2>2 DEF SavedIn
  <2>4. QED BY <2>1, <2>2, <2>3 DEF KeepsSaves, SameAt
<1>2. CASE op.id = n /\ op.type = "remove"
  <2>1. new = {} /\ p = WithoutRecord(m, n)
    BY <1>2, SinceSteps DEF Applied
  <2>2. n \notin DOMAIN p /\ SavedIn(log, n, k) = {}
    BY <2>1 DEF WithoutRecord, SavedIn
  <2>3. QED BY <2>2 DEF KeepsSaves
<1>3. CASE op.id = n /\ op.type # "remove"
  <2>1. new = old \cup {k} /\ k \notin old /\ IsFiniteSet(old)
    BY <1>3, SinceSteps
  <2> HIDE DEF old, new, made
  <2>2. Cardinality(new) = Cardinality(old) + 1 /\ Cardinality(old) \in Nat
    BY <2>1, FS_AddElement, FS_CardinalityType
  <2>3. SavedIn(log, n, k) = SavedIn(log, n, k - 1) \cup (IF op.type = "set" THEN {op.cid} ELSE {})
    BY <2>1 DEF SavedIn, old, new
  <2>4. CASE n \notin DOMAIN m
    <3>1. SavedIn(log, n, k - 1) = {}
      BY <2>4 DEF KeepsSaves
    <3>2. CASE op.type = "set"
      <4>1. p = WithRecord(m, n, made)
        BY <1>3, <2>4, <3>2 DEF Applied, made
      <4>2. n \in DOMAIN p /\ p[n] = made
        BY <4>1 DEF WithRecord
      <4>3. made.versions = <<>> /\ made.cid = op.cid /\ Len(made.versions) = 0
        BY DEF made
      <4>4. HasHistory(made)
        <5>1. <<>> \in Seq({})
          OBVIOUS
        <5>2. IsSequence(<<>>)
          BY <5>1 DEF IsSequence
        <5>3. QED BY <5>2 DEF HasHistory, made
      <4>5. op.cid \in CidsOf(made)
        BY <4>3 DEF CidsOf
      <4>6. QED BY <2>2, <2>3, <3>1, <3>2, <4>2, <4>3, <4>4, <4>5 DEF KeepsSaves, new, old
    <3>3. CASE op.type # "set"
      <4>1. p = m
        BY <1>3, <2>4, <3>3 DEF Applied
      <4>2. SavedIn(log, n, k) = {}
        BY <2>3, <3>1, <3>3
      <4>3. QED BY <2>4, <4>1, <4>2 DEF KeepsSaves
    <3>4. QED BY <3>2, <3>3
  <2>5. CASE n \in DOMAIN m
    <3> DEFINE c == m[n]
    <3>1. /\ HasHistory(c) /\ Len(c.versions) \in Nat
          /\ Len(c.versions) + 1 <= Cardinality(old)
          /\ Cardinality(old) <= MaxVersions + 1 => SavedIn(log, n, k - 1) \subseteq CidsOf(c)
      BY <2>5 DEF KeepsSaves, old
    <3>2. PICK d : RecordGains(c, d, op) /\ p = WithRecord(m, n, d)
      BY <1>3, <2>5 DEF Applied
    <3>3. n \in DOMAIN p /\ p[n] = d
      BY <3>2 DEF WithRecord
    <3> HIDE DEF c, op
    <3>4. /\ HasHistory(d)
          /\ Len(d.versions) \in Nat /\ Len(d.versions) <= Len(c.versions) + 1
          /\ Len(c.versions) < MaxVersions => CidsOf(c) \subseteq CidsOf(d)
          /\ Len(c.versions) < MaxVersions /\ op.type = "set" => op.cid \in CidsOf(d)
      BY <3>1, <3>2, RecordedKeeps
    <3>5. Len(d.versions) + 1 <= Cardinality(new)
      BY <2>2, <3>1, <3>4
    <3>6. ASSUME Cardinality(new) <= MaxVersions + 1
          PROVE  SavedIn(log, n, k) \subseteq CidsOf(d)
      <4>1. Len(c.versions) < MaxVersions /\ Cardinality(old) <= MaxVersions + 1
        BY <2>2, <3>1, <3>6, MaxVersionsAssumption
      <4>2. QED BY <2>3, <3>1, <3>4, <4>1
    <3>7. QED BY <3>3, <3>4, <3>5, <3>6 DEF KeepsSaves, new
  <2>6. QED BY <2>4, <2>5
<1>4. QED BY <1>1, <1>2, <1>3

\* "Nothing is lost": of a replay of operations, every record has the versions
\* that were saved since it was removed, unless its history may be full.
LEMMA ReplayKeepsSaves ==
  ASSUME NEW L \in Nat, NEW log, NEW f, f[0] = NoContent,
         \A i \in 1 .. L : /\ log[i].op.type \in {"set", "restore", "remove"}
                           /\ Histories(f[i - 1]) => Applied(f[i - 1], f[i], log[i].op)
  PROVE  \A n : KeepsSaves(f[L], log, n, L)
<1> DEFINE Good(k) == \A n : KeepsSaves(f[k], log, n, k)
           T == {k \in 0 .. L : ~Good(k)}
<1>1. ASSUME T # {} PROVE FALSE
  <2>1. PICK k \in T : \A j \in T : k <= j
    <3>1. T \in SUBSET Nat
      OBVIOUS
    <3> HIDE DEF T
    <3>2. QED BY <1>1, <3>1, LeastNat
  <2>2. k # 0
    <3>1. \A n : SavedIn(log, n, 0) = {}
      BY DEF SavedIn, SinceIn
    <3>2. Good(0)
      BY <3>1 DEF KeepsSaves, NoContent
    <3> HIDE DEF Good
    <3>3. QED BY <2>1, <3>2
  <2>3. k \in Nat /\ k \in 1 .. L /\ k - 1 \in 0 .. L /\ k \in 0 .. L /\ ~(k <= k - 1)
    BY <2>1, <2>2
  <2>4. Good(k - 1)
    <3> HIDE DEF Good
    <3>1. QED BY <2>1, <2>3
  <2>5. Histories(f[k - 1])
    BY <2>4 DEF Histories, KeepsSaves
  <2>6. Applied(f[k - 1], f[k], log[k].op) /\ log[k].op.type \in {"set", "restore", "remove"}
    BY <2>3, <2>5
  <2>7. Good(k)
    BY <2>2, <2>3, <2>4, <2>6, AppliedKeepsSaves
  <2> HIDE DEF Good
  <2>8. QED BY <2>1, <2>7
<1>2. L \in 0 .. L
  OBVIOUS
<1> HIDE DEF Good
<1>3. Good(L)
  BY <1>1, <1>2
<1>4. QED BY <1>3 DEF Good

\* The history up to k is that of any log that goes on from there.
LEMMA LongerLogKeepsSaves ==
  ASSUME NEW m, NEW log, NEW more, NEW n, NEW k \in Nat, KeepsSaves(m, log, n, k),
         \A i \in 1 .. k : more[i] = log[i]
  PROVE  KeepsSaves(m, more, n, k)
<1>1. SinceIn(more, n, k) = SinceIn(log, n, k)
  BY DEF SinceIn
<1>2. SavedIn(more, n, k) = SavedIn(log, n, k)
  BY <1>1 DEF SavedIn, SinceIn
<1>3. QED BY <1>1, <1>2 DEF KeepsSaves

=============================================================================
