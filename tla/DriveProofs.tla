---------------------------- MODULE DriveProofs -----------------------------
(***************************************************************************)
(* Theorems about Drive, for any replicas, names, contents, commands and   *)
(* bounds: what a process holds in memory is the replay of the logs it     *)
(* saves, replicas that merged the same operations agree, no save is lost  *)
(* that a record has room for, and what a command creates is new.          *)
(***************************************************************************)
EXTENDS Drive, ReplayLemmas

Stamp == [lamport : Nat, replica : Nat]

\* What a command can move: a node, or the id TRASH that restore accepts.
Item == NodeId \cup {TRASH}

MoveOp == [ts : Stamp, child : Item, new_parent : Place,
           new_name : AnyName, kind : Kind]

StampedOk(o) ==
    /\ o = [ts |-> o.ts, op |-> o.op] /\ o.ts \in Stamp
    /\ o.op.type \in {"set", "restore", "remove"}

\* A log in strictly ascending timestamp order.
Ascending(log) == \A i, j \in 1 .. Len(log) : i < j => TsLess(log[i].ts, log[j].ts)

MovesLog(d) ==
    /\ d.moves \in Seq(MoveOp)
    /\ \A i \in 1 .. Len(d.moves) : d.moves[i].ts.lamport <= d.lamport
    /\ Keyed(Range(d.moves))

\* A content log in order.
InOrder(log) ==
    /\ log \in Seq(Range(log))
    /\ \A i \in 1 .. Len(log) : StampedOk(log[i])
    /\ Ascending(log)

ContentLog(d) ==
    /\ InOrder(d.contents)
    /\ \A i \in 1 .. Len(d.contents) : d.contents[i].ts.lamport <= d.lamport

\* A drive in memory: no stamp is past the clock, the content log is in order, and
\* tree and content map are what the logs say.
DriveOk(d) ==
    /\ d = [lamport |-> d.lamport, moves |-> d.moves, contents |-> d.contents,
            tree |-> d.tree, content |-> d.content]
    /\ d.lamport \in Nat
    /\ MovesLog(d)
    /\ ContentLog(d)
    /\ d.tree = ReplayMoves(d.moves)
    /\ d.content = FoldContent(d.contents)

TypeOK ==
    /\ drive = [r \in Replica |-> drive[r]]
    /\ \A r \in Replica : DriveOk(drive[r])
    /\ fresh \in [Replica -> Nat]

\* A move that some replica holds is in the log of the replica that stamped it.
Originals ==
    \A r, s \in Replica : \A o \in Range(drive[r].moves) :
        o.ts.replica = s => o \in Range(drive[s].moves)

IInv == TypeOK /\ Originals

-----------------------------------------------------------------------------
(* Orders *)

\* The order of names and ids is total.
LEMMA LexTotal ==
  ASSUME NEW x \in Seq(Nat), NEW y \in Seq(Nat)
  PROVE  ~LexLess(x, x) /\ (LexLess(x, y) \/ x = y \/ LexLess(y, x))
<1>1. /\ Len(x) \in Nat /\ Len(y) \in Nat
      /\ \A i \in 1 .. Len(x) : x[i] \in Nat
      /\ \A i \in 1 .. Len(y) : y[i] \in Nat
  OBVIOUS
<1>2. ~LexLess(x, x)
  BY <1>1 DEF LexLess
<1>3. ASSUME x # y PROVE LexLess(x, y) \/ LexLess(y, x)
  <2> DEFINE T == {k \in Nat \ {0} : k > Len(x) \/ k > Len(y) \/ x[k] # y[k]}
  <2>1. Len(x) + 1 \in T
    BY <1>1
  <2>2. PICK k \in T : \A i \in T : k <= i
    <3>1. T \in SUBSET Nat /\ T # {}
      BY <2>1
    <3> HIDE DEF T
    <3>2. QED BY <3>1, LeastNat
  <2>3. \A i \in 1 .. k - 1 : i <= Len(x) /\ i <= Len(y) /\ x[i] = y[i]
    <3> SUFFICES ASSUME NEW i \in 1 .. k - 1 PROVE i <= Len(x) /\ i <= Len(y) /\ x[i] = y[i]
      OBVIOUS
    <3>1. i \in Nat \ {0} /\ ~(k <= i)
      BY <2>2
    <3>2. i \notin T
      BY <2>2, <3>1
    <3>3. QED BY <1>1, <3>1, <3>2
  <2>4. ~(k > Len(x) /\ k > Len(y))
    <3> SUFFICES ASSUME k > Len(x), k > Len(y) PROVE FALSE
      OBVIOUS
    <3>1. Len(x) = Len(y)
      <4>1. CASE Len(x) < Len(y)
        <5>1. Len(y) \in 1 .. k - 1
          BY <1>1, <4>1
        <5>2. QED BY <1>1, <2>3, <4>1, <5>1
      <4>2. CASE Len(y) < Len(x)
        <5>1. Len(x) \in 1 .. k - 1
          BY <1>1, <4>2
        <5>2. QED BY <1>1, <2>3, <4>2, <5>1
      <4>3. QED BY <1>1, <4>1, <4>2
    <3>2. \A i \in 1 .. Len(x) : x[i] = y[i]
      BY <1>1, <2>3
    <3>3. QED BY <1>3, <3>1, <3>2
  <2>5. k \in Nat \ {0} /\ (k > Len(x) \/ k > Len(y) \/ x[k] # y[k])
    BY <2>2
  <2>6. CASE k > Len(x)
    <3>1. k \in 1 .. Len(y)
      BY <1>1, <2>4, <2>5, <2>6
    <3>2. QED BY <2>3, <2>6, <3>1 DEF LexLess
  <2>7. CASE k > Len(y)
    <3>1. k \in 1 .. Len(x)
      BY <1>1, <2>4, <2>5, <2>7
    <3>2. QED BY <2>3, <2>7, <3>1 DEF LexLess
  <2>8. CASE ~(k > Len(x)) /\ ~(k > Len(y))
    <3>1. k \in 1 .. Len(x) /\ k \in 1 .. Len(y) /\ x[k] # y[k]
      BY <1>1, <2>5, <2>8
    <3>2. x[k] < y[k] \/ y[k] < x[k]
      BY <1>1, <3>1
    <3>3. QED BY <2>3, <3>1, <3>2 DEF LexLess
  <2>9. QED BY <2>6, <2>7, <2>8
<1>4. QED BY <1>2, <1>3

LEMMA LexTransitive ==
  ASSUME NEW x \in Seq(Nat), NEW y \in Seq(Nat), NEW z \in Seq(Nat),
         LexLess(x, y), LexLess(y, z)
  PROVE  LexLess(x, z)
<1>1. /\ Len(x) \in Nat /\ Len(y) \in Nat /\ Len(z) \in Nat
      /\ \A i \in 1 .. Len(x) : x[i] \in Nat
      /\ \A i \in 1 .. Len(y) : y[i] \in Nat
      /\ \A i \in 1 .. Len(z) : z[i] \in Nat
  OBVIOUS
<1>2. PICK k \in 1 .. Len(y) :
        /\ \A i \in 1 .. k - 1 : i <= Len(x) /\ x[i] = y[i]
        /\ k > Len(x) \/ x[k] < y[k]
  BY DEF LexLess
<1>3. PICK l \in 1 .. Len(z) :
        /\ \A i \in 1 .. l - 1 : i <= Len(y) /\ y[i] = z[i]
        /\ l > Len(y) \/ y[l] < z[l]
  BY DEF LexLess
<1>4. CASE k < l
  <2>1. k \in 1 .. Len(z) /\ k \in 1 .. l - 1 /\ y[k] = z[k]
    BY <1>1, <1>3, <1>4
  <2>2. \A i \in 1 .. k - 1 : i <= Len(x) /\ x[i] = z[i]
    <3>1. \A i \in 1 .. k - 1 : i \in 1 .. l - 1
      BY <1>4
    <3>2. QED BY <1>2, <1>3, <3>1
  <2>3. QED BY <1>2, <2>1, <2>2 DEF LexLess
<1>5. CASE l <= k
  <2>1. l \in 1 .. Len(y) /\ y[l] < z[l]
    BY <1>1, <1>3, <1>5
  <2>2. \A i \in 1 .. l - 1 : i <= Len(x) /\ x[i] = z[i]
    <3>1. \A i \in 1 .. l - 1 : i \in 1 .. k - 1
      BY <1>5
    <3>2. QED BY <1>2, <1>3, <3>1
  <2>3. l > Len(x) \/ x[l] < z[l]
    <3>1. CASE l = k
      <4>1. l > Len(x) \/ x[l] < y[l]
        BY <1>2, <3>1
      <4>2. l > Len(x) \/ x[l] \in Nat
        BY <1>1
      <4>3. y[l] \in Nat /\ z[l] \in Nat
        BY <1>1, <2>1
      <4>4. \A p, q, s \in Nat : p < q /\ q < s => p < s
        OBVIOUS
      <4>5. QED BY <2>1, <4>1, <4>2, <4>3, <4>4, Zenon
    <3>2. CASE l < k
      <4>1. l \in 1 .. k - 1
        BY <3>2
      <4>2. x[l] = y[l]
        BY <1>2, <4>1
      <4>3. QED BY <2>1, <4>2
    <3>3. QED BY <1>5, <3>1, <3>2
  <2>4. QED BY <2>2, <2>3 DEF LexLess
<1>6. QED BY <1>4, <1>5

\* A set of pairs that orders S totally.
Orders(before, S) ==
    /\ \A x \in S : <<x, x>> \notin before
    /\ \A x, y \in S : <<x, y>> \in before \/ x = y \/ <<y, x>> \in before
    /\ \A x, y, z \in S : <<x, y>> \in before /\ <<y, z>> \in before => <<x, z>> \in before

\* How many elements of S are before x.
RankIn(S, before, x) == Cardinality({y \in S : <<y, x>> \in before})

\* The ranks of the elements of a finite set are 0, 1, 2 and so on, in their order.
LEMMA RankFacts ==
  ASSUME NEW S, IsFiniteSet(S), NEW before, Orders(before, S)
  PROVE  /\ Cardinality(S) \in Nat
         /\ \A x \in S : RankIn(S, before, x) \in 0 .. Cardinality(S) - 1
         /\ \A x, y \in S :
               <<x, y>> \in before => RankIn(S, before, x) < RankIn(S, before, y)
         /\ \A k \in 1 .. Cardinality(S) : \E x \in S : RankIn(S, before, x) = k - 1
<1> DEFINE Below(x) == {y \in S : <<y, x>> \in before}
           N     == Cardinality(S)
           rank  == [x \in S |-> Cardinality(Below(x))]
<1>1. N \in Nat
  BY FS_CardinalityType
<1>2. \A x \in S : /\ IsFiniteSet(Below(x)) /\ Cardinality(Below(x)) \in Nat
                   /\ Cardinality(Below(x)) <= N - 1
  <2> SUFFICES ASSUME NEW x \in S
               PROVE  /\ IsFiniteSet(Below(x)) /\ Cardinality(Below(x)) \in Nat
                      /\ Cardinality(Below(x)) <= N - 1
    OBVIOUS
  <2>1. Below(x) \in SUBSET (S \ {x})
    BY DEF Orders
  <2>2. IsFiniteSet(S \ {x}) /\ Cardinality(S \ {x}) = N - 1
    BY <1>1, FS_RemoveElement
  <2> HIDE DEF Below, N
  <2>3. /\ IsFiniteSet(Below(x)) /\ Cardinality(Below(x)) <= Cardinality(S \ {x})
        /\ Cardinality(Below(x)) \in Nat
    BY <2>1, <2>2, FS_Subset, FS_CardinalityType
  <2>4. QED BY <2>2, <2>3
<1>3. ASSUME NEW x \in S, NEW y \in S, <<x, y>> \in before
      PROVE  Cardinality(Below(x)) < Cardinality(Below(y))
  <2>1. Below(x) \in SUBSET Below(y) /\ x \in Below(y) /\ x \notin Below(x)
    BY <1>3 DEF Orders
  <2> HIDE DEF Below
  <2>2. /\ Cardinality(Below(x)) <= Cardinality(Below(y))
        /\ Cardinality(Below(y)) = Cardinality(Below(x)) => Below(y) = Below(x)
    BY <1>2, <2>1, FS_Subset
  <2>3. QED BY <1>2, <2>1, <2>2
<1>4. rank \in Injection(S, 0 .. N - 1)
  <2>1. rank \in [S -> 0 .. N - 1]
    <3> HIDE DEF Below, N
    <3>1. \A x \in S : Cardinality(Below(x)) \in 0 .. N - 1
      BY <1>1, <1>2
    <3>2. QED BY <3>1
  <2>2. \A x, y \in S : rank[x] = rank[y] => x = y
    <3> SUFFICES ASSUME NEW x \in S, NEW y \in S, x # y PROVE rank[x] # rank[y]
      OBVIOUS
    <3>1. <<x, y>> \in before \/ <<y, x>> \in before
      BY DEF Orders
    <3> HIDE DEF Below
    <3>2. QED BY <1>2, <1>3, <3>1
  <2>3. QED BY <2>1, <2>2 DEF Injection, IsInjective
<1> HIDE DEF rank
<1>5. rank \in Surjection(S, 0 .. N - 1)
  <2>1. IsFiniteSet(0 .. N - 1) /\ Cardinality(0 .. N - 1) = N
    <3>1. 0 \in Int /\ N - 1 \in Int
      BY <1>1
    <3>2. QED BY <1>1, <3>1, FS_Interval
  <2>2. QED BY <1>4, <2>1, FS_Injection
<1>6. \A k \in 1 .. N : \E x \in S : Cardinality(Below(x)) = k - 1
  <2> SUFFICES ASSUME NEW k \in 1 .. N PROVE \E x \in S : Cardinality(Below(x)) = k - 1
    OBVIOUS
  <2>1. k - 1 \in 0 .. N - 1
    BY <1>1
  <2>2. PICK x \in S : rank[x] = k - 1
    BY <1>5, <2>1 DEF Surjection
  <2>3. QED BY <2>2 DEF rank
<1>7. \A x \in S : RankIn(S, before, x) = Cardinality(Below(x))
  BY DEF RankIn
<1>8. \A x \in S : Cardinality(Below(x)) \in 0 .. N - 1
  <2> HIDE DEF Below, N
  <2>1. QED BY <1>1, <1>2
<1> HIDE DEF Below
<1>9. QED BY <1>1, <1>3, <1>6, <1>7, <1>8

\* In the order of their ranks the elements of a finite set form a sequence: for each
\* position there is an element that so many are before.
LEMMA RankIsSequence ==
  ASSUME NEW S, IsFiniteSet(S), NEW before, Orders(before, S)
  PROVE  InRank(S, before) \in Seq(S)
<1> DEFINE N == Cardinality(S)
<1>1. InRank(S, before) = [k \in 1 .. N |-> CHOOSE x \in S : RankIn(S, before, x) = k - 1]
  BY DEF InRank, RankIn
<1>2. N \in Nat /\ \A k \in 1 .. N : \E x \in S : RankIn(S, before, x) = k - 1
  BY RankFacts
<1> HIDE DEF N
<1>3. QED BY <1>1, <1>2

-----------------------------------------------------------------------------
(* The tree log *)

\* Replaying a longer log is integrating its last move.
LEMMA ReplayAppend ==
  ASSUME NEW S, NEW ops \in Seq(S), NEW op
  PROVE  ReplayMoves(Append(ops, op)) = Integrate(ReplayMoves(ops), op)
<1> DEFINE L == Len(ops)
           more == Append(ops, op)
           f == CHOOSE h : IsReplay(h, ops, L)
           g == CHOOSE h : IsReplay(h, more, L + 1)
           T == {k \in 0 .. L : f[k] # g[k]}
<1>1. /\ L \in Nat /\ Len(more) = L + 1 /\ more[L + 1] = op
      /\ \A i \in 1 .. L : more[i] = ops[i]
  OBVIOUS
<1> HIDE DEF more
<1>2. ReplayMoves(ops) = f[L] /\ ReplayMoves(more) = g[L + 1]
  BY <1>1 DEF ReplayMoves, IsReplay
<1> HIDE DEF L
<1>3. IsReplay(f, ops, L) /\ IsReplay(g, more, L + 1)
  <2>1. L \in Nat /\ L + 1 \in Nat
    BY <1>1
  <2>2. \E h : IsReplay(h, ops, L)
    BY <2>1, ReplayExists
  <2>3. \E h : IsReplay(h, more, L + 1)
    BY <2>1, ReplayExists
  <2>4. QED BY <2>2, <2>3
<1> HIDE DEF f, g
<1>4. /\ \A j \in 0 .. L : f[j] = IF j = 0 THEN EmptyTree ELSE Integrate(f[j - 1], ops[j])
      /\ \A j \in 0 .. L + 1 : g[j] = IF j = 0 THEN EmptyTree ELSE Integrate(g[j - 1], more[j])
  BY <1>3 DEF IsReplay
<1>5. ASSUME T # {} PROVE FALSE
  <2>1. PICK k \in T : \A j \in T : k <= j
    <3>1. T \in SUBSET Nat
      BY <1>1
    <3> HIDE DEF T
    <3>2. QED BY <1>5, <3>1, LeastNat
  <2>2. k # 0
    BY <1>1, <1>4, <2>1
  <2>3. k \in 1 .. L /\ k - 1 \in 0 .. L /\ k \in 0 .. L + 1 /\ ~(k <= k - 1)
    BY <1>1, <2>1, <2>2
  <2>4. f[k - 1] = g[k - 1]
    BY <2>1, <2>3
  <2>5. f[k] = g[k]
    BY <1>1, <1>4, <2>2, <2>3, <2>4
  <2>6. QED BY <2>1, <2>5
<1>6. f[L] = g[L]
  BY <1>1, <1>5
<1>7. g[L + 1] = Integrate(g[L], op)
  <2>1. L + 1 \in 0 .. L + 1 /\ L + 1 # 0 /\ L + 1 - 1 = L
    BY <1>1
  <2>2. QED BY <1>1, <1>4, <2>1
<1>8. QED BY <1>2, <1>6, <1>7 DEF more

-----------------------------------------------------------------------------
(* The content log and its fold *)

LEMMA LogFacts ==
  ASSUME NEW log, InOrder(log)
  PROVE  /\ Len(log) \in Nat /\ DOMAIN log = 1 .. Len(log)
         /\ \A i \in 1 .. Len(log) :
               /\ log[i].ts = [lamport |-> log[i].ts.lamport, replica |-> log[i].ts.replica]
               /\ log[i].ts.lamport \in Nat /\ log[i].ts.replica \in Nat
               /\ log[i].op.type \in {"set", "restore", "remove"}
         /\ \A i, j \in 1 .. Len(log) :
               i < j => /\ TsLess(log[i].ts, log[j].ts)
                        /\ ~TsLess(log[j].ts, log[i].ts)
                        /\ log[i].ts # log[j].ts
<1>1. /\ Len(log) \in Nat /\ DOMAIN log = 1 .. Len(log)
  BY DEF InOrder
<1>2. \A i \in 1 .. Len(log) :
               /\ log[i].ts = [lamport |-> log[i].ts.lamport, replica |-> log[i].ts.replica]
               /\ log[i].ts.lamport \in Nat /\ log[i].ts.replica \in Nat
               /\ log[i].op.type \in {"set", "restore", "remove"}
  BY ReplicaAssumption DEF InOrder, StampedOk, Stamp
<1>3. ASSUME NEW i \in 1 .. Len(log), NEW j \in 1 .. Len(log), i < j
      PROVE  /\ TsLess(log[i].ts, log[j].ts)
             /\ ~TsLess(log[j].ts, log[i].ts)
             /\ log[i].ts # log[j].ts
  <2>1. TsLess(log[i].ts, log[j].ts)
    BY <1>3 DEF InOrder, Ascending
  <2> DEFINE s == log[i].ts
             t == log[j].ts
  <2>2. s.lamport \in Nat /\ s.replica \in Nat /\ t.lamport \in Nat /\ t.replica \in Nat
    BY <1>2
  <2> HIDE DEF s, t
  <2>3. TsLess(s, t) => ~TsLess(t, s) /\ s # t
    BY <2>2 DEF TsLess
  <2>4. QED BY <2>1, <2>3 DEF s, t
<1>4. QED BY <1>1, <1>2, <1>3

\* Sorting a log that is in order changes nothing.
LEMMA ByTsInOrder ==
  ASSUME NEW log, InOrder(log)
  PROVE  ByTs(log) = log
<1> DEFINE L == Len(log)
           Earlier(i) == {j \in DOMAIN log :
                            TsLess(log[j].ts, log[i].ts) \/ (log[j].ts = log[i].ts /\ j < i)}
<1>1. L \in Nat /\ DOMAIN log = 1 .. L /\ log = [i \in 1 .. L |-> log[i]]
  BY LogFacts DEF InOrder
<1>2. ASSUME NEW i \in 1 .. L PROVE Earlier(i) = 1 .. i - 1
  <2>1. \A j \in 1 .. L : j \in Earlier(i) <=> j < i
    <3> SUFFICES ASSUME NEW j \in 1 .. L PROVE j \in Earlier(i) <=> j < i
      OBVIOUS
    <3>1. j < i => j \in Earlier(i)
      BY <1>1, LogFacts
    <3>2. i < j => j \notin Earlier(i)
      BY <1>1, LogFacts
    <3>3. j = i => j \notin Earlier(i)
      <4>1. log[i].ts.lamport \in Nat /\ log[i].ts.replica \in Nat
        BY LogFacts
      <4>2. ~TsLess(log[i].ts, log[i].ts) /\ ~(i < i)
        BY <1>1, <4>1 DEF TsLess
      <4>3. QED BY <4>2
    <3>4. QED BY <1>1, <3>1, <3>2, <3>3
  <2>2. Earlier(i) \subseteq 1 .. L
    BY <1>1
  <2>3. \A j : j \in 1 .. i - 1 <=> j \in 1 .. L /\ j < i
    BY <1>1
  <2> HIDE DEF Earlier
  <2>4. QED BY <2>1, <2>2, <2>3
<1>3. \A i \in 1 .. L : Cardinality(Earlier(i)) = i - 1
  <2> SUFFICES ASSUME NEW i \in 1 .. L PROVE Cardinality(Earlier(i)) = i - 1
    OBVIOUS
  <2>1. Cardinality(1 .. i - 1) = i - 1
    <3>1. 1 \in Int /\ i - 1 \in Int
      BY <1>1
    <3>2. Cardinality(1 .. i - 1) = IF 1 > i - 1 THEN 0 ELSE i - 1 - 1 + 1
      BY <3>1, FS_Interval
    <3>3. QED BY <1>1, <3>2
  <2>2. QED BY <1>2, <2>1
<1>4. ByTs(log) = [k \in DOMAIN log |->
                     log[CHOOSE i \in DOMAIN log : Cardinality(Earlier(i)) = k - 1]]
  BY DEF ByTs
<1> HIDE DEF Earlier
<1>5. \A k \in 1 .. L : (CHOOSE i \in DOMAIN log : Cardinality(Earlier(i)) = k - 1) = k
  BY <1>1, <1>3
<1>6. QED BY <1>1, <1>4, <1>5

\* The fold of the first n operations of a log is a recursive function.
IsFold(f, m, ops, ids, n) ==
    f = [i \in 0 .. n |->
            IF i = 0 THEN m
            ELSE IF ops[i].op.id \in ids THEN ApplyContent(f[i - 1], ops[i].op)
            ELSE f[i - 1]]

LEMMA FoldExists ==
  ASSUME NEW m, NEW ops, NEW ids, NEW n \in Nat
  PROVE  \E f : IsFold(f, m, ops, ids, n)
<1> DEFINE T == {l \in Nat : ~ \E f : IsFold(f, m, ops, ids, l)}
           Step(x, i) == IF ops[i].op.id \in ids THEN ApplyContent(x, ops[i].op) ELSE x
<1> SUFFICES ASSUME T # {} PROVE FALSE
  OBVIOUS
<1>1. PICK l \in T : \A k \in T : l <= k
  BY LeastNat
<1>2. l # 0
  <2>1. IsFold([i \in 0 .. 0 |-> m], m, ops, ids, 0)
    BY DEF IsFold
  <2>2. QED BY <2>1
<1>3. l \in Nat /\ l - 1 \in Nat /\ 0 .. l - 1 \subseteq 0 .. l /\ ~(l <= l - 1)
  BY <1>2
<1>4. PICK f : IsFold(f, m, ops, ids, l - 1)
  BY <1>1, <1>3
<1> DEFINE g == [i \in 0 .. l |-> IF i = l THEN Step(f[l - 1], l) ELSE f[i]]
<1>5. \A i \in 0 .. l - 1 : f[i] = IF i = 0 THEN m ELSE Step(f[i - 1], i)
  BY <1>4 DEF IsFold
<1>6. g = [i \in 0 .. l |-> IF i = 0 THEN m ELSE Step(g[i - 1], i)]
  <2> HIDE DEF Step
  <2>1. QED BY <1>2, <1>3, <1>5
<1>7. IsFold(g, m, ops, ids, l)
  <2> HIDE DEF g
  <2>1. QED BY <1>6 DEF IsFold
<1>8. QED BY <1>1, <1>7

\* The fold of a log in order applies one operation after the other.
LEMMA FoldSteps ==
  ASSUME NEW log, InOrder(log), NEW m, NEW ids
  PROVE  \E f : IsFold(f, m, log, ids, Len(log)) /\ Fold(m, log, ids) = f[Len(log)]
<1> DEFINE f == CHOOSE h : IsFold(h, m, log, ids, Len(log))
<1>1. Fold(m, log, ids) = f[Len(log)]
  <2>1. ByTs(log) = log
    BY ByTsInOrder
  <2>2. QED BY <2>1 DEF Fold, IsFold
<1>2. IsFold(f, m, log, ids, Len(log))
  <2>1. Len(log) \in Nat
    BY LogFacts
  <2>2. QED BY <2>1, FoldExists
<1>3. QED BY <1>1, <1>2

Ids(log) == {o.op.id : o \in Range(log)}

LEMMA IdsCover ==
  ASSUME NEW log, InOrder(log)
  PROVE  \A i \in 1 .. Len(log) : log[i].op.id \in Ids(log)
BY LogFacts DEF Ids, Range

LEMMA AppendInOrder ==
  ASSUME NEW log, InOrder(log), NEW o, StampedOk(o),
         \A i \in 1 .. Len(log) : TsLess(log[i].ts, o.ts)
  PROVE  /\ InOrder(Append(log, o))
         /\ Len(Append(log, o)) = Len(log) + 1
         /\ Append(log, o)[Len(log) + 1] = o
         /\ \A i \in 1 .. Len(log) : Append(log, o)[i] = log[i]
<1> DEFINE L == Len(log)
           more == Append(log, o)
<1>1. L \in Nat /\ DOMAIN log = 1 .. L /\ log \in Seq(Range(log))
  BY LogFacts DEF InOrder
<1>2. /\ Len(more) = L + 1 /\ more[L + 1] = o
      /\ \A i \in 1 .. L : more[i] = log[i]
      /\ more \in Seq(Range(log) \cup {o})
      /\ DOMAIN more = 1 .. L + 1
  <2>1. log \in Seq(Range(log) \cup {o})
    BY <1>1
  <2>2. QED BY <1>1, <2>1
<1> HIDE DEF more
<1>3. \A i \in 1 .. L + 1 : i \in 1 .. L \/ i = L + 1
  BY <1>1
<1>4. more \in Seq(Range(more))
  <2>1. \A i \in 1 .. L + 1 : more[i] \in Range(more)
    BY <1>2 DEF Range
  <2>2. QED BY <1>2, <2>1
<1>5. \A i \in 1 .. Len(more) : StampedOk(more[i])
  BY <1>2, <1>3 DEF InOrder
<1>6. ASSUME NEW i \in 1 .. Len(more), NEW j \in 1 .. Len(more), i < j
      PROVE  TsLess(more[i].ts, more[j].ts)
  <2>1. i \in 1 .. L /\ (j \in 1 .. L \/ j = L + 1)
    BY <1>1, <1>2, <1>6
  <2>2. QED BY <1>2, <1>6, <2>1 DEF InOrder, Ascending
<1>7. QED BY <1>2, <1>4, <1>5, <1>6 DEF InOrder, Ascending, more

\* Folding a longer log is applying its last operation.
LEMMA FoldAppend ==
  ASSUME NEW log, InOrder(log), NEW o, StampedOk(o),
         \A i \in 1 .. Len(log) : TsLess(log[i].ts, o.ts)
  PROVE  FoldContent(Append(log, o)) = ApplyContent(FoldContent(log), o.op)
<1> DEFINE L == Len(log)
           more == Append(log, o)
<1>1. /\ InOrder(more) /\ Len(more) = L + 1 /\ more[L + 1] = o
      /\ \A i \in 1 .. L : more[i] = log[i]
  BY AppendInOrder
<1> HIDE DEF more
<1>2. L \in Nat
  BY LogFacts
<1>3. PICK f : IsFold(f, NoContent, log, Ids(log), L) /\ FoldContent(log) = f[L]
  BY FoldSteps DEF FoldContent, Ids
<1>4. PICK g : /\ IsFold(g, NoContent, more, Ids(more), L + 1)
               /\ FoldContent(more) = g[L + 1]
  <2>1. PICK g : /\ IsFold(g, NoContent, more, Ids(more), Len(more))
                 /\ Fold(NoContent, more, Ids(more)) = g[Len(more)]
    BY <1>1, FoldSteps
  <2>2. QED BY <1>1, <2>1 DEF FoldContent, Ids
<1>5. \A i \in 0 .. L : f[i] = IF i = 0 THEN NoContent ELSE ApplyContent(f[i - 1], log[i].op)
  BY <1>3, IdsCover DEF IsFold
<1>6. \A i \in 0 .. L + 1 :
         g[i] = IF i = 0 THEN NoContent ELSE ApplyContent(g[i - 1], more[i].op)
  BY <1>1, <1>4, IdsCover DEF IsFold
<1> DEFINE T == {k \in 0 .. L : f[k] # g[k]}
<1>7. ASSUME T # {} PROVE FALSE
  <2>1. PICK k \in T : \A j \in T : k <= j
    <3>1. T \in SUBSET Nat
      BY <1>2
    <3> HIDE DEF T
    <3>2. QED BY <1>7, <3>1, LeastNat
  <2>2. k # 0
    BY <1>2, <1>5, <1>6, <2>1
  <2>3. k \in 1 .. L /\ k - 1 \in 0 .. L /\ k \in 0 .. L + 1 /\ ~(k <= k - 1)
    BY <1>2, <2>1, <2>2
  <2>4. f[k - 1] = g[k - 1]
    BY <2>1, <2>3
  <2>5. f[k] = g[k]
    BY <1>1, <1>5, <1>6, <2>2, <2>3, <2>4
  <2>6. QED BY <2>1, <2>5
<1>8. f[L] = g[L]
  BY <1>2, <1>7
<1>9. g[L + 1] = ApplyContent(g[L], o.op)
  <2>1. L + 1 \in 0 .. L + 1 /\ L + 1 # 0 /\ L + 1 - 1 = L
    BY <1>2
  <2>2. QED BY <1>1, <1>6, <2>1
<1>10. QED BY <1>3, <1>4, <1>8, <1>9 DEF more

\* refold_key: once an operation is inserted in a log, folding the operations on its
\* node anew into the map of the shorter log gives the map of the longer one.
LEMMA RefoldIsFold ==
  ASSUME NEW log, InOrder(log), NEW more, InOrder(more), NEW at \in 1 .. Len(log) + 1,
         Len(more) = Len(log) + 1,
         \A i \in 1 .. at - 1 : more[i] = log[i],
         \A i \in at + 1 .. Len(log) + 1 : more[i] = log[i - 1]
  PROVE  RefoldKey(FoldContent(log), more, more[at].op.id) = FoldContent(more)
<1> DEFINE L  == Len(log)
           id == more[at].op.id
           m  == FoldContent(log)
<1>1. L \in Nat /\ at \in 1 .. L + 1 /\ Len(more) = L + 1
  BY LogFacts
<1>2. /\ \A i \in 1 .. L : log[i].op.type \in {"set", "restore", "remove"}
      /\ \A i \in 1 .. L + 1 : more[i].op.type \in {"set", "restore", "remove"}
  BY <1>1, LogFacts
<1>3. PICK f : IsFold(f, NoContent, log, Ids(log), L) /\ m = f[L]
  <2>1. PICK f : IsFold(f, NoContent, log, Ids(log), L) /\ Fold(NoContent, log, Ids(log)) = f[L]
    BY FoldSteps
  <2>2. QED BY <2>1 DEF FoldContent, Ids
<1>4. PICK g : IsFold(g, NoContent, more, Ids(more), L + 1) /\ FoldContent(more) = g[L + 1]
  <2>1. PICK g : /\ IsFold(g, NoContent, more, Ids(more), Len(more))
                 /\ Fold(NoContent, more, Ids(more)) = g[Len(more)]
    BY <1>1, FoldSteps
  <2>2. QED BY <1>1, <2>1 DEF FoldContent, Ids
<1>5. PICK k : /\ IsFold(k, WithoutRecord(m, id), more, {id}, L + 1)
               /\ RefoldKey(m, more, id) = k[L + 1]
  <2>1. PICK k : /\ IsFold(k, WithoutRecord(m, id), more, {id}, Len(more))
                 /\ Fold(WithoutRecord(m, id), more, {id}) = k[Len(more)]
    BY <1>1, FoldSteps
  <2>2. QED BY <1>1, <2>1 DEF RefoldKey
<1>6. \A i \in 0 .. L : f[i] = IF i = 0 THEN NoContent ELSE ApplyContent(f[i - 1], log[i].op)
  BY <1>3, IdsCover DEF IsFold
<1>7. \A i \in 0 .. L + 1 :
         g[i] = IF i = 0 THEN NoContent ELSE ApplyContent(g[i - 1], more[i].op)
  BY <1>1, <1>4, IdsCover DEF IsFold
<1>8. \A i \in 0 .. L + 1 :
         k[i] = IF i = 0 THEN WithoutRecord(m, id)
                ELSE IF more[i].op.id = id THEN ApplyContent(k[i - 1], more[i].op)
                ELSE k[i - 1]
  BY <1>5 DEF IsFold
<1> HIDE DEF L, id, m
<1> DEFINE Older(i) == IF i < at THEN f[i] ELSE f[i - 1]
           Good(i) == /\ IsMap(g[i]) /\ IsMap(k[i])
                      /\ SameAt(k[i], g[i], id)
                      /\ \A n : n # id => SameAt(g[i], Older(i), n) /\ SameAt(k[i], m, n)
           T == {i \in 0 .. L + 1 : ~Good(i)}
<1>9. Good(0)
  <2>1. g[0] = NoContent /\ k[0] = WithoutRecord(m, id) /\ f[0] = NoContent
    BY <1>1, <1>6, <1>7, <1>8
  <2>2. IsMap(NoContent) /\ DOMAIN NoContent = {}
    BY DEF IsMap, NoContent
  <2>3. IsMap(WithoutRecord(m, id))
    BY WithoutIsMap
  <2>4. \A n : n # id => SameAt(WithoutRecord(m, id), m, n)
    BY WithElsewhere
  <2>5. SameAt(WithoutRecord(m, id), NoContent, id)
    BY <2>2 DEF SameAt, WithoutRecord
  <2>6. \A n : SameAt(NoContent, NoContent, n)
    BY DEF SameAt
  <2>7. Older(0) = NoContent
    BY <1>1, <2>1
  <2> HIDE DEF Older
  <2>8. QED BY <2>1, <2>2, <2>3, <2>4, <2>5, <2>6, <2>7
<1>10. ASSUME T # {} PROVE FALSE
  <2>1. PICK i \in T : \A j \in T : i <= j
    <3>1. T \in SUBSET Nat
      BY <1>1
    <3> HIDE DEF T
    <3>2. QED BY <1>10, <3>1, LeastNat
  <2>2. i # 0
    <3> HIDE DEF Good
    <3>1. QED BY <1>9, <2>1
  <2>3. i \in 1 .. L + 1 /\ i - 1 \in 0 .. L + 1 /\ i \in 0 .. L + 1 /\ ~(i <= i - 1)
    BY <1>1, <2>1, <2>2
  <2>4. Good(i - 1)
    <3> HIDE DEF Good
    <3>1. QED BY <2>1, <2>3
  <2> DEFINE op == more[i].op
  <2>5. op.type \in {"set", "restore", "remove"}
    BY <1>2, <2>3
  <2>6. g[i] = ApplyContent(g[i - 1], op)
    BY <1>7, <2>2, <2>3
  <2>7. /\ op.id = id => k[i] = ApplyContent(k[i - 1], op)
        /\ op.id # id => k[i] = k[i - 1]
    BY <1>8, <2>2, <2>3
  <2> HIDE DEF op
  <2>8. IsMap(g[i]) /\ IsMap(k[i])
    <3>1. IsMap(g[i - 1]) /\ IsMap(k[i - 1])
      BY <2>4
    <3>2. IsMap(ApplyContent(g[i - 1], op)) /\ IsMap(ApplyContent(k[i - 1], op))
      BY <2>5, <3>1, ApplyIsMap
    <3>3. QED BY <2>6, <2>7, <3>1, <3>2
  <2>9. SameAt(k[i], g[i], id)
    <3>1. SameAt(k[i - 1], g[i - 1], id)
      BY <2>4
    <3>2. CASE op.id = id
      BY <2>5, <2>6, <2>7, <3>1, <3>2, ApplyHere
    <3>3. CASE op.id # id
      <4>1. SameAt(ApplyContent(g[i - 1], op), g[i - 1], id)
        BY <2>5, <3>3, ApplyElsewhere
      <4>2. QED BY <2>6, <2>7, <3>1, <3>3, <4>1, SameSteps
    <3>4. QED BY <3>2, <3>3
  <2>10. ASSUME NEW n, n # id
         PROVE  SameAt(k[i], m, n)
    <3>1. SameAt(k[i - 1], m, n)
      BY <2>4, <2>10
    <3>2. CASE op.id = id
      <4>1. SameAt(ApplyContent(k[i - 1], op), k[i - 1], n)
        BY <2>5, <2>10, <3>2, ApplyElsewhere
      <4>2. QED BY <2>7, <3>1, <3>2, <4>1, SameSteps
    <3>3. CASE op.id # id
      BY <2>7, <3>1, <3>3
    <3>4. QED BY <3>2, <3>3
  <2>11. ASSUME NEW n, n # id
         PROVE  SameAt(g[i], Older(i), n)
    <3>1. SameAt(g[i - 1], Older(i - 1), n)
      <4> HIDE DEF Older
      <4>1. QED BY <2>4, <2>11
    <3>2. CASE i < at
      <4>1. Older(i) = f[i] /\ Older(i - 1) = f[i - 1]
        BY <1>1, <2>3, <3>2
      <4>2. i \in 1 .. at - 1 /\ i \in 0 .. L /\ i # 0
        BY <1>1, <2>3, <3>2
      <4>3. f[i] = ApplyContent(f[i - 1], op)
        BY <1>6, <4>2 DEF op
      <4>4. SameAt(g[i - 1], f[i - 1], n)
        BY <3>1, <4>1
      <4> HIDE DEF Older
      <4>5. QED BY <2>5, <2>6, <4>1, <4>3, <4>4, ApplyKeywise
    <3>3. CASE i = at
      <4>1. Older(i) = f[i - 1] /\ Older(i - 1) = f[i - 1]
        BY <1>1, <2>3, <3>3
      <4>2. op.id = id
        BY <3>3 DEF op, id
      <4>3. SameAt(g[i - 1], f[i - 1], n)
        BY <3>1, <4>1
      <4>4. SameAt(ApplyContent(g[i - 1], op), g[i - 1], n)
        BY <2>5, <2>11, <4>2, ApplyElsewhere
      <4> HIDE DEF Older
      <4>5. QED BY <2>6, <4>1, <4>3, <4>4, SameSteps
    <3>4. CASE i > at
      <4>1. Older(i) = f[i - 1] /\ Older(i - 1) = f[i - 1 - 1]
        BY <1>1, <2>3, <3>4
      <4>2. i \in at + 1 .. L + 1 /\ i - 1 \in 0 .. L /\ i - 1 # 0
        BY <1>1, <2>3, <3>4
      <4>3. f[i - 1] = ApplyContent(f[i - 1 - 1], op)
        <5>1. more[i] = log[i - 1]
          BY <4>2 DEF L
        <5>2. QED BY <1>6, <4>2, <5>1 DEF op
      <4>4. SameAt(g[i - 1], f[i - 1 - 1], n)
        BY <3>1, <4>1
      <4> HIDE DEF Older
      <4>5. QED BY <2>5, <2>6, <4>1, <4>3, <4>4, ApplyKeywise
    <3>5. QED BY <1>1, <2>3, <3>2, <3>3, <3>4
  <2>12. Good(i)
    <3> HIDE DEF Older
    <3>1. QED BY <2>8, <2>9, <2>10, <2>11
  <2> HIDE DEF Good
  <2>13. QED BY <2>1, <2>12
<1>11. Good(L + 1)
  <2> HIDE DEF Good
  <2>1. L + 1 \in 0 .. L + 1
    BY <1>1
  <2>2. QED BY <1>10, <2>1
<1>12. \A n : SameAt(k[L + 1], g[L + 1], n)
  <2> SUFFICES ASSUME NEW n PROVE SameAt(k[L + 1], g[L + 1], n)
    OBVIOUS
  <2>1. CASE n = id
    BY <1>11, <2>1
  <2>2. CASE n # id
    <3>1. Older(L + 1) = m
      BY <1>1, <1>3
    <3>2. SameAt(g[L + 1], m, n) /\ SameAt(k[L + 1], m, n)
      <4> HIDE DEF Older
      <4>1. QED BY <1>11, <2>2, <3>1
    <3>3. QED BY <3>2, SameSteps
  <2>3. QED BY <2>1, <2>2
<1>13. k[L + 1] = g[L + 1]
  <2> HIDE DEF Older
  <2>1. IsMap(g[L + 1]) /\ IsMap(k[L + 1])
    BY <1>11
  <2>2. QED BY <1>12, <2>1, SameMap
<1>14. QED BY <1>4, <1>5, <1>13 DEF id, m

-----------------------------------------------------------------------------
(* Inserting an operation that a peer wrote *)

LEMMA StampOrder ==
  ASSUME NEW s \in Stamp, NEW t \in Stamp, NEW u \in Stamp
  PROVE  /\ TsLess(s, t) \/ s = t \/ TsLess(t, s)
         /\ ~TsLess(s, s)
         /\ TsLess(s, t) /\ TsLess(t, u) => TsLess(s, u)
         /\ s.lamport \in Nat /\ s.replica \in Nat
<1>1. \A x \in Stamp : x.lamport \in Nat /\ x.replica \in Nat
  BY ReplicaAssumption DEF Stamp
<1>2. s.lamport = t.lamport /\ s.replica = t.replica => s = t
  BY DEF Stamp
<1>3. QED BY <1>1, <1>2 DEF TsLess

\* Where apply_remote_content finds the place of an operation.
Before(log, ts) == {i \in DOMAIN log : TsLess(log[i].ts, ts)}

LEMMA BeforeIsPrefix ==
  ASSUME NEW log, InOrder(log), NEW ts \in Stamp
  PROVE  \E pos \in 0 .. Len(log) :
            /\ pos = Cardinality(Before(log, ts))
            /\ \A i \in 1 .. pos : TsLess(log[i].ts, ts)
            /\ \A i \in pos + 1 .. Len(log) : ~TsLess(log[i].ts, ts)
<1> DEFINE L == Len(log)
           S == Before(log, ts)
           T == {k \in 1 .. L + 1 : k \notin S}
<1>1. L \in Nat /\ DOMAIN log = 1 .. L
  BY LogFacts
<1>2. \A i \in 1 .. L : log[i].ts \in Stamp
  BY DEF InOrder, StampedOk
<1>3. PICK k \in T : \A j \in T : k <= j
  <2>1. L + 1 \in T /\ T \in SUBSET Nat
    BY <1>1 DEF Before
  <2> HIDE DEF T
  <2>2. QED BY <2>1, LeastNat
<1>4. k \in 1 .. L + 1 /\ k \in Nat \ {0} /\ k - 1 \in 0 .. L
  BY <1>1, <1>3
<1>5. \A i \in 1 .. k - 1 : i \in S
  BY <1>1, <1>3, <1>4
<1>6. ASSUME NEW i \in k .. L PROVE i \notin S
  <2>1. CASE i = k
    BY <1>3, <2>1
  <2>2. CASE i # k
    <3>1. k \in 1 .. L /\ i \in 1 .. L /\ k < i
      BY <1>1, <1>4, <2>2
    <3>2. TsLess(log[k].ts, log[i].ts) /\ ~TsLess(log[k].ts, ts)
      BY <1>1, <1>3, <3>1, LogFacts DEF Before
    <3>3. log[k].ts \in Stamp /\ log[i].ts \in Stamp
      BY <1>2, <3>1
    <3>4. ~TsLess(log[i].ts, ts)
      BY <3>2, <3>3, StampOrder
    <3>5. QED BY <3>4 DEF Before
  <2>3. QED BY <2>1, <2>2
<1>7. S = 1 .. k - 1
  <2>1. S \subseteq 1 .. L
    BY <1>1 DEF Before
  <2>2. \A i \in 1 .. L : i \in 1 .. k - 1 \/ i \in k .. L
    BY <1>1, <1>4
  <2> HIDE DEF S
  <2>3. QED BY <1>5, <1>6, <2>1, <2>2
<1>8. Cardinality(S) = k - 1
  <2>1. 1 \in Int /\ k - 1 \in Int
    BY <1>4
  <2>2. Cardinality(1 .. k - 1) = IF 1 > k - 1 THEN 0 ELSE k - 1 - 1 + 1
    BY <2>1, FS_Interval
  <2>3. QED BY <1>4, <1>7, <2>2
<1>9. /\ \A i \in 1 .. k - 1 : TsLess(log[i].ts, ts)
      /\ \A i \in k - 1 + 1 .. L : ~TsLess(log[i].ts, ts)
  <2>1. \A i \in k - 1 + 1 .. L : i \in k .. L /\ i \in DOMAIN log
    BY <1>1, <1>4
  <2>2. QED BY <1>5, <1>6, <2>1 DEF Before
<1>10. QED BY <1>4, <1>8, <1>9

\* q with e inserted behind its first pos elements.
Inserted(more, q, pos, e) ==
    /\ more \in Seq(Range(q) \cup {e})
    /\ Len(more) = Len(q) + 1
    /\ more[pos + 1] = e
    /\ \A i \in 1 .. pos : more[i] = q[i]
    /\ \A i \in pos + 2 .. Len(q) + 1 : more[i] = q[i - 1]

LEMMA InsertFacts ==
  ASSUME NEW q, q \in Seq(Range(q)), NEW e, NEW pos \in 0 .. Len(q),
         NEW more, more = InsertAt(q, pos + 1, e)
  PROVE  Inserted(more, q, pos, e)
<1> DEFINE L == Len(q)
           S == Range(q)
           a == SubSeq(q, 1, pos)
           b == SubSeq(q, pos + 1, L)
           c == a \o <<e>>
<1>1. L \in Nat /\ pos \in Nat /\ pos <= L /\ q \in Seq(S \cup {e})
  OBVIOUS
<1>2. more = c \o b
  <2>1. (pos + 1) - 1 = pos
    BY <1>1
  <2>2. more = SubSeq(q, 1, (pos + 1) - 1) \o <<e>> \o SubSeq(q, pos + 1, Len(q))
    BY Zenon DEF InsertAt
  <2>3. QED BY <2>1, <2>2
<1>3. /\ a \in Seq(S \cup {e}) /\ Len(a) = pos
      /\ \A i \in 1 .. pos : a[i] = q[i]
  BY <1>1
<1>4. /\ b \in Seq(S \cup {e}) /\ Len(b) = L - pos
      /\ \A i \in 1 .. L - pos : b[i] = q[pos + i]
  BY <1>1
<1> HIDE DEF a, b, L, S
<1>5. /\ c \in Seq(S \cup {e}) /\ Len(c) = pos + 1
      /\ c[pos + 1] = e
      /\ \A i \in 1 .. pos : c[i] = a[i]
  BY <1>1, <1>3
<1> HIDE DEF c
<1> DEFINE d == c \o b
<1>6. d \in Seq(S \cup {e}) /\ Len(d) = L + 1
  <2> DEFINE E == S \cup {e}
  <2>1. c \in Seq(E) /\ b \in Seq(E)
    BY <1>4, <1>5
  <2> HIDE DEF E
  <2>2. c \o b \in Seq(E) /\ Len(c \o b) = Len(c) + Len(b)
    BY <2>1
  <2>3. d \in Seq(S \cup {e}) /\ Len(d) = Len(c) + Len(b)
    BY <2>2 DEF E
  <2> HIDE DEF d
  <2>4. QED BY <1>1, <1>4, <1>5, <2>3
<1>7. \A i \in 1 .. Len(c) + Len(b) : d[i] = IF i <= Len(c) THEN c[i] ELSE b[i - Len(c)]
  BY <1>4, <1>5
<1> HIDE DEF d
<1>8. \A i \in 1 .. L + 1 : d[i] = IF i <= pos + 1 THEN c[i] ELSE b[i - (pos + 1)]
  BY <1>1, <1>4, <1>5, <1>7
<1>9. \A i \in pos + 2 .. L + 1 : d[i] = q[i - 1]
  <2> SUFFICES ASSUME NEW i \in pos + 2 .. L + 1 PROVE d[i] = q[i - 1]
    OBVIOUS
  <2>1. i - (pos + 1) \in 1 .. L - pos /\ pos + (i - (pos + 1)) = i - 1
    BY <1>1
  <2>2. b[i - (pos + 1)] = q[i - 1]
    BY <1>4, <2>1
  <2>3. QED BY <1>1, <1>8, <2>2
<1>10. d[pos + 1] = e
  BY <1>1, <1>5, <1>8
<1>11. \A i \in 1 .. pos : d[i] = q[i]
  BY <1>1, <1>3, <1>5, <1>8
<1>12. QED BY <1>2, <1>6, <1>9, <1>10, <1>11 DEF d, L, S, Inserted

\* A log into which an operation of a new timestamp is inserted at its place is in
\* order, and refold_key makes of its map that of the longer log.
LEMMA InsertKeepsOrder ==
  ASSUME NEW log, InOrder(log), NEW o, StampedOk(o), NEW pos,
         pos = Cardinality(Before(log, o.ts)),
         ~(pos < Len(log) /\ log[pos + 1].ts = o.ts)
  PROVE  LET more == InsertAt(log, pos + 1, o) IN
         /\ InOrder(more)
         /\ \A i \in 1 .. Len(more) : more[i] = o \/ \E j \in 1 .. Len(log) : more[i] = log[j]
         /\ RefoldKey(FoldContent(log), more, o.op.id) = FoldContent(more)
<1> DEFINE L == Len(log)
           more == InsertAt(log, pos + 1, o)
<1>1. L \in Nat /\ DOMAIN log = 1 .. L /\ log \in Seq(Range(log))
  BY LogFacts DEF InOrder
<1>2. /\ o.ts \in Stamp /\ \A i \in 1 .. L : log[i].ts \in Stamp /\ StampedOk(log[i])
  BY DEF InOrder, StampedOk
<1>3. /\ pos \in 0 .. L
      /\ \A i \in 1 .. pos : TsLess(log[i].ts, o.ts)
      /\ \A i \in pos + 1 .. L : ~TsLess(log[i].ts, o.ts)
  BY <1>2, BeforeIsPrefix
<1>4. ASSUME NEW i \in pos + 1 .. L PROVE TsLess(o.ts, log[i].ts)
  <2>1. pos + 1 \in 1 .. L /\ pos < L /\ pos + 1 \in pos + 1 .. L /\ i \in 1 .. L
    BY <1>1, <1>3
  <2>2. TsLess(o.ts, log[pos + 1].ts)
    <3>1. log[pos + 1].ts # o.ts /\ ~TsLess(log[pos + 1].ts, o.ts) /\ log[pos + 1].ts \in Stamp
      BY <1>2, <1>3, <2>1
    <3>2. QED BY <1>2, <3>1, StampOrder
  <2>3. CASE i = pos + 1
    BY <2>2, <2>3
  <2>4. CASE i # pos + 1
    <3>1. pos + 1 < i
      BY <1>1, <1>3, <2>4
    <3>2. TsLess(log[pos + 1].ts, log[i].ts)
      BY <2>1, <3>1, LogFacts
    <3>3. log[pos + 1].ts \in Stamp /\ log[i].ts \in Stamp
      BY <1>2, <2>1
    <3>4. QED BY <1>2, <2>2, <3>2, <3>3, StampOrder
  <2>5. QED BY <2>3, <2>4
<1>5. /\ more \in Seq(Range(log) \cup {o})
      /\ Len(more) = L + 1
      /\ more[pos + 1] = o
      /\ \A i \in 1 .. pos : more[i] = log[i]
      /\ \A i \in pos + 2 .. L + 1 : more[i] = log[i - 1]
  <2>1. more = InsertAt(log, pos + 1, o)
    OBVIOUS
  <2> HIDE DEF more
  <2>2. Inserted(more, log, pos, o)
    BY <1>1, <1>3, <2>1, InsertFacts
  <2>3. QED BY <2>2 DEF Inserted
<1> HIDE DEF more
<1>6. \A i \in 1 .. L + 1 : i \in 1 .. pos \/ i = pos + 1 \/ i \in pos + 2 .. L + 1
  BY <1>1, <1>3
<1>7. \A i \in 1 .. pos : i \in 1 .. L
  BY <1>1, <1>3
<1>8. \A i \in pos + 2 .. L + 1 : i - 1 \in 1 .. L /\ i - 1 \in pos + 1 .. L
  BY <1>1, <1>3
<1>9. \A i \in 1 .. Len(more) : more[i] = o \/ \E j \in 1 .. Len(log) : more[i] = log[j]
  BY <1>5, <1>6, <1>7, <1>8
<1>10. InOrder(more)
  <2>1. \A i \in 1 .. Len(more) : StampedOk(more[i])
    BY <1>2, <1>9
  <2>2. more \in Seq(Range(more))
    <3>1. DOMAIN more = 1 .. L + 1
      BY <1>5
    <3>2. \A i \in 1 .. L + 1 : more[i] \in Range(more)
      BY <3>1 DEF Range
    <3>3. QED BY <1>5, <3>1, <3>2
  <2>3. ASSUME NEW i \in 1 .. Len(more), NEW j \in 1 .. Len(more), i < j
        PROVE  TsLess(more[i].ts, more[j].ts)
    <3>1. CASE i \in 1 .. pos /\ j \in 1 .. pos
      BY <1>5, <1>7, <2>3, <3>1, LogFacts
    <3>2. CASE i \in 1 .. pos /\ j = pos + 1
      BY <1>3, <1>5, <3>2
    <3>3. CASE i \in 1 .. pos /\ j \in pos + 2 .. L + 1
      <4>1. i \in 1 .. L /\ j - 1 \in 1 .. L /\ i < j - 1
        BY <1>1, <1>3, <3>3
      <4>2. TsLess(log[i].ts, log[j - 1].ts)
        BY <4>1, LogFacts
      <4>3. QED BY <1>5, <3>3, <4>2
    <3>4. CASE i = pos + 1 /\ j \in pos + 2 .. L + 1
      BY <1>4, <1>5, <1>8, <3>4
    <3>5. CASE i \in pos + 2 .. L + 1 /\ j \in pos + 2 .. L + 1
      <4>1. i - 1 \in 1 .. L /\ j - 1 \in 1 .. L /\ i - 1 < j - 1
        BY <1>1, <1>3, <2>3, <3>5
      <4>2. TsLess(log[i - 1].ts, log[j - 1].ts)
        BY <4>1, LogFacts
      <4>3. QED BY <1>5, <3>5, <4>2
    <3>6. \/ i \in 1 .. pos /\ j \in 1 .. pos
          \/ i \in 1 .. pos /\ j = pos + 1
          \/ i \in 1 .. pos /\ j \in pos + 2 .. L + 1
          \/ i = pos + 1 /\ j \in pos + 2 .. L + 1
          \/ i \in pos + 2 .. L + 1 /\ j \in pos + 2 .. L + 1
      BY <1>1, <1>3, <1>5, <2>3
    <3>7. QED BY <3>1, <3>2, <3>3, <3>4, <3>5, <3>6
  <2>4. QED BY <2>1, <2>2, <2>3 DEF InOrder, Ascending
<1>11. RefoldKey(FoldContent(log), more, o.op.id) = FoldContent(more)
  <2>1. pos + 1 \in 1 .. L + 1
    BY <1>1, <1>3
  <2>2. /\ \A i \in 1 .. (pos + 1) - 1 : more[i] = log[i]
        /\ \A i \in (pos + 1) + 1 .. L + 1 : more[i] = log[i - 1]
    <3>1. (pos + 1) - 1 = pos /\ (pos + 1) + 1 = pos + 2
      BY <1>3
    <3>2. QED BY <1>5, <3>1
  <2> DEFINE at == pos + 1
  <2>3. at \in 1 .. Len(log) + 1 /\ Len(more) = Len(log) + 1
    BY <1>5, <2>1
  <2>4. /\ \A i \in 1 .. at - 1 : more[i] = log[i]
        /\ \A i \in at + 1 .. Len(log) + 1 : more[i] = log[i - 1]
    BY <2>2, Zenon
  <2> HIDE DEF at, L
  <2>5. RefoldKey(FoldContent(log), more, more[at].op.id) = FoldContent(more)
    BY <1>10, <2>3, <2>4, RefoldIsFold
  <2>6. QED BY <1>5, <2>5 DEF at
<1>12. QED BY <1>9, <1>10, <1>11 DEF more

-----------------------------------------------------------------------------
(* The steps that commands are made of *)

\* A move and a content operation do not share a timestamp.
LogsApart(d) == \A o \in Range(d.moves) : \A c \in Range(d.contents) : o.ts # c.ts

\* A log goes on with operations that are stamped later than the tick.
Appends(old, new, tick) ==
    /\ Len(old) \in Nat /\ Len(new) \in Nat /\ Len(old) <= Len(new)
    /\ \A i \in 1 .. Len(old) : new[i] = old[i]
    /\ \A i \in 1 .. Len(new) :
           i <= Len(old) \/ (new[i].ts.lamport \in Nat /\ new[i].ts.lamport > tick)

\* Both logs go on from where they were, and the clock with them.
GoesOn(d, e) ==
    /\ d.lamport \in Nat /\ e.lamport \in Nat /\ d.lamport <= e.lamport
    /\ Appends(d.moves, e.moves, d.lamport)
    /\ Appends(d.contents, e.contents, d.lamport)
    /\ Ascending(d.moves) => Ascending(e.moves)

LEMMA AppendsNothing ==
  ASSUME NEW log, Len(log) \in Nat, NEW tick
  PROVE  Appends(log, log, tick)
BY DEF Appends

LEMMA AppendsOne ==
  ASSUME NEW log, NEW more, Len(log) \in Nat, Len(more) = Len(log) + 1,
         \A i \in 1 .. Len(log) : more[i] = log[i],
         NEW tick, LET ts == more[Len(log) + 1].ts IN ts.lamport \in Nat /\ ts.lamport > tick
  PROVE  Appends(log, more, tick)
BY DEF Appends

LEMMA AppendsOn ==
  ASSUME NEW p, NEW q, NEW u, NEW s \in Nat, NEW t \in Nat, s <= t,
         Appends(p, q, s), Appends(q, u, t)
  PROVE  Appends(p, u, s)
<1>1. /\ Len(p) \in Nat /\ Len(q) \in Nat /\ Len(u) \in Nat
      /\ Len(p) <= Len(q) /\ Len(q) <= Len(u)
  BY DEF Appends
<1>2. \A i \in 1 .. Len(p) : u[i] = p[i]
  BY <1>1 DEF Appends
<1>3. ASSUME NEW i \in 1 .. Len(u), ~(i <= Len(p))
      PROVE  u[i].ts.lamport \in Nat /\ u[i].ts.lamport > s
  <2>1. CASE i <= Len(q)
    <3>1. i \in 1 .. Len(q) /\ u[i] = q[i]
      BY <1>1, <2>1 DEF Appends
    <3>2. QED BY <1>3, <3>1 DEF Appends
  <2>2. CASE ~(i <= Len(q))
    <3>1. u[i].ts.lamport \in Nat /\ u[i].ts.lamport > t
      BY <2>2 DEF Appends
    <3>2. QED BY <3>1
  <2>3. QED BY <2>1, <2>2
<1>4. QED BY <1>1, <1>2, <1>3 DEF Appends

LEMMA GoesOnFrom ==
  ASSUME NEW c, NEW d, NEW e, GoesOn(c, d), GoesOn(d, e)
  PROVE  GoesOn(c, e)
<1>1. /\ c.lamport \in Nat /\ d.lamport \in Nat /\ e.lamport \in Nat
      /\ c.lamport <= d.lamport /\ c.lamport <= e.lamport
  BY DEF GoesOn
<1>2. Appends(c.moves, e.moves, c.lamport) /\ Appends(c.contents, e.contents, c.lamport)
  BY <1>1, AppendsOn DEF GoesOn
<1>3. QED BY <1>1, <1>2 DEF GoesOn

LEMMA GoesOnSame ==
  ASSUME NEW d, DriveOk(d)
  PROVE  GoesOn(d, d)
<1>1. d.lamport \in Nat /\ Len(d.moves) \in Nat /\ Len(d.contents) \in Nat
  BY LogFacts DEF DriveOk, MovesLog, ContentLog
<1>2. QED BY <1>1, AppendsNothing DEF GoesOn

\* What r makes of a drive by stamping operations of its own.
Grown(d, e, r) ==
    /\ DriveOk(e)
    /\ GoesOn(d, e)
    /\ Range(d.moves) \subseteq Range(e.moves)
    /\ \A o \in Range(e.moves) : o \in Range(d.moves) \/ o.ts.replica = r
    /\ \A c \in Range(e.contents) : c \in Range(d.contents) \/ c.ts.replica = r
    /\ LogsApart(d) => LogsApart(e)

LEMMA GrownSteps ==
  ASSUME NEW c, NEW d, NEW e, NEW r, Grown(c, d, r), Grown(d, e, r)
  PROVE  Grown(c, e, r)
BY GoesOnFrom DEF Grown

LEMMA RangeAppend ==
  ASSUME NEW S, NEW q \in Seq(S), NEW x
  PROVE  /\ Range(Append(q, x)) = Range(q) \cup {x}
         /\ Range(q) = {q[i] : i \in 1 .. Len(q)}
<1> DEFINE L == Len(q)
           more == Append(q, x)
<1>1. /\ L \in Nat /\ DOMAIN q = 1 .. L /\ DOMAIN more = 1 .. L + 1
      /\ more[L + 1] = x /\ \A i \in 1 .. L : more[i] = q[i]
  OBVIOUS
<1> HIDE DEF L, more
<1>2. \A i : i \in 1 .. L + 1 <=> i \in 1 .. L \/ i = L + 1
  BY <1>1
<1>3. Range(more) = Range(q) \cup {x}
  BY <1>1, <1>2 DEF Range
<1>4. QED BY <1>1, <1>3 DEF Range, more, L

\* An operation stamped by the clock is later than all of the drive.
LEMMA NextTsLater ==
  ASSUME NEW d, d.lamport \in Nat, NEW r \in Nat
  PROVE  /\ NextTs(d, r) \in Stamp /\ NextTs(d, r).lamport = d.lamport + 1
         /\ NextTs(d, r).replica = r
         /\ \A ts \in Stamp : ts.lamport <= d.lamport =>
                TsLess(ts, NextTs(d, r)) /\ ts # NextTs(d, r)
<1>1. NextTs(d, r) = [lamport |-> d.lamport + 1, replica |-> r]
  BY DEF NextTs
<1>2. \A ts \in Stamp : ts.lamport \in Nat
  BY DEF Stamp
<1>3. QED BY <1>1, <1>2 DEF Stamp, TsLess

\* The clock of a drive and the ticks of its stamps are numbers.
LEMMA TicksAreNumbers ==
  ASSUME NEW d, DriveOk(d)
  PROVE  /\ d.lamport \in Nat
         /\ \A o \in Range(d.moves) : o \in MoveOp /\ o.ts.lamport \in Nat
                                      /\ o.ts.lamport <= d.lamport
<1>1. /\ d.lamport \in Nat /\ d.moves \in Seq(MoveOp)
      /\ \A i \in 1 .. Len(d.moves) : d.moves[i].ts.lamport <= d.lamport
  BY DEF DriveOk, MovesLog
<1>2. Range(d.moves) = {d.moves[i] : i \in 1 .. Len(d.moves)}
  BY <1>1 DEF Range
<1>3. \A i \in 1 .. Len(d.moves) : d.moves[i] \in MoveOp
  BY <1>1
<1>4. \A o \in MoveOp : o.ts.lamport \in Nat
  BY DEF MoveOp, Stamp
<1>5. QED BY <1>1, <1>2, <1>3, <1>4

\* No content operation is stamped past the clock.
LEMMA ContentTicks ==
  ASSUME NEW d, DriveOk(d)
  PROVE  \A c \in Range(d.contents) :
             StampedOk(c) /\ c.ts.lamport \in Nat /\ c.ts.lamport <= d.lamport
<1> DEFINE log == d.contents
<1>1. InOrder(log) /\ \A i \in 1 .. Len(log) : log[i].ts.lamport <= d.lamport
  BY DEF DriveOk, ContentLog
<1> HIDE DEF log
<1>2. DOMAIN log = 1 .. Len(log) /\ \A i \in 1 .. Len(log) : log[i].ts.lamport \in Nat
  BY <1>1, LogFacts
<1>3. \A i \in 1 .. Len(log) : StampedOk(log[i])
  BY <1>1 DEF InOrder
<1>4. \A c \in Range(log) :
          StampedOk(c) /\ c.ts.lamport \in Nat /\ c.ts.lamport <= d.lamport
  BY <1>1, <1>2, <1>3 DEF Range
<1>5. QED BY <1>4 DEF log

\* tick and push_move keep the drive in order.
LEMMA EmitMoveGrows ==
  ASSUME NEW d, DriveOk(d), NEW r \in Replica, NEW child \in Item, NEW parent \in Place,
         NEW name \in AnyName, NEW kind \in Kind
  PROVE  /\ Grown(d, EmitMove(d, r, child, parent, name, kind), r)
         /\ DriveOk(EmitMove(d, r, child, parent, name, kind))
<1> DEFINE op == [ts |-> NextTs(d, r), child |-> child, new_parent |-> parent,
                  new_name |-> name, kind |-> kind]
           e == EmitMove(d, r, child, parent, name, kind)
           more == Append(d.moves, op)
<1>1. e = [lamport |-> d.lamport + 1, moves |-> more, contents |-> d.contents,
           tree |-> Integrate(d.tree, op), content |-> d.content]
  <2>1. d = [lamport |-> d.lamport, moves |-> d.moves, contents |-> d.contents,
             tree |-> d.tree, content |-> d.content]
    BY DEF DriveOk
  <2>2. e = [d EXCEPT !.lamport = @ + 1, !.tree = Integrate(@, op), !.moves = Append(@, op)]
    BY Zenon DEF EmitMove
  <2> HIDE DEF e, op
  <2>3. QED BY <2>1, <2>2
<1>2. /\ d.lamport \in Nat /\ d.moves \in Seq(MoveOp)
      /\ \A i \in 1 .. Len(d.moves) : d.moves[i].ts.lamport <= d.lamport
      /\ Keyed(Range(d.moves))
  BY DEF DriveOk, MovesLog
<1>3. op.ts \in Stamp /\ op.ts.lamport = d.lamport + 1 /\ op.ts.replica = r
  BY <1>2, NextTsLater, ReplicaAssumption
<1>4. op \in MoveOp
  BY <1>3 DEF MoveOp
<1> HIDE DEF op
<1>5. more \in Seq(MoveOp) /\ Len(more) = Len(d.moves) + 1
      /\ \A i \in 1 .. Len(more) : more[i] = op \/ (i \in 1 .. Len(d.moves) /\ more[i] = d.moves[i])
  BY <1>2, <1>4
<1>6. Range(more) = Range(d.moves) \cup {op} /\ Range(d.moves) = {d.moves[i] : i \in 1 .. Len(d.moves)}
  BY <1>2, RangeAppend
<1>7. ReplayMoves(more) = Integrate(d.tree, op)
  BY <1>2, ReplayAppend DEF DriveOk
<1> HIDE DEF more
<1>8. MovesLog(e)
  <2>1. \A i \in 1 .. Len(more) : more[i].ts.lamport <= d.lamport + 1
    <3>1. \A i \in 1 .. Len(d.moves) : d.moves[i].ts.lamport \in Nat
      <4>1. \A i \in 1 .. Len(d.moves) : d.moves[i] \in MoveOp
        BY <1>2
      <4>2. QED BY <4>1 DEF MoveOp, Stamp
    <3>2. d.lamport \in Nat /\ op.ts.lamport = d.lamport + 1
      BY <1>2, <1>3
    <3>3. \A i \in 1 .. Len(d.moves) : d.moves[i].ts.lamport <= d.lamport + 1
      BY <1>2, <3>1
    <3>4. QED BY <1>5, <3>2, <3>3
  <2>2. Keyed(Range(more))
    <3>1. \A o \in Range(d.moves) : o.ts.lamport <= d.lamport
      BY <1>2, <1>6
    <3>2. \A o \in Range(d.moves) : o.ts # op.ts
      BY <1>2, <1>3, <3>1
    <3>3. QED BY <1>2, <1>6, <3>2 DEF Keyed
  <2>3. QED BY <1>1, <1>5, <2>1, <2>2 DEF MovesLog
<1>9. ContentLog(e)
  <2>1. InOrder(d.contents) /\ \A i \in 1 .. Len(d.contents) : d.contents[i].ts.lamport <= d.lamport
    BY DEF DriveOk, ContentLog
  <2>2. \A i \in 1 .. Len(d.contents) : d.contents[i].ts.lamport \in Nat
    BY <2>1, LogFacts
  <2>3. \A i \in 1 .. Len(d.contents) : d.contents[i].ts.lamport <= d.lamport + 1
    BY <1>2, <2>1, <2>2
  <2>4. QED BY <1>1, <2>1, <2>3 DEF ContentLog
<1>10. DriveOk(e)
  <2>1. d.content = FoldContent(d.contents)
    BY DEF DriveOk
  <2>2. e.lamport \in Nat
    BY <1>1, <1>2
  <2>3. QED BY <1>1, <1>7, <1>8, <1>9, <2>1, <2>2 DEF DriveOk
<1>11. /\ Range(d.moves) \subseteq Range(e.moves)
       /\ \A o \in Range(e.moves) : o \in Range(d.moves) \/ o.ts.replica = r
       /\ e.contents = d.contents
  BY <1>1, <1>3, <1>6
<1>12. LogsApart(d) => LogsApart(e)
  <2>1. \A c \in Range(d.contents) : op.ts # c.ts
    BY <1>2, <1>3, ContentTicks
  <2>2. e.moves = more
    BY <1>1
  <2> HIDE DEF e
  <2>3. QED BY <1>6, <1>11, <2>1, <2>2 DEF LogsApart
<1>13. GoesOn(d, e)
  <2> DEFINE log == d.moves
             n == Len(log)
  <2>1. n \in Nat /\ Len(more) = n + 1 /\ more[n + 1] = op /\ \A i \in 1 .. n : more[i] = log[i]
    BY <1>2, <1>4 DEF more
  <2>2. op.ts.lamport \in Nat /\ op.ts.lamport > d.lamport /\ d.lamport + 1 \in Nat
    BY <1>2, <1>3
  <2>3. Appends(log, more, d.lamport)
    <3> HIDE DEF n, log
    <3>1. QED BY <2>1, <2>2, AppendsOne DEF n
  <2>4. Appends(d.contents, d.contents, d.lamport)
    <3>1. Len(d.contents) \in Nat
      BY LogFacts DEF DriveOk, ContentLog
    <3>2. QED BY <3>1, AppendsNothing
  <2>5. ASSUME Ascending(log) PROVE Ascending(more)
    <3>1. \A i \in 1 .. n : log[i].ts \in Stamp /\ log[i].ts.lamport <= d.lamport
      <4>1. \A i \in 1 .. n : log[i] \in MoveOp
        BY <1>2
      <4>2. QED BY <1>2, <4>1 DEF MoveOp
    <3>2. \A i \in 1 .. n : TsLess(log[i].ts, op.ts)
      BY <1>2, <3>1, NextTsLater, ReplicaAssumption DEF op
    <3> HIDE DEF n, log
    <3>3. ASSUME NEW i \in 1 .. n + 1, NEW j \in 1 .. n + 1, i < j
          PROVE  TsLess(more[i].ts, more[j].ts)
      <4>1. i \in 1 .. n /\ (j \in 1 .. n \/ j = n + 1)
        BY <2>1, <3>3
      <4>2. TsLess(log[i].ts, op.ts) /\ (j \in 1 .. n => TsLess(log[i].ts, log[j].ts))
        BY <2>5, <3>2, <3>3, <4>1 DEF Ascending, n
      <4>3. QED BY <2>1, <4>1, <4>2
    <3>4. QED BY <2>1, <3>3 DEF Ascending
  <2>6. e.lamport = d.lamport + 1 /\ e.moves = more /\ e.contents = d.contents
    BY <1>1
  <2> HIDE DEF e
  <2>7. d.lamport \in Nat /\ e.lamport \in Nat /\ d.lamport <= e.lamport
    BY <1>2, <2>6
  <2>8. QED BY <2>3, <2>4, <2>5, <2>6, <2>7 DEF GoesOn
<1> HIDE DEF e
<1>14. Grown(d, e, r)
  BY <1>10, <1>11, <1>12, <1>13 DEF Grown
<1>15. QED BY <1>10, <1>14 DEF e

\* push_content keeps the drive in order.
LEMMA EmitContentGrows ==
  ASSUME NEW d, DriveOk(d), NEW r \in Nat, NEW op,
         op.type \in {"set", "restore", "remove"}
  PROVE  Grown(d, EmitContent(d, r, op), r) /\ DriveOk(EmitContent(d, r, op))
<1> DEFINE o == [ts |-> NextTs(d, r), op |-> op]
           e == EmitContent(d, r, op)
           more == Append(d.contents, o)
<1>1. e = [lamport |-> d.lamport + 1, moves |-> d.moves, contents |-> more,
           tree |-> d.tree, content |-> ApplyContent(d.content, op)]
  <2>1. d = [lamport |-> d.lamport, moves |-> d.moves, contents |-> d.contents,
             tree |-> d.tree, content |-> d.content]
    BY DEF DriveOk
  <2>2. e = [d EXCEPT !.lamport = @ + 1, !.content = ApplyContent(@, op),
                      !.contents = Append(@, o)]
    BY Zenon DEF EmitContent
  <2> HIDE DEF e, o
  <2>3. QED BY <2>1, <2>2
<1>2. /\ d.lamport \in Nat /\ d.moves \in Seq(MoveOp)
      /\ \A i \in 1 .. Len(d.moves) : d.moves[i].ts.lamport <= d.lamport
      /\ Keyed(Range(d.moves))
  BY DEF DriveOk, MovesLog
<1>3. /\ InOrder(d.contents)
      /\ \A i \in 1 .. Len(d.contents) : d.contents[i].ts.lamport <= d.lamport
  BY DEF DriveOk, ContentLog
<1>4. /\ o.ts \in Stamp /\ o.ts.lamport = d.lamport + 1 /\ o.ts.replica = r
      /\ \A ts \in Stamp : ts.lamport <= d.lamport => TsLess(ts, o.ts)
  BY <1>2, NextTsLater, ReplicaAssumption
<1>5. StampedOk(o) /\ o.op = op
  BY <1>4 DEF StampedOk
<1> HIDE DEF o
<1>6. \A i \in 1 .. Len(d.contents) : d.contents[i].ts \in Stamp /\ TsLess(d.contents[i].ts, o.ts)
  BY <1>3, <1>4 DEF InOrder, StampedOk
<1>7. /\ InOrder(more) /\ Len(more) = Len(d.contents) + 1
      /\ more[Len(d.contents) + 1] = o
      /\ \A i \in 1 .. Len(d.contents) : more[i] = d.contents[i]
  BY <1>3, <1>5, <1>6, AppendInOrder
<1>8. FoldContent(more) = ApplyContent(d.content, op)
  <2>1. FoldContent(more) = ApplyContent(FoldContent(d.contents), o.op)
    BY <1>3, <1>5, <1>6, FoldAppend
  <2>2. d.content = FoldContent(d.contents)
    BY DEF DriveOk
  <2>3. QED BY <1>5, <2>1, <2>2
<1> HIDE DEF more
<1>9. MovesLog(e)
  <2>1. \A i \in 1 .. Len(d.moves) : d.moves[i].ts.lamport <= d.lamport + 1
    <3>1. \A i \in 1 .. Len(d.moves) : d.moves[i].ts.lamport \in Nat
      <4>1. \A i \in 1 .. Len(d.moves) : d.moves[i] \in MoveOp
        BY <1>2
      <4>2. QED BY <4>1 DEF MoveOp, Stamp
    <3>2. QED BY <1>2, <3>1
  <2>2. QED BY <1>1, <1>2, <2>1 DEF MovesLog
<1>10. ContentLog(e)
  <2>1. Len(d.contents) \in Nat
    BY <1>3, LogFacts
  <2>2. ASSUME NEW i \in 1 .. Len(more) PROVE more[i].ts.lamport <= d.lamport + 1
    <3>1. CASE i \in 1 .. Len(d.contents)
      <4>1. d.contents[i].ts.lamport \in Nat
        BY <1>3, <3>1, LogFacts
      <4>2. QED BY <1>2, <1>3, <1>7, <3>1, <4>1
    <3>2. CASE i = Len(d.contents) + 1
      BY <1>2, <1>4, <1>7, <3>2
    <3>3. QED BY <1>7, <2>1, <3>1, <3>2
  <2>3. QED BY <1>1, <1>7, <2>2 DEF ContentLog
<1>11. DriveOk(e)
  <2>1. d.tree = ReplayMoves(d.moves)
    BY DEF DriveOk
  <2>2. e.lamport \in Nat
    BY <1>1, <1>2
  <2>3. QED BY <1>1, <1>8, <1>9, <1>10, <2>1, <2>2 DEF DriveOk
<1>12. e.moves = d.moves /\ e.contents = more
  BY <1>1
<1> HIDE DEF e
<1>13. \A c \in Range(more) : c \in Range(d.contents) \/ c = o
  <2> DEFINE log == d.contents
             n == Len(log)
  <2>1. n \in Nat /\ DOMAIN log = 1 .. n /\ DOMAIN more = 1 .. n + 1
    BY <1>3, <1>7, LogFacts
  <2>2. more[n + 1] = o /\ \A i \in 1 .. n : more[i] = log[i]
    BY <1>7
  <2> HIDE DEF n, log
  <2>3. \A i \in 1 .. n + 1 : i \in 1 .. n \/ i = n + 1
    BY <2>1
  <2>4. \A c \in Range(more) : c \in Range(log) \/ c = o
    BY <2>1, <2>2, <2>3 DEF Range
  <2>5. QED BY <2>4 DEF log
<1>14. \A m \in Range(d.moves) : m.ts # o.ts
  <2>1. \A m \in Range(d.moves) : m.ts.lamport \in Nat /\ m.ts.lamport <= d.lamport
    BY TicksAreNumbers
  <2>2. QED BY <1>2, <1>4, <2>1
<1>15. GoesOn(d, e)
  <2>1. d.lamport \in Nat /\ e.lamport = d.lamport + 1
    BY <1>1, <1>2 DEF e
  <2>2. o.ts.lamport \in Nat /\ o.ts.lamport > d.lamport
    BY <1>2, <1>4
  <2>3. Len(d.moves) \in Nat /\ Len(d.contents) \in Nat
    BY <1>2, <1>3, LogFacts
  <2>4. Appends(d.contents, more, d.lamport)
    BY <1>7, <2>2, <2>3, AppendsOne
  <2>5. Appends(d.moves, d.moves, d.lamport)
    BY <2>3, AppendsNothing
  <2>6. e.lamport \in Nat /\ d.lamport <= e.lamport
    BY <2>1
  <2>7. QED BY <1>12, <2>1, <2>4, <2>5, <2>6 DEF GoesOn
<1>16. Grown(d, e, r)
  <2>1. LogsApart(d) => LogsApart(e)
    BY <1>12, <1>13, <1>14 DEF LogsApart
  <2>2. QED BY <1>4, <1>11, <1>12, <1>13, <1>15, <2>1 DEF Grown
<1>17. QED BY <1>11, <1>16 DEF e

-----------------------------------------------------------------------------
(* The tree of a drive *)

LEMMA MoveOpsOk == MovesOk(MoveOp)
<1> SUFFICES ASSUME NEW o \in MoveOp
             PROVE  /\ o.ts = [lamport |-> o.ts.lamport, replica |-> o.ts.replica]
                    /\ o.ts.lamport \in Nat /\ o.ts.replica \in Nat
                    /\ NewEdge(o) # Nil
  BY DEF MovesOk
<1>1. /\ o.ts \in Stamp /\ o.new_parent \in Place /\ o.new_name \in AnyName
      /\ o.kind \in Kind
  BY DEF MoveOp
<1>2. NewEdge(o) \in [parent : Place, name : AnyName, kind : Kind]
  BY <1>1 DEF NewEdge
<1>3. QED BY <1>1, <1>2, ReplicaAssumption, ReservedAssumption DEF Stamp

\* What the moves of a drive make of its tree.
TreeSound(t) ==
    /\ IsFiniteSet(DOMAIN t.edges) /\ AcyclicEdges(t.edges)
    /\ t.children = IndexOf(t.edges)
    /\ \A n \in DOMAIN t.edges :
          n \in Item /\ t.edges[n] \in [parent : Place, name : AnyName, kind : Kind]
    /\ Len(t.log) \in Nat
    /\ \A i \in 1 .. Len(t.log) : t.log[i].op.ts \in Stamp

LEMMA DriveTree ==
  ASSUME NEW d, DriveOk(d)
  PROVE  /\ Replayed(d.tree, MoveOp) /\ LogOps(d.tree) = Range(d.moves)
         /\ TreeSound(d.tree)
<1> DEFINE t == d.tree
           given == {d.moves[i] : i \in 1 .. Len(d.moves)}
<1>1. d.moves \in Seq(MoveOp) /\ Keyed(Range(d.moves)) /\ t = ReplayMoves(d.moves)
  BY DEF DriveOk, MovesLog
<1>2. Len(d.moves) \in Nat /\ \A i \in 1 .. Len(d.moves) : d.moves[i] \in MoveOp
  BY <1>1
<1>3. given = Range(d.moves)
  BY <1>1, RangeAppend
<1> HIDE DEF t
<1>4. Replayed(t, MoveOp) /\ LogOps(t) = given
  <2>1. MovesOk(MoveOp)
    BY MoveOpsOk
  <2> DEFINE ops == d.moves
  <2>2. Len(ops) \in Nat /\ \A i \in 1 .. Len(ops) : ops[i] \in MoveOp
    BY <1>2
  <2> HIDE DEF ops
  <2>3. Replayed(ReplayMoves(ops), MoveOp)
    BY <2>1, <2>2, ReplayMovesReplayed
  <2>4. Keyed({ops[i] : i \in 1 .. Len(ops)})
          => LogOps(ReplayMoves(ops)) = {ops[i] : i \in 1 .. Len(ops)}
    BY <2>1, <2>2, ReplayMovesReplayed
  <2>5. QED BY <1>1, <1>3, <2>3, <2>4 DEF ops
<1>5. Built(t, LogEntries(MoveOp))
  BY <1>4 DEF Replayed
<1>6. IsFiniteSet(DOMAIN t.edges) /\ AcyclicEdges(t.edges) /\ t.children = IndexOf(t.edges)
  BY <1>5 DEF Built, BuildsUp, TreeOk
<1>7. Len(t.log) \in Nat /\ \A i \in 1 .. Len(t.log) : t.log[i].op \in MoveOp
  BY <1>5, BuiltLog
<1>8. ASSUME NEW n \in DOMAIN t.edges
      PROVE  /\ n \in Item
             /\ t.edges[n] \in [parent : Place, name : AnyName, kind : Kind]
  <2>1. PICK i \in 1 .. Len(t.log) : t.log[i].op.child = n /\ t.edges[n] = NewEdge(t.log[i].op)
    BY <1>5, EdgesOfMoves
  <2>2. t.log[i].op \in MoveOp
    BY <1>7
  <2>3. QED BY <2>1, <2>2 DEF MoveOp, NewEdge
<1>9. \A i \in 1 .. Len(t.log) : t.log[i].op.ts \in Stamp
  BY <1>7 DEF MoveOp
<1>10. TreeSound(t)
  BY <1>6, <1>7, <1>8, <1>9 DEF TreeSound
<1>11. QED BY <1>3, <1>4, <1>10 DEF t

LEMMA KindOfIsKind ==
  ASSUME NEW d, TreeSound(d.tree), NEW n
  PROVE  KindOf(d, n) \in Kind
BY DEF TreeSound, KindOf, Kind

LEMMA NamesAreSequences == AnyName \subseteq Seq(Nat) /\ NodeId \subseteq AnyName
<1>1. ASSUME NEW n \in NodeId PROVE n \in Seq(Nat)
  <2>1. \/ \E x \in Nat, y \in Nat : n = <<x, y>>
        \/ \E x \in Nat, y \in Nat, z \in Nat : n = <<x, y, z>>
    BY DEF NodeId, OwnId
  <2>2. /\ \A x, y \in Nat : <<x, y>> \in Seq(Nat)
        /\ \A x, y, z \in Nat : <<x, y, z>> \in Seq(Nat)
    OBVIOUS
  <2>3. QED BY <2>1, <2>2
<1>2. QED BY <1>1 DEF AnyName

\* A child of a directory is a node whose edge names that directory.
LEMMA ChildIsEdge ==
  ASSUME NEW t, TreeSound(t), NEW parent, NEW c \in ChildrenOf(t, parent)
  PROVE  /\ c[3] \in DOMAIN t.edges /\ c = <<parent, t.edges[c[3]].name, c[3]>>
         /\ t.edges[c[3]].parent = parent
<1>1. c \in IndexOf(t.edges) /\ c[1] = parent
  BY DEF TreeSound, ChildrenOf
<1>2. PICK n \in DOMAIN t.edges : c = <<t.edges[n].parent, t.edges[n].name, n>>
  BY <1>1 DEF IndexOf
<1>3. QED BY <1>1, <1>2

\* No node is its own parent.
LEMMA NotOwnParent ==
  ASSUME NEW t, TreeSound(t), NEW n \in DOMAIN t.edges
  PROVE  t.edges[n].parent # n
<1> SUFFICES ASSUME t.edges[n].parent = n PROVE FALSE
  OBVIOUS
<1>1. AcyclicEdges(t.edges)
  BY DEF TreeSound
<1>2. {n} \in SUBSET DOMAIN t.edges /\ {n} # {} /\ \A m \in {n} : t.edges[m].parent \in {n}
  OBVIOUS
<1>3. QED BY <1>1, <1>2 DEF AcyclicEdges

\* What a listing shows of a directory: nodes with an edge to it.
NodesListed(t, dir) == {e.child : e \in Readdir(t, dir)}

LEMMA ListedAreNodes ==
  ASSUME NEW t, TreeSound(t), NEW dir
  PROVE  /\ IsFiniteSet(NodesListed(t, dir)) /\ NodesListed(t, dir) \subseteq NodeId
         /\ NodesListed(t, dir) \subseteq DOMAIN t.edges
<1>1. ASSUME NEW n \in NodesListed(t, dir)
      PROVE  /\ n \in DOMAIN t.edges /\ t.edges[n].parent = dir
             /\ dir = TRASH \/ ~IsTrashed(t.edges, n)
  <2>1. PICK c \in Shown(t, dir) : n = c[3]
    BY DEF NodesListed, Readdir
  <2>2. c \in ChildrenOf(t, dir) /\ (dir = TRASH \/ ~IsTrashed(t.edges, c[3]))
    BY <2>1 DEF Shown
  <2>3. QED BY <2>1, <2>2, ChildIsEdge
<1>2. ASSUME NEW n \in NodesListed(t, dir) PROVE n \in NodeId
  <2>1. n \in Item
    BY <1>1 DEF TreeSound
  <2>2. n # TRASH
    <3>1. TRASH \in AncestorsOrSelf(t.edges, TRASH)
      BY WalkIsExhaustive DEF TreeSound
    <3>2. QED BY <1>1, <3>1, NotOwnParent DEF IsTrashed, IsAncestor
  <2>3. QED BY <2>1, <2>2 DEF Item
<1>3. NodesListed(t, dir) \subseteq DOMAIN t.edges
  BY <1>1
<1>4. IsFiniteSet(NodesListed(t, dir))
  BY <1>3, FS_Subset DEF TreeSound
<1>5. QED BY <1>2, <1>3, <1>4

LEMMA TrashIsNodes ==
  ASSUME NEW d, TreeSound(d.tree)
  PROVE  /\ IsFiniteSet(Trash(d)) /\ Trash(d) \subseteq NodeId
         /\ Trash(d) \subseteq DOMAIN d.tree.edges
<1>1. Trash(d) = NodesListed(d.tree, TRASH)
  BY DEF Trash, NodesListed
<1>2. QED BY <1>1, ListedAreNodes

-----------------------------------------------------------------------------
(* Listings *)

\* A name with a number or two appended, as a listing shows it, is a name.
LEMMA RenderedIsSequence ==
  ASSUME NEW t, TreeSound(t), NEW c, c[2] \in Seq(Nat)
  PROVE  Rendered(t, c) \in Seq(Nat)
<1> DEFINE n == c[3]
           ts == DefiningTs(t, n)
           own == {i \in 1 .. Len(t.log) : t.log[i].op.child = n}
           last == CHOOSE i \in own : \A j \in own : j <= i
<1>1. ts.lamport \in Nat /\ ts.replica \in Nat
  <2>1. CASE own = {}
    BY <2>1 DEF DefiningTs
  <2>2. CASE own # {}
    <3>1. own \in SUBSET Nat /\ IsFiniteSet(own)
      <4>1. Len(t.log) \in Nat
        BY DEF TreeSound
      <4>2. IsFiniteSet(1 .. Len(t.log))
        BY <4>1, FS_Interval
      <4>3. own \in SUBSET (1 .. Len(t.log))
        OBVIOUS
      <4>4. own \in SUBSET Nat
        BY <4>1, <4>3
      <4> HIDE DEF own
      <4>5. IsFiniteSet(own)
        BY <4>2, <4>3, FS_Subset
      <4>6. QED BY <4>4, <4>5
    <3>2. \E i \in own : \A j \in own : i >= j
      <4> HIDE DEF own
      <4>1. QED BY <2>2, <3>1, GreatestNat
    <3>3. \E i \in own : \A j \in own : j <= i
      <4> HIDE DEF own
      <4>1. QED BY <3>1, <3>2
    <3>4. last \in own
      <4> HIDE DEF own
      <4>1. QED BY <3>3
    <3>5. ts = t.log[last].op.ts
      BY <2>2 DEF DefiningTs
    <3> HIDE DEF last
    <3>6. ts \in Stamp
      BY <3>4, <3>5 DEF TreeSound
    <3> HIDE DEF ts
    <3>7. QED BY <3>6, ReplicaAssumption DEF Stamp
  <2>3. QED BY <2>1, <2>2
<1> DEFINE q == c[2]
           x == ts.replica
           y == ts.lamport
<1>2. Rendered(t, c) = IF KeepsName(t, c) THEN q ELSE q \o <<x, y>>
  BY DEF Rendered
<1>3. q \in Seq(Nat) /\ x \in Nat /\ y \in Nat
  BY <1>1
<1> HIDE DEF q, x, y
<1>4. q \o <<x, y>> \in Seq(Nat)
  BY <1>3
<1>5. QED BY <1>2, <1>3, <1>4

\* Ordering by one key, then by a second, then by a third that no two share.
Chained(before, S, a, b, k) ==
    /\ \A x \in S : a[x] \in Seq(Nat) /\ b[x] \in Seq(Nat) /\ k[x] \in Seq(Nat)
    /\ \A x, y \in S : k[x] = k[y] => x = y
    /\ \A x, y \in S : <<x, y>> \in before <=>
            \/ LexLess(a[x], a[y])
            \/ a[x] = a[y] /\ LexLess(b[x], b[y])
            \/ a[x] = a[y] /\ b[x] = b[y] /\ LexLess(k[x], k[y])

LEMMA ChainOrders ==
  ASSUME NEW S, NEW a, NEW b, NEW k, NEW before, Chained(before, S, a, b, k)
  PROVE  Orders(before, S)
<1> USE DEF Chained
<1>1. ASSUME NEW x \in S PROVE <<x, x>> \notin before
  <2>1. ~LexLess(a[x], a[x]) /\ ~LexLess(b[x], b[x]) /\ ~LexLess(k[x], k[x])
    BY LexTotal
  <2>2. QED BY <2>1
<1>2. ASSUME NEW x \in S, NEW y \in S PROVE <<x, y>> \in before \/ x = y \/ <<y, x>> \in before
  <2>1. LexLess(a[x], a[y]) \/ a[x] = a[y] \/ LexLess(a[y], a[x])
    BY LexTotal
  <2>2. LexLess(b[x], b[y]) \/ b[x] = b[y] \/ LexLess(b[y], b[x])
    BY LexTotal
  <2>3. LexLess(k[x], k[y]) \/ k[x] = k[y] \/ LexLess(k[y], k[x])
    BY LexTotal
  <2>4. QED BY <2>1, <2>2, <2>3
<1>3. ASSUME NEW x \in S, NEW y \in S, NEW z \in S, <<x, y>> \in before, <<y, z>> \in before
      PROVE  <<x, z>> \in before
  <2>1. LexLess(a[x], a[y]) /\ LexLess(a[y], a[z]) => LexLess(a[x], a[z])
    BY LexTransitive
  <2>2. LexLess(b[x], b[y]) /\ LexLess(b[y], b[z]) => LexLess(b[x], b[z])
    BY LexTransitive
  <2>3. LexLess(k[x], k[y]) /\ LexLess(k[y], k[z]) => LexLess(k[x], k[z])
    BY LexTransitive
  <2>4. /\ \/ LexLess(a[x], a[y])
           \/ a[x] = a[y] /\ LexLess(b[x], b[y])
           \/ a[x] = a[y] /\ b[x] = b[y] /\ LexLess(k[x], k[y])
        /\ \/ LexLess(a[y], a[z])
           \/ a[y] = a[z] /\ LexLess(b[y], b[z])
           \/ a[y] = a[z] /\ b[y] = b[z] /\ LexLess(k[y], k[z])
    BY <1>3
  <2>5. \/ LexLess(a[x], a[z])
        \/ a[x] = a[z] /\ LexLess(b[x], b[z])
        \/ a[x] = a[z] /\ b[x] = b[z] /\ LexLess(k[x], k[z])
    <3> HIDE DEF Chained
    <3>1. QED BY <2>1, <2>2, <2>3, <2>4
  <2>6. QED BY <2>5
<1>4. QED BY <1>1, <1>2, <1>3 DEF Orders

\* The listing of a directory is a sequence of the nodes that were asked for.
LEMMA ListedIsSequence ==
  ASSUME NEW t, TreeSound(t), NEW dir, NEW ids, ids \subseteq NodesListed(t, dir)
  PROVE  ByShownName(t, dir, ids) \in Seq(ids)
<1> DEFINE Nm(n) == t.edges[n].name
           Sh(n) == Rendered(t, <<dir, Nm(n), n>>)
           a == [n \in ids |-> Sh(n)]
           b == [n \in ids |-> Nm(n)]
           k == [n \in ids |-> n]
           before == {p \in ids \X ids :
                        \/ LexLess(Sh(p[1]), Sh(p[2]))
                        \/ Sh(p[1]) = Sh(p[2]) /\ LexLess(Nm(p[1]), Nm(p[2]))
                        \/ Sh(p[1]) = Sh(p[2]) /\ Nm(p[1]) = Nm(p[2]) /\ LexLess(p[1], p[2])}
<1>1. ByShownName(t, dir, ids) = InRank(ids, before)
  BY DEF ByShownName
<1>2. IsFiniteSet(ids)
  BY ListedAreNodes, FS_Subset
<1>3. \A n \in ids : n \in Seq(Nat) /\ Nm(n) \in Seq(Nat)
  <2> SUFFICES ASSUME NEW n \in ids PROVE n \in Seq(Nat) /\ Nm(n) \in Seq(Nat)
    OBVIOUS
  <2>1. n \in NodeId /\ n \in DOMAIN t.edges
    BY ListedAreNodes
  <2>2. t.edges[n] \in [parent : Place, name : AnyName, kind : Kind]
    BY <2>1 DEF TreeSound
  <2>3. QED BY <2>1, <2>2, NamesAreSequences
<1>4. \A n \in ids : Sh(n) \in Seq(Nat)
  BY <1>3, RenderedIsSequence
<1>5. \A x, y \in ids : <<x, y>> \in before <=>
            \/ LexLess(Sh(x), Sh(y))
            \/ Sh(x) = Sh(y) /\ LexLess(Nm(x), Nm(y))
            \/ Sh(x) = Sh(y) /\ Nm(x) = Nm(y) /\ LexLess(x, y)
  OBVIOUS
<1> HIDE DEF before, Sh, Nm
<1>6. \A x \in ids : a[x] = Sh(x) /\ b[x] = Nm(x) /\ k[x] = x
  OBVIOUS
<1> HIDE DEF a, b, k
<1>7. Orders(before, ids)
  <2>1. \A x \in ids : a[x] \in Seq(Nat) /\ b[x] \in Seq(Nat) /\ k[x] \in Seq(Nat)
    BY <1>3, <1>4, <1>6
  <2>2. \A x, y \in ids : k[x] = k[y] => x = y
    BY <1>6
  <2>3. \A x, y \in ids : <<x, y>> \in before <=>
            \/ LexLess(a[x], a[y])
            \/ a[x] = a[y] /\ LexLess(b[x], b[y])
            \/ a[x] = a[y] /\ b[x] = b[y] /\ LexLess(k[x], k[y])
    <3> SUFFICES ASSUME NEW x \in ids, NEW y \in ids
                 PROVE  <<x, y>> \in before <=>
                          \/ LexLess(a[x], a[y])
                          \/ a[x] = a[y] /\ LexLess(b[x], b[y])
                          \/ a[x] = a[y] /\ b[x] = b[y] /\ LexLess(k[x], k[y])
      OBVIOUS
    <3>1. /\ a[x] = Sh(x) /\ b[x] = Nm(x) /\ k[x] = x
          /\ a[y] = Sh(y) /\ b[y] = Nm(y) /\ k[y] = y
      BY <1>6
    <3>2. QED BY <1>5, <3>1
  <2>4. Chained(before, ids, a, b, k)
    BY <2>1, <2>2, <2>3 DEF Chained
  <2>5. QED BY <2>4, ChainOrders
<1>8. QED BY <1>1, <1>2, <1>7, RankIsSequence

LEMMA TrashListingIsSequence ==
  ASSUME NEW d, TreeSound(d.tree), NEW ids \in SUBSET Trash(d)
  PROVE  TrashListing(d, ids) \in Seq(ids)
<1>1. Trash(d) = NodesListed(d.tree, TRASH)
  BY DEF Trash, NodesListed
<1>2. QED BY <1>1, ListedIsSequence DEF TrashListing

\* The live children of a directory: nodes with a name, each once.
LiveChild(d) ==
    {c \in Place \X AnyName \X NodeId :
        c[3] \in DOMAIN d.tree.edges /\ c[1] = d.tree.edges[c[3]].parent}

LEMMA LiveChildrenIsSequence ==
  ASSUME NEW d, TreeSound(d.tree), NEW parent
  PROVE  LiveChildren(d, parent) \in Seq(LiveChild(d))
<1> DEFINE e == d.tree.edges
           live == {c \in ChildrenOf(d.tree, parent) : ~IsTrashed(e, c[3]) /\ ~IsLimbo(e, c[3])}
           a == [c \in live |-> c[2]]
           k == [c \in live |-> c[3]]
           before == {p \in live \X live :
                        LexLess(p[1][2], p[2][2])
                          \/ (p[1][2] = p[2][2] /\ LexLess(p[1][3], p[2][3]))}
<1>1. LiveChildren(d, parent) = InRank(live, before)
  BY DEF LiveChildren
<1>2. ASSUME NEW c \in live
      PROVE  /\ c[3] \in DOMAIN e /\ c = <<e[c[3]].parent, e[c[3]].name, c[3]>>
             /\ c \in LiveChild(d) /\ c[2] \in Seq(Nat) /\ c[3] \in Seq(Nat)
  <2>1. c \in ChildrenOf(d.tree, parent) /\ ~IsTrashed(e, c[3])
    OBVIOUS
  <2>2. c[3] \in DOMAIN e /\ c = <<e[c[3]].parent, e[c[3]].name, c[3]>>
    BY <2>1, ChildIsEdge
  <2>3. c[3] \in Item /\ e[c[3]] \in [parent : Place, name : AnyName, kind : Kind]
    BY <2>2 DEF TreeSound
  <2>4. c[3] # TRASH
    <3>1. TRASH \in AncestorsOrSelf(e, TRASH)
      BY WalkIsExhaustive DEF TreeSound
    <3>2. QED BY <2>1, <3>1 DEF IsTrashed, IsAncestor
  <2>5. c[3] \in NodeId
    BY <2>3, <2>4 DEF Item
  <2>6. e[c[3]].parent \in Place /\ e[c[3]].name \in AnyName
    BY <2>3
  <2> DEFINE x == e[c[3]].parent
             y == e[c[3]].name
             z == c[3]
  <2>7. c = <<x, y, z>> /\ x \in Place /\ y \in AnyName /\ z \in NodeId
        /\ z \in DOMAIN d.tree.edges /\ x = d.tree.edges[z].parent
    BY <2>2, <2>5, <2>6
  <2> HIDE DEF x, y, z
  <2>8. c \in LiveChild(d)
    BY <2>7 DEF LiveChild
  <2>9. c[2] \in Seq(Nat) /\ c[3] \in Seq(Nat)
    BY <2>7, NamesAreSequences
  <2>10. QED BY <2>2, <2>8, <2>9
<1>3. IsFiniteSet(live)
  <2> DEFINE f == [n \in DOMAIN e |-> <<e[n].parent, e[n].name, n>>]
             T == {f[n] : n \in DOMAIN e}
  <2>1. IsFiniteSet(DOMAIN e)
    BY DEF TreeSound
  <2>2. IsFiniteSet(T)
    <3> HIDE DEF f
    <3>1. QED BY <2>1, ImageFinite
  <2>3. \A n \in DOMAIN e : f[n] = <<e[n].parent, e[n].name, n>>
    OBVIOUS
  <2> HIDE DEF f
  <2>4. live \in SUBSET T
    <3> SUFFICES ASSUME NEW c \in live PROVE c \in T
      OBVIOUS
    <3>1. c[3] \in DOMAIN e /\ c = f[c[3]]
      BY <1>2, <2>3
    <3>2. QED BY <3>1
  <2> HIDE DEF T, live
  <2>5. QED BY <2>2, <2>4, FS_Subset
<1>4. \A x, y \in live : x[3] = y[3] => x = y
  BY <1>2
<1>5. \A x, y \in live : <<x, y>> \in before <=>
            LexLess(x[2], y[2]) \/ (x[2] = y[2] /\ LexLess(x[3], y[3]))
  OBVIOUS
<1>6. \A x \in live : x[2] \in Seq(Nat) /\ x[3] \in Seq(Nat) /\ x \in LiveChild(d)
  BY <1>2
<1> HIDE DEF before, live
<1>7. \A x \in live : a[x] = x[2] /\ k[x] = x[3]
  OBVIOUS
<1> HIDE DEF a, k
<1>8. Orders(before, live)
  <2>1. \A x \in live : a[x] \in Seq(Nat) /\ k[x] \in Seq(Nat)
    BY <1>6, <1>7
  <2>2. \A x, y \in live : k[x] = k[y] => x = y
    BY <1>4, <1>7
  <2>3. \A x, y \in live : <<x, y>> \in before <=>
            \/ LexLess(a[x], a[y])
            \/ a[x] = a[y] /\ LexLess(a[x], a[y])
            \/ a[x] = a[y] /\ a[x] = a[y] /\ LexLess(k[x], k[y])
    <3> SUFFICES ASSUME NEW x \in live, NEW y \in live
                 PROVE  <<x, y>> \in before <=>
                           LexLess(a[x], a[y]) \/ (a[x] = a[y] /\ LexLess(k[x], k[y]))
      OBVIOUS
    <3>1. a[x] = x[2] /\ k[x] = x[3] /\ a[y] = y[2] /\ k[y] = y[3]
      BY <1>7
    <3>2. QED BY <1>5, <3>1
  <2>4. Chained(before, live, a, a, k)
    BY <2>1, <2>2, <2>3 DEF Chained
  <2>5. QED BY <2>4, ChainOrders
<1>9. LiveChildren(d, parent) \in Seq(live)
  BY <1>1, <1>3, <1>8, RankIsSequence
<1>10. QED BY <1>6, <1>9

-----------------------------------------------------------------------------
(* Deleting for good *)

LEMMA GrownSelf ==
  ASSUME NEW d, DriveOk(d), NEW r
  PROVE  Grown(d, d, r)
BY GoesOnSame DEF Grown

\* What hard_delete does for one node.
Deleted(e, r, n) ==
    LET moved == EmitMove(e, r, n, LIMBO, n, KindOf(e, n))
    IN  IF n \in DOMAIN e.content THEN EmitContent(moved, r, RemoveOp(n)) ELSE moved

LEMMA DeletedGrows ==
  ASSUME NEW d, DriveOk(d), NEW r \in Replica, NEW n \in NodeId
  PROVE  Grown(d, Deleted(d, r, n), r)
<1> DEFINE moved == EmitMove(d, r, n, LIMBO, n, KindOf(d, n))
           e == EmitContent(moved, r, RemoveOp(n))
<1>1. KindOf(d, n) \in Kind
  BY DriveTree, KindOfIsKind
<1>2. n \in Item /\ LIMBO \in Place /\ n \in AnyName
  BY NamesAreSequences DEF Item, Place
<1>3. Grown(d, moved, r)
  BY <1>1, <1>2, EmitMoveGrows
<1>4. Deleted(d, r, n) = e \/ Deleted(d, r, n) = moved
  BY DEF Deleted
<1> HIDE DEF moved
<1>5. Grown(moved, e, r)
  <2>1. DriveOk(moved)
    BY <1>3 DEF Grown
  <2>2. RemoveOp(n).type \in {"set", "restore", "remove"}
    BY DEF RemoveOp
  <2>3. QED BY <2>1, <2>2, EmitContentGrows, ReplicaAssumption
<1> HIDE DEF e
<1>6. Grown(d, e, r)
  BY <1>3, <1>5, GrownSteps
<1>7. QED BY <1>3, <1>4, <1>6

IsDeletion(f, d, r, ids, n) ==
    f = [i \in 0 .. n |-> IF i = 0 THEN d ELSE Deleted(f[i - 1], r, ids[i])]

LEMMA DeletionExists ==
  ASSUME NEW d, NEW r, NEW ids, NEW n \in Nat
  PROVE  \E f : IsDeletion(f, d, r, ids, n)
<1> DEFINE T == {l \in Nat : ~ \E f : IsDeletion(f, d, r, ids, l)}
<1> SUFFICES ASSUME T # {} PROVE FALSE
  OBVIOUS
<1>1. PICK l \in T : \A k \in T : l <= k
  BY LeastNat
<1>2. l # 0
  <2>1. IsDeletion([i \in 0 .. 0 |-> d], d, r, ids, 0)
    BY DEF IsDeletion
  <2>2. QED BY <2>1
<1>3. l \in Nat /\ l - 1 \in Nat /\ 0 .. l - 1 \subseteq 0 .. l /\ ~(l <= l - 1)
  BY <1>2
<1>4. PICK f : IsDeletion(f, d, r, ids, l - 1)
  BY <1>1, <1>3
<1> DEFINE g == [i \in 0 .. l |-> IF i = l THEN Deleted(f[l - 1], r, ids[l]) ELSE f[i]]
<1>5. \A i \in 0 .. l - 1 : f[i] = IF i = 0 THEN d ELSE Deleted(f[i - 1], r, ids[i])
  BY <1>4 DEF IsDeletion
<1>6. g = [i \in 0 .. l |-> IF i = 0 THEN d ELSE Deleted(g[i - 1], r, ids[i])]
  BY <1>2, <1>3, <1>5
<1>7. IsDeletion(g, d, r, ids, l)
  <2> HIDE DEF g
  <2>1. QED BY <1>6 DEF IsDeletion
<1>8. QED BY <1>1, <1>7

LEMMA HardDeleteGrows ==
  ASSUME NEW d, DriveOk(d), NEW r \in Replica, NEW ids \in Seq(NodeId)
  PROVE  Grown(d, HardDelete(d, r, ids), r)
<1> DEFINE L == Len(ids)
           f == CHOOSE h : IsDeletion(h, d, r, ids, L)
           T == {k \in 0 .. L : ~Grown(d, f[k], r)}
<1>1. L \in Nat /\ \A i \in 1 .. L : ids[i] \in NodeId
  OBVIOUS
<1>2. HardDelete(d, r, ids) = f[L]
  BY DEF HardDelete, IsDeletion, Deleted
<1> HIDE DEF L
<1>3. IsDeletion(f, d, r, ids, L)
  BY <1>1, DeletionExists
<1> HIDE DEF f
<1>4. \A i \in 0 .. L : f[i] = IF i = 0 THEN d ELSE Deleted(f[i - 1], r, ids[i])
  BY <1>3 DEF IsDeletion
<1>5. ASSUME T # {} PROVE FALSE
  <2>1. PICK k \in T : \A j \in T : k <= j
    <3>1. T \in SUBSET Nat
      BY <1>1
    <3> HIDE DEF T
    <3>2. QED BY <1>5, <3>1, LeastNat
  <2>2. k # 0
    <3>1. f[0] = d
      BY <1>1, <1>4
    <3>2. QED BY <2>1, <3>1, GrownSelf
  <2>3. k \in 1 .. L /\ k - 1 \in 0 .. L /\ k \in 0 .. L /\ ~(k <= k - 1)
    BY <1>1, <2>1, <2>2
  <2>4. Grown(d, f[k - 1], r)
    BY <2>1, <2>3
  <2>5. f[k] = Deleted(f[k - 1], r, ids[k]) /\ ids[k] \in NodeId
    BY <1>1, <1>4, <2>2, <2>3
  <2>6. Grown(f[k - 1], f[k], r)
    <3>1. DriveOk(f[k - 1])
      BY <2>4 DEF Grown
    <3>2. QED BY <2>5, <3>1, DeletedGrows
  <2>7. Grown(d, f[k], r)
    BY <2>4, <2>6, GrownSteps
  <2>8. QED BY <2>1, <2>7
<1>6. L \in 0 .. L
  BY <1>1
<1>7. QED BY <1>2, <1>5, <1>6

-----------------------------------------------------------------------------
(* The ids that moves name *)

\* The ids that a drive has seen.
MoveIds(d) == UNION {{o.child, o.new_parent} : o \in Range(d.moves)}
KnownIds(d) == MoveIds(d) \cup {ROOT, TRASH, LIMBO}

\* e goes on from d with moves that are later and name only the ids of S.
Continues(d, e, S) ==
    /\ e.lamport >= d.lamport
    /\ \A o \in Range(e.moves) :
          \/ o \in Range(d.moves)
          \/ o.child \in S /\ o.new_parent \in S /\ o.ts.lamport > d.lamport

LEMMA ContinuesOn ==
  ASSUME NEW c, NEW d, NEW e, NEW S, Continues(c, d, S), Continues(d, e, S),
         c.lamport \in Nat, d.lamport \in Nat, e.lamport \in Nat,
         \A o \in Range(e.moves) : o.ts.lamport \in Nat
  PROVE  Continues(c, e, S)
<1>1. e.lamport >= c.lamport
  BY DEF Continues
<1>2. ASSUME NEW o \in Range(e.moves), o \notin Range(c.moves)
      PROVE  o.child \in S /\ o.new_parent \in S /\ o.ts.lamport > c.lamport
  BY <1>2 DEF Continues
<1>3. QED BY <1>1, <1>2 DEF Continues

\* The nodes of a tree, and what they are under, have been seen.
LEMMA TreeIdsKnown ==
  ASSUME NEW d, DriveOk(d), NEW n \in DOMAIN d.tree.edges
  PROVE  n \in MoveIds(d) /\ d.tree.edges[n].parent \in MoveIds(d)
<1> DEFINE t == d.tree
<1>1. Built(t, LogEntries(MoveOp)) /\ LogOps(t) = Range(d.moves)
  BY DriveTree DEF Replayed
<1>2. PICK i \in 1 .. Len(t.log) : t.log[i].op.child = n /\ t.edges[n] = NewEdge(t.log[i].op)
  BY <1>1, EdgesOfMoves
<1>3. t.log[i].op \in Range(d.moves)
  BY <1>1, <1>2 DEF LogOps
<1>4. t.edges[n].parent = t.log[i].op.new_parent
  BY <1>2 DEF NewEdge
<1>5. QED BY <1>2, <1>3, <1>4 DEF MoveIds

LEMMA EmitMoveContinues ==
  ASSUME NEW d, DriveOk(d), NEW r, NEW S, NEW child \in S, NEW parent \in S, NEW name, NEW kind
  PROVE  Continues(d, EmitMove(d, r, child, parent, name, kind), S)
<1> DEFINE op == [ts |-> NextTs(d, r), child |-> child, new_parent |-> parent,
                  new_name |-> name, kind |-> kind]
           e == EmitMove(d, r, child, parent, name, kind)
<1>1. d.lamport \in Nat /\ d.moves \in Seq(MoveOp)
  BY DEF DriveOk, MovesLog
<1>2. e.lamport = d.lamport + 1 /\ e.moves = Append(d.moves, op)
  <2>1. d = [lamport |-> d.lamport, moves |-> d.moves, contents |-> d.contents,
             tree |-> d.tree, content |-> d.content]
    BY DEF DriveOk
  <2>2. e = [d EXCEPT !.lamport = @ + 1, !.tree = Integrate(@, op), !.moves = Append(@, op)]
    BY Zenon DEF EmitMove
  <2> HIDE DEF e, op
  <2>3. QED BY <2>1, <2>2
<1>3. /\ op.child = child /\ op.new_parent = parent /\ op.ts.lamport = d.lamport + 1
  BY DEF NextTs
<1> HIDE DEF e, op
<1>4. Range(e.moves) = Range(d.moves) \cup {op}
  BY <1>1, <1>2, RangeAppend
<1>5. Continues(d, e, S)
  <2>1. d.lamport + 1 > d.lamport /\ d.lamport + 1 >= d.lamport
    BY <1>1
  <2>2. QED BY <1>2, <1>3, <1>4, <2>1 DEF Continues
<1>6. QED BY <1>5 DEF e

LEMMA EmitContentContinues ==
  ASSUME NEW d, DriveOk(d), NEW r, NEW S, NEW op
  PROVE  /\ Continues(d, EmitContent(d, r, op), S)
         /\ EmitContent(d, r, op).tree = d.tree /\ EmitContent(d, r, op).moves = d.moves
<1> DEFINE e == EmitContent(d, r, op)
<1>1. d.lamport \in Nat
  BY DEF DriveOk
<1>2. e.lamport = d.lamport + 1 /\ e.moves = d.moves /\ e.tree = d.tree
  <2>1. d = [lamport |-> d.lamport, moves |-> d.moves, contents |-> d.contents,
             tree |-> d.tree, content |-> d.content]
    BY DEF DriveOk
  <2>2. e = [d EXCEPT !.lamport = @ + 1, !.content = ApplyContent(@, op),
                      !.contents = Append(@, [ts |-> NextTs(d, r), op |-> op])]
    BY Zenon DEF EmitContent
  <2> HIDE DEF e
  <2>3. QED BY <2>1, <2>2
<1> HIDE DEF e
<1>3. Continues(d, e, S)
  BY <1>1, <1>2 DEF Continues
<1>4. QED BY <1>2, <1>3 DEF e

LEMMA DeletedContinues ==
  ASSUME NEW d, DriveOk(d), NEW r \in Replica, NEW S, LIMBO \in S,
         NEW n \in NodeId, n \in S
  PROVE  Continues(d, Deleted(d, r, n), S)
<1> DEFINE moved == EmitMove(d, r, n, LIMBO, n, KindOf(d, n))
           e == EmitContent(moved, r, RemoveOp(n))
<1>1. Continues(d, moved, S)
  BY EmitMoveContinues
<1>2. DriveOk(moved)
  <2>1. KindOf(d, n) \in Kind /\ n \in Item /\ LIMBO \in Place /\ n \in AnyName
    BY DriveTree, KindOfIsKind, NamesAreSequences DEF Item, Place
  <2>2. QED BY <2>1, EmitMoveGrows DEF Grown
<1>3. Deleted(d, r, n) = e \/ Deleted(d, r, n) = moved
  BY DEF Deleted
<1> HIDE DEF moved
<1>4. Continues(moved, e, S)
  BY <1>2, EmitContentContinues
<1>5. DriveOk(e)
  <2>1. RemoveOp(n).type \in {"set", "restore", "remove"}
    BY DEF RemoveOp
  <2>2. QED BY <1>2, <2>1, EmitContentGrows, ReplicaAssumption DEF Grown
<1> HIDE DEF e
<1>6. Continues(d, e, S)
  BY <1>1, <1>2, <1>4, <1>5, ContinuesOn, TicksAreNumbers
<1>7. QED BY <1>1, <1>3, <1>6

LEMMA HardDeleteContinues ==
  ASSUME NEW d, DriveOk(d), NEW r \in Replica, NEW S, LIMBO \in S,
         NEW ids \in Seq(NodeId \cap S)
  PROVE  Continues(d, HardDelete(d, r, ids), S)
<1> DEFINE L == Len(ids)
           f == CHOOSE h : IsDeletion(h, d, r, ids, L)
           Good(e) == DriveOk(e) /\ Continues(d, e, S)
           T == {k \in 0 .. L : ~Good(f[k])}
<1>1. L \in Nat /\ \A i \in 1 .. L : ids[i] \in NodeId /\ ids[i] \in S
  OBVIOUS
<1>2. HardDelete(d, r, ids) = f[L]
  BY DEF HardDelete, IsDeletion, Deleted
<1> HIDE DEF L
<1>3. IsDeletion(f, d, r, ids, L)
  BY <1>1, DeletionExists
<1> HIDE DEF f
<1>4. \A i \in 0 .. L : f[i] = IF i = 0 THEN d ELSE Deleted(f[i - 1], r, ids[i])
  BY <1>3 DEF IsDeletion
<1>5. ASSUME T # {} PROVE FALSE
  <2>1. PICK k \in T : \A j \in T : k <= j
    <3>1. T \in SUBSET Nat
      BY <1>1
    <3> HIDE DEF T
    <3>2. QED BY <1>5, <3>1, LeastNat
  <2>2. k # 0
    <3>1. f[0] = d
      BY <1>1, <1>4
    <3>2. Continues(d, d, S)
      BY TicksAreNumbers DEF Continues
    <3>3. QED BY <2>1, <3>1, <3>2
  <2>3. k \in 1 .. L /\ k - 1 \in 0 .. L /\ k \in 0 .. L /\ ~(k <= k - 1)
    BY <1>1, <2>1, <2>2
  <2>4. DriveOk(f[k - 1]) /\ Continues(d, f[k - 1], S)
    BY <2>1, <2>3
  <2>5. f[k] = Deleted(f[k - 1], r, ids[k]) /\ ids[k] \in NodeId /\ ids[k] \in S
    BY <1>1, <1>4, <2>2, <2>3
  <2>6. DriveOk(f[k]) /\ Continues(f[k - 1], f[k], S)
    BY <2>4, <2>5, DeletedGrows, DeletedContinues DEF Grown
  <2>7. Continues(d, f[k], S)
    BY <2>4, <2>6, ContinuesOn, TicksAreNumbers
  <2>8. QED BY <2>1, <2>6, <2>7
<1>6. L \in 0 .. L
  BY <1>1
<1>7. QED BY <1>2, <1>5, <1>6

-----------------------------------------------------------------------------
(* The records of a folded log have a history *)

LEMMA FoldHistories ==
  ASSUME NEW log, InOrder(log)
  PROVE  Histories(FoldContent(log))
<1> DEFINE L == Len(log)
<1>1. L \in Nat /\ \A i \in 1 .. L : log[i].op.type \in {"set", "restore", "remove"}
  BY LogFacts
<1>2. PICK f : IsFold(f, NoContent, log, Ids(log), L) /\ FoldContent(log) = f[L]
  <2>1. PICK f : IsFold(f, NoContent, log, Ids(log), L) /\ Fold(NoContent, log, Ids(log)) = f[L]
    BY FoldSteps
  <2>2. QED BY <2>1 DEF FoldContent, Ids
<1> HIDE DEF L
<1>3. \A i \in 0 .. L : f[i] = IF i = 0 THEN NoContent
                               ELSE IF log[i].op.id \in Ids(log) THEN ApplyContent(f[i - 1], log[i].op)
                               ELSE f[i - 1]
  BY <1>2 DEF IsFold
<1> DEFINE T == {k \in 0 .. L : ~Histories(f[k])}
<1>4. ASSUME T # {} PROVE FALSE
  <2>1. PICK k \in T : \A j \in T : k <= j
    <3>1. T \in SUBSET Nat
      BY <1>1
    <3> HIDE DEF T
    <3>2. QED BY <1>4, <3>1, LeastNat
  <2>2. k # 0
    <3>1. f[0] = NoContent
      BY <1>1, <1>3
    <3>2. Histories(NoContent)
      BY DEF Histories, NoContent
    <3>3. QED BY <2>1, <3>1, <3>2
  <2>3. k \in 1 .. L /\ k - 1 \in 0 .. L /\ k \in 0 .. L /\ ~(k <= k - 1)
    BY <1>1, <2>1, <2>2
  <2>4. Histories(f[k - 1])
    BY <2>1, <2>3
  <2>5. Histories(ApplyContent(f[k - 1], log[k].op))
    BY <1>1, <2>3, <2>4, ApplyHistories
  <2>6. f[k] = ApplyContent(f[k - 1], log[k].op) \/ f[k] = f[k - 1]
    BY <1>3, <2>2, <2>3
  <2>7. Histories(f[k])
    BY <2>4, <2>5, <2>6
  <2>8. QED BY <2>1, <2>7
<1>5. L \in 0 .. L
  BY <1>1
<1>6. QED BY <1>2, <1>4, <1>5

-----------------------------------------------------------------------------
(* Compaction *)

\* A list of operations that each save a version.
Saves(ops) == IsSequence(ops) /\ \A i \in 1 .. Len(ops) : ops[i].type = "set"

LEMMA ResavesSave ==
  ASSUME NEW d, DriveOk(d), NEW n
  PROVE  Saves(Resaves(d, n))
<1>1. CASE n \notin DOMAIN d.content
  <2>1. Resaves(d, n) = <<>>
    BY <1>1 DEF Resaves
  <2>2. <<>> \in Seq({}) /\ Len(<<>>) = 0
    OBVIOUS
  <2>3. QED BY <2>1, <2>2 DEF Saves, IsSequence
<1>2. CASE n \in DOMAIN d.content
  <2> DEFINE c == d.content[n]
             q == c.versions
             a == [i \in DOMAIN q |-> SetOp(n, q[i].cid, q[i].at)]
             x == SetOp(n, c.cid, c.mtime)
  <2>1. IsSequence(q)
    <3>1. Histories(d.content)
      BY FoldHistories DEF DriveOk, ContentLog
    <3>2. QED BY <1>2, <3>1 DEF Histories, HasHistory
  <2>2. Resaves(d, n) = a \o <<x>>
    BY <1>2 DEF Resaves
  <2>3. PICK S : q \in Seq(S)
    BY <2>1 DEF IsSequence
  <2>4. Len(q) \in Nat /\ DOMAIN q = 1 .. Len(q)
    BY <2>3
  <2>5. x.type = "set" /\ \A i \in 1 .. Len(q) : SetOp(n, q[i].cid, q[i].at).type = "set"
    BY DEF SetOp
  <2> DEFINE W == {SetOp(n, q[i].cid, q[i].at) : i \in 1 .. Len(q)} \cup {x}
  <2>6. \A o \in W : o.type = "set"
    BY <2>5
  <2> HIDE DEF q, x
  <2>7. a \in Seq(W) /\ x \in W
    BY <2>4
  <2> HIDE DEF W, a
  <2>8. a \o <<x>> \in Seq(W)
    BY <2>7
  <2>9. \A i \in 1 .. Len(a \o <<x>>) : (a \o <<x>>)[i] \in W
    BY <2>8
  <2>10. QED BY <2>2, <2>6, <2>8, <2>9 DEF Saves, IsSequence
<1>3. QED BY <1>1, <1>2

IsEmission(f, d, r, ops, n) ==
    f = [i \in 0 .. n |-> IF i = 0 THEN d ELSE EmitContent(f[i - 1], r, ops[i])]

LEMMA EmissionExists ==
  ASSUME NEW d, NEW r, NEW ops, NEW n \in Nat
  PROVE  \E f : IsEmission(f, d, r, ops, n)
<1> DEFINE T == {l \in Nat : ~ \E f : IsEmission(f, d, r, ops, l)}
<1> SUFFICES ASSUME T # {} PROVE FALSE
  OBVIOUS
<1>1. PICK l \in T : \A k \in T : l <= k
  BY LeastNat
<1>2. l # 0
  <2>1. IsEmission([i \in 0 .. 0 |-> d], d, r, ops, 0)
    BY DEF IsEmission
  <2>2. QED BY <2>1
<1>3. l \in Nat /\ l - 1 \in Nat /\ 0 .. l - 1 \subseteq 0 .. l /\ ~(l <= l - 1)
  BY <1>2
<1>4. PICK f : IsEmission(f, d, r, ops, l - 1)
  BY <1>1, <1>3
<1> DEFINE g == [i \in 0 .. l |-> IF i = l THEN EmitContent(f[l - 1], r, ops[l]) ELSE f[i]]
<1>5. \A i \in 0 .. l - 1 : f[i] = IF i = 0 THEN d ELSE EmitContent(f[i - 1], r, ops[i])
  BY <1>4 DEF IsEmission
<1>6. g = [i \in 0 .. l |-> IF i = 0 THEN d ELSE EmitContent(g[i - 1], r, ops[i])]
  BY <1>2, <1>3, <1>5
<1>7. IsEmission(g, d, r, ops, l)
  <2> HIDE DEF g
  <2>1. QED BY <1>6 DEF IsEmission
<1>8. QED BY <1>1, <1>7

\* A drive that was built from nothing, of the nodes in S.
Rebuilt(e, S) == DriveOk(e) /\ Continues(NewDrive, e, S)

LEMMA RebuiltOn ==
  ASSUME NEW d, NEW e, NEW S, Rebuilt(d, S), DriveOk(e), Continues(d, e, S)
  PROVE  Rebuilt(e, S)
<1>1. NewDrive.lamport \in Nat
  BY DEF NewDrive
<1>2. QED BY <1>1, ContinuesOn, TicksAreNumbers DEF Rebuilt

LEMMA EmitAllOk ==
  ASSUME NEW d, NEW S, Rebuilt(d, S), NEW r \in Replica, NEW ops, Saves(ops)
  PROVE  Rebuilt(EmitAll(d, r, ops), S)
<1> DEFINE L == Len(ops)
           f == CHOOSE h : IsEmission(h, d, r, ops, L)
           T == {k \in 0 .. L : ~Rebuilt(f[k], S)}
<1>1. L \in Nat /\ \A i \in 1 .. L : ops[i].type \in {"set", "restore", "remove"}
  BY DEF Saves, IsSequence
<1>2. EmitAll(d, r, ops) = f[L]
  BY DEF EmitAll, IsEmission
<1> HIDE DEF L
<1>3. IsEmission(f, d, r, ops, L)
  BY <1>1, EmissionExists
<1> HIDE DEF f
<1>4. \A i \in 0 .. L : f[i] = IF i = 0 THEN d ELSE EmitContent(f[i - 1], r, ops[i])
  BY <1>3 DEF IsEmission
<1>5. ASSUME T # {} PROVE FALSE
  <2>1. PICK k \in T : \A j \in T : k <= j
    <3>1. T \in SUBSET Nat
      BY <1>1
    <3> HIDE DEF T
    <3>2. QED BY <1>5, <3>1, LeastNat
  <2>2. k # 0
    BY <1>1, <1>4, <2>1
  <2>3. k \in 1 .. L /\ k - 1 \in 0 .. L /\ k \in 0 .. L /\ ~(k <= k - 1)
    BY <1>1, <2>1, <2>2
  <2>4. Rebuilt(f[k - 1], S) /\ DriveOk(f[k - 1])
    BY <2>1, <2>3 DEF Rebuilt
  <2>5. f[k] = EmitContent(f[k - 1], r, ops[k])
    BY <1>4, <2>2, <2>3
  <2>6. Grown(f[k - 1], EmitContent(f[k - 1], r, ops[k]), r)
    BY <1>1, <2>3, <2>4, EmitContentGrows, ReplicaAssumption
  <2>7. Rebuilt(f[k], S)
    <3>1. DriveOk(f[k])
      BY <2>5, <2>6 DEF Grown
    <3>2. Continues(f[k - 1], f[k], S)
      BY <2>4, <2>5, EmitContentContinues
    <3>3. QED BY <2>4, <3>1, <3>2, RebuiltOn
  <2>8. QED BY <2>1, <2>7
<1>6. L \in 0 .. L
  BY <1>1
<1>7. QED BY <1>2, <1>5, <1>6

LEMMA RecreateOk ==
  ASSUME NEW d, DriveOk(d), NEW r \in Replica, NEW c \in LiveChild(d),
         NEW acc, Rebuilt(acc.out, KnownIds(d))
  PROVE  Rebuilt(Recreate(d, r, c, acc).out, KnownIds(d))
<1> DEFINE moved == EmitMove(acc.out, r, c[3], c[1], c[2], KindOf(d, c[3]))
<1>1. KindOf(d, c[3]) \in Kind
  BY DriveTree, KindOfIsKind
<1>2. c[3] \in Item /\ c[1] \in Place /\ c[2] \in AnyName
  BY DEF LiveChild, Item
<1>3. Grown(acc.out, moved, r) /\ Continues(acc.out, moved, KnownIds(d))
  <2>1. DriveOk(acc.out)
    BY DEF Rebuilt
  <2>2. c[3] \in KnownIds(d) /\ c[1] \in KnownIds(d)
    BY TreeIdsKnown DEF LiveChild, KnownIds
  <2>3. Grown(acc.out, moved, r)
    BY <1>1, <1>2, <2>1, EmitMoveGrows
  <2>4. Continues(acc.out, moved, KnownIds(d))
    BY <2>1, <2>2, EmitMoveContinues
  <2>5. QED BY <2>3, <2>4
<1>4. Recreate(d, r, c, acc).out = EmitAll(moved, r, Resaves(d, c[3]))
  BY DEF Recreate
<1> HIDE DEF moved
<1>5. Rebuilt(moved, KnownIds(d))
  BY <1>3, RebuiltOn DEF Grown
<1>6. Saves(Resaves(d, c[3]))
  BY ResavesSave
<1>7. QED BY <1>4, <1>5, <1>6, EmitAllOk

Started(acc) == [out |-> acc.out, queue |-> Tail(acc.queue)]

IsVisit(f, d, r, kids, acc, n) ==
    f = [i \in 0 .. n |-> IF i = 0 THEN Started(acc) ELSE Recreate(d, r, kids[i], f[i - 1])]

LEMMA VisitExists ==
  ASSUME NEW d, NEW r, NEW kids, NEW acc, NEW n \in Nat
  PROVE  \E f : IsVisit(f, d, r, kids, acc, n)
<1> DEFINE T == {l \in Nat : ~ \E f : IsVisit(f, d, r, kids, acc, l)}
<1> SUFFICES ASSUME T # {} PROVE FALSE
  OBVIOUS
<1>1. PICK l \in T : \A k \in T : l <= k
  BY LeastNat
<1>2. l # 0
  <2>1. IsVisit([i \in 0 .. 0 |-> Started(acc)], d, r, kids, acc, 0)
    BY DEF IsVisit
  <2>2. QED BY <2>1
<1>3. l \in Nat /\ l - 1 \in Nat /\ 0 .. l - 1 \subseteq 0 .. l /\ ~(l <= l - 1)
  BY <1>2
<1>4. PICK f : IsVisit(f, d, r, kids, acc, l - 1)
  BY <1>1, <1>3
<1> DEFINE g == [i \in 0 .. l |-> IF i = l THEN Recreate(d, r, kids[l], f[l - 1]) ELSE f[i]]
<1>5. \A i \in 0 .. l - 1 :
         f[i] = IF i = 0 THEN Started(acc) ELSE Recreate(d, r, kids[i], f[i - 1])
  BY <1>4 DEF IsVisit
<1>6. g = [i \in 0 .. l |-> IF i = 0 THEN Started(acc) ELSE Recreate(d, r, kids[i], g[i - 1])]
  BY <1>2, <1>3, <1>5
<1>7. IsVisit(g, d, r, kids, acc, l)
  <2> HIDE DEF g
  <2>1. QED BY <1>6 DEF IsVisit
<1>8. QED BY <1>1, <1>7

LEMMA VisitOk ==
  ASSUME NEW d, DriveOk(d), NEW r \in Replica, NEW acc,
         Rebuilt(acc.out, KnownIds(d))
  PROVE  Rebuilt(Visit(d, r, acc).out, KnownIds(d))
<1> DEFINE kids == LiveChildren(d, Head(acc.queue))
           L == Len(kids)
           f == CHOOSE h : IsVisit(h, d, r, kids, acc, L)
           T == {k \in 0 .. L : ~Rebuilt(f[k].out, KnownIds(d))}
<1>1. L \in Nat /\ \A i \in 1 .. L : kids[i] \in LiveChild(d)
  <2>1. kids \in Seq(LiveChild(d))
    BY DriveTree, LiveChildrenIsSequence
  <2> HIDE DEF kids
  <2>2. QED BY <2>1
<1>2. Visit(d, r, acc) = IF acc.queue = <<>> THEN acc ELSE f[L]
  BY DEF Visit, IsVisit, Started
<1> HIDE DEF L, kids
<1>3. IsVisit(f, d, r, kids, acc, L)
  BY <1>1, VisitExists
<1> HIDE DEF f
<1>4. \A i \in 0 .. L :
         f[i] = IF i = 0 THEN Started(acc) ELSE Recreate(d, r, kids[i], f[i - 1])
  BY <1>3 DEF IsVisit
<1>5. ASSUME T # {} PROVE FALSE
  <2>1. PICK k \in T : \A j \in T : k <= j
    <3>1. T \in SUBSET Nat
      BY <1>1
    <3> HIDE DEF T
    <3>2. QED BY <1>5, <3>1, LeastNat
  <2>2. k # 0
    <3>1. f[0].out = acc.out
      <4>1. f[0] = Started(acc)
        BY <1>1, <1>4
      <4>2. QED BY <4>1 DEF Started
    <3>2. QED BY <2>1, <3>1
  <2>3. k \in 1 .. L /\ k - 1 \in 0 .. L /\ k \in 0 .. L /\ ~(k <= k - 1)
    BY <1>1, <2>1, <2>2
  <2>4. Rebuilt(f[k - 1].out, KnownIds(d))
    BY <2>1, <2>3
  <2>5. f[k] = Recreate(d, r, kids[k], f[k - 1]) /\ kids[k] \in LiveChild(d)
    BY <1>1, <1>4, <2>2, <2>3
  <2>6. Rebuilt(f[k].out, KnownIds(d))
    BY <2>4, <2>5, RecreateOk
  <2>7. QED BY <2>1, <2>6
<1>6. L \in 0 .. L
  BY <1>1
<1>7. QED BY <1>2, <1>5, <1>6

\* Replaying what a drive saves gives the drive.
LEMMA FromStateSame ==
  ASSUME NEW d, DriveOk(d)
  PROVE  FromState(d) = d
BY DEF DriveOk, FromState

LEMMA NewDriveOk == DriveOk(NewDrive)
<1>1. ReplayMoves(<<>>) = EmptyTree
  <2> DEFINE f == CHOOSE h : IsReplay(h, <<>>, 0)
  <2>1. Len(<<>>) = 0
    OBVIOUS
  <2>2. ReplayMoves(<<>>) = f[0]
    BY <2>1 DEF ReplayMoves, IsReplay
  <2>3. IsReplay(f, <<>>, 0)
    BY ReplayExists
  <2> HIDE DEF f
  <2>4. f[0] = EmptyTree
    BY <2>3 DEF IsReplay
  <2>5. QED BY <2>2, <2>4
<1>2. Range(<<>>) = {} /\ <<>> \in Seq({}) /\ Len(<<>>) = 0
  BY DEF Range
<1>3. InOrder(<<>>)
  BY <1>2 DEF InOrder, Ascending
<1>4. FoldContent(<<>>) = NoContent
  <2>1. PICK f : IsFold(f, NoContent, <<>>, Ids(<<>>), 0) /\ Fold(NoContent, <<>>, Ids(<<>>)) = f[0]
    BY <1>2, <1>3, FoldSteps
  <2>2. f[0] = NoContent
    BY <2>1 DEF IsFold
  <2>3. QED BY <2>1, <2>2 DEF FoldContent, Ids
<1>5. MovesLog(NewDrive)
  <2>1. <<>> \in Seq(MoveOp)
    OBVIOUS
  <2>2. QED BY <1>2, <2>1 DEF MovesLog, NewDrive, Keyed
<1>6. ContentLog(NewDrive)
  BY <1>2, <1>3 DEF ContentLog, NewDrive
<1>7. QED BY <1>1, <1>4, <1>5, <1>6 DEF DriveOk, NewDrive

IsCompaction(f, d, r, n) ==
    f = [i \in 0 .. n |-> IF i = 0 THEN [out |-> NewDrive, queue |-> <<ROOT>>]
                          ELSE Visit(d, r, f[i - 1])]

LEMMA CompactionExists ==
  ASSUME NEW d, NEW r, NEW n \in Nat
  PROVE  \E f : IsCompaction(f, d, r, n)
<1> DEFINE T == {l \in Nat : ~ \E f : IsCompaction(f, d, r, l)}
           first == [out |-> NewDrive, queue |-> <<ROOT>>]
<1> SUFFICES ASSUME T # {} PROVE FALSE
  OBVIOUS
<1>1. PICK l \in T : \A k \in T : l <= k
  BY LeastNat
<1>2. l # 0
  <2>1. IsCompaction([i \in 0 .. 0 |-> first], d, r, 0)
    BY DEF IsCompaction
  <2>2. QED BY <2>1
<1>3. l \in Nat /\ l - 1 \in Nat /\ 0 .. l - 1 \subseteq 0 .. l /\ ~(l <= l - 1)
  BY <1>2
<1>4. PICK f : IsCompaction(f, d, r, l - 1)
  BY <1>1, <1>3
<1> DEFINE g == [i \in 0 .. l |-> IF i = l THEN Visit(d, r, f[l - 1]) ELSE f[i]]
<1>5. \A i \in 0 .. l - 1 : f[i] = IF i = 0 THEN first ELSE Visit(d, r, f[i - 1])
  BY <1>4 DEF IsCompaction
<1>6. g = [i \in 0 .. l |-> IF i = 0 THEN first ELSE Visit(d, r, g[i - 1])]
  <2> HIDE DEF first
  <2>1. QED BY <1>2, <1>3, <1>5
<1>7. IsCompaction(g, d, r, l)
  <2> HIDE DEF g
  <2>1. QED BY <1>6 DEF IsCompaction
<1>8. QED BY <1>1, <1>7

\* A compacted drive is the replay of its new logs, which name no new node.
LEMMA CompactedOk ==
  ASSUME NEW d, DriveOk(d), NEW r \in Replica
  PROVE  Rebuilt(Compacted(d, r), KnownIds(d))
<1> DEFINE L == Cardinality(DOMAIN d.tree.edges) + 1
           f == CHOOSE h : IsCompaction(h, d, r, L)
           T == {k \in 0 .. L : ~Rebuilt(f[k].out, KnownIds(d))}
<1>1. L \in Nat
  <2>1. IsFiniteSet(DOMAIN d.tree.edges)
    BY DriveTree DEF TreeSound
  <2>2. QED BY <2>1, FS_CardinalityType
<1>2. Compacted(d, r) = FromState(f[L].out)
  BY DEF Compacted, IsCompaction
<1> HIDE DEF L
<1>3. IsCompaction(f, d, r, L)
  BY <1>1, CompactionExists
<1> HIDE DEF f
<1>4. \A i \in 0 .. L : f[i] = IF i = 0 THEN [out |-> NewDrive, queue |-> <<ROOT>>]
                               ELSE Visit(d, r, f[i - 1])
  BY <1>3 DEF IsCompaction
<1>5. ASSUME T # {} PROVE FALSE
  <2>1. PICK k \in T : \A j \in T : k <= j
    <3>1. T \in SUBSET Nat
      BY <1>1
    <3> HIDE DEF T
    <3>2. QED BY <1>5, <3>1, LeastNat
  <2>2. k # 0
    <3>1. f[0].out = NewDrive
      BY <1>1, <1>4
    <3>2. Rebuilt(NewDrive, KnownIds(d))
      BY NewDriveOk, TicksAreNumbers DEF Rebuilt, Continues
    <3>3. QED BY <2>1, <3>1, <3>2
  <2>3. k \in 1 .. L /\ k - 1 \in 0 .. L /\ k \in 0 .. L /\ ~(k <= k - 1)
    BY <1>1, <2>1, <2>2
  <2>4. Rebuilt(f[k - 1].out, KnownIds(d))
    BY <2>1, <2>3
  <2>5. f[k] = Visit(d, r, f[k - 1])
    BY <1>4, <2>2, <2>3
  <2>6. Rebuilt(f[k].out, KnownIds(d))
    BY <2>4, <2>5, VisitOk
  <2>7. QED BY <2>1, <2>6
<1>6. L \in 0 .. L
  BY <1>1
<1>7. Rebuilt(f[L].out, KnownIds(d))
  BY <1>5, <1>6
<1>8. FromState(f[L].out) = f[L].out
  BY <1>7, FromStateSame DEF Rebuilt
<1>9. QED BY <1>2, <1>7, <1>8

-----------------------------------------------------------------------------
(* The steps of the replicas *)

\* A replica whose drive stays in order and gains, beyond what it stamps itself,
\* only moves that their writer holds.
LEMMA StepKeeps ==
  ASSUME IInv, NEW r \in Replica, NEW e, DriveOk(e),
         Range(drive[r].moves) \subseteq Range(e.moves),
         \A o \in Range(e.moves) :
            \/ o \in Range(drive[r].moves)
            \/ o.ts.replica = r \/ o.ts.replica \notin Replica
            \/ \E s \in Replica : o.ts.replica = s /\ o \in Range(drive[s].moves),
         drive' = [drive EXCEPT ![r] = e], fresh' \in [Replica -> Nat]
  PROVE  IInv'
<1>1. drive = [q \in Replica |-> drive[q]] /\ \A q \in Replica : DriveOk(drive[q])
  BY DEF IInv, TypeOK
<1>2. /\ drive' = [q \in Replica |-> drive'[q]] /\ drive'[r] = e
      /\ \A q \in Replica : q # r => drive'[q] = drive[q]
  BY <1>1
<1>3. \A q \in Replica : DriveOk(drive'[q])
  BY <1>1, <1>2
<1>4. TypeOK'
  BY <1>2, <1>3 DEF TypeOK
<1>5. \A q \in Replica : Range(drive[q].moves) \subseteq Range(drive'[q].moves)
  BY <1>2
<1>6. ASSUME NEW q \in Replica, NEW s \in Replica, NEW o \in Range(drive'[q].moves),
             o.ts.replica = s
      PROVE  o \in Range(drive'[s].moves)
  <2>1. CASE o \in Range(drive[q].moves)
    <3>1. o \in Range(drive[s].moves)
      BY <1>6, <2>1 DEF IInv, Originals
    <3>2. QED BY <1>5, <3>1
  <2>2. CASE o \notin Range(drive[q].moves)
    <3>1. q = r /\ o \in Range(e.moves)
      BY <1>2, <2>2
    <3>2. s = r \/ o \in Range(drive[s].moves)
      BY <1>6, <2>2, <3>1
    <3>3. QED BY <1>2, <1>5, <3>1, <3>2
  <2>3. QED BY <2>1, <2>2
<1>7. Originals'
  BY <1>6 DEF Originals
<1>8. QED BY <1>4, <1>7 DEF IInv

LEMMA GrownKeeps ==
  ASSUME IInv, NEW r \in Replica, NEW e, Grown(drive[r], e, r),
         drive' = [drive EXCEPT ![r] = e], fresh' \in [Replica -> Nat]
  PROVE  IInv'
BY StepKeeps DEF Grown

\* What the arguments of the commands can be.
LEMMA Arguments ==
  ASSUME IInv, NEW r \in Replica
  PROVE  /\ DriveOk(drive[r]) /\ TreeSound(drive[r].tree)
         /\ \A n : KindOf(drive[r], n) \in Kind
         /\ \A n \in DOMAIN drive[r].tree.edges :
               n \in Item /\ drive[r].tree.edges[n].name \in AnyName
         /\ Dirs(drive[r]) \subseteq Place
         /\ Resolvable(drive[r].tree) \ {ROOT} \subseteq DOMAIN drive[r].tree.edges
         /\ FreshId(drive[r], r) \in NodeId
         /\ fresh \in [Replica -> Nat]
<1>1. DriveOk(drive[r]) /\ fresh \in [Replica -> Nat]
  BY DEF IInv, TypeOK
<1>2. TreeSound(drive[r].tree)
  BY <1>1, DriveTree
<1>3. \A n : KindOf(drive[r], n) \in Kind
  BY <1>2, KindOfIsKind
<1>4. \A n \in DOMAIN drive[r].tree.edges :
               n \in Item /\ drive[r].tree.edges[n].name \in AnyName
  BY <1>2 DEF TreeSound
<1>5. Resolvable(drive[r].tree) \subseteq DOMAIN drive[r].tree.edges \cup {ROOT}
  BY DEF Resolvable
<1>6. Dirs(drive[r]) \subseteq Place
  BY <1>4, <1>5 DEF Dirs, Item, Place
<1>7. FreshId(drive[r], r) \in NodeId
  <2>1. drive[r].lamport + 1 \in Nat /\ fresh[r] \in Nat
    BY <1>1 DEF DriveOk
  <2>2. QED BY <2>1 DEF FreshId, NodeId, OwnId
<1>8. QED BY <1>1, <1>2, <1>3, <1>4, <1>5, <1>6, <1>7

\* What the commands of r go by, and where they leave it.
LEMMA CommandFacts ==
  ASSUME IInv, NEW r \in Replica
  PROVE  /\ DriveOk(drive[r]) /\ fresh \in [Replica -> Nat]
         /\ Dirs(drive[r]) \subseteq KnownIds(drive[r])
         /\ DOMAIN drive[r].tree.edges \subseteq KnownIds(drive[r])
         /\ Restorable(r) \subseteq KnownIds(drive[r])
         /\ \A e : drive' = [drive EXCEPT ![r] = e] =>
               drive'[r] = e /\ \A q \in Replica : q # r => drive'[q] = drive[q]
<1>1. DriveOk(drive[r]) /\ fresh \in [Replica -> Nat]
  BY Arguments
<1>2. DOMAIN drive[r].tree.edges \subseteq KnownIds(drive[r])
  BY <1>1, TreeIdsKnown DEF KnownIds
<1>3. Dirs(drive[r]) \subseteq KnownIds(drive[r])
  BY <1>2 DEF Dirs, Resolvable, KnownIds
<1>4. Restorable(r) \subseteq KnownIds(drive[r])
  BY <1>2 DEF Restorable, Nodes, KnownIds
<1>5. \A e : drive' = [drive EXCEPT ![r] = e] =>
               drive'[r] = e /\ \A q \in Replica : q # r => drive'[q] = drive[q]
  BY DEF IInv, TypeOK
<1>6. QED BY <1>1, <1>2, <1>3, <1>4, <1>5

\* A command of r: r stamps operations, on nodes that it knows or mints.
Advances(r) ==
    \E e : /\ Grown(drive[r], e, r)
           /\ Continues(drive[r], e, KnownIds(drive[r]) \cup {FreshId(drive[r], r)})
           /\ drive' = [drive EXCEPT ![r] = e]
           /\ fresh' \in [Replica -> Nat]

LEMMA AdvancesKeeps ==
  ASSUME IInv, NEW r \in Replica, Advances(r)
  PROVE  IInv'
BY GrownKeeps DEF Advances

LEMMA KnownAdvances ==
  ASSUME IInv, NEW r \in Replica, NEW e, Grown(drive[r], e, r),
         Continues(drive[r], e, KnownIds(drive[r])),
         drive' = [drive EXCEPT ![r] = e], UNCHANGED fresh
  PROVE  Advances(r)
<1>1. Continues(drive[r], e, KnownIds(drive[r]) \cup {FreshId(drive[r], r)})
  BY DEF Continues
<1>2. fresh' \in [Replica -> Nat]
  BY Arguments
<1>3. QED BY <1>1, <1>2 DEF Advances

\* The two commands that create a node.
LEMMA CreatedAdvances ==
  ASSUME IInv, NEW r \in Replica, NEW parent \in Dirs(drive[r]),
         NEW name \in Name, NEW kind \in Kind, NEW e,
         LET id    == FreshId(drive[r], r)
             moved == EmitMove(drive[r], r, id, parent, name, kind)
         IN  \/ e = moved
             \/ \E op : /\ op.type \in {"set", "restore", "remove"}
                        /\ e = EmitContent(moved, r, op),
         drive' = [drive EXCEPT ![r] = e], fresh' = [fresh EXCEPT ![r] = @ + 1]
  PROVE  Advances(r)
<1> DEFINE d     == drive[r]
           id    == FreshId(d, r)
           moved == EmitMove(d, r, id, parent, name, kind)
           S     == KnownIds(d) \cup {id}
<1>1. /\ DriveOk(d) /\ id \in Item /\ id \in S
      /\ parent \in Place /\ parent \in S /\ name \in AnyName
  BY Arguments, CommandFacts, NameAssumption DEF Item
<1>2. Continues(d, moved, S) /\ Grown(d, moved, r)
  <2> HIDE DEF d, id, S
  <2>1. QED BY <1>1, EmitMoveContinues, EmitMoveGrows
<1>3. \/ e = moved
      \/ \E op : op.type \in {"set", "restore", "remove"} /\ e = EmitContent(moved, r, op)
  OBVIOUS
<1>4. drive' = [drive EXCEPT ![r] = e] /\ fresh' \in [Replica -> Nat]
  BY Arguments
<1> HIDE DEF moved
<1>5. Grown(d, e, r) /\ Continues(d, e, S)
  <2>1. CASE e = moved
    BY <1>2, <2>1
  <2>2. ASSUME NEW op, op.type \in {"set", "restore", "remove"}, e = EmitContent(moved, r, op)
        PROVE  Grown(d, e, r) /\ Continues(d, e, S)
    <3>1. DriveOk(moved)
      BY <1>2 DEF Grown
    <3>2. Grown(moved, e, r) /\ Continues(moved, e, S)
      BY <2>2, <3>1, EmitContentGrows, EmitContentContinues, ReplicaAssumption
    <3>3. DriveOk(e)
      BY <3>2 DEF Grown
    <3>4. Grown(d, e, r)
      BY <1>2, <3>2, GrownSteps
    <3>5. Continues(d, e, S)
      BY <1>1, <1>2, <3>1, <3>2, <3>3, ContinuesOn, TicksAreNumbers
    <3>6. QED BY <3>4, <3>5
  <2>3. QED BY <1>3, <2>1, <2>2
<1>6. QED BY <1>4, <1>5 DEF Advances

\* A command that moves a node it found.
LEMMA MovedAdvances ==
  ASSUME IInv, NEW r \in Replica, NEW n \in Item, NEW parent \in Place,
         n \in KnownIds(drive[r]), parent \in KnownIds(drive[r]),
         NEW name \in AnyName, UNCHANGED fresh,
         drive' = [drive EXCEPT ![r] = EmitMove(@, r, n, parent, name, KindOf(@, n))]
  PROVE  Advances(r)
<1> DEFINE d == drive[r]
           k == KindOf(d, n)
           e == EmitMove(d, r, n, parent, name, k)
<1>1. /\ DriveOk(d) /\ k \in Kind
      /\ n \in KnownIds(d) /\ parent \in KnownIds(d)
  BY Arguments
<1>2. drive' = [drive EXCEPT ![r] = e]
  OBVIOUS
<1>3. Grown(d, e, r) /\ Continues(d, e, KnownIds(d))
  <2> HIDE DEF d, k
  <2>1. QED BY <1>1, EmitMoveGrows, EmitMoveContinues
<1> HIDE DEF e
<1>4. QED BY <1>2, <1>3, KnownAdvances

\* A command that stamps one content operation.
Edited(r, op) ==
    /\ op.type \in {"set", "restore", "remove"}
    /\ drive' = [drive EXCEPT ![r] = EmitContent(@, r, op)]
    /\ UNCHANGED fresh

LEMMA EditedAdvances ==
  ASSUME IInv, NEW r \in Replica, NEW op, Edited(r, op)
  PROVE  Advances(r)
<1> DEFINE d == drive[r]
           e == EmitContent(d, r, op)
<1>1. DriveOk(d) /\ op.type \in {"set", "restore", "remove"}
  BY Arguments DEF Edited
<1>2. drive' = [drive EXCEPT ![r] = e] /\ UNCHANGED fresh
  BY DEF Edited
<1>3. Grown(d, e, r) /\ Continues(d, e, KnownIds(d))
  <2> HIDE DEF d
  <2>1. QED BY <1>1, EmitContentGrows, EmitContentContinues, ReplicaAssumption
<1> HIDE DEF e
<1>4. QED BY <1>2, <1>3, KnownAdvances

\* A walk from the root, which has no edge unless it is a node, stays there.
LEMMA RestorableIsItem ==
  ASSUME IInv, NEW r \in Replica, NEW n \in Restorable(r), IsTrashed(drive[r].tree.edges, n)
  PROVE  n \in Item
<1> DEFINE e == drive[r].tree.edges
<1>1. n \in DOMAIN e \/ n = TRASH => n \in Item
  BY Arguments DEF Item
<1>2. ASSUME n = ROOT, n \notin DOMAIN e PROVE FALSE
  <2>1. IsFiniteSet(DOMAIN e)
    BY Arguments DEF TreeSound
  <2>2. PICK at, len : /\ len = Cardinality(DOMAIN e) /\ len \in Nat
                       /\ AncestorsOrSelf(e, n) = {at[i] : i \in 0 .. len}
                       /\ at[0] = n
                       /\ \A i \in 1 .. len :
                             at[i] = IF at[i - 1] \in DOMAIN e
                                     THEN e[at[i - 1]].parent ELSE at[i - 1]
    <3> HIDE DEF e
    <3>1. QED BY <2>1, AncestorsAreWalk
  <2> DEFINE T == {i \in 0 .. len : at[i] # n}
  <2>3. ASSUME T # {} PROVE FALSE
    <3>1. PICK k \in T : \A j \in T : k <= j
      <4>1. T \in SUBSET Nat
        BY <2>2
      <4> HIDE DEF T
      <4>2. QED BY <2>3, <4>1, LeastNat
    <3>2. k # 0
      BY <2>2, <3>1
    <3>3. k \in 1 .. len /\ k - 1 \in 0 .. len /\ ~(k <= k - 1)
      BY <2>2, <3>1, <3>2
    <3>4. at[k - 1] = n
      BY <3>1, <3>3
    <3>5. QED BY <1>2, <2>2, <3>1, <3>3, <3>4
  <2>4. TRASH \notin AncestorsOrSelf(e, n)
    BY <1>2, <2>2, <2>3, ReservedAssumption
  <2>5. QED BY <2>4 DEF IsTrashed, IsAncestor
<1>3. n \in DOMAIN e \/ n = ROOT \/ n = TRASH
  BY DEF Restorable, Nodes
<1>4. QED BY <1>1, <1>2, <1>3

LEMMA StructuralAdvances ==
  ASSUME IInv, NEW r \in Replica, Structural(r)
  PROVE  Advances(r)
<1>1. PICK parent \in Nodes(r), name \in Name :
        \/ Mkdir(r, parent, name)
        \/ \E cid \in Cid, at \in Time : AddFile(r, parent, name, cid, at)
        \/ \E n \in Nodes(r) : Mv(r, n, parent, name)
        \/ \E n \in Restorable(r) : Restore(r, n, parent, name)
  BY DEF Structural
<1>2. CASE Mkdir(r, parent, name)
  <2> DEFINE e == EmitMove(drive[r], r, FreshId(drive[r], r), parent, name, "dir")
  <2>1. /\ drive' = [drive EXCEPT ![r] = e] /\ fresh' = [fresh EXCEPT ![r] = @ + 1]
        /\ parent \in Dirs(drive[r])
    BY <1>2 DEF Mkdir
  <2>2. "dir" \in Kind
    BY DEF Kind
  <2>3. QED BY <2>1, <2>2, CreatedAdvances
<1>3. ASSUME NEW cid \in Cid, NEW at \in Time, AddFile(r, parent, name, cid, at) PROVE Advances(r)
  <2> DEFINE id == FreshId(drive[r], r)
             moved == EmitMove(drive[r], r, id, parent, name, "file")
             op == SetOp(id, cid, at)
             e == EmitContent(moved, r, op)
  <2>1. /\ drive' = [drive EXCEPT ![r] = e] /\ fresh' = [fresh EXCEPT ![r] = @ + 1]
        /\ parent \in Dirs(drive[r])
    BY <1>3 DEF AddFile
  <2>2. "file" \in Kind /\ op.type \in {"set", "restore", "remove"}
    BY DEF Kind, SetOp
  <2> HIDE DEF op
  <2>3. \E x : x.type \in {"set", "restore", "remove"} /\ e = EmitContent(moved, r, x)
    BY <2>2
  <2> HIDE DEF e
  <2>4. QED BY <2>1, <2>2, <2>3, CreatedAdvances
<1>4. ASSUME NEW n \in Nodes(r), Mv(r, n, parent, name) PROVE Advances(r)
  <2>1. /\ n \in Item /\ parent \in Place
        /\ n \in KnownIds(drive[r]) /\ parent \in KnownIds(drive[r])
    BY <1>4, Arguments, CommandFacts DEF Mv
  <2>2. /\ UNCHANGED fresh
        /\ drive' = [drive EXCEPT ![r] = EmitMove(@, r, n, parent, name, KindOf(@, n))]
    BY <1>4 DEF Mv
  <2>3. QED BY <2>1, <2>2, MovedAdvances, NameAssumption
<1>5. ASSUME NEW n \in Restorable(r), Restore(r, n, parent, name) PROVE Advances(r)
  <2>1. n \in Item
    BY <1>5, RestorableIsItem DEF Restore
  <2>2. /\ parent \in Place
        /\ n \in KnownIds(drive[r]) /\ parent \in KnownIds(drive[r])
    BY <1>5, Arguments, CommandFacts DEF Restore
  <2>3. /\ UNCHANGED fresh
        /\ drive' = [drive EXCEPT ![r] = EmitMove(@, r, n, parent, name, KindOf(@, n))]
    BY <1>5 DEF Restore
  <2>4. QED BY <2>1, <2>2, <2>3, MovedAdvances, NameAssumption
<1>6. QED BY <1>1, <1>2, <1>3, <1>4, <1>5

LEMMA EditingAdvances ==
  ASSUME IInv, NEW r \in Replica, Editing(r)
  PROVE  Advances(r)
<1>1. PICK cid \in Cid, at \in Time :
        \/ \E parent \in Nodes(r), name \in Name : AddVersion(r, parent, name, cid, at)
        \/ \E n \in Nodes(r) : SetContent(r, n, cid, at)
        \/ \E n \in Nodes(r) : RestoreVersion(r, n, cid, at)
  BY DEF Editing
<1>2. \A n : SetOp(n, cid, at).type = "set" /\ RestoreOp(n, cid, at).type = "restore"
  BY DEF SetOp, RestoreOp
<1>3. ASSUME NEW parent \in Nodes(r), NEW name \in Name, AddVersion(r, parent, name, cid, at)
      PROVE  Advances(r)
  <2> DEFINE op == SetOp(ChildNamed(drive[r], parent, name), cid, at)
  <2>1. Edited(r, op)
    BY <1>2, <1>3 DEF AddVersion, Edited
  <2> HIDE DEF op
  <2>2. QED BY <2>1, EditedAdvances
<1>4. ASSUME NEW n \in Nodes(r), SetContent(r, n, cid, at) PROVE Advances(r)
  <2> DEFINE op == SetOp(n, cid, at)
  <2>1. Edited(r, op)
    BY <1>2, <1>4 DEF SetContent, Edited
  <2> HIDE DEF op
  <2>2. QED BY <2>1, EditedAdvances
<1>5. ASSUME NEW n \in Nodes(r), RestoreVersion(r, n, cid, at) PROVE Advances(r)
  <2> DEFINE op == RestoreOp(n, cid, at)
  <2>1. Edited(r, op)
    BY <1>2, <1>5 DEF RestoreVersion, Edited
  <2> HIDE DEF op
  <2>2. QED BY <2>1, EditedAdvances
<1>6. QED BY <1>1, <1>3, <1>4, <1>5

\* The nodes of the listing of the trash are deleted for good.
LEMMA DeletedAdvances ==
  ASSUME IInv, NEW r \in Replica, NEW ids \in SUBSET Trash(drive[r]), UNCHANGED fresh,
         drive' = [drive EXCEPT ![r] = HardDelete(@, r, TrashListing(drive[r], ids))]
  PROVE  Advances(r)
<1> DEFINE d == drive[r]
           list == TrashListing(d, ids)
           e == HardDelete(d, r, list)
<1> DEFINE S == KnownIds(d)
<1>1. DriveOk(d) /\ TreeSound(d.tree) /\ LIMBO \in S
  BY Arguments DEF KnownIds
<1>2. drive' = [drive EXCEPT ![r] = e]
  OBVIOUS
<1>3. list \in Seq(NodeId) /\ list \in Seq(NodeId \cap S)
  <2>1. list \in Seq(ids)
    BY <1>1, TrashListingIsSequence
  <2>2. ids \subseteq NodeId \cap S
    BY <1>1, TrashIsNodes, CommandFacts
  <2> HIDE DEF list, S
  <2>3. QED BY <2>1, <2>2
<1>4. Grown(d, e, r) /\ Continues(d, e, S)
  <2> HIDE DEF d, list, S
  <2>1. QED BY <1>1, <1>3, HardDeleteGrows, HardDeleteContinues
<1> HIDE DEF e
<1>5. QED BY <1>2, <1>4, KnownAdvances

LEMMA DeletingAdvances ==
  ASSUME IInv, NEW r \in Replica, Deleting(r)
  PROVE  Advances(r)
<1>1. ASSUME NEW n \in Nodes(r), Rm(r, n) PROVE Advances(r)
  <2> DEFINE name == drive[r].tree.edges[n].name
  <2>1. n \in DOMAIN drive[r].tree.edges
    BY <1>1, Arguments DEF Rm
  <2>2. /\ n \in Item /\ name \in AnyName /\ TRASH \in Place
        /\ n \in KnownIds(drive[r]) /\ TRASH \in KnownIds(drive[r])
    BY <2>1, Arguments, CommandFacts DEF Place, KnownIds
  <2>3. /\ UNCHANGED fresh
        /\ drive' = [drive EXCEPT ![r] = EmitMove(@, r, n, TRASH, name, KindOf(@, n))]
    BY <1>1 DEF Rm
  <2> HIDE DEF name
  <2>4. QED BY <2>2, <2>3, MovedAdvances
<1>2. CASE EmptyTrash(r)
  <2> DEFINE ids == Trash(drive[r])
  <2>1. /\ UNCHANGED fresh
        /\ drive' = [drive EXCEPT ![r] = HardDelete(@, r, TrashListing(drive[r], ids))]
    BY <1>2 DEF EmptyTrash
  <2>2. ids \in SUBSET Trash(drive[r])
    OBVIOUS
  <2> HIDE DEF ids
  <2>3. QED BY <2>1, <2>2, DeletedAdvances
<1>3. ASSUME NEW cutoff \in Time, GcTrash(r, cutoff) PROVE Advances(r)
  <2> DEFINE content == drive[r].content
             ids == {n \in Trash(drive[r]) : n \in DOMAIN content => content[n].mtime <= cutoff}
  <2>1. /\ UNCHANGED fresh
        /\ drive' = [drive EXCEPT ![r] = HardDelete(@, r, TrashListing(drive[r], ids))]
    BY <1>3 DEF GcTrash
  <2>2. ids \in SUBSET Trash(drive[r])
    OBVIOUS
  <2> HIDE DEF ids
  <2>3. QED BY <2>1, <2>2, DeletedAdvances
<1>4. QED BY <1>1, <1>2, <1>3 DEF Deleting

LEMMA StructuralKeeps == ASSUME IInv, NEW r \in Replica, Structural(r) PROVE IInv'
BY StructuralAdvances, AdvancesKeeps

LEMMA EditingKeeps == ASSUME IInv, NEW r \in Replica, Editing(r) PROVE IInv'
BY EditingAdvances, AdvancesKeeps

LEMMA DeletingKeeps == ASSUME IInv, NEW r \in Replica, Deleting(r) PROVE IInv'
BY DeletingAdvances, AdvancesKeeps

LEMMA ReloadKeeps ==
  ASSUME IInv, NEW r \in Replica, Reload(r)
  PROVE  IInv'
<1> DEFINE d == drive[r]
<1>1. DriveOk(d)
  BY Arguments
<1>2. FromState(d) = d
  BY <1>1, FromStateSame
<1>3. drive' = [drive EXCEPT ![r] = d]
  BY <1>2 DEF Reload
<1>4. fresh' \in [Replica -> Nat]
  BY Arguments DEF Reload
<1>5. Grown(drive[r], d, r)
  BY <1>1, GrownSelf
<1> HIDE DEF d
<1>6. QED BY <1>3, <1>4, <1>5, GrownKeeps

\* Only a replica that is alone compacts.
LEMMA CompactKeeps ==
  ASSUME IInv, NEW r \in Replica, Compact(r)
  PROVE  IInv'
<1> DEFINE e == Compacted(drive[r], r)
<1>1. DriveOk(drive[r]) /\ fresh' \in [Replica -> Nat]
  BY Arguments DEF Compact
<1>2. DriveOk(e)
  BY <1>1, CompactedOk DEF Rebuilt
<1>3. drive' = [drive EXCEPT ![r] = e] /\ Replica = {r}
  BY DEF Compact, Others
<1> HIDE DEF e
<1>4. drive' = [q \in Replica |-> drive'[q]] /\ drive'[r] = e
  BY <1>3 DEF IInv, TypeOK
<1>5. TypeOK'
  BY <1>1, <1>2, <1>3, <1>4 DEF TypeOK
<1>6. Originals'
  BY <1>3 DEF Originals
<1>7. QED BY <1>5, <1>6 DEF IInv

\* What apply_remote_move makes of a drive.
TookMove(d, op) ==
    [d EXCEPT !.lamport = Observe(d, op.ts), !.tree = Integrate(@, op),
              !.moves = Append(@, op)]

\* A move that is the one of its timestamp, as late as it may come.
LEMMA TookMoveOk ==
  ASSUME NEW d, DriveOk(d), NEW op \in MoveOp, Keyed(Range(d.moves) \cup {op})
  PROVE  /\ DriveOk(TookMove(d, op))
         /\ Range(TookMove(d, op).moves) = Range(d.moves) \cup {op}
         /\ TookMove(d, op).contents = d.contents
<1> DEFINE now == Observe(d, op.ts)
           more == Append(d.moves, op)
           e == TookMove(d, op)
<1>2. /\ d = [lamport |-> d.lamport, moves |-> d.moves, contents |-> d.contents,
              tree |-> d.tree, content |-> d.content]
      /\ d.lamport \in Nat /\ d.moves \in Seq(MoveOp) /\ Keyed(Range(d.moves))
      /\ \A i \in 1 .. Len(d.moves) : d.moves[i].ts.lamport <= d.lamport
      /\ d.tree = ReplayMoves(d.moves)
  BY DEF DriveOk, MovesLog
<1>4. op.ts.lamport \in Nat
  BY DEF MoveOp, Stamp
<1>5. now \in Nat /\ d.lamport <= now /\ op.ts.lamport <= now
  BY <1>2, <1>4 DEF Observe, MaxNat
<1>6. /\ more \in Seq(MoveOp)
      /\ \A i \in 1 .. Len(more) : more[i] = op \/ (i \in 1 .. Len(d.moves) /\ more[i] = d.moves[i])
  BY <1>2, <1>4
<1>7. Range(more) = Range(d.moves) \cup {op}
  BY <1>2, RangeAppend
<1>8. ReplayMoves(more) = Integrate(d.tree, op)
  BY <1>2, ReplayAppend
<1>9. e = [lamport |-> now, moves |-> more, contents |-> d.contents,
           tree |-> Integrate(d.tree, op), content |-> d.content]
  <2>1. d = [lamport |-> d.lamport, moves |-> d.moves, contents |-> d.contents,
             tree |-> d.tree, content |-> d.content]
    BY <1>2
  <2>2. e = [d EXCEPT !.lamport = now, !.tree = Integrate(@, op), !.moves = Append(@, op)]
    BY Zenon DEF TookMove
  <2> HIDE DEF now, e
  <2>3. QED BY <2>1, <2>2
<1> HIDE DEF more, now, e
<1>11. Keyed(Range(more))
  BY <1>7
<1>12. MovesLog(e)
  <2>1. \A i \in 1 .. Len(d.moves) : d.moves[i].ts.lamport \in Nat
    <3>1. \A i \in 1 .. Len(d.moves) : d.moves[i] \in MoveOp
      BY <1>2
    <3>2. QED BY <3>1 DEF MoveOp, Stamp
  <2>2. \A i \in 1 .. Len(more) : more[i].ts.lamport <= now
    BY <1>2, <1>5, <1>6, <2>1
  <2>3. QED BY <1>6, <1>9, <1>11, <2>2 DEF MovesLog
<1>13. ContentLog(e)
  <2>1. InOrder(d.contents) /\ \A i \in 1 .. Len(d.contents) : d.contents[i].ts.lamport <= d.lamport
    BY DEF DriveOk, ContentLog
  <2>2. \A i \in 1 .. Len(d.contents) : d.contents[i].ts.lamport \in Nat
    BY <2>1, LogFacts
  <2>3. \A i \in 1 .. Len(d.contents) : d.contents[i].ts.lamport <= now
    BY <1>2, <1>5, <2>1, <2>2
  <2>4. QED BY <1>9, <2>1, <2>3 DEF ContentLog
<1>14. DriveOk(e)
  <2>1. d.content = FoldContent(d.contents)
    BY DEF DriveOk
  <2>2. QED BY <1>5, <1>8, <1>9, <1>12, <1>13, <2>1 DEF DriveOk
<1>15. Range(e.moves) = Range(d.moves) \cup {op} /\ e.contents = d.contents
  BY <1>7, <1>9
<1>16. QED BY <1>14, <1>15 DEF e

\* apply_remote_move: the writer of the move has it, so that it is the one move of
\* its timestamp.
LEMMA RemoteMoveKeeps ==
  ASSUME IInv, NEW r \in Replica, NEW s \in Others(r), NEW op \in MovesFrom(s),
         RemoteMove(r, op)
  PROVE  IInv'
<1> DEFINE d == drive[r]
           e == TookMove(d, op)
<1>1. DriveOk(d) /\ DriveOk(drive[s]) /\ s \in Replica /\ s # r
  BY DEF IInv, TypeOK, Others
<1>2. op \in Range(drive[s].moves) /\ op.ts.replica = s
  BY DEF MovesFrom
<1>3. op \in MoveOp
  BY <1>1, <1>2, TicksAreNumbers
<1>4. Keyed(Range(d.moves) \cup {op})
  <2>1. ASSUME NEW o \in Range(d.moves), o.ts = op.ts PROVE o = op
    <3>1. o \in Range(drive[s].moves)
      BY <1>1, <1>2, <2>1 DEF IInv, Originals
    <3>2. Keyed(Range(drive[s].moves))
      BY <1>1 DEF DriveOk, MovesLog
    <3>3. QED BY <1>2, <2>1, <3>1, <3>2 DEF Keyed
  <2>2. Keyed(Range(d.moves))
    BY <1>1 DEF DriveOk, MovesLog
  <2>3. QED BY <2>1, <2>2 DEF Keyed
<1>5. drive' = [drive EXCEPT ![r] = e] /\ fresh' \in [Replica -> Nat]
  <2>1. drive' = [drive EXCEPT ![r] = e]
    BY Zenon DEF RemoteMove, TookMove
  <2>2. fresh' \in [Replica -> Nat]
    BY Arguments DEF RemoteMove
  <2>3. QED BY <2>1, <2>2
<1>6. DriveOk(e) /\ Range(e.moves) = Range(d.moves) \cup {op}
  <2> HIDE DEF d
  <2>1. QED BY <1>1, <1>3, <1>4, TookMoveOk
<1> HIDE DEF e
<1>7. Range(d.moves) \subseteq Range(e.moves)
  BY <1>6
<1>8. \A o \in Range(e.moves) :
            \/ o \in Range(drive[r].moves)
            \/ o.ts.replica = r
            \/ \E q \in Replica : o.ts.replica = q /\ o \in Range(drive[q].moves)
  BY <1>1, <1>2, <1>6
<1>9. QED BY <1>5, <1>6, <1>7, <1>8, StepKeeps

\* What apply_remote_content makes of a drive.
TookContent(d, op) ==
    LET log    == d.contents
        pos    == Cardinality(Before(log, op.ts))
        known  == pos < Len(log) /\ log[pos + 1].ts = op.ts
        merged == IF known THEN log ELSE InsertAt(log, pos + 1, op)
    IN  [d EXCEPT !.lamport = Observe(d, op.ts), !.contents = merged,
                  !.content = IF known THEN @ ELSE RefoldKey(@, merged, op.op.id)]

\* The log stays in order, and the record that was derived anew is the one the
\* longer log makes.
LEMMA TookContentOk ==
  ASSUME NEW d, DriveOk(d), NEW op, StampedOk(op)
  PROVE  /\ DriveOk(TookContent(d, op)) /\ TookContent(d, op).moves = d.moves
         /\ Range(TookContent(d, op).contents) \subseteq Range(d.contents) \cup {op}
<1> DEFINE log == d.contents
           now == Observe(d, op.ts)
           pos == Cardinality(Before(log, op.ts))
           known == pos < Len(log) /\ log[pos + 1].ts = op.ts
           more == InsertAt(log, pos + 1, op)
           merged == IF known THEN log ELSE more
           content == IF known THEN d.content ELSE RefoldKey(d.content, merged, op.op.id)
           e == TookContent(d, op)
<1>2. /\ d = [lamport |-> d.lamport, moves |-> d.moves, contents |-> d.contents,
              tree |-> d.tree, content |-> d.content]
      /\ d.lamport \in Nat /\ d.content = FoldContent(log) /\ MovesLog(d)
      /\ d.tree = ReplayMoves(d.moves)
      /\ InOrder(log) /\ \A i \in 1 .. Len(log) : log[i].ts.lamport <= d.lamport
  BY DEF DriveOk, ContentLog
<1>3. StampedOk(op) /\ op.ts.lamport \in Nat
  BY DEF StampedOk, Stamp
<1>4. now \in Nat /\ d.lamport <= now /\ op.ts.lamport <= now
  BY <1>2, <1>3 DEF Observe, MaxNat
<1>6. /\ InOrder(merged) /\ content = FoldContent(merged)
      /\ \A i \in 1 .. Len(merged) : merged[i] = op \/ \E j \in 1 .. Len(log) : merged[i] = log[j]
  <2>1. CASE known
    BY <1>2, <2>1
  <2>2. CASE ~known
    <3>1. /\ InOrder(more)
          /\ \A i \in 1 .. Len(more) : more[i] = op \/ \E j \in 1 .. Len(log) : more[i] = log[j]
          /\ RefoldKey(FoldContent(log), more, op.op.id) = FoldContent(more)
      <4>1. InOrder(log) /\ StampedOk(op) /\ pos = Cardinality(Before(log, op.ts))
            /\ ~(pos < Len(log) /\ log[pos + 1].ts = op.ts)
        BY <1>2, <1>3, <2>2
      <4> HIDE DEF log, pos
      <4>2. QED BY <4>1, InsertKeepsOrder
    <3> HIDE DEF more
    <3>2. QED BY <1>2, <2>2, <3>1
  <2>3. QED BY <2>1, <2>2
<1>7. e = [lamport |-> now, moves |-> d.moves, contents |-> merged,
           tree |-> d.tree, content |-> content]
  <2>1. d = [lamport |-> d.lamport, moves |-> d.moves, contents |-> d.contents,
             tree |-> d.tree, content |-> d.content]
    BY <1>2
  <2>2. e = [d EXCEPT !.lamport = now, !.contents = merged,
                      !.content = IF known THEN @ ELSE RefoldKey(@, merged, op.op.id)]
    BY Zenon DEF TookContent
  <2>3. content = IF known THEN d.content ELSE RefoldKey(d.content, merged, op.op.id)
    OBVIOUS
  <2> HIDE DEF now, e, merged, known, content
  <2>4. QED BY <2>1, <2>2, <2>3
<1> HIDE DEF now, e, content, merged, known
<1>8. ContentLog(e)
  <2>1. \A i \in 1 .. Len(log) : log[i].ts.lamport \in Nat
    BY <1>2, LogFacts
  <2>2. \A i \in 1 .. Len(log) : log[i].ts.lamport <= now
    BY <1>2, <1>4, <2>1
  <2>3. \A i \in 1 .. Len(merged) : merged[i].ts.lamport <= now
    BY <1>4, <1>6, <2>2
  <2>4. QED BY <1>6, <1>7, <2>3 DEF ContentLog
<1>9. MovesLog(e)
  <2>1. \A i \in 1 .. Len(d.moves) : d.moves[i].ts.lamport \in Nat
    <3>1. \A i \in 1 .. Len(d.moves) : d.moves[i] \in MoveOp
      BY <1>2 DEF MovesLog
    <3>2. QED BY <3>1 DEF MoveOp, Stamp
  <2>2. \A i \in 1 .. Len(d.moves) : d.moves[i].ts.lamport <= now
    BY <1>2, <1>4, <2>1 DEF MovesLog
  <2>3. QED BY <1>2, <1>7, <2>2 DEF MovesLog
<1>10. DriveOk(e)
  BY <1>2, <1>4, <1>6, <1>7, <1>8, <1>9 DEF DriveOk
<1>11. e.moves = d.moves /\ e.contents = merged
  BY <1>7
<1>12. Range(merged) \subseteq Range(log) \cup {op}
  <2>1. DOMAIN merged = 1 .. Len(merged) /\ DOMAIN log = 1 .. Len(log)
    BY <1>2, <1>6, LogFacts
  <2> HIDE DEF log
  <2>2. QED BY <1>6, <2>1 DEF Range
<1>13. QED BY <1>10, <1>11, <1>12 DEF e

\* apply_remote_content.
LEMMA RemoteContentKeeps ==
  ASSUME IInv, NEW r \in Replica, NEW s \in Others(r), NEW op \in ContentsFrom(s),
         RemoteContent(r, op)
  PROVE  IInv'
<1> DEFINE d == drive[r]
           e == TookContent(d, op)
<1>1. DriveOk(d) /\ StampedOk(op)
  BY ContentTicks DEF IInv, TypeOK, Others, ContentsFrom
<1>2. drive' = [drive EXCEPT ![r] = e] /\ fresh' \in [Replica -> Nat]
  <2>1. drive' = [drive EXCEPT ![r] = e]
    BY Zenon DEF RemoteContent, TookContent, Before
  <2>2. fresh' \in [Replica -> Nat]
    BY Arguments DEF RemoteContent
  <2>3. QED BY <2>1, <2>2
<1>3. DriveOk(e) /\ e.moves = d.moves
  <2> HIDE DEF d
  <2>1. QED BY <1>1, TookContentOk
<1> HIDE DEF e
<1>4. Range(e.moves) = Range(drive[r].moves)
  BY <1>3
<1>5. QED BY <1>2, <1>3, <1>4, StepKeeps

-----------------------------------------------------------------------------
(* Theorems *)

LEMMA NextKeeps ==
  ASSUME IInv, [Next]_vars
  PROVE  IInv'
<1>1. CASE Next
  <2>1. PICK r \in Replica : \/ Structural(r) \/ Editing(r) \/ Deleting(r) \/ Merging(r)
                             \/ Compact(r) \/ Reload(r)
    BY <1>1 DEF Next
  <2>2. CASE Structural(r)
    BY <2>2, StructuralKeeps
  <2>3. CASE Editing(r)
    BY <2>3, EditingKeeps
  <2>4. CASE Deleting(r)
    BY <2>4, DeletingKeeps
  <2>5. CASE Merging(r)
    <3>1. PICK s \in Others(r) : \/ \E op \in MovesFrom(s) : RemoteMove(r, op)
                                 \/ \E op \in ContentsFrom(s) : RemoteContent(r, op)
      BY <2>5 DEF Merging
    <3>2. QED BY <3>1, RemoteMoveKeeps, RemoteContentKeeps
  <2>6. CASE Compact(r)
    BY <2>6, CompactKeeps
  <2>7. CASE Reload(r)
    BY <2>7, ReloadKeeps
  <2>8. QED BY <2>1, <2>2, <2>3, <2>4, <2>5, <2>6, <2>7
<1>2. CASE UNCHANGED vars
  <2>1. drive' = drive /\ fresh' = fresh
    BY <1>2 DEF vars
  <2>2. QED BY <2>1 DEF IInv, TypeOK, Originals
<1>3. QED BY <1>1, <1>2

LEMMA InitHolds == Init => IInv
<1> SUFFICES ASSUME Init PROVE IInv
  OBVIOUS
<1>1. drive = [r \in Replica |-> NewDrive] /\ fresh = [r \in Replica |-> 0]
  BY DEF Init
<1>2. TypeOK
  BY <1>1, NewDriveOk DEF TypeOK
<1>3. Originals
  <2>1. Range(<<>>) = {} /\ NewDrive.moves = <<>>
    BY DEF Range, NewDrive
  <2>2. QED BY <1>1, <2>1 DEF Originals
<1>4. QED BY <1>2, <1>3 DEF IInv

\* On every device, whatever commands run there and whatever it merges: no stamp is
\* past the clock, a timestamp stands for one move, the content log is in order, tree
\* and content map are the replay of the logs, and a move that was merged is still in
\* the log of the device that made it.
THEOREM Inductive == Spec => []IInv
<1>1. Init => IInv
  BY InitHolds
<1>2. IInv /\ [Next]_vars => IInv'
  BY NextKeeps
<1>3. QED BY <1>1, <1>2, PTL DEF Spec

\* What from_state rebuilds from the saved logs is what the process before it had in
\* memory: commands, merges and compaction leave nothing behind that is not logged.
THEOREM ViewsAreReplays == Spec => []ViewsMatchLogs
<1>1. IInv => ViewsMatchLogs
  BY FromStateSame DEF IInv, TypeOK, ViewsMatchLogs
<1>2. QED BY <1>1, Inductive, PTL

\* Two content logs in order that hold the same operations are the same log.
LEMMA OrderedLogsEqual ==
  ASSUME NEW p, InOrder(p), NEW q, InOrder(q), Range(p) = Range(q)
  PROVE  p = q
<1> DEFINE Entry == {[op |-> x] : x \in Range(p)}
           a == [i \in 1 .. Len(p) |-> [op |-> p[i]]]
           b == [i \in 1 .. Len(q) |-> [op |-> q[i]]]
<1>1. /\ Len(p) \in Nat /\ DOMAIN p = 1 .. Len(p) /\ p = [i \in 1 .. Len(p) |-> p[i]]
      /\ Len(q) \in Nat /\ DOMAIN q = 1 .. Len(q) /\ q = [i \in 1 .. Len(q) |-> q[i]]
  BY LogFacts DEF InOrder
<1>2. /\ Range(p) = {p[i] : i \in 1 .. Len(p)}
      /\ Range(q) = {q[i] : i \in 1 .. Len(q)}
  BY <1>1 DEF Range
<1>3. a \in Seq(Entry) /\ b \in Seq(Entry) /\ Len(a) = Len(p) /\ Len(b) = Len(q)
  <2>1. \A i \in 1 .. Len(p) : [op |-> p[i]] \in Entry
    BY <1>2
  <2>2. \A i \in 1 .. Len(q) : [op |-> q[i]] \in Entry
    BY <1>2
  <2> HIDE DEF Entry
  <2>3. a \in Seq(Entry) /\ Len(a) = Len(p)
    BY <1>1, <2>1
  <2>4. b \in Seq(Entry) /\ Len(b) = Len(q)
    BY <1>1, <2>2
  <2>5. QED BY <2>3, <2>4
<1>4. /\ \A i \in 1 .. Len(p) : a[i].op = p[i]
      /\ \A i \in 1 .. Len(q) : b[i].op = q[i]
  OBVIOUS
<1>5. Stamped(Entry)
  <2>1. \A i \in 1 .. Len(p) : p[i].ts.lamport \in Nat /\ p[i].ts.replica \in Nat
    BY LogFacts
  <2>2. QED BY <1>2, <2>1 DEF Stamped
<1> HIDE DEF a, b, Entry
<1>6. Sorted(a) /\ Sorted(b)
  BY <1>3, <1>4 DEF Sorted, InOrder, Ascending
<1>7. SameMoves(a, b)
  <2>1. /\ {a[i].op : i \in 1 .. Len(a)} = Range(p)
        /\ {b[i].op : i \in 1 .. Len(b)} = Range(q)
    <3>1. {a[i].op : i \in 1 .. Len(p)} = {p[i] : i \in 1 .. Len(p)}
      BY <1>4
    <3>2. {b[i].op : i \in 1 .. Len(q)} = {q[i] : i \in 1 .. Len(q)}
      BY <1>4
    <3>3. QED BY <1>2, <1>3, <3>1, <3>2
  <2>2. QED BY <2>1 DEF SameMoves
<1>8. Len(a) = Len(b) /\ \A i \in 1 .. Len(a) : a[i].op = b[i].op
  BY <1>3, <1>5, <1>6, <1>7, SortedLogsAgree
<1>9. QED BY <1>1, <1>3, <1>4, <1>8

\* Devices that merged the same operations hold the same tree and the same content,
\* in whatever order and however often the operations arrived.
THEOREM MergedDrivesAgree == Spec => []MergedAgree
<1>1. IInv => MergedAgree
  <2> SUFFICES ASSUME IInv, NEW r \in Replica, NEW s \in Replica,
                      Range(drive[r].moves) = Range(drive[s].moves),
                      Range(drive[r].contents) = Range(drive[s].contents)
               PROVE  drive[r].tree = drive[s].tree /\ drive[r].content = drive[s].content
    BY DEF MergedAgree
  <2>1. DriveOk(drive[r]) /\ DriveOk(drive[s])
    BY DEF IInv, TypeOK
  <2>2. drive[r].tree = drive[s].tree
    <3>1. /\ Replayed(drive[r].tree, MoveOp) /\ Replayed(drive[s].tree, MoveOp)
          /\ LogOps(drive[r].tree) = LogOps(drive[s].tree)
      BY <2>1, DriveTree
    <3>2. QED BY <3>1, MoveOpsOk, ReplayedAgree
  <2>3. drive[r].content = drive[s].content
    <3>1. /\ InOrder(drive[r].contents) /\ InOrder(drive[s].contents)
          /\ drive[r].content = FoldContent(drive[r].contents)
          /\ drive[s].content = FoldContent(drive[s].contents)
      BY <2>1 DEF DriveOk, ContentLog
    <3>2. drive[r].contents = drive[s].contents
      BY <3>1, OrderedLogsEqual
    <3>3. QED BY <3>1, <3>2
  <2>4. QED BY <2>2, <2>3
<1>2. QED BY <1>1, Inductive, PTL
-----------------------------------------------------------------------------
(* Nodes that a command creates are new, unless a process that compacted is   *)
(* followed by one whose counter starts over.                                 *)

\* The clock can be set back: one replica, which compacts.
SetsBack == "compact" \in Command /\ \E r \in Replica : Replica = {r}

\* The ids that moves name are minted: with a tick before theirs, or where the clock
\* can be set back with a counter that has moved on.
Minted ==
    \A r \in Replica : \A o \in Range(drive[r].moves) :
        \A n \in {o.child, o.new_parent} \cap OwnId :
            IF SetsBack THEN n[2] < fresh[r] ELSE n[1] <= o.ts.lamport

\* An id that was minted before the drive's next tick, or its next node.
Older(d, c, n) ==
    n \in OwnId => IF SetsBack THEN n[2] < c ELSE n[1] <= d.lamport

LEMMA MintedIds ==
  ASSUME IInv, Minted, NEW r \in Replica, NEW n \in KnownIds(drive[r])
  PROVE  Older(drive[r], fresh[r], n)
<1> SUFFICES ASSUME n \in OwnId
             PROVE  IF SetsBack THEN n[2] < fresh[r] ELSE n[1] <= drive[r].lamport
  BY DEF Older
<1>1. n \in MoveIds(drive[r])
  BY ReservedAssumption DEF KnownIds, NodeId
<1>2. PICK o \in Range(drive[r].moves) : n \in {o.child, o.new_parent}
  BY <1>1 DEF MoveIds
<1>3. IF SetsBack THEN n[2] < fresh[r] ELSE n[1] <= o.ts.lamport
  BY <1>2 DEF Minted
<1>4. o.ts.lamport \in Nat /\ drive[r].lamport \in Nat /\ o.ts.lamport <= drive[r].lamport
  BY <1>2, TicksAreNumbers DEF IInv, TypeOK
<1>5. n[1] \in Nat
  BY DEF OwnId
<1>6. QED BY <1>3, <1>4, <1>5

\* The id that a command mints is not known to its drive.
LEMMA FreshIsUnknown ==
  ASSUME IInv, Minted, NEW r \in Replica
  PROVE  FreshId(drive[r], r) \notin KnownIds(drive[r])
<1> DEFINE id == FreshId(drive[r], r)
<1> SUFFICES ASSUME id \in KnownIds(drive[r]) PROVE FALSE
  OBVIOUS
<1>1. id \in OwnId /\ drive[r].lamport \in Nat /\ fresh[r] \in Nat
  <2>1. drive[r].lamport \in Nat /\ fresh[r] \in Nat
    BY Arguments DEF DriveOk
  <2>2. drive[r].lamport + 1 \in Nat
    BY <2>1
  <2>3. QED BY <2>1, <2>2 DEF FreshId, OwnId
<1>2. id[1] = drive[r].lamport + 1 /\ id[2] = fresh[r]
  BY DEF FreshId
<1> HIDE DEF id
<1>3. IF SetsBack THEN id[2] < fresh[r] ELSE id[1] <= drive[r].lamport
  BY <1>1, MintedIds DEF Older
<1>4. QED BY <1>1, <1>2, <1>3

\* A replica that goes on with ids that it knows and the one that it mints.
LEMMA ContinuedMinted ==
  ASSUME IInv, Minted, NEW r \in Replica, NEW e,
         \/ Continues(drive[r], e, KnownIds(drive[r])) /\ fresh' = fresh
         \/ /\ Continues(drive[r], e, KnownIds(drive[r]) \cup {FreshId(drive[r], r)})
            /\ fresh' = [fresh EXCEPT ![r] = @ + 1],
         DriveOk(e), drive' = [drive EXCEPT ![r] = e]
  PROVE  Minted'
<1>1. /\ drive' = [q \in Replica |-> drive'[q]] /\ drive'[r] = e
      /\ \A q \in Replica : q # r => drive'[q] = drive[q]
  BY DEF IInv, TypeOK
<1>2. fresh \in [Replica -> Nat] /\ drive[r].lamport \in Nat
  BY Arguments DEF DriveOk
<1>3. /\ fresh'[r] = fresh[r] \/ fresh'[r] = fresh[r] + 1
      /\ \A q \in Replica : q # r => fresh'[q] = fresh[q]
  BY <1>2
<1>4. ASSUME NEW q \in Replica, NEW o \in Range(drive'[q].moves),
             NEW n \in {o.child, o.new_parent} \cap OwnId
      PROVE  IF SetsBack THEN n[2] < fresh'[q] ELSE n[1] <= o.ts.lamport
  <2>1. n[1] \in Nat /\ n[2] \in Nat /\ fresh[q] \in Nat
    BY <1>2 DEF OwnId
  <2>2. CASE o \in Range(drive[q].moves)
    <3>1. IF SetsBack THEN n[2] < fresh[q] ELSE n[1] <= o.ts.lamport
      BY <2>2 DEF Minted
    <3>2. fresh'[q] \in Nat /\ fresh[q] <= fresh'[q]
      BY <1>3, <2>1
    <3>3. QED BY <2>1, <3>1, <3>2
  <2>3. CASE o \notin Range(drive[q].moves)
    <3>1. q = r
      BY <1>1, <2>3
    <3>2. /\ o.ts.lamport > drive[r].lamport
          /\ \/ n \in KnownIds(drive[r])
             \/ n = FreshId(drive[r], r) /\ fresh'[r] = fresh[r] + 1
      BY <1>1, <1>2, <2>3, <3>1 DEF Continues
    <3>3. o.ts.lamport \in Nat
      BY <1>1, <3>1, TicksAreNumbers
    <3>4. CASE n \in KnownIds(drive[r])
      <4>1. IF SetsBack THEN n[2] < fresh[r] ELSE n[1] <= drive[r].lamport
        BY <3>4, MintedIds DEF Older
      <4>2. QED BY <1>2, <1>3, <2>1, <3>1, <3>2, <3>3, <4>1
    <3>5. CASE n = FreshId(drive[r], r) /\ fresh'[r] = fresh[r] + 1
      <4>1. n[1] = drive[r].lamport + 1 /\ n[2] = fresh[r]
        BY <3>5 DEF FreshId
      <4>2. QED BY <1>2, <2>1, <3>1, <3>2, <3>3, <3>5, <4>1
    <3>6. QED BY <3>2, <3>4, <3>5
  <2>4. QED BY <2>2, <2>3
<1>5. QED BY <1>4 DEF Minted

\* A walk that starts at what a drive knows meets nothing else.
LEMMA WalkIsKnown ==
  ASSUME NEW d, DriveOk(d), NEW n \in KnownIds(d)
  PROVE  AncestorsOrSelf(d.tree.edges, n) \subseteq KnownIds(d)
<1> DEFINE e == d.tree.edges
<1>1. IsFiniteSet(DOMAIN e)
  BY DriveTree DEF TreeSound
<1>2. PICK at, len : /\ len = Cardinality(DOMAIN e) /\ len \in Nat
                     /\ AncestorsOrSelf(e, n) = {at[i] : i \in 0 .. len}
                     /\ at[0] = n
                     /\ \A i \in 1 .. len :
                           at[i] = IF at[i - 1] \in DOMAIN e
                                   THEN e[at[i - 1]].parent ELSE at[i - 1]
  <2> HIDE DEF e
  <2>1. QED BY <1>1, AncestorsAreWalk
<1> DEFINE T == {i \in 0 .. len : at[i] \notin KnownIds(d)}
<1>3. ASSUME T # {} PROVE FALSE
  <2>1. PICK k \in T : \A j \in T : k <= j
    <3>1. T \in SUBSET Nat
      BY <1>2
    <3> HIDE DEF T
    <3>2. QED BY <1>3, <3>1, LeastNat
  <2>2. k # 0
    BY <1>2, <2>1
  <2>3. k \in 1 .. len /\ k - 1 \in 0 .. len /\ ~(k <= k - 1)
    BY <1>2, <2>1, <2>2
  <2>4. at[k - 1] \in KnownIds(d)
    BY <2>1, <2>3
  <2>5. at[k - 1] \in DOMAIN e => e[at[k - 1]].parent \in KnownIds(d)
    BY TreeIdsKnown DEF KnownIds
  <2>6. QED BY <1>2, <2>1, <2>3, <2>4, <2>5
<1>4. QED BY <1>2, <1>3

\* Integrating a move that is later than the log is doing it.
LEMMA IntegrateLater ==
  ASSUME NEW Ops, MovesOk(Ops), NEW t, Replayed(t, Ops), NEW op \in Ops, LaterThan(t, op)
  PROVE  Integrate(t, op) = PushMove(t, op)
<1> DEFINE L     == Len(t.log)
           later == {i \in 1 .. L : TsLess(op.ts, t.log[i].op.ts)}
           n     == Cardinality(later)
           tail  == SubSeq(t.log, L - n + 1, L)
           f     == CHOOSE h : IsUndone(h, t, n)
           g     == CHOOSE h : IsRedone(h, f[n], op, tail, n)
<1>1. Integrate(t, op) = IF HasTs(t, op.ts) THEN t ELSE g[n]
  BY DEF Integrate, IsUndone, IsRedone
<1>2. L \in Nat /\ \A j \in 1 .. L : t.log[j].op \in Ops
  BY BuiltLog DEF Replayed
<1>3. later = {} /\ ~HasTs(t, op.ts)
  <2>1. \A j \in 1 .. L : ~TsLess(op.ts, t.log[j].op.ts) /\ t.log[j].op.ts # op.ts
    BY <1>2, TsTotal DEF LaterThan
  <2>2. QED BY <2>1 DEF HasTs
<1>4. n = 0
  BY <1>3, FS_EmptySet
<1> HIDE DEF n
<1>5. f[0] = t
  <2>1. IsUndone(f, t, n)
    BY <1>4, UndoneExists
  <2> HIDE DEF f
  <2>2. QED BY <1>4, <2>1 DEF IsUndone
<1> HIDE DEF f, tail
<1>6. g[0] = PushMove(f[n], op)
  <2>1. IsRedone(g, f[n], op, tail, n)
    BY <1>4, RedoneExists
  <2> HIDE DEF g
  <2>2. QED BY <1>4, <2>1 DEF IsRedone
<1>7. QED BY <1>1, <1>3, <1>4, <1>5, <1>6

\* Moving a node that a drive does not know adds it to the tree.
LEMMA UnknownIsAdded ==
  ASSUME NEW d, DriveOk(d), NEW r \in Replica, NEW child \in Item, child \notin KnownIds(d),
         NEW parent \in Place, parent \in KnownIds(d),
         NEW name \in AnyName, NEW kind \in Kind
  PROVE  Cardinality(DOMAIN EmitMove(d, r, child, parent, name, kind).tree.edges)
             = Cardinality(DOMAIN d.tree.edges) + 1
<1> DEFINE op == [ts |-> NextTs(d, r), child |-> child, new_parent |-> parent,
                  new_name |-> name, kind |-> kind]
           t == d.tree
<1>1. EmitMove(d, r, child, parent, name, kind).tree = Integrate(t, op)
  <2>1. d = [lamport |-> d.lamport, moves |-> d.moves, contents |-> d.contents,
             tree |-> d.tree, content |-> d.content]
    BY DEF DriveOk
  <2>2. EmitMove(d, r, child, parent, name, kind)
          = [d EXCEPT !.lamport = @ + 1, !.tree = Integrate(@, op), !.moves = Append(@, op)]
    BY Zenon DEF EmitMove
  <2> HIDE DEF op
  <2>3. QED BY <2>1, <2>2
<1>2. d.lamport \in Nat
  BY DEF DriveOk
<1>3. /\ op.ts \in Stamp /\ op.child = child /\ op.new_parent = parent
      /\ \A ts \in Stamp : ts.lamport <= d.lamport => TsLess(ts, op.ts)
  BY <1>2, NextTsLater, ReplicaAssumption
<1>4. op \in MoveOp
  BY <1>3 DEF MoveOp
<1> HIDE DEF op
<1>5. Replayed(t, MoveOp) /\ LogOps(t) = Range(d.moves) /\ TreeSound(t)
  BY DriveTree
<1>6. LaterThan(t, op)
  <2>1. ASSUME NEW i \in 1 .. Len(t.log) PROVE TsLess(t.log[i].op.ts, op.ts)
    <3>1. t.log[i].op \in Range(d.moves)
      BY <1>5 DEF LogOps
    <3>2. t.log[i].op \in MoveOp /\ t.log[i].op.ts.lamport <= d.lamport
      BY <3>1, TicksAreNumbers
    <3>3. QED BY <1>3, <3>2 DEF MoveOp
  <2>2. QED BY <2>1 DEF LaterThan
<1>7. Integrate(t, op) = PushMove(t, op)
  BY <1>4, <1>5, <1>6, MoveOpsOk, IntegrateLater
<1>8. ~FormsCycle(t.edges, op)
  <2>1. AncestorsOrSelf(t.edges, parent) \subseteq KnownIds(d)
    BY WalkIsKnown
  <2>2. QED BY <1>3, <2>1 DEF FormsCycle, IsAncestor
<1>9. DOMAIN PushMove(t, op).edges = DOMAIN t.edges \cup {child}
  <2>1. NewEdge(op) # Nil
    BY <1>4, MoveOpsOk DEF MovesOk
  <2>2. PushMove(t, op).edges = PutEdge(t.edges, child, NewEdge(op))
    BY <1>3, <1>8, <2>1 DEF PushMove, WithLog, DoMove, SetEdge
  <2>3. QED BY <2>2 DEF PutEdge
<1>10. child \notin DOMAIN t.edges
  BY TreeIdsKnown DEF KnownIds
<1>11. Cardinality(DOMAIN t.edges \cup {child}) = Cardinality(DOMAIN t.edges) + 1
  BY <1>5, <1>10, FS_AddElement DEF TreeSound
<1>12. QED BY <1>1, <1>7, <1>9, <1>11

\* A step after which ids are still minted, and that adds a node where it mints one.
StaysMinted ==
    /\ Minted'
    /\ \A r \in Replica : fresh'[r] > fresh[r] =>
          Cardinality(DOMAIN drive'[r].tree.edges)
              = Cardinality(DOMAIN drive[r].tree.edges) + 1

\* No command but the two that create a node touches the counter.
LEMMA UncountedMints ==
  ASSUME IInv, IInv', Minted, NEW r \in Replica, NEW e,
         drive' = [drive EXCEPT ![r] = e], fresh' = fresh,
         Continues(drive[r], e, KnownIds(drive[r]))
  PROVE  StaysMinted
<1>1. DriveOk(e)
  BY CommandFacts DEF IInv, TypeOK
<1>2. Minted'
  BY <1>1, ContinuedMinted
<1>3. \A q \in Replica : ~(fresh'[q] > fresh[q])
  BY CommandFacts
<1>4. QED BY <1>2, <1>3 DEF StaysMinted

LEMMA MovedMints ==
  ASSUME IInv, IInv', Minted, NEW r \in Replica, NEW n \in KnownIds(drive[r]),
         NEW parent \in KnownIds(drive[r]), NEW name, UNCHANGED fresh,
         drive' = [drive EXCEPT ![r] = EmitMove(@, r, n, parent, name, KindOf(@, n))]
  PROVE  StaysMinted
<1> DEFINE e == EmitMove(drive[r], r, n, parent, name, KindOf(drive[r], n))
<1>1. drive' = [drive EXCEPT ![r] = e]
  OBVIOUS
<1>2. Continues(drive[r], e, KnownIds(drive[r]))
  BY CommandFacts, EmitMoveContinues
<1> HIDE DEF e
<1>3. QED BY <1>1, <1>2, UncountedMints

LEMMA EditedMints ==
  ASSUME IInv, IInv', Minted, NEW r \in Replica, NEW op, Edited(r, op)
  PROVE  StaysMinted
<1> DEFINE e == EmitContent(drive[r], r, op)
<1>1. drive' = [drive EXCEPT ![r] = e] /\ fresh' = fresh
  BY DEF Edited
<1>2. Continues(drive[r], e, KnownIds(drive[r]))
  BY CommandFacts, EmitContentContinues
<1> HIDE DEF e
<1>3. QED BY <1>1, <1>2, UncountedMints

LEMMA DeletedMints ==
  ASSUME IInv, IInv', Minted, NEW r \in Replica, NEW ids \in SUBSET Trash(drive[r]),
         UNCHANGED fresh,
         drive' = [drive EXCEPT ![r] = HardDelete(@, r, TrashListing(drive[r], ids))]
  PROVE  StaysMinted
<1> DEFINE d == drive[r]
           list == TrashListing(d, ids)
           e == HardDelete(d, r, list)
           S == KnownIds(d)
<1>1. DriveOk(d) /\ TreeSound(d.tree) /\ LIMBO \in S
  BY Arguments DEF KnownIds
<1>2. drive' = [drive EXCEPT ![r] = e]
  OBVIOUS
<1>3. list \in Seq(NodeId \cap S)
  <2>1. list \in Seq(ids)
    BY <1>1, TrashListingIsSequence
  <2>2. ids \subseteq NodeId \cap S
    BY <1>1, TrashIsNodes, CommandFacts
  <2> HIDE DEF list, S
  <2>3. QED BY <2>1, <2>2
<1>4. Continues(d, e, S)
  <2> HIDE DEF d, list, S
  <2>1. QED BY <1>1, <1>3, HardDeleteContinues
<1> HIDE DEF e
<1>5. QED BY <1>2, <1>4, UncountedMints

\* The two commands that mint an id.
LEMMA CreatedMints ==
  ASSUME IInv, IInv', Minted, NEW r \in Replica, NEW parent \in Dirs(drive[r]),
         NEW name \in Name, NEW kind \in Kind, NEW e,
         LET id    == FreshId(drive[r], r)
             moved == EmitMove(drive[r], r, id, parent, name, kind)
         IN  e = moved \/ \E op : e = EmitContent(moved, r, op),
         drive' = [drive EXCEPT ![r] = e], fresh' = [fresh EXCEPT ![r] = @ + 1]
  PROVE  StaysMinted
<1> DEFINE d     == drive[r]
           id    == FreshId(d, r)
           moved == EmitMove(d, r, id, parent, name, kind)
           S     == KnownIds(d) \cup {id}
<1>1. /\ DriveOk(d) /\ id \in Item /\ id \in S /\ id \notin KnownIds(d)
      /\ parent \in Place /\ parent \in KnownIds(d) /\ parent \in S
      /\ name \in AnyName
  BY Arguments, CommandFacts, FreshIsUnknown, NameAssumption DEF Item
<1>2. Continues(d, moved, S) /\ DriveOk(moved)
  <2> HIDE DEF d, id, S
  <2>1. QED BY <1>1, EmitMoveContinues, EmitMoveGrows DEF Grown
<1>3. Cardinality(DOMAIN moved.tree.edges) = Cardinality(DOMAIN d.tree.edges) + 1
  <2> HIDE DEF d, id, S
  <2>1. QED BY <1>1, UnknownIsAdded
<1>4. e = moved \/ \E op : e = EmitContent(moved, r, op)
  OBVIOUS
<1>5. DriveOk(e) /\ drive'[r] = e /\ \A q \in Replica : q # r => drive'[q] = drive[q]
  <2>1. drive'[r] = e /\ \A q \in Replica : q # r => drive'[q] = drive[q]
    BY CommandFacts
  <2>2. QED BY <2>1 DEF IInv, TypeOK
<1> HIDE DEF moved
<1>6. e.tree = moved.tree /\ Continues(moved, e, S)
  <2>1. CASE e = moved
    BY <1>2, <2>1, TicksAreNumbers DEF Continues
  <2>2. ASSUME NEW op, e = EmitContent(moved, r, op)
        PROVE  e.tree = moved.tree /\ Continues(moved, e, S)
    BY <1>2, <2>2, EmitContentContinues
  <2>3. QED BY <1>4, <2>1, <2>2
<1>7. Continues(d, e, S)
  BY <1>1, <1>2, <1>5, <1>6, ContinuesOn, TicksAreNumbers
<1>8. Minted'
  BY <1>5, <1>7, ContinuedMinted
<1>9. \A q \in Replica : fresh'[q] > fresh[q] => q = r
  BY CommandFacts
<1>10. QED BY <1>3, <1>5, <1>6, <1>8, <1>9 DEF StaysMinted

LEMMA StructuralMints ==
  ASSUME IInv, IInv', Minted, NEW r \in Replica, Structural(r)
  PROVE  StaysMinted
<1>1. PICK parent \in Nodes(r), name \in Name :
        \/ Mkdir(r, parent, name)
        \/ \E cid \in Cid, at \in Time : AddFile(r, parent, name, cid, at)
        \/ \E n \in Nodes(r) : Mv(r, n, parent, name)
        \/ \E n \in Restorable(r) : Restore(r, n, parent, name)
  BY DEF Structural
<1>2. CASE Mkdir(r, parent, name)
  <2> DEFINE e == EmitMove(drive[r], r, FreshId(drive[r], r), parent, name, "dir")
  <2>1. /\ drive' = [drive EXCEPT ![r] = e] /\ fresh' = [fresh EXCEPT ![r] = @ + 1]
        /\ parent \in Dirs(drive[r])
    BY <1>2 DEF Mkdir
  <2>2. "dir" \in Kind
    BY DEF Kind
  <2>3. QED BY <2>1, <2>2, CreatedMints
<1>3. ASSUME NEW cid \in Cid, NEW at \in Time, AddFile(r, parent, name, cid, at) PROVE StaysMinted
  <2> DEFINE id == FreshId(drive[r], r)
             moved == EmitMove(drive[r], r, id, parent, name, "file")
             e == EmitContent(moved, r, SetOp(id, cid, at))
  <2>1. /\ drive' = [drive EXCEPT ![r] = e] /\ fresh' = [fresh EXCEPT ![r] = @ + 1]
        /\ parent \in Dirs(drive[r])
    BY <1>3 DEF AddFile
  <2>2. "file" \in Kind
    BY DEF Kind
  <2>3. \E op : e = EmitContent(moved, r, op)
    OBVIOUS
  <2> HIDE DEF e
  <2>4. QED BY <2>1, <2>2, <2>3, CreatedMints
<1>4. ASSUME NEW n \in Nodes(r), Mv(r, n, parent, name) PROVE StaysMinted
  <2>1. n \in KnownIds(drive[r]) /\ parent \in KnownIds(drive[r])
    BY <1>4, CommandFacts DEF Mv, Restorable
  <2>2. /\ UNCHANGED fresh
        /\ drive' = [drive EXCEPT ![r] = EmitMove(@, r, n, parent, name, KindOf(@, n))]
    BY <1>4 DEF Mv
  <2>3. QED BY <2>1, <2>2, MovedMints
<1>5. ASSUME NEW n \in Restorable(r), Restore(r, n, parent, name) PROVE StaysMinted
  <2>1. n \in KnownIds(drive[r]) /\ parent \in KnownIds(drive[r])
    BY <1>5, CommandFacts DEF Restore
  <2>2. /\ UNCHANGED fresh
        /\ drive' = [drive EXCEPT ![r] = EmitMove(@, r, n, parent, name, KindOf(@, n))]
    BY <1>5 DEF Restore
  <2>3. QED BY <2>1, <2>2, MovedMints
<1>6. QED BY <1>1, <1>2, <1>3, <1>4, <1>5

LEMMA EditingMints ==
  ASSUME IInv, IInv', Minted, NEW r \in Replica, Editing(r)
  PROVE  StaysMinted
<1>1. PICK cid \in Cid, at \in Time :
        \/ \E parent \in Nodes(r), name \in Name : AddVersion(r, parent, name, cid, at)
        \/ \E n \in Nodes(r) : SetContent(r, n, cid, at)
        \/ \E n \in Nodes(r) : RestoreVersion(r, n, cid, at)
  BY DEF Editing
<1>2. \A n : SetOp(n, cid, at).type = "set" /\ RestoreOp(n, cid, at).type = "restore"
  BY DEF SetOp, RestoreOp
<1>3. ASSUME NEW parent \in Nodes(r), NEW name \in Name, AddVersion(r, parent, name, cid, at)
      PROVE  StaysMinted
  <2> DEFINE op == SetOp(ChildNamed(drive[r], parent, name), cid, at)
  <2>1. Edited(r, op)
    BY <1>2, <1>3 DEF AddVersion, Edited
  <2> HIDE DEF op
  <2>2. QED BY <2>1, EditedMints
<1>4. ASSUME NEW n \in Nodes(r), SetContent(r, n, cid, at) PROVE StaysMinted
  <2> DEFINE op == SetOp(n, cid, at)
  <2>1. Edited(r, op)
    BY <1>2, <1>4 DEF SetContent, Edited
  <2> HIDE DEF op
  <2>2. QED BY <2>1, EditedMints
<1>5. ASSUME NEW n \in Nodes(r), RestoreVersion(r, n, cid, at) PROVE StaysMinted
  <2> DEFINE op == RestoreOp(n, cid, at)
  <2>1. Edited(r, op)
    BY <1>2, <1>5 DEF RestoreVersion, Edited
  <2> HIDE DEF op
  <2>2. QED BY <2>1, EditedMints
<1>6. QED BY <1>1, <1>3, <1>4, <1>5

LEMMA DeletingMints ==
  ASSUME IInv, IInv', Minted, NEW r \in Replica, Deleting(r)
  PROVE  StaysMinted
<1>1. ASSUME NEW n \in Nodes(r), Rm(r, n) PROVE StaysMinted
  <2> DEFINE name == drive[r].tree.edges[n].name
  <2>1. n \in KnownIds(drive[r]) /\ TRASH \in KnownIds(drive[r])
    BY <1>1, CommandFacts DEF Restorable, KnownIds
  <2>2. /\ UNCHANGED fresh
        /\ drive' = [drive EXCEPT ![r] = EmitMove(@, r, n, TRASH, name, KindOf(@, n))]
    BY <1>1 DEF Rm
  <2> HIDE DEF name
  <2>3. QED BY <2>1, <2>2, MovedMints
<1>2. CASE EmptyTrash(r)
  <2> DEFINE ids == Trash(drive[r])
  <2>1. /\ UNCHANGED fresh
        /\ drive' = [drive EXCEPT ![r] = HardDelete(@, r, TrashListing(drive[r], ids))]
    BY <1>2 DEF EmptyTrash
  <2>2. ids \in SUBSET Trash(drive[r])
    OBVIOUS
  <2> HIDE DEF ids
  <2>3. QED BY <2>1, <2>2, DeletedMints
<1>3. ASSUME NEW cutoff \in Time, GcTrash(r, cutoff) PROVE StaysMinted
  <2> DEFINE content == drive[r].content
             ids == {n \in Trash(drive[r]) : n \in DOMAIN content => content[n].mtime <= cutoff}
  <2>1. /\ UNCHANGED fresh
        /\ drive' = [drive EXCEPT ![r] = HardDelete(@, r, TrashListing(drive[r], ids))]
    BY <1>3 DEF GcTrash
  <2>2. ids \in SUBSET Trash(drive[r])
    OBVIOUS
  <2> HIDE DEF ids
  <2>3. QED BY <2>1, <2>2, DeletedMints
<1>4. QED BY <1>1, <1>2, <1>3 DEF Deleting

\* A step of r that does not create, and after which its ids are minted.
LEMMA StillMinted ==
  ASSUME IInv, Minted, NEW r \in Replica, NEW e, drive' = [drive EXCEPT ![r] = e],
         \A q \in Replica : ~(fresh'[q] > fresh[q]) /\ (q # r => fresh'[q] = fresh[q]),
         \A o \in Range(e.moves) : \A n \in {o.child, o.new_parent} \cap OwnId :
            IF SetsBack THEN n[2] < fresh'[r] ELSE n[1] <= o.ts.lamport
  PROVE  StaysMinted
<1>1. drive'[r] = e /\ \A q \in Replica : q # r => drive'[q] = drive[q]
  BY CommandFacts
<1>2. ASSUME NEW q \in Replica, NEW o \in Range(drive'[q].moves),
             NEW n \in {o.child, o.new_parent} \cap OwnId
      PROVE  IF SetsBack THEN n[2] < fresh'[q] ELSE n[1] <= o.ts.lamport
  <2>1. CASE q = r
    BY <1>1, <2>1
  <2>2. CASE q # r
    <3>1. IF SetsBack THEN n[2] < fresh[q] ELSE n[1] <= o.ts.lamport
      BY <1>1, <2>2 DEF Minted
    <3>2. QED BY <2>2, <3>1
  <2>3. QED BY <2>1, <2>2
<1>3. Minted'
  BY <1>2 DEF Minted
<1>4. QED BY <1>3 DEF StaysMinted

\* The clock of a replica that merges is never set back, since it is not alone.
LEMMA MergingMints ==
  ASSUME IInv, IInv', Minted, NEW r \in Replica, Merging(r)
  PROVE  StaysMinted
<1>1. PICK s \in Others(r) : \/ \E op \in MovesFrom(s) : RemoteMove(r, op)
                             \/ \E op \in ContentsFrom(s) : RemoteContent(r, op)
  BY DEF Merging
<1>2. ~SetsBack /\ s \in Replica
  BY DEF SetsBack, Others
<1> DEFINE d == drive[r]
<1>3. /\ DriveOk(d) /\ fresh \in [Replica -> Nat] /\ d.moves \in Seq(MoveOp)
      /\ d = [lamport |-> d.lamport, moves |-> d.moves, contents |-> d.contents,
              tree |-> d.tree, content |-> d.content]
  BY CommandFacts DEF DriveOk, MovesLog
<1>4. \A q \in Replica : ~(fresh[q] > fresh[q])
  BY <1>3
<1>5. \A o \in Range(d.moves) : \A n \in {o.child, o.new_parent} \cap OwnId :
         n[1] <= o.ts.lamport
  BY <1>2 DEF Minted
<1> HIDE DEF d
<1>6. ASSUME NEW op \in MovesFrom(s), RemoteMove(r, op) PROVE StaysMinted
  <2> DEFINE e == [d EXCEPT !.lamport = Observe(d, op.ts), !.tree = Integrate(@, op),
                            !.moves = Append(@, op)]
  <2>1. drive' = [drive EXCEPT ![r] = e] /\ fresh' = fresh
    BY <1>6, Zenon DEF RemoteMove, d
  <2>2. e.moves = Append(d.moves, op)
    BY <1>3
  <2> HIDE DEF e
  <2>3. Range(e.moves) = Range(d.moves) \cup {op}
    BY <1>3, <2>2, RangeAppend
  <2>4. \A n \in {op.child, op.new_parent} \cap OwnId : n[1] <= op.ts.lamport
    BY <1>2 DEF Minted, MovesFrom
  <2>5. \A o \in Range(e.moves) : \A n \in {o.child, o.new_parent} \cap OwnId :
           IF SetsBack THEN n[2] < fresh'[r] ELSE n[1] <= o.ts.lamport
    BY <1>2, <1>5, <2>3, <2>4
  <2>6. QED BY <1>4, <2>1, <2>5, StillMinted
<1>7. ASSUME NEW op \in ContentsFrom(s), RemoteContent(r, op) PROVE StaysMinted
  <2>1. PICK ops, content :
          /\ fresh' = fresh
          /\ drive' = [drive EXCEPT ![r] =
                          [d EXCEPT !.lamport = Observe(d, op.ts), !.contents = ops,
                                    !.content = content]]
    BY <1>7, Zenon DEF RemoteContent, d
  <2> DEFINE e == [d EXCEPT !.lamport = Observe(d, op.ts), !.contents = ops,
                            !.content = content]
  <2>2. e.moves = d.moves
    BY <1>3
  <2>3. drive' = [drive EXCEPT ![r] = e]
    BY <2>1
  <2> HIDE DEF e
  <2>4. \A o \in Range(e.moves) : \A n \in {o.child, o.new_parent} \cap OwnId :
           IF SetsBack THEN n[2] < fresh'[r] ELSE n[1] <= o.ts.lamport
    BY <1>2, <1>5, <2>2
  <2>5. QED BY <1>4, <2>1, <2>3, <2>4, StillMinted
<1>8. QED BY <1>1, <1>6, <1>7

\* Compaction keeps to the ids that the counter has passed.
LEMMA CompactMints ==
  ASSUME IInv, Minted, NEW r \in Replica, Compact(r)
  PROVE  StaysMinted
<1> DEFINE e == Compacted(drive[r], r)
<1>1. drive' = [drive EXCEPT ![r] = e] /\ fresh' = fresh /\ SetsBack
  BY DEF Compact, SetsBack, Others
<1>2. Continues(NewDrive, e, KnownIds(drive[r])) /\ fresh \in [Replica -> Nat]
  BY CommandFacts, CompactedOk DEF Rebuilt
<1> HIDE DEF e
<1>3. \A o \in Range(e.moves) : o.child \in KnownIds(drive[r]) /\ o.new_parent \in KnownIds(drive[r])
  <2>1. Range(NewDrive.moves) = {}
    BY DEF NewDrive, Range
  <2>2. QED BY <1>2, <2>1 DEF Continues
<1>4. \A o \in Range(e.moves) : \A n \in {o.child, o.new_parent} \cap OwnId :
         IF SetsBack THEN n[2] < fresh'[r] ELSE n[1] <= o.ts.lamport
  BY <1>1, <1>3, MintedIds DEF Older
<1>5. \A q \in Replica : ~(fresh[q] > fresh[q])
  BY <1>2
<1>6. QED BY <1>1, <1>4, <1>5, StillMinted

\* A counter that starts over does no harm where the clock does not.
LEMMA ReloadMints ==
  ASSUME ~({"compact", "reload"} \subseteq Command), IInv, Minted, NEW r \in Replica, Reload(r)
  PROVE  StaysMinted
<1> DEFINE d == drive[r]
<1>1. ~SetsBack
  BY DEF Reload, SetsBack
<1>2. DriveOk(d) /\ fresh \in [Replica -> Nat]
  BY CommandFacts
<1>3. drive' = [drive EXCEPT ![r] = d] /\ fresh' = [fresh EXCEPT ![r] = 0]
  BY <1>2, FromStateSame DEF Reload
<1>4. \A q \in Replica : ~(fresh'[q] > fresh[q]) /\ (q # r => fresh'[q] = fresh[q])
  BY <1>2, <1>3
<1>5. \A o \in Range(d.moves) : \A n \in {o.child, o.new_parent} \cap OwnId :
         IF SetsBack THEN n[2] < fresh'[r] ELSE n[1] <= o.ts.lamport
  BY <1>1 DEF Minted
<1> HIDE DEF d
<1>6. QED BY <1>3, <1>4, <1>5, StillMinted

LEMMA NextMints ==
  ASSUME ~({"compact", "reload"} \subseteq Command), IInv, IInv', Minted, [Next]_vars
  PROVE  StaysMinted
<1>1. CASE Next
  <2>1. PICK r \in Replica : \/ Structural(r) \/ Editing(r) \/ Deleting(r) \/ Merging(r)
                             \/ Compact(r) \/ Reload(r)
    BY <1>1 DEF Next
  <2>2. QED BY <2>1, StructuralMints, EditingMints, DeletingMints, MergingMints,
               CompactMints, ReloadMints
<1>2. CASE UNCHANGED vars
  <2>1. drive' = drive /\ fresh' = fresh
    BY <1>2 DEF vars
  <2>2. Minted'
    BY <2>1 DEF Minted
  <2>3. fresh \in [Replica -> Nat]
    BY DEF IInv, TypeOK
  <2>4. \A r \in Replica : ~(fresh'[r] > fresh[r])
    BY <2>1, <2>3
  <2>5. QED BY <2>2, <2>4 DEF StaysMinted
<1>3. QED BY <1>1, <1>2

\* A command that creates a node adds one to the tree, in any sequence of commands,
\* restarts and merges, unless a drive is both compacted and used by a later process:
\* compaction sets the clock back, and a new process counts from 0 again.
THEOREM CreationsAreNew ==
  ASSUME ~({"compact", "reload"} \subseteq Command)
  PROVE  Spec => NewNodesAreNew
<1>1. Init => Minted
  <2> SUFFICES ASSUME Init PROVE Minted
    OBVIOUS
  <2>1. \A r \in Replica : Range(drive[r].moves) = {}
    BY DEF Init, NewDrive, Range
  <2>2. QED BY <2>1 DEF Minted
<1>2. IInv /\ IInv' /\ Minted /\ [Next]_vars => Minted'
  BY NextMints DEF StaysMinted
<1>3. IInv /\ IInv' /\ Minted /\ [Next]_vars
        => [\A r \in Replica : fresh'[r] > fresh[r] =>
              Cardinality(DOMAIN drive'[r].tree.edges)
                  = Cardinality(DOMAIN drive[r].tree.edges) + 1]_vars
  BY NextMints DEF StaysMinted
<1>4. QED BY <1>1, <1>2, <1>3, Inductive, PTL DEF Spec, NewNodesAreNew
-----------------------------------------------------------------------------
(* A record keeps what is saved while its history is not full. *)

\* "Nothing is lost": the fold of a log has every version that was saved since the
\* record was removed, unless its history may be full.
LEMMA FoldKeepsSaves ==
  ASSUME NEW log, InOrder(log), NEW n \in DOMAIN FoldContent(log),
         Cardinality(SinceRemoval(log, n)) <= MaxVersions + 1
  PROVE  SavedSince(log, n) \subseteq CidsOf(FoldContent(log)[n])
<1> DEFINE L == Len(log)
<1>1. /\ L \in Nat /\ DOMAIN log = 1 .. L
      /\ \A i \in 1 .. L : log[i].op.type \in {"set", "restore", "remove"}
  BY LogFacts
<1>2. PICK f : IsFold(f, NoContent, log, Ids(log), L) /\ FoldContent(log) = f[L]
  <2>1. PICK f : IsFold(f, NoContent, log, Ids(log), L) /\ Fold(NoContent, log, Ids(log)) = f[L]
    BY FoldSteps
  <2>2. QED BY <2>1 DEF FoldContent, Ids
<1>3. \A i \in 0 .. L : f[i] = IF i = 0 THEN NoContent ELSE ApplyContent(f[i - 1], log[i].op)
  <2>1. \A i \in 0 .. L : i = 0 \/ log[i].op.id \in Ids(log)
    BY <1>1, IdsCover
  <2> HIDE DEF L
  <2>2. QED BY <1>2, <2>1 DEF IsFold
<1>4. SinceRemoval(log, n) = SinceIn(log, n, L) /\ SavedSince(log, n) = SavedIn(log, n, L)
  BY <1>1 DEF SinceRemoval, SinceIn, SavedSince, SavedIn
<1> HIDE DEF L
<1>5. \A i \in 1 .. L : Histories(f[i - 1]) => Applied(f[i - 1], f[i], log[i].op)
  <2>1. \A i \in 1 .. L : i \in 0 .. L /\ i # 0
    BY <1>1
  <2>2. QED BY <1>1, <1>3, <2>1, ContentApplied
<1>6. KeepsSaves(f[L], log, n, L)
  <2>1. f[0] = NoContent
    BY <1>1, <1>3
  <2>2. QED BY <1>1, <1>5, <2>1, ReplayKeepsSaves
<1>7. QED BY <1>2, <1>4, <1>6 DEF KeepsSaves

\* No command, merge, restart or compaction loses a version that a record has room
\* for: whichever edits won, and in whatever order they were merged.
THEOREM SavesAreKept == Spec => []EverySaveKept
<1>1. IInv => EverySaveKept
  BY FoldKeepsSaves DEF IInv, TypeOK, DriveOk, ContentLog, EverySaveKept
<1>2. QED BY <1>1, Inductive, PTL
=============================================================================
