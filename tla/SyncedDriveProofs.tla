-------------------------- MODULE SyncedDriveProofs --------------------------
(***************************************************************************)
(* Theorems about SyncedDrive, for any devices, tasks, names, contents and *)
(* bounds: the keys of the tree logs are unique, a created node is new,    *)
(* saves are of nodes that exist whatever appends fail, and a save that    *)
(* has been made is shown or in the history.                               *)
(***************************************************************************)
EXTENDS SyncedDrive, ReplayLemmas

MoveOp(r) == [ts : [lamport : Nat, replica : {r}], child : NodeId,
              new_parent : Place, new_name : Name, kind : Kind]

\* The move that a task intends; the child of a creation is not known yet.
Intent == [child : NodeId \cup {Nil}, new_parent : Place, new_name : Name, kind : Kind]

IsSave(x) == DOMAIN x = {"type", "id", "cid", "at"} /\ x = SetOp(x.id, x.cid, x.at)

\* The states of a task, each with what it has left to send.
Free(j)   == j.pc \in {"idle", "look"} /\ j.todo = <<>> /\ j.op = Nil /\ ~j.fresh
WillMove(j) ==
    /\ j.pc = "stamp" /\ j.op = Nil /\ ~j.fresh
    /\ Len(j.todo) = 1 /\ j.todo = <<j.todo[1]>> /\ j.todo[1] \in Intent
    /\ j.todo[1].child = Nil => j.todo[1].kind = "dir"
WillCreate(j) ==
    /\ j.pc = "stamp" /\ j.op = Nil /\ ~j.fresh
    /\ Len(j.todo) = 2 /\ j.todo = <<j.todo[1], j.todo[2]>>
    /\ j.todo[1] \in Intent /\ j.todo[1].child = Nil
    /\ IsSave(j.todo[2]) /\ j.todo[2].id = Nil
WillSave(j) ==
    /\ j.pc = "stamp" /\ j.op = Nil /\ ~j.fresh
    /\ Len(j.todo) = 1 /\ j.todo = <<j.todo[1]>> /\ IsSave(j.todo[1])
Moving(j, r) ==
    /\ j.pc = "send" /\ j.op \in MoveOp(r) /\ j.todo = <<>>
    /\ j.fresh => j.op.kind = "dir"
Creating(j, r) ==
    /\ j.pc = "send" /\ j.op \in MoveOp(r) /\ j.fresh
    /\ Len(j.todo) = 1 /\ j.todo = <<j.todo[1]>>
    /\ IsSave(j.todo[1]) /\ j.todo[1].id = j.op.child
Saving(j, r) ==
    /\ j.pc = "send" /\ ~j.fresh /\ j.todo = <<>>
    /\ DOMAIN j.op = {"ts", "op"} /\ j.op = [ts |-> j.op.ts, op |-> j.op.op] /\ IsSave(j.op.op)
    /\ j.op.ts \in [lamport : Nat, replica : {r}]

JobOk(j, r) ==
    /\ j = [pc |-> j.pc, todo |-> j.todo, op |-> j.op, fresh |-> j.fresh]
    /\ j.fresh \in BOOLEAN
    /\ \/ Free(j) \/ WillMove(j) \/ WillCreate(j) \/ WillSave(j)
       \/ Moving(j, r) \/ Creating(j, r) \/ Saving(j, r)

LogsOk ==
    /\ moves = [r \in Replica |-> moves[r]]
    /\ \A r \in Replica : moves[r] \in Seq(MoveOp(r))
    /\ edits = [r \in Replica |-> edits[r]]
    /\ \A r \in Replica : edits[r] \in Seq(Range(edits[r]))

GotOk ==
    /\ got \in [Replica -> [Replica -> [Log -> Nat]]]
    /\ \A r, s \in Replica : got[r][s]["moves"] <= Len(moves[s])
    /\ \A r \in Replica : got[r][r]["moves"] = Len(moves[r])

JobsOk ==
    /\ job = [r \in Replica |-> [k \in Task[r] |-> job[r][k]]]
    /\ \A r \in Replica : \A k \in Task[r] : JobOk(job[r][k], r)

CountersOk ==
    /\ clock \in [Replica -> Nat]
    /\ ctr \in [Replica -> Nat]
    /\ restarts \in [Replica -> Nat]

TypeOK == LogsOk /\ GotOk /\ JobsOk /\ CountersOk

\* The tasks that have a move to stamp or to send, or may come to have one: each has
\* observed the newest move since the process was started.
OnMoves(j) ==
    \/ j.pc = "look"
    \/ j.pc = "stamp" /\ "new_parent" \in DOMAIN j.todo[1]
    \/ j.pc = "send" /\ "child" \in DOMAIN j.op

CaughtUp ==
    \A r \in Replica : \A k \in Task[r] : OnMoves(job[r][k]) =>
        \A o \in Range(moves[r]) : o.ts.lamport <= clock[r]

\* Stamps are ticks of the clock that no other task of the process got.
StampsPast ==
    \A r \in Replica : \A k \in Task[r] :
        job[r][k].pc = "send" => job[r][k].op.ts.lamport <= clock[r]

StampsApart ==
    \A r \in Replica : \A k, l \in Task[r] :
        k # l /\ job[r][k].pc = "send" /\ job[r][l].pc = "send"
            => job[r][k].op.ts.lamport # job[r][l].op.ts.lamport

StampsNew ==
    \A r \in Replica : \A k \in Task[r] :
        job[r][k].pc = "send" /\ "child" \in DOMAIN job[r][k].op =>
            \A o \in Range(moves[r]) : o.ts # job[r][k].op.ts

\* The tick in a node's id is that of a move its creator has sent.
Created(n) == \E p \in Range(moves[n[2]]) : p.ts.lamport = n[1]

ChildrenCreated == \A o \in AllMoves : Created(o.child)

FreshNamed ==
    \A r \in Replica : \A k \in Task[r] :
        LET j == job[r][k] IN
        j.pc = "send" /\ j.fresh => j.op.child[1] = j.op.ts.lamport /\ j.op.child[2] = r

\* A node of that kind that some device has been told of.
Known(n, kind) == \E o \in AllMoves : o.child = n /\ o.kind = kind

MovedKnown ==
    \A r \in Replica : \A k \in Task[r] :
        LET j == job[r][k] IN
        /\ WillMove(j) /\ j.todo[1].child # Nil => Known(j.todo[1].child, j.todo[1].kind)
        /\ Moving(j, r) /\ ~j.fresh => Known(j.op.child, j.op.kind)

\* A node that some device has been told of.
Named(n) == \E o \in AllMoves : o.child = n

\* The saves that were sent, and those that tasks are still to stamp or to send, are
\* of such nodes.
SavesNamed ==
    /\ \A e \in AllEdits : Named(e.op.id)
    /\ \A r \in Replica : \A k \in Task[r] :
           LET j == job[r][k] IN
           /\ WillSave(j) => Named(j.todo[1].id)
           /\ Saving(j, r) => Named(j.op.op.id)

IInv ==
    /\ TypeOK
    /\ CaughtUp
    /\ StampsPast
    /\ StampsApart
    /\ StampsNew
    /\ MoveKeysUnique
    /\ ChildrenCreated
    /\ FreshNamed
    /\ MovedKnown
    /\ SavesNamed

-----------------------------------------------------------------------------
(* Sequences, the greatest tick, and the union in timestamp order *)

LEMMA RangeOfAppend ==
  ASSUME NEW S, NEW q \in Seq(S), NEW e
  PROVE  /\ Range(Append(q, e)) = Range(q) \cup {e}
         /\ Append(q, e) \in Seq(S \cup {e})
         /\ Append(q, e) \in Seq(Range(q) \cup {e})
         /\ Len(Append(q, e)) = Len(q) + 1
<1>1. DOMAIN q = 1 .. Len(q) /\ Len(q) \in Nat /\ \A i \in 1 .. Len(q) : q[i] \in S
  OBVIOUS
<1>2. q \in Seq(S \cup {e}) /\ q \in Seq(Range(q) \cup {e})
  <2>1. \A i \in 1 .. Len(q) : q[i] \in Range(q)
    BY <1>1 DEF Range
  <2>2. QED BY <1>1, <2>1
<1>3. /\ Append(q, e) \in Seq(S \cup {e}) /\ Append(q, e) \in Seq(Range(q) \cup {e})
      /\ Len(Append(q, e)) = Len(q) + 1
      /\ \A i \in 1 .. Len(q) : Append(q, e)[i] = q[i]
      /\ Append(q, e)[Len(q) + 1] = e
      /\ DOMAIN Append(q, e) = 1 .. Len(q) + 1
  BY <1>1, <1>2
<1>4. 1 .. Len(q) + 1 = (1 .. Len(q)) \cup {Len(q) + 1}
  BY <1>1
<1> DEFINE a == Append(q, e)
<1>5. Range(a) = Range(q) \cup {e}
  <2> HIDE DEF a
  <2>1. \A i \in 1 .. Len(q) : a[i] = q[i]
    BY <1>3 DEF a
  <2>2. a[Len(q) + 1] = e /\ DOMAIN a = (1 .. Len(q)) \cup {Len(q) + 1}
    BY <1>3, <1>4 DEF a
  <2>3. QED BY <1>1, <2>1, <2>2 DEF Range
<1>6. QED BY <1>3, <1>5

\* The greatest tick of a finite set of moves is none of theirs exceeds.
LEMMA NewestIsUpper ==
  ASSUME NEW S, IsFiniteSet({0} \cup {o.ts.lamport : o \in S}),
         \A o \in S : o.ts.lamport \in Nat
  PROVE  Newest(S) \in Nat /\ \A o \in S : o.ts.lamport <= Newest(S)
<1> DEFINE T == {0} \cup {o.ts.lamport : o \in S}
<1>1. T \in SUBSET Nat /\ T # {}
  OBVIOUS
<1>2. \E m \in T : \A k \in T : m >= k
  <2> HIDE DEF T
  <2>1. IsFiniteSet(T)
    BY DEF T
  <2>2. QED BY <1>1, <2>1, GreatestNat
<1> DEFINE x == CHOOSE m \in T : \A k \in T : m >= k
<1>3. Newest(S) = x
  BY DEF Newest, Max
<1>4. x \in T /\ \A k \in T : x >= k
  BY <1>2
<1>5. x \in Nat
  BY <1>1, <1>4
<1>6. \A o \in S : o.ts.lamport \in T
  OBVIOUS
<1> HIDE DEF T, x
<1>7. QED BY <1>3, <1>4, <1>5, <1>6

\* The union in timestamp order is a sequence of the operations of the union: for
\* every position there is a timestamp with that many earlier ones.  An operation
\* whose timestamp no other one has is in it.
LEMMA InOrderOps ==
  ASSUME NEW ops, IsFiniteSet({o.ts : o \in ops}),
         \A o \in ops : /\ o.ts = [lamport |-> o.ts.lamport, replica |-> o.ts.replica]
                        /\ o.ts.lamport \in Nat /\ o.ts.replica \in Nat
  PROVE  /\ Len(InOrder(ops)) \in Nat
         /\ Len(InOrder(ops)) = Cardinality({o.ts : o \in ops})
         /\ \A i \in 1 .. Len(InOrder(ops)) : InOrder(ops)[i] \in ops
         /\ \A o \in ops : (\A p \in ops : p.ts = o.ts => p = o) =>
               \E i \in 1 .. Len(InOrder(ops)) : InOrder(ops)[i] = o
<1> DEFINE keys   == {o.ts : o \in ops}
           Below(ts) == {u \in keys : TsLess(u, ts)}
           N      == Cardinality(keys)
           rank   == [ts \in keys |-> Cardinality(Below(ts))]
           At(i)  == CHOOSE ts \in keys : Cardinality(Below(ts)) = i - 1
<1>1. IsFiniteSet(keys) /\ N \in Nat
  BY FS_CardinalityType
<1>2. \A ts \in keys : Below(ts) \in SUBSET keys
  OBVIOUS
<1>3. \A ts \in keys : /\ ts = [lamport |-> ts.lamport, replica |-> ts.replica]
                       /\ ts.lamport \in Nat /\ ts.replica \in Nat
  OBVIOUS
<1>4. \A ts, u \in keys : /\ TsLess(ts, u) \/ ts = u \/ TsLess(u, ts)
                          /\ ~TsLess(ts, ts)
                          /\ \A v \in keys : TsLess(ts, u) /\ TsLess(u, v) => TsLess(ts, v)
  <2> SUFFICES ASSUME NEW ts \in keys, NEW u \in keys
               PROVE  /\ TsLess(ts, u) \/ ts = u \/ TsLess(u, ts)
                      /\ ~TsLess(ts, ts)
                      /\ \A v \in keys : TsLess(ts, u) /\ TsLess(u, v) => TsLess(ts, v)
    OBVIOUS
  <2> HIDE DEF keys
  <2>1. ts.lamport = u.lamport /\ ts.replica = u.replica => ts = u
    BY <1>3
  <2>2. QED BY <1>3, <2>1 DEF TsLess
<1>5. InOrder(ops) = [i \in 1 .. N |-> CHOOSE o \in ops : o.ts = At(i)]
  BY DEF InOrder
<1> HIDE DEF keys
<1>6. \A ts \in keys : /\ IsFiniteSet(Below(ts)) /\ Cardinality(Below(ts)) \in Nat
                       /\ Cardinality(Below(ts)) <= N - 1
  <2> SUFFICES ASSUME NEW ts \in keys
               PROVE  /\ IsFiniteSet(Below(ts)) /\ Cardinality(Below(ts)) \in Nat
                      /\ Cardinality(Below(ts)) <= N - 1
    OBVIOUS
  <2>1. Below(ts) \in SUBSET (keys \ {ts})
    BY <1>4
  <2>2. IsFiniteSet(keys \ {ts}) /\ Cardinality(keys \ {ts}) = N - 1
    BY <1>1, FS_RemoveElement
  <2> HIDE DEF Below, N
  <2>3. /\ IsFiniteSet(Below(ts)) /\ Cardinality(Below(ts)) <= Cardinality(keys \ {ts})
        /\ Cardinality(Below(ts)) \in Nat
    BY <2>1, <2>2, FS_Subset, FS_CardinalityType
  <2>4. QED BY <2>2, <2>3
<1>7. ASSUME NEW ts \in keys, NEW u \in keys, TsLess(ts, u)
      PROVE  Cardinality(Below(ts)) < Cardinality(Below(u))
  <2>1. Below(ts) \in SUBSET Below(u) /\ ts \in Below(u) /\ ts \notin Below(ts)
    BY <1>4, <1>7
  <2> HIDE DEF Below
  <2>2. /\ Cardinality(Below(ts)) <= Cardinality(Below(u))
        /\ Cardinality(Below(u)) = Cardinality(Below(ts)) => Below(u) = Below(ts)
    BY <1>6, <2>1, FS_Subset
  <2>3. QED BY <1>6, <2>1, <2>2
<1>8. rank \in Injection(keys, 0 .. N - 1)
  <2>1. rank \in [keys -> 0 .. N - 1]
    <3> HIDE DEF Below, N
    <3>1. \A ts \in keys : Cardinality(Below(ts)) \in 0 .. N - 1
      BY <1>1, <1>6 DEF N
    <3>2. QED BY <3>1
  <2>2. \A ts, u \in keys : ts # u => rank[ts] # rank[u]
    <3> SUFFICES ASSUME NEW ts \in keys, NEW u \in keys, ts # u PROVE rank[ts] # rank[u]
      OBVIOUS
    <3> HIDE DEF Below
    <3>1. /\ rank[ts] = Cardinality(Below(ts)) /\ rank[u] = Cardinality(Below(u))
          /\ rank[ts] \in Nat /\ rank[u] \in Nat
      BY <1>6
    <3>2. TsLess(ts, u) \/ TsLess(u, ts)
      BY <1>4
    <3> HIDE DEF rank
    <3>3. QED BY <1>7, <3>1, <3>2
  <2> HIDE DEF rank, N
  <2>3. QED BY <2>1, <2>2 DEF Injection, IsInjective
<1>9. rank \in Surjection(keys, 0 .. N - 1)
  <2>1. IsFiniteSet(0 .. N - 1) /\ Cardinality(0 .. N - 1) = N
    <3> HIDE DEF N
    <3>1. N \in Nat /\ N - 1 \in Int
      BY <1>1 DEF N
    <3>2. QED BY <3>1, FS_Interval
  <2> HIDE DEF rank
  <2>2. QED BY <1>8, <2>1, FS_Injection DEF N
<1>10. ASSUME NEW i \in 1 .. N
       PROVE  At(i) \in keys
  <2>1. i - 1 \in 0 .. N - 1
    <3> HIDE DEF N
    <3>1. QED BY <1>1 DEF N
  <2>2. \E ts \in keys : rank[ts] = i - 1
    <3> HIDE DEF rank, N
    <3>1. QED BY <1>9, <2>1 DEF Surjection
  <2>3. \E ts \in keys : Cardinality(Below(ts)) = i - 1
    BY <2>2
  <2> HIDE DEF Below
  <2>4. QED BY <2>3
<1>14. ASSUME NEW ts \in keys
       PROVE  \E i \in 1 .. N : At(i) = ts
  <2> DEFINE i == rank[ts] + 1
  <2>1. rank[ts] = Cardinality(Below(ts)) /\ rank[ts] \in 0 .. N - 1
    <3> HIDE DEF Below, N
    <3>1. QED BY <1>1, <1>6 DEF N
  <2> HIDE DEF rank
  <2>2. i \in 1 .. N /\ i - 1 = rank[ts]
    <3> HIDE DEF N
    <3>1. N \in Nat
      BY <1>1 DEF N
    <3>2. QED BY <2>1, <3>1
  <2>3. At(i) \in keys /\ Cardinality(Below(At(i))) = i - 1
    <3>1. \E u \in keys : Cardinality(Below(u)) = i - 1
      BY <2>1, <2>2
    <3> HIDE DEF Below, i
    <3>2. QED BY <3>1
  <2>4. \A u \in keys : Cardinality(Below(u)) = Cardinality(Below(ts)) => u = ts
    <3> SUFFICES ASSUME NEW u \in keys, Cardinality(Below(u)) = Cardinality(Below(ts)), u # ts
                 PROVE  FALSE
      OBVIOUS
    <3>1. TsLess(ts, u) \/ TsLess(u, ts)
      BY <1>4
    <3> HIDE DEF Below
    <3>2. /\ TsLess(ts, u) => Cardinality(Below(ts)) < Cardinality(Below(u))
          /\ TsLess(u, ts) => Cardinality(Below(u)) < Cardinality(Below(ts))
      BY <1>7
    <3>3. Cardinality(Below(ts)) \in Nat
      BY <1>6
    <3>4. QED BY <3>1, <3>2, <3>3
  <2>5. At(i) = ts
    <3> DEFINE u == At(i)
    <3>1. u \in keys /\ Cardinality(Below(u)) = Cardinality(Below(ts))
      BY <2>1, <2>2, <2>3
    <3> HIDE DEF u, Below
    <3>2. u = ts
      BY <2>4, <3>1
    <3>3. QED BY <3>2 DEF u
  <2> HIDE DEF i, At, N
  <2>6. QED BY <2>2, <2>5
<1> HIDE DEF Below, N, At
<1>15. ASSUME NEW o \in ops, \A p \in ops : p.ts = o.ts => p = o
       PROVE  \E i \in 1 .. N : InOrder(ops)[i] = o
  <2>1. PICK i \in 1 .. N : At(i) = o.ts
    BY <1>14 DEF keys
  <2>2. InOrder(ops)[i] = CHOOSE p \in ops : p.ts = o.ts
    BY <1>5, <2>1
  <2>3. (CHOOSE p \in ops : p.ts = o.ts) = o
    BY <1>15
  <2>4. QED BY <2>2, <2>3
<1>11. \A i \in 1 .. N : InOrder(ops)[i] \in ops
  <2> SUFFICES ASSUME NEW i \in 1 .. N PROVE InOrder(ops)[i] \in ops
    OBVIOUS
  <2>1. \E o \in ops : o.ts = At(i)
    BY <1>10 DEF keys
  <2>2. QED BY <1>5, <2>1
<1>12. Len(InOrder(ops)) = N
  BY <1>1, <1>5 DEF N
<1>13. QED BY <1>1, <1>11, <1>12, <1>15 DEF N, keys

-----------------------------------------------------------------------------
(* What a device holds and what its tree says *)

LEMMA MovesHeld ==
  ASSUME TypeOK, NEW r \in Replica
  PROVE  /\ MovesAt(r) \subseteq AllMoves
         /\ IsFiniteSet(MovesAt(r))
         /\ Range(moves[r]) \subseteq MovesAt(r)
         /\ \A o \in AllMoves : \E s \in Replica : o \in MoveOp(s) /\ o \in Range(moves[s])
<1> DEFINE part(s) == {moves[s][i] : i \in 1 .. got[r][s]["moves"]}
<1>1. ASSUME NEW s \in Replica
      PROVE  /\ DOMAIN moves[s] = 1 .. Len(moves[s]) /\ Len(moves[s]) \in Nat
             /\ \A i \in 1 .. Len(moves[s]) : moves[s][i] \in MoveOp(s)
             /\ got[r][s]["moves"] \in Nat /\ got[r][s]["moves"] <= Len(moves[s])
             /\ part(s) \subseteq Range(moves[s])
             /\ IsFiniteSet(part(s))
  <2>1. moves[s] \in Seq(MoveOp(s))
    BY DEF TypeOK, LogsOk
  <2>2. got[r][s]["moves"] \in Nat /\ got[r][s]["moves"] <= Len(moves[s])
    BY DEF TypeOK, GotOk, Log
  <2>3. IsFiniteSet(1 .. got[r][s]["moves"])
    <3>1. 1 \in Int /\ got[r][s]["moves"] \in Int
      BY <2>2
    <3>2. QED BY <3>1, FS_Interval
  <2>4. IsFiniteSet(part(s))
    BY <2>3, ImageFinite
  <2>5. DOMAIN moves[s] = 1 .. Len(moves[s]) /\ Len(moves[s]) \in Nat
    BY <2>1
  <2>6. \A i \in 1 .. got[r][s]["moves"] : i \in DOMAIN moves[s]
    BY <2>2, <2>5
  <2>7. part(s) \subseteq Range(moves[s])
    BY <2>6 DEF Range
  <2>8. QED BY <2>1, <2>2, <2>4, <2>5, <2>7
<1>2. MovesAt(r) = UNION {part(s) : s \in Replica}
  BY DEF MovesAt, Held
<1>3. MovesAt(r) \subseteq AllMoves
  BY <1>1, <1>2 DEF AllMoves
<1>4. IsFiniteSet(MovesAt(r))
  <2> DEFINE f == [s \in Replica |-> part(s)]
  <2>1. \A s \in Replica : f[s] = part(s) /\ IsFiniteSet(f[s])
    BY <1>1
  <2>2. MovesAt(r) = UNION {f[s] : s \in Replica}
    BY <1>2, <2>1
  <2>3. IsFiniteSet(UNION {f[s] : s \in Replica})
    <3> HIDE DEF f
    <3>1. \A s \in Replica : IsFiniteSet(f[s])
      BY <2>1
    <3>2. IsFiniteSet(Replica)
      BY ReplicaAssumption
    <3>3. QED BY ONLY <3>1, <3>2, UnionFinite
  <2>4. QED BY <2>2, <2>3
<1>5. Range(moves[r]) \subseteq MovesAt(r)
  <2>1. Range(moves[r]) = part(r)
    <3>1. got[r][r]["moves"] = Len(moves[r])
      BY DEF TypeOK, GotOk
    <3>2. QED BY <1>1, <3>1 DEF Range
  <2>2. QED BY <1>2, <2>1
<1>6. \A o \in AllMoves : \E s \in Replica : o \in MoveOp(s) /\ o \in Range(moves[s])
  <2> SUFFICES ASSUME NEW s \in Replica, NEW o \in Range(moves[s])
               PROVE  o \in MoveOp(s)
    BY DEF AllMoves
  <2>1. PICK i \in DOMAIN moves[s] : o = moves[s][i]
    BY DEF Range
  <2>2. QED BY <1>1, <2>1
<1>7. QED BY <1>3, <1>4, <1>5, <1>6

LEMMA AllMovesOk ==
  ASSUME TypeOK
  PROVE  MovesOk(AllMoves)
<1> SUFFICES ASSUME NEW o \in AllMoves
             PROVE  /\ o.ts = [lamport |-> o.ts.lamport, replica |-> o.ts.replica]
                    /\ o.ts.lamport \in Nat /\ o.ts.replica \in Nat
                    /\ NewEdge(o) # Nil
  BY DEF MovesOk
<1>1. PICK s \in Replica : o \in MoveOp(s)
  <2>1. Replica # {}
    BY DEF AllMoves
  <2>2. QED BY <2>1, MovesHeld
<1>2. o.ts \in [lamport : Nat, replica : {s}] /\ s \in Nat
  BY <1>1, ReplicaAssumption DEF MoveOp
<1>3. NewEdge(o) \in [parent : Place, name : Name, kind : Kind]
  BY <1>1 DEF MoveOp, NewEdge
<1>4. QED BY <1>2, <1>3, NilAssumption

LEMMA NewestOfHeld ==
  ASSUME TypeOK, NEW r \in Replica
  PROVE  /\ Newest(MovesAt(r)) \in Nat
         /\ \A o \in Range(moves[r]) : o.ts.lamport <= Newest(MovesAt(r))
<1> DEFINE f == [o \in MovesAt(r) |-> o.ts.lamport]
           T == {f[o] : o \in MovesAt(r)}
<1>1. IsFiniteSet(T)
  <2>1. IsFiniteSet(MovesAt(r))
    BY MovesHeld
  <2> HIDE DEF f
  <2>2. QED BY <2>1, ImageFinite
<1>2. T = {o.ts.lamport : o \in MovesAt(r)}
  OBVIOUS
<1>3. IsFiniteSet({0} \cup T)
  BY <1>1, FS_Singleton, FS_Union
<1>4. \A o \in MovesAt(r) : o.ts.lamport \in Nat
  BY MovesHeld, AllMovesOk DEF MovesOk
<1> HIDE DEF T
<1>5. Newest(MovesAt(r)) \in Nat /\ \A o \in MovesAt(r) : o.ts.lamport <= Newest(MovesAt(r))
  BY <1>2, <1>3, <1>4, NewestIsUpper
<1>6. QED BY <1>5, MovesHeld

\* A device's tree is replayed from moves that were sent.
LEMMA TreeReplayed ==
  ASSUME TypeOK, NEW r \in Replica
  PROVE  Replayed(TreeAt(r), AllMoves)
<1> DEFINE ops == MovesAt(r)
           t   == TreeAt(r)
<1>1. MovesOk(AllMoves) /\ ops \subseteq AllMoves
  BY AllMovesOk, MovesHeld
<1>2. \A o \in ops : /\ o.ts = [lamport |-> o.ts.lamport, replica |-> o.ts.replica]
                     /\ o.ts.lamport \in Nat /\ o.ts.replica \in Nat
  BY <1>1 DEF MovesOk
<1>3. IsFiniteSet({o.ts : o \in ops})
  <2> DEFINE f == [o \in ops |-> o.ts]
  <2>1. IsFiniteSet({f[o] : o \in ops})
    <3> HIDE DEF f
    <3>1. QED BY MovesHeld, ImageFinite
  <2>2. {f[o] : o \in ops} = {o.ts : o \in ops}
    OBVIOUS
  <2>3. QED BY <2>1, <2>2
<1> HIDE DEF ops
<1> DEFINE q == InOrder(ops)
<1>4. Len(q) \in Nat /\ \A i \in 1 .. Len(q) : q[i] \in ops
  BY <1>2, <1>3, InOrderOps
<1>5. t = ReplayMoves(q)
  BY DEF TreeAt, ops
<1> HIDE DEF q, t
<1>6. \A i \in 1 .. Len(q) : q[i] \in AllMoves
  BY <1>1, <1>4
<1>7. Replayed(t, AllMoves)
  BY <1>1, <1>4, <1>5, <1>6, ReplayMovesReplayed
<1>8. QED BY <1>7 DEF t

\* Every node of a device's tree is one that some device has moved, and has the kind
\* of such a move.
LEMMA TreeKnows ==
  ASSUME TypeOK, NEW r \in Replica, NEW n \in DOMAIN TreeAt(r).edges
  PROVE  /\ n \in NodeId
         /\ TreeAt(r).edges[n].name \in Name
         /\ TreeAt(r).edges[n].kind \in Kind
         /\ Known(n, TreeAt(r).edges[n].kind)
<1> DEFINE t == TreeAt(r)
<1>6. Replayed(t, AllMoves)
  BY TreeReplayed
<1> HIDE DEF t
<1>7. PICK i \in 1 .. Len(t.log) : t.log[i].op.child = n /\ t.edges[n] = NewEdge(t.log[i].op)
  BY <1>6, EdgesOfMoves DEF Replayed, t
<1> DEFINE o == t.log[i].op
<1>8. o \in AllMoves
  BY <1>6, BuiltLog DEF Replayed
<1> HIDE DEF o
<1>9. PICK s \in Replica : o \in MoveOp(s)
  BY <1>8, MovesHeld
<1>10. /\ o.child \in NodeId /\ o.new_name \in Name /\ o.kind \in Kind
  BY <1>9 DEF MoveOp
<1>11. t.edges[n].name = o.new_name /\ t.edges[n].kind = o.kind /\ o.child = n
  BY <1>7 DEF NewEdge, o
<1>12. QED BY <1>8, <1>10, <1>11 DEF Known, t

\* Some id is the least of any nonempty set of ids.
LEMMA LeastId ==
  ASSUME NEW S \in SUBSET NodeId, S # {}
  PROVE  \E n \in S : \A m \in S \ {n} : LexLess(n, m)
<1>1. \A n \in S : /\ n = <<n[1], n[2], n[3]>> /\ Len(n) = 3
                   /\ n[1] \in Nat /\ n[2] \in Nat /\ n[3] \in Nat
  <2> SUFFICES ASSUME NEW n \in S
               PROVE  /\ n = <<n[1], n[2], n[3]>> /\ Len(n) = 3
                      /\ n[1] \in Nat /\ n[2] \in Nat /\ n[3] \in Nat
    OBVIOUS
  <2>1. PICK a \in Nat, b \in Replica, c \in Nat : n = <<a, b, c>>
    BY DEF NodeId
  <2>2. \A x, y, z : Len(<<x, y, z>>) = 3
    OBVIOUS
  <2>3. b \in Nat
    BY ReplicaAssumption
  <2>4. QED BY <2>1, <2>2, <2>3
<1> DEFINE A == {n[1] : n \in S}
<1>2. PICK a \in A : \A b \in A : a <= b
  <2>1. A \in SUBSET Nat /\ A # {}
    BY <1>1
  <2> HIDE DEF A
  <2>2. QED BY <2>1, LeastNat
<1> DEFINE B == {n[2] : n \in {m \in S : m[1] = a}}
<1>3. PICK b \in B : \A c \in B : b <= c
  <2>1. B \in SUBSET Nat /\ B # {}
    BY <1>1, <1>2
  <2> HIDE DEF B
  <2>2. QED BY <2>1, LeastNat
<1> DEFINE C == {n[3] : n \in {m \in S : m[1] = a /\ m[2] = b}}
<1>4. PICK c \in C : \A d \in C : c <= d
  <2>1. C \in SUBSET Nat /\ C # {}
    BY <1>1, <1>3
  <2> HIDE DEF C
  <2>2. QED BY <2>1, LeastNat
<1>5. PICK n \in S : n[1] = a /\ n[2] = b /\ n[3] = c
  BY <1>4
<1>6. ASSUME NEW m \in S \ {n} PROVE LexLess(n, m)
  <2>1. /\ a \in Nat /\ b \in Nat /\ c \in Nat /\ Len(n) = 3 /\ Len(m) = 3
        /\ m[1] \in Nat /\ m[2] \in Nat /\ m[3] \in Nat
    BY <1>1, <1>5
  <2>2. CASE m[1] # a
    <3>1. n[1] < m[1]
      BY <1>2, <1>5, <2>1, <2>2
    <3>2. \A i \in 1 .. 1 - 1 : i <= Len(n) /\ n[i] = m[i]
      OBVIOUS
    <3>3. QED BY <2>1, <3>1, <3>2 DEF LexLess
  <2>3. CASE m[1] = a /\ m[2] # b
    <3>1. n[2] < m[2]
      <4>1. m[2] \in B
        BY <2>3
      <4>2. b <= m[2]
        BY <1>3, <4>1
      <4>3. QED BY <1>5, <2>1, <2>3, <4>2
    <3>2. \A i \in 1 .. 2 - 1 : i <= Len(n) /\ n[i] = m[i]
      BY <1>5, <2>1, <2>3
    <3>3. QED BY <2>1, <3>1, <3>2 DEF LexLess
  <2>4. CASE m[1] = a /\ m[2] = b
    <3>1. c <= m[3]
      <4>1. m[3] \in C
        BY <2>4
      <4>2. QED BY <1>4, <4>1
    <3>2. m[3] # c
      BY <1>1, <1>5, <1>6, <2>4
    <3>3. n[3] < m[3]
      BY <1>5, <2>1, <3>1, <3>2
    <3>4. \A i \in 1 .. 3 - 1 : i <= Len(n) /\ n[i] = m[i]
      BY <1>5, <2>1, <2>4
    <3>5. QED BY <2>1, <3>3, <3>4 DEF LexLess
  <2>5. QED BY <2>2, <2>3, <2>4
<1>7. QED BY <1>6

\* child_named finds a node of the device's tree.
LEMMA NamesakeKnown ==
  ASSUME TypeOK, NEW r \in Replica, NEW parent, NEW name,
         Namesakes(TreeAt(r), parent, name) # {}
  PROVE  Named(ChildNamed(TreeAt(r), parent, name))
<1> DEFINE t == TreeAt(r)
           S == Namesakes(t, parent, name)
<1>1. t.children = IndexOf(t.edges)
  BY TreeReplayed DEF Replayed, Built, BuildsUp, TreeOk
<1>2. S \subseteq DOMAIN t.edges
  <2> HIDE DEF t
  <2>1. \A x \in t.children : x[3] \in DOMAIN t.edges
    BY <1>1 DEF IndexOf
  <2>2. QED BY <2>1 DEF Namesakes, ChildrenOf
<1>3. \A n \in S : n \in NodeId /\ Named(n)
  <2>1. \A n \in DOMAIN t.edges : n \in NodeId /\ Known(n, t.edges[n].kind)
    BY TreeKnows
  <2> HIDE DEF t
  <2>2. QED BY <1>2, <2>1 DEF Known, Named
<1> HIDE DEF t
<1>4. ChildNamed(t, parent, name) = CHOOSE n \in S : \A m \in S \ {n} : LexLess(n, m)
  BY DEF ChildNamed
<1> HIDE DEF S
<1>5. S \in SUBSET NodeId /\ S # {}
  BY <1>3 DEF S, t
<1>6. \E n \in S : \A m \in S \ {n} : LexLess(n, m)
  BY <1>5, LeastId
<1>7. ChildNamed(t, parent, name) \in S
  BY <1>4, <1>6
<1>8. QED BY <1>3, <1>7 DEF t

-----------------------------------------------------------------------------
(* What a task is at, and what it is at next *)

\* The states of a task exclude one another.
LEMMA TaskStates ==
  ASSUME NEW r, NEW j, JobOk(j, r)
  PROVE  /\ j.pc \in {"idle", "look"} <=> Free(j)
         /\ j.pc = "stamp" <=> WillMove(j) \/ WillCreate(j) \/ WillSave(j)
         /\ j.pc = "send" <=> Moving(j, r) \/ Creating(j, r) \/ Saving(j, r)
         /\ WillMove(j) \/ WillCreate(j) => "new_parent" \in DOMAIN j.todo[1]
         /\ WillSave(j) => "new_parent" \notin DOMAIN j.todo[1]
         /\ Moving(j, r) \/ Creating(j, r) => "child" \in DOMAIN j.op
         /\ Saving(j, r) => "child" \notin DOMAIN j.op /\ ~j.fresh
         /\ j.pc = "send" => j.op.ts \in [lamport : Nat, replica : {r}]
<1>1. \A x \in Intent : "new_parent" \in DOMAIN x
  BY DEF Intent
<1>2. \A x : IsSave(x) => "new_parent" \notin DOMAIN x
  BY DEF IsSave
<1>3. \A x \in MoveOp(r) : "child" \in DOMAIN x /\ x.ts \in [lamport : Nat, replica : {r}]
  BY DEF MoveOp
<1>4. QED
  BY <1>1, <1>2, <1>3
  DEF JobOk, Free, WillMove, WillCreate, WillSave, Moving, Creating, Saving

\* What the operations of the code intend, given what the device's tree says.
GoodPlan(todo) ==
    \/ \E p \in Place, name \in Name : todo = <<MoveIntent(Nil, p, name, "dir")>>
    \/ \E p \in Place, name \in Name : \E cid, at :
           todo = <<MoveIntent(Nil, p, name, "file"), SetOp(Nil, cid, at)>>
    \/ \E id, cid, at : Named(id) /\ todo = <<SetOp(id, cid, at)>>
    \/ \E n \in NodeId, p \in Place, name \in Name, kind \in Kind :
           Known(n, kind) /\ todo = <<MoveIntent(n, p, name, kind)>>

LEMMA PlanIsOk ==
  ASSUME NEW r, NEW todo, GoodPlan(todo)
  PROVE  /\ JobOk(Planned(todo), r)
         /\ Planned(todo).pc = "stamp" /\ Planned(todo).todo = todo
         /\ WillMove(Planned(todo)) /\ todo[1].child # Nil => Known(todo[1].child, todo[1].kind)
         /\ WillSave(Planned(todo)) => Named(todo[1].id)
<1>1. Planned(todo) = [pc |-> "stamp", todo |-> todo, op |-> Nil, fresh |-> FALSE]
  BY DEF Planned
<1>2. CASE \E p \in Place, name \in Name : todo = <<MoveIntent(Nil, p, name, "dir")>>
  <2>1. PICK p \in Place, name \in Name : todo = <<MoveIntent(Nil, p, name, "dir")>>
    BY <1>2
  <2>2. MoveIntent(Nil, p, name, "dir") \in Intent
    BY DEF MoveIntent, Intent, Kind
  <2>3. todo[1].child = Nil /\ todo[1].kind = "dir"
    BY <2>1 DEF MoveIntent
  <2>4. todo[1] \in Intent /\ todo = <<todo[1]>> /\ Len(todo) = 1
    BY <2>1, <2>2
  <2>5. ~WillSave(Planned(todo))
    BY <1>1, <2>1 DEF WillSave, IsSave, MoveIntent
  <2>6. QED BY <1>1, <2>3, <2>4, <2>5 DEF JobOk, WillMove
<1>3. CASE \E p \in Place, name \in Name : \E cid, at :
               todo = <<MoveIntent(Nil, p, name, "file"), SetOp(Nil, cid, at)>>
  <2>0. PICK p \in Place, name \in Name : \E cid, at :
               todo = <<MoveIntent(Nil, p, name, "file"), SetOp(Nil, cid, at)>>
    BY <1>3
  <2>1. PICK cid, at : todo = <<MoveIntent(Nil, p, name, "file"), SetOp(Nil, cid, at)>>
    BY <2>0
  <2>2. MoveIntent(Nil, p, name, "file") \in Intent
    BY DEF MoveIntent, Intent, Kind
  <2>3. todo[1].child = Nil
    BY <2>1 DEF MoveIntent
  <2>4. todo[1] \in Intent /\ todo = <<todo[1], todo[2]>> /\ Len(todo) = 2
    BY <2>1, <2>2
  <2>5. IsSave(todo[2]) /\ todo[2].id = Nil
    BY <2>1 DEF IsSave, SetOp
  <2>6. ~WillSave(Planned(todo))
    BY <1>1, <2>4 DEF WillSave
  <2>7. QED BY <1>1, <2>3, <2>4, <2>5, <2>6 DEF JobOk, WillCreate
<1>4. CASE \E id, cid, at : Named(id) /\ todo = <<SetOp(id, cid, at)>>
  <2>1. PICK id, cid, at : Named(id) /\ todo = <<SetOp(id, cid, at)>>
    BY <1>4
  <2>2. IsSave(todo[1]) /\ todo = <<todo[1]>> /\ Len(todo) = 1
    BY <2>1 DEF IsSave, SetOp
  <2>3. "new_parent" \notin DOMAIN todo[1]
    BY <2>2 DEF IsSave
  <2>4. JobOk(Planned(todo), r)
    BY <1>1, <2>2 DEF JobOk, WillSave
  <2>5. ~WillMove(Planned(todo))
    BY <1>1, <2>3 DEF WillMove, Intent
  <2>6. Named(todo[1].id)
    BY <2>1 DEF SetOp
  <2>7. QED BY <1>1, <2>4, <2>5, <2>6
<1>5. CASE \E n \in NodeId, p \in Place, name \in Name, kind \in Kind :
               Known(n, kind) /\ todo = <<MoveIntent(n, p, name, kind)>>
  <2>1. PICK n \in NodeId, p \in Place, name \in Name, kind \in Kind :
               Known(n, kind) /\ todo = <<MoveIntent(n, p, name, kind)>>
    BY <1>5
  <2>2. MoveIntent(n, p, name, kind) \in Intent
    BY DEF MoveIntent, Intent
  <2>3. todo[1].child = n /\ todo[1].kind = kind /\ n # Nil
    BY <2>1, NilAssumption DEF MoveIntent
  <2>4. todo[1] \in Intent /\ todo = <<todo[1]>> /\ Len(todo) = 1
    BY <2>1, <2>2
  <2>5. ~WillSave(Planned(todo))
    BY <1>1, <2>1 DEF WillSave, IsSave, MoveIntent
  <2>6. QED BY <1>1, <2>1, <2>3, <2>4, <2>5 DEF JobOk, WillMove
<1>6. QED BY <1>2, <1>3, <1>4, <1>5 DEF GoodPlan

\* Mkdir, AddFile, AddVersion, Mv and Rm plan well.
LEMMA LookingPlans ==
  ASSUME TypeOK, NEW r \in Replica, NEW k \in Task[r],
         Looking(r, k, TreeAt(r), DOMAIN TreeAt(r).edges \cup {ROOT})
  PROVE  \E todo : GoodPlan(todo) /\ Found(r, k, todo)
<1> DEFINE t == TreeAt(r)
           nodes == DOMAIN t.edges \cup {ROOT}
<1>1. \A n \in DOMAIN t.edges : /\ n \in NodeId /\ t.edges[n].name \in Name
                                /\ t.edges[n].kind \in Kind /\ Known(n, t.edges[n].kind)
  BY TreeKnows
<1>0. \A parent, name : Namesakes(t, parent, name) # {} => Named(ChildNamed(t, parent, name))
  BY NamesakeKnown
<1> HIDE DEF t
<1>2. nodes \subseteq Place /\ TRASH \in Place
  BY <1>1 DEF Place
<1>3. \A n \in Resolvable(t) \ {ROOT} : n \in DOMAIN t.edges
  BY DEF Resolvable
<1>4. CASE \E n \in nodes : Rm(r, k, t, n)
  <2>1. PICK n \in nodes : Rm(r, k, t, n)
    BY <1>4
  <2>2. n \in DOMAIN t.edges
    BY <1>3, <2>1 DEF Rm
  <2> DEFINE todo == <<MoveIntent(n, TRASH, t.edges[n].name, t.edges[n].kind)>>
  <2>3. GoodPlan(todo)
    BY <1>1, <1>2, <2>2 DEF GoodPlan
  <2>4. Found(r, k, todo)
    BY <2>1 DEF Rm
  <2>5. QED BY <2>3, <2>4
<1>5. CASE \E parent \in nodes, name \in Name :
               \/ Mkdir(r, k, t, parent, name)
               \/ \E cid \in Cid, at \in Time : AddFile(r, k, t, parent, name, cid, at)
               \/ \E cid \in Cid, at \in Time : AddVersion(r, k, t, parent, name, cid, at)
               \/ \E n \in nodes : Mv(r, k, t, n, parent, name)
  <2>1. PICK parent \in nodes, name \in Name :
               \/ Mkdir(r, k, t, parent, name)
               \/ \E cid \in Cid, at \in Time : AddFile(r, k, t, parent, name, cid, at)
               \/ \E cid \in Cid, at \in Time : AddVersion(r, k, t, parent, name, cid, at)
               \/ \E n \in nodes : Mv(r, k, t, n, parent, name)
    BY <1>5
  <2>2. parent \in Place
    BY <1>2, <2>1
  <2>3. CASE Mkdir(r, k, t, parent, name)
    <3>1. GoodPlan(<<MoveIntent(Nil, parent, name, "dir")>>)
      BY <2>2 DEF GoodPlan
    <3>2. QED BY <2>3, <3>1 DEF Mkdir
  <2>4. CASE \E cid \in Cid, at \in Time : AddFile(r, k, t, parent, name, cid, at)
    <3>1. PICK cid \in Cid, at \in Time : AddFile(r, k, t, parent, name, cid, at)
      BY <2>4
    <3>2. GoodPlan(<<MoveIntent(Nil, parent, name, "file"), SetOp(Nil, cid, at)>>)
      BY <2>2 DEF GoodPlan
    <3>3. QED BY <3>1, <3>2 DEF AddFile
  <2>5. CASE \E cid \in Cid, at \in Time : AddVersion(r, k, t, parent, name, cid, at)
    <3>1. PICK cid \in Cid, at \in Time : AddVersion(r, k, t, parent, name, cid, at)
      BY <2>5
    <3>2. GoodPlan(<<SetOp(ChildNamed(t, parent, name), cid, at)>>)
      BY <1>0, <3>1 DEF GoodPlan, AddVersion
    <3>3. QED BY <3>1, <3>2 DEF AddVersion
  <2>6. CASE \E n \in nodes : Mv(r, k, t, n, parent, name)
    <3>1. PICK n \in nodes : Mv(r, k, t, n, parent, name)
      BY <2>6
    <3>2. n \in DOMAIN t.edges
      BY <1>3, <3>1 DEF Mv
    <3>3. GoodPlan(<<MoveIntent(n, parent, name, t.edges[n].kind)>>)
      BY <1>1, <2>2, <3>2 DEF GoodPlan
    <3>4. QED BY <3>1, <3>3 DEF Mv
  <2>7. QED BY <2>1, <2>3, <2>4, <2>5, <2>6
<1>6. QED BY <1>4, <1>5 DEF Looking, t

-----------------------------------------------------------------------------
(* The invariant holds at first, and every action keeps it. *)

LEMMA InitInv == Init => IInv
<1> SUFFICES ASSUME Init PROVE IInv
  OBVIOUS
<1>1. /\ moves = [r \in Replica |-> <<>>] /\ edits = [r \in Replica |-> <<>>]
      /\ job = [r \in Replica |-> [k \in Task[r] |-> Idle]]
  BY DEF Init
<1>2. /\ \A r \in Replica : moves[r] = <<>> /\ Range(moves[r]) = {} /\ Len(moves[r]) = 0
      /\ \A r \in Replica : edits[r] = <<>> /\ Range(edits[r]) = {}
      /\ AllMoves = {} /\ AllEdits = {}
  BY <1>1 DEF Range, AllMoves, AllEdits
<1>3. /\ Idle.pc = "idle" /\ Idle.todo = <<>> /\ Idle.op = Nil /\ Idle.fresh = FALSE
      /\ Idle = [pc |-> Idle.pc, todo |-> Idle.todo, op |-> Idle.op, fresh |-> Idle.fresh]
  BY DEF Idle
<1>4. \A r \in Replica : \A k \in Task[r] :
          job[r][k].pc = "idle" /\ JobOk(job[r][k], r) /\ Free(job[r][k])
  BY <1>1, <1>3 DEF JobOk, Free
<1>5. TypeOK
  <2>1. LogsOk
    <3>1. \A S : <<>> \in Seq(S)
      OBVIOUS
    <3>2. QED BY <1>1, <1>2, <3>1 DEF LogsOk
  <2>2. GotOk
    <3>1. /\ got \in [Replica -> [Replica -> [Log -> Nat]]]
          /\ \A r, s \in Replica : got[r][s]["moves"] = 0
      BY DEF Init, Log
    <3>2. QED BY <1>2, <3>1 DEF GotOk
  <2>3. JobsOk
    BY <1>1, <1>4 DEF JobsOk
  <2>4. CountersOk
    BY DEF Init, CountersOk
  <2>5. QED BY <2>1, <2>2, <2>3, <2>4 DEF TypeOK
<1>6. CaughtUp /\ StampsPast /\ StampsApart /\ StampsNew /\ FreshNamed
  BY <1>2, <1>4 DEF CaughtUp, StampsPast, StampsApart, StampsNew, FreshNamed
<1>7. MoveKeysUnique /\ ChildrenCreated
  BY <1>2 DEF MoveKeysUnique, ChildrenCreated
<1>8. MovedKnown
  <2>1. \A r \in Replica : \A k \in Task[r] : ~WillMove(job[r][k]) /\ ~Moving(job[r][k], r)
    BY <1>4 DEF WillMove, Moving
  <2>2. QED BY <2>1 DEF MovedKnown
<1>9. SavesNamed
  <2>1. \A r \in Replica : \A k \in Task[r] : ~WillSave(job[r][k]) /\ ~Saving(job[r][k], r)
    BY <1>4 DEF WillSave, Saving
  <2>2. QED BY <1>2, <2>1 DEF SavesNamed
<1>10. QED BY <1>5, <1>6, <1>7, <1>8, <1>9 DEF IInv

\* Of all tasks, task k of r has changed, to x.
JobBecomes(r, k, x) ==
    /\ job' = [q \in Replica |-> [l \in Task[q] |-> job'[q][l]]]
    /\ job'[r][k] = x
    /\ \A q \in Replica : \A l \in Task[q] :
           ~(q = r /\ l = k) => job'[q][l] = job[q][l]

LEMMA JobSet ==
  ASSUME TypeOK, NEW r \in Replica, NEW k \in Task[r]
  PROVE  \A x : job' = [job EXCEPT ![r][k] = x] => JobBecomes(r, k, x)
<1> SUFFICES ASSUME NEW x, job' = [job EXCEPT ![r][k] = x] PROVE JobBecomes(r, k, x)
  OBVIOUS
<1>1. job = [q \in Replica |-> [l \in Task[q] |-> job[q][l]]]
  BY DEF TypeOK, JobsOk
<1>2. job' = [q \in Replica |-> IF q = r THEN [job[r] EXCEPT ![k] = x] ELSE job[q]]
  BY <1>1
<1>3. \A q \in Replica : job[q] = [l \in Task[q] |-> job[q][l]]
  BY <1>1
<1>4. job'[r] = [job[r] EXCEPT ![k] = x] /\ \A q \in Replica : q # r => job'[q] = job[q]
  BY <1>2
<1>5. job'[r] = [l \in Task[r] |-> IF l = k THEN x ELSE job[r][l]]
  BY <1>3, <1>4
<1>6. \A q \in Replica : job'[q] = [l \in Task[q] |-> job'[q][l]]
  BY <1>3, <1>4, <1>5
<1>7. job' = [q \in Replica |-> job'[q]]
  BY <1>2
<1>8. QED BY <1>4, <1>5, <1>6, <1>7 DEF JobBecomes

\* What the tasks that go on as they were know, and are still to save.
LEMMA TasksKnow ==
  ASSUME MovedKnown, moves' = moves,
         \A q \in Replica : \A l \in Task[q] :
            job'[q][l] = job[q][l] \/ (~WillMove(job'[q][l]) /\ ~Moving(job'[q][l], q))
  PROVE  MovedKnown'
<1> SUFFICES ASSUME NEW q \in Replica, NEW l \in Task[q]
             PROVE  LET j == job'[q][l] IN
                    /\ WillMove(j) /\ j.todo[1].child # Nil
                           => Known(j.todo[1].child, j.todo[1].kind)
                    /\ Moving(j, q) /\ ~j.fresh => Known(j.op.child, j.op.kind)
  BY DEF MovedKnown, Known, AllMoves
<1>1. CASE job'[q][l] = job[q][l]
  BY <1>1 DEF MovedKnown
<1>2. CASE ~WillMove(job'[q][l]) /\ ~Moving(job'[q][l], q)
  BY <1>2
<1>3. QED BY <1>1, <1>2

\* Moves are never taken back: what is saved stays named.
LEMMA SavesStayNamed ==
  ASSUME SavesNamed, AllMoves \subseteq AllMoves',
         \A e \in AllEdits' : e \in AllEdits \/ \E o \in AllMoves' : o.child = e.op.id,
         \A q \in Replica : \A l \in Task[q] :
            \/ job'[q][l] = job[q][l]
            \/ /\ WillSave(job'[q][l]) => \E o \in AllMoves' : o.child = job'[q][l].todo[1].id
               /\ Saving(job'[q][l], q) => \E o \in AllMoves' : o.child = job'[q][l].op.op.id
  PROVE  SavesNamed'
<1>1. \A n : Named(n) => \E o \in AllMoves' : o.child = n
  BY DEF Named
<1>2. \A e \in AllEdits' : \E o \in AllMoves' : o.child = e.op.id
  BY <1>1 DEF SavesNamed
<1>3. ASSUME NEW q \in Replica, NEW l \in Task[q]
      PROVE  /\ WillSave(job'[q][l]) => \E o \in AllMoves' : o.child = job'[q][l].todo[1].id
             /\ Saving(job'[q][l], q) => \E o \in AllMoves' : o.child = job'[q][l].op.op.id
  <2>1. CASE job'[q][l] = job[q][l]
    BY <1>1, <2>1 DEF SavesNamed
  <2>2. QED BY <2>1
<1>4. QED BY <1>2, <1>3 DEF SavesNamed, Named

\* The same where no log changes, and a task that changes has nothing to save.
LEMMA NothingToSave ==
  ASSUME SavesNamed, moves' = moves, edits' = edits,
         \A q \in Replica : \A l \in Task[q] :
            \/ job'[q][l] = job[q][l]
            \/ ~WillSave(job'[q][l]) /\ ~Saving(job'[q][l], q)
  PROVE  SavesNamed'
<1>1. AllMoves' = AllMoves /\ AllEdits' = AllEdits
  BY DEF AllMoves, AllEdits
<1>2. QED BY <1>1, SavesStayNamed

LEMMA EnterKeeps ==
  ASSUME IInv, NEW r \in Replica, NEW k \in Task[r], Enter(r, k)
  PROVE  IInv'
<1> DEFINE new == MaxNat(clock[r], Newest(MovesAt(r)))
           x == [job[r][k] EXCEPT !.pc = "look"]
<1>1. /\ job[r][k].pc = "idle" /\ job' = [job EXCEPT ![r][k].pc = "look"]
      /\ clock' = [clock EXCEPT ![r] = new]
      /\ moves' = moves /\ edits' = edits /\ got' = got /\ ctr' = ctr /\ restarts' = restarts
  BY DEF Enter
<1>2. TypeOK
  BY DEF IInv
<1>3. job' = [job EXCEPT ![r][k] = x]
  BY <1>1
<1>4. Newest(MovesAt(r)) \in Nat /\ \A o \in Range(moves[r]) : o.ts.lamport <= Newest(MovesAt(r))
  BY <1>2, NewestOfHeld
<1>5. clock \in [Replica -> Nat] /\ JobOk(job[r][k], r)
  BY <1>2 DEF TypeOK, CountersOk, JobsOk
<1>6. new \in Nat /\ clock[r] <= new /\ Newest(MovesAt(r)) <= new
  BY <1>4, <1>5 DEF MaxNat
<1> HIDE DEF new
<1>7. /\ clock' \in [Replica -> Nat] /\ clock'[r] = new
      /\ \A q \in Replica : clock[q] <= clock'[q] /\ clock[q] \in Nat /\ clock'[q] \in Nat
  BY <1>1, <1>5, <1>6
<1>8. x.pc = "look" /\ JobOk(x, r) /\ Free(x)
  <2>1. Free(job[r][k])
    BY <1>1, <1>5, TaskStates
  <2>2. x = [pc |-> "look", todo |-> job[r][k].todo, op |-> job[r][k].op,
             fresh |-> job[r][k].fresh]
    BY <1>5 DEF JobOk
  <2> HIDE DEF x
  <2>3. QED BY <1>5, <2>1, <2>2 DEF JobOk, Free
<1> HIDE DEF x
<1>9. /\ job' = [q \in Replica |-> [l \in Task[q] |-> job'[q][l]]]
      /\ job'[r][k] = x
      /\ \A q \in Replica : \A l \in Task[q] :
             ~(q = r /\ l = k) => job'[q][l] = job[q][l]
  <2>1. JobBecomes(r, k, x)
    BY <1>2, <1>3, JobSet
  <2>2. QED BY <2>1 DEF JobBecomes
<1>10. TypeOK'
  <2>1. JobsOk'
    BY <1>2, <1>8, <1>9 DEF TypeOK, JobsOk
  <2>2. LogsOk' /\ GotOk' /\ CountersOk'
    BY <1>1, <1>2, <1>7 DEF TypeOK, LogsOk, GotOk, CountersOk
  <2>3. QED BY <2>1, <2>2 DEF TypeOK
<1>11. CaughtUp'
  <2> SUFFICES ASSUME NEW q \in Replica, NEW l \in Task[q], OnMoves(job'[q][l]),
                      NEW o \in Range(moves[q])
               PROVE  o.ts.lamport <= clock'[q]
    BY <1>1 DEF CaughtUp
  <2>0. o.ts.lamport \in Nat
    BY <1>2, MovesHeld, AllMovesOk DEF MovesOk
  <2>1. CASE q = r /\ l = k
    BY <1>4, <1>6, <1>7, <2>0, <2>1
  <2>2. CASE ~(q = r /\ l = k)
    <3>1. o.ts.lamport <= clock[q]
      BY <1>9, <2>2 DEF IInv, CaughtUp
    <3>2. QED BY <1>7, <2>0, <3>1
  <2>3. QED BY <2>1, <2>2
<1>12. StampsPast'
  <2> SUFFICES ASSUME NEW q \in Replica, NEW l \in Task[q], job'[q][l].pc = "send"
               PROVE  job'[q][l].op.ts.lamport <= clock'[q]
    BY DEF StampsPast
  <2>1. job'[q][l] = job[q][l]
    BY <1>8, <1>9
  <2>2. job[q][l].op.ts.lamport <= clock[q]
    BY <2>1 DEF IInv, StampsPast
  <2>3. job[q][l].op.ts.lamport \in Nat
    BY <1>2, <2>1, TaskStates DEF TypeOK, JobsOk
  <2>4. QED BY <1>7, <2>1, <2>2, <2>3
<1>13. StampsApart' /\ StampsNew' /\ FreshNamed'
  <2>1. \A q \in Replica : \A l \in Task[q] :
           job'[q][l].pc = "send" => job'[q][l] = job[q][l]
    BY <1>8, <1>9
  <2>2. StampsApart' /\ FreshNamed'
    BY <2>1 DEF IInv, StampsApart, FreshNamed
  <2>3. StampsNew'
    BY <1>1, <2>1 DEF IInv, StampsNew
  <2>4. QED BY <2>2, <2>3
<1>14. MoveKeysUnique' /\ ChildrenCreated'
  BY <1>1 DEF IInv, MoveKeysUnique, ChildrenCreated, Created, AllMoves
<1>15. ~WillMove(x) /\ ~Moving(x, r) /\ ~WillSave(x) /\ ~Creating(x, r) /\ ~Saving(x, r)
  BY <1>8 DEF WillMove, Moving, WillSave, Creating, Saving
<1>17. MovedKnown'
  <2>1. \A q \in Replica : \A l \in Task[q] :
           job'[q][l] = job[q][l] \/ (~WillMove(job'[q][l]) /\ ~Moving(job'[q][l], q))
    BY <1>9, <1>15
  <2>2. QED BY <1>1, <2>1, TasksKnow DEF IInv
<1>18. SavesNamed'
  <2>1. \A q \in Replica : \A l \in Task[q] :
           job'[q][l] = job[q][l] \/ (~WillSave(job'[q][l]) /\ ~Saving(job'[q][l], q))
    BY <1>9, <1>15
  <2>2. QED BY <1>1, <2>1, NothingToSave DEF IInv
<1>19. QED BY <1>10, <1>11, <1>12, <1>13, <1>14, <1>17, <1>18 DEF IInv

LEMMA IntendKeeps ==
  ASSUME IInv, NEW r \in Replica, NEW k \in Task[r], NEW todo, GoodPlan(todo),
         Intend(r, k, todo),
         job[r][k].pc = "look" \/ WillSave(Planned(todo))
  PROVE  IInv'
<1> DEFINE x == Planned(todo)
<1>1. /\ job' = [job EXCEPT ![r][k] = x]
      /\ clock' = clock /\ moves' = moves /\ edits' = edits /\ got' = got
      /\ ctr' = ctr /\ restarts' = restarts
  BY DEF Intend
<1>2. TypeOK
  BY DEF IInv
<1>3. /\ JobOk(x, r) /\ x.pc = "stamp" /\ x.todo = todo
      /\ WillMove(x) /\ todo[1].child # Nil => Known(todo[1].child, todo[1].kind)
      /\ WillSave(x) => Named(todo[1].id)
  BY PlanIsOk
<1>4. job[r][k].pc = "look" \/ ~OnMoves(x)
  BY <1>3, TaskStates DEF OnMoves
<1> HIDE DEF x
<1>5. /\ job' = [q \in Replica |-> [l \in Task[q] |-> job'[q][l]]]
      /\ job'[r][k] = x
      /\ \A q \in Replica : \A l \in Task[q] :
             ~(q = r /\ l = k) => job'[q][l] = job[q][l]
  <2>1. JobBecomes(r, k, x)
    BY <1>1, <1>2, JobSet
  <2>2. QED BY <2>1 DEF JobBecomes
<1>6. TypeOK'
  <2>1. JobsOk'
    BY <1>2, <1>3, <1>5 DEF TypeOK, JobsOk
  <2>2. LogsOk' /\ GotOk' /\ CountersOk'
    BY <1>1, <1>2 DEF TypeOK, LogsOk, GotOk, CountersOk
  <2>3. QED BY <2>1, <2>2 DEF TypeOK
<1>7. CaughtUp'
  <2> SUFFICES ASSUME NEW q \in Replica, NEW l \in Task[q], OnMoves(job'[q][l])
               PROVE  \A o \in Range(moves[q]) : o.ts.lamport <= clock[q]
    BY <1>1 DEF CaughtUp
  <2>1. OnMoves(job[q][l])
    BY <1>4, <1>5 DEF OnMoves
  <2>2. QED BY <2>1 DEF IInv, CaughtUp
<1>8. StampsPast' /\ StampsApart' /\ StampsNew' /\ FreshNamed'
  <2>1. \A q \in Replica : \A l \in Task[q] :
           job'[q][l].pc = "send" => job'[q][l] = job[q][l]
    BY <1>3, <1>5
  <2>2. StampsApart' /\ FreshNamed'
    <3>1. ASSUME NEW q \in Replica, NEW l \in Task[q], NEW m \in Task[q], l # m,
                 job'[q][l].pc = "send", job'[q][m].pc = "send"
          PROVE  job'[q][l].op.ts.lamport # job'[q][m].op.ts.lamport
      <4>1. job'[q][l] = job[q][l] /\ job'[q][m] = job[q][m]
        BY <2>1, <3>1
      <4>2. QED BY <3>1, <4>1 DEF IInv, StampsApart
    <3>2. StampsApart'
      BY <3>1 DEF StampsApart
    <3>3. FreshNamed'
      BY <2>1 DEF IInv, FreshNamed
    <3>4. QED BY <3>2, <3>3
  <2>3. StampsNew' /\ StampsPast'
    BY <1>1, <2>1 DEF IInv, StampsNew, StampsPast
  <2>4. QED BY <2>2, <2>3
<1>9. MoveKeysUnique' /\ ChildrenCreated'
  BY <1>1 DEF IInv, MoveKeysUnique, ChildrenCreated, Created, AllMoves
<1>10. ~Moving(x, r)
  BY <1>3 DEF Moving
<1>11. MovedKnown'
  <2> SUFFICES ASSUME NEW q \in Replica, NEW l \in Task[q]
               PROVE  LET j == job'[q][l] IN
                      /\ WillMove(j) /\ j.todo[1].child # Nil
                             => Known(j.todo[1].child, j.todo[1].kind)
                      /\ Moving(j, q) /\ ~j.fresh => Known(j.op.child, j.op.kind)
    BY <1>1 DEF MovedKnown, Known, AllMoves
  <2>1. CASE q = r /\ l = k
    BY <1>3, <1>5, <1>10, <2>1
  <2>2. CASE ~(q = r /\ l = k)
    BY <1>5, <2>2 DEF IInv, MovedKnown
  <2>3. QED BY <2>1, <2>2
<1>12. SavesNamed'
  <2>1. AllMoves' = AllMoves /\ AllEdits' = AllEdits
    BY <1>1 DEF AllMoves, AllEdits
  <2>2. ~Saving(x, r)
    BY <1>3 DEF Saving
  <2>3. WillSave(x) => \E o \in AllMoves' : o.child = x.todo[1].id
    BY <1>3, <2>1 DEF Named
  <2>4. \A q \in Replica : \A l \in Task[q] :
            \/ job'[q][l] = job[q][l]
            \/ /\ WillSave(job'[q][l]) => \E o \in AllMoves' : o.child = job'[q][l].todo[1].id
               /\ Saving(job'[q][l], q) => \E o \in AllMoves' : o.child = job'[q][l].op.op.id
    BY <1>5, <2>2, <2>3
  <2>5. QED BY <2>1, <2>4, SavesStayNamed DEF IInv
<1>13. QED BY <1>6, <1>7, <1>8, <1>9, <1>11, <1>12 DEF IInv

LEMMA DeliverKeeps ==
  ASSUME IInv, NEW r \in Replica, NEW s \in Replica, NEW which \in Log, Deliver(r, s, which)
  PROVE  IInv'
<1>1. /\ got' = [got EXCEPT ![r][s][which] = @ + 1]
      /\ clock' = clock /\ moves' = moves /\ edits' = edits /\ job' = job
      /\ ctr' = ctr /\ restarts' = restarts
  BY DEF Deliver
<1>2. TypeOK /\ GotOk
  BY DEF IInv, TypeOK
<1>3. GotOk'
  <2>1. got \in [Replica -> [Replica -> [Log -> Nat]]]
    BY <1>2 DEF GotOk
  <2>2. got[r][s] \in [Log -> Nat] /\ got[r][s][which] + 1 \in Nat
    BY <2>1
  <2>3. [got[r][s] EXCEPT ![which] = @ + 1] \in [Log -> Nat]
    BY <2>2
  <2> DEFINE g == [got[r][s] EXCEPT ![which] = @ + 1]
  <2>4. got' = [got EXCEPT ![r] = [got[r] EXCEPT ![s] = g]]
    BY <1>1
  <2>5. /\ g["moves"] = IF which = "moves" THEN got[r][s]["moves"] + 1 ELSE got[r][s]["moves"]
    BY <2>2 DEF Log
  <2> HIDE DEF g
  <2>6. got' \in [Replica -> [Replica -> [Log -> Nat]]]
    BY <2>1, <2>3, <2>4 DEF g
  <2>7. /\ got'[r][s] = g
        /\ \A q, p \in Replica : ~(q = r /\ p = s) => got'[q][p] = got[q][p]
    BY <2>1, <2>4
  <2>8. /\ Len(moves[s]) \in Nat /\ got[r][s]["moves"] \in Nat
        /\ got[r][s]["moves"] <= Len(moves[s])
    BY <1>2, <2>1 DEF GotOk, TypeOK, LogsOk, Log
  <2>9. g["moves"] <= Len(moves[s]) /\ (r = s => g["moves"] = Len(moves[s]))
    <3>1. CASE which = "moves"
      <4>1. got[r][s]["moves"] < Len(moves[s])
        BY <3>1 DEF Deliver
      <4>2. r # s
        BY <1>2, <2>8, <4>1 DEF GotOk
      <4>3. QED BY <2>5, <2>8, <3>1, <4>1, <4>2
    <3>2. CASE which # "moves"
      BY <1>2, <2>5, <2>8, <3>2 DEF GotOk
    <3>3. QED BY <3>1, <3>2
  <2>10. /\ \A q, p \in Replica : got'[q][p]["moves"] <= Len(moves[p])
         /\ \A q \in Replica : got'[q][q]["moves"] = Len(moves[q])
    BY <1>2, <2>7, <2>9 DEF GotOk
  <2>11. QED BY <1>1, <2>6, <2>10 DEF GotOk
<1>4. TypeOK'
  BY <1>1, <1>2, <1>3 DEF TypeOK, LogsOk, JobsOk, CountersOk
<1>5. CaughtUp' /\ StampsPast' /\ StampsApart' /\ StampsNew' /\ FreshNamed'
  BY <1>1 DEF IInv, CaughtUp, StampsPast, StampsApart, StampsNew, FreshNamed
<1>6. MoveKeysUnique' /\ ChildrenCreated' /\ MovedKnown'
  BY <1>1 DEF IInv, MoveKeysUnique, ChildrenCreated, Created, AllMoves, MovedKnown, Known
<1>7. SavesNamed'
  BY <1>1, NothingToSave DEF IInv
<1>8. QED BY <1>4, <1>5, <1>6, <1>7 DEF IInv

LEMMA RestartKeeps ==
  ASSUME IInv, NEW r \in Replica, Restart(r)
  PROVE  IInv'
<1>1. /\ restarts' = [restarts EXCEPT ![r] = @ + 1]
      /\ clock' = [clock EXCEPT ![r] = 0]
      /\ ctr' = [ctr EXCEPT ![r] = 0]
      /\ job' = [job EXCEPT ![r] = [k \in Task[r] |-> Idle]]
      /\ got' = [got EXCEPT ![r] = [s \in Replica |-> IF s = r THEN got[r][s]
                                                      ELSE [log \in Log |-> 0]]]
      /\ moves' = moves /\ edits' = edits
  BY DEF Restart
<1>2. LogsOk /\ GotOk /\ JobsOk /\ CountersOk /\ TypeOK
  BY DEF IInv, TypeOK
<1>3. /\ Idle.pc = "idle" /\ JobOk(Idle, r) /\ Free(Idle)
  <2>1. /\ Idle.pc = "idle" /\ Idle.todo = <<>> /\ Idle.op = Nil /\ Idle.fresh = FALSE
        /\ Idle = [pc |-> Idle.pc, todo |-> Idle.todo, op |-> Idle.op, fresh |-> Idle.fresh]
    BY DEF Idle
  <2>2. QED BY <2>1 DEF JobOk, Free
<1>4. /\ job = [q \in Replica |-> job[q]]
      /\ \A q \in Replica : job[q] = [l \in Task[q] |-> job[q][l]]
  BY <1>2 DEF JobsOk
<1>5. /\ \A l \in Task[r] : job'[r][l] = Idle
      /\ \A q \in Replica : q # r => job'[q] = job[q]
      /\ \A q \in Replica : job'[q] = [l \in Task[q] |-> job'[q][l]]
      /\ job' = [q \in Replica |-> job'[q]]
  BY <1>1, <1>4
<1>6. /\ \A q \in Replica : q # r => clock'[q] = clock[q] /\ restarts'[q] = restarts[q]
      /\ restarts'[r] > 0
      /\ CountersOk'
  BY <1>1, <1>2 DEF CountersOk
<1>7. GotOk'
  <2>1. /\ got' \in [Replica -> [Replica -> [Log -> Nat]]]
        /\ \A q \in Replica : q # r => got'[q] = got[q]
        /\ got'[r][r] = got[r][r]
        /\ \A s \in Replica : s # r => got'[r][s]["moves"] = 0
    BY <1>1, <1>2 DEF GotOk, Log
  <2>2. \A s \in Replica : Len(moves[s]) \in Nat
    BY <1>2 DEF LogsOk
  <2>3. QED BY <1>1, <1>2, <2>1, <2>2 DEF GotOk
<1>8. JobsOk'
  BY <1>2, <1>3, <1>5 DEF JobsOk
<1>9. TypeOK'
  BY <1>1, <1>2, <1>6, <1>7, <1>8 DEF TypeOK, LogsOk
<1>10. \A l \in Task[r] : /\ ~OnMoves(job'[r][l]) /\ job'[r][l].pc # "send"
                          /\ ~WillMove(job'[r][l]) /\ ~Moving(job'[r][l], r)
                          /\ ~WillSave(job'[r][l]) /\ ~Saving(job'[r][l], r)
  BY <1>3, <1>5 DEF OnMoves, WillMove, Moving, WillSave, Saving
<1>11. CaughtUp' /\ StampsPast'
  BY <1>1, <1>5, <1>6, <1>10 DEF IInv, CaughtUp, StampsPast
<1>12. StampsApart' /\ StampsNew' /\ FreshNamed'
  BY <1>1, <1>5, <1>10 DEF IInv, StampsApart, StampsNew, FreshNamed
<1>13. MoveKeysUnique' /\ ChildrenCreated'
  BY <1>1 DEF IInv, MoveKeysUnique, ChildrenCreated, Created, AllMoves
<1>14. MovedKnown'
  <2>1. \A q \in Replica : \A l \in Task[q] :
           job'[q][l] = job[q][l] \/ (~WillMove(job'[q][l]) /\ ~Moving(job'[q][l], q))
    BY <1>5, <1>10
  <2>2. QED BY <1>1, <2>1, TasksKnow DEF IInv
<1>15. SavesNamed'
  <2>1. \A q \in Replica : \A l \in Task[q] :
           job'[q][l] = job[q][l] \/ (~WillSave(job'[q][l]) /\ ~Saving(job'[q][l], q))
    BY <1>5, <1>10
  <2>2. QED BY <1>1, <2>1, NothingToSave DEF IInv
<1>16. QED BY <1>9, <1>11, <1>12, <1>13, <1>14, <1>15 DEF IInv

\* What a task is at after its stamp, from what it was at.
StampedJob(j, ts, id) ==
    LET intent == j.todo[1]
        isMove == "new_parent" \in DOMAIN intent
        create == isMove /\ intent.child = Nil
    IN  [pc    |-> "send",
         op    |-> IF isMove
                   THEN [ts |-> ts, child |-> IF create THEN id ELSE intent.child,
                         new_parent |-> intent.new_parent,
                         new_name |-> intent.new_name, kind |-> intent.kind]
                   ELSE [ts |-> ts, op |-> intent],
         fresh |-> create,
         todo  |-> IF create THEN [i \in DOMAIN Tail(j.todo) |->
                                      [Tail(j.todo)[i] EXCEPT !.id = id]]
                   ELSE Tail(j.todo)]

LEMMA StampShapes ==
  ASSUME NEW r \in Replica, NEW j, JobOk(j, r), j.pc = "stamp",
         NEW ts \in [lamport : Nat, replica : {r}], NEW id \in NodeId
  PROVE  LET x == StampedJob(j, ts, id) IN
         /\ JobOk(x, r) /\ x.pc = "send" /\ x.op.ts = ts
         /\ OnMoves(x) => OnMoves(j)
         /\ x.fresh => x.op.child = id
         /\ Moving(x, r) /\ ~x.fresh =>
                WillMove(j) /\ j.todo[1].child # Nil
                    /\ x.op.child = j.todo[1].child /\ x.op.kind = j.todo[1].kind
         /\ Saving(x, r) => WillSave(j) /\ x.op.op.id = j.todo[1].id
<1> DEFINE x == StampedJob(j, ts, id)
           intent == j.todo[1]
<1>1. CASE WillMove(j) /\ intent.child = Nil
  <2>1. intent \in Intent /\ "new_parent" \in DOMAIN intent /\ intent.kind = "dir"
    BY <1>1 DEF WillMove, Intent
  <2>2. Tail(j.todo) = <<>>
    <3>1. j.todo = <<j.todo[1]>>
      BY <1>1 DEF WillMove
    <3>2. \A a : Tail(<<a>>) = <<>>
      OBVIOUS
    <3>3. QED BY <3>1, <3>2
  <2>3. [i \in DOMAIN Tail(j.todo) |-> [Tail(j.todo)[i] EXCEPT !.id = id]] = <<>>
    <3>1. DOMAIN Tail(j.todo) = {}
      BY <2>2
    <3>2. QED BY <3>1
  <2>4. x = [pc |-> "send", fresh |-> TRUE, todo |-> <<>>,
             op |-> [ts |-> ts, child |-> id, new_parent |-> intent.new_parent,
                     new_name |-> intent.new_name, kind |-> intent.kind]]
    BY <1>1, <2>1, <2>3 DEF StampedJob
  <2> HIDE DEF x
  <2>5. x.op \in MoveOp(r) /\ x.op.kind = "dir" /\ x.op.ts = ts /\ x.op.child = id
    BY <2>1, <2>4 DEF MoveOp, Intent
  <2>6. /\ x = [pc |-> x.pc, todo |-> x.todo, op |-> x.op, fresh |-> x.fresh]
        /\ x.fresh = TRUE /\ x.pc = "send" /\ x.todo = <<>>
    BY <2>4
  <2>7. Moving(x, r) /\ JobOk(x, r)
    BY <2>5, <2>6 DEF Moving, JobOk
  <2>8. OnMoves(j) /\ ~Saving(x, r)
    BY <1>1, <2>1, <2>6 DEF OnMoves, WillMove, Saving
  <2>9. QED BY <2>5, <2>6, <2>7, <2>8 DEF x
<1>2. CASE WillMove(j) /\ intent.child # Nil
  <2>1. intent \in Intent /\ "new_parent" \in DOMAIN intent
    BY <1>2 DEF WillMove, Intent
  <2>2. Tail(j.todo) = <<>>
    <3>1. j.todo = <<j.todo[1]>>
      BY <1>2 DEF WillMove
    <3>2. \A a : Tail(<<a>>) = <<>>
      OBVIOUS
    <3>3. QED BY <3>1, <3>2
  <2>3. x = [pc |-> "send", fresh |-> FALSE, todo |-> <<>>,
             op |-> [ts |-> ts, child |-> intent.child, new_parent |-> intent.new_parent,
                     new_name |-> intent.new_name, kind |-> intent.kind]]
    BY <1>2, <2>1, <2>2 DEF StampedJob
  <2> HIDE DEF x
  <2>4. /\ x.op \in MoveOp(r) /\ x.op.ts = ts
        /\ x.op.child = intent.child /\ x.op.kind = intent.kind
    BY <1>2, <2>1, <2>3 DEF MoveOp, Intent
  <2>5. /\ x = [pc |-> x.pc, todo |-> x.todo, op |-> x.op, fresh |-> x.fresh]
        /\ x.fresh = FALSE /\ x.pc = "send" /\ x.todo = <<>>
    BY <2>3
  <2>6. Moving(x, r) /\ JobOk(x, r)
    BY <2>4, <2>5 DEF Moving, JobOk
  <2>7. OnMoves(j) /\ ~Saving(x, r)
    BY <1>2, <2>1, <2>6, TaskStates DEF OnMoves, WillMove
  <2>8. QED BY <1>2, <2>4, <2>5, <2>6, <2>7 DEF x
<1>3. CASE WillCreate(j)
  <2>1. /\ intent \in Intent /\ "new_parent" \in DOMAIN intent /\ intent.child = Nil
        /\ IsSave(j.todo[2])
    BY <1>3 DEF WillCreate, Intent
  <2> DEFINE save == [j.todo[2] EXCEPT !.id = id]
  <2>2. IsSave(save) /\ save.id = id
    <3>1. /\ DOMAIN j.todo[2] = {"type", "id", "cid", "at"}
          /\ j.todo[2] = SetOp(j.todo[2].id, j.todo[2].cid, j.todo[2].at)
      BY <2>1 DEF IsSave
    <3>2. save = SetOp(id, j.todo[2].cid, j.todo[2].at)
      BY <3>1 DEF SetOp
    <3>3. QED BY <3>2 DEF IsSave, SetOp
  <2>3. Tail(j.todo) = <<j.todo[2]>>
    <3>1. j.todo = <<j.todo[1], j.todo[2]>>
      BY <1>3 DEF WillCreate
    <3>2. \A a, b : Tail(<<a, b>>) = <<b>>
      OBVIOUS
    <3>3. QED BY <3>1, <3>2
  <2>4. [i \in DOMAIN Tail(j.todo) |-> [Tail(j.todo)[i] EXCEPT !.id = id]] = <<save>>
    <3>1. \A b : DOMAIN <<b>> = {1} /\ <<b>>[1] = b
      OBVIOUS
    <3>2. \A b : [i \in {1} |-> b] = <<b>>
      OBVIOUS
    <3>3. [i \in DOMAIN Tail(j.todo) |-> [Tail(j.todo)[i] EXCEPT !.id = id]]
              = [i \in {1} |-> save]
      BY <2>3, <3>1
    <3>4. QED BY <3>2, <3>3
  <2> HIDE DEF save
  <2>5. x = [pc |-> "send", fresh |-> TRUE, todo |-> <<save>>,
             op |-> [ts |-> ts, child |-> id, new_parent |-> intent.new_parent,
                     new_name |-> intent.new_name, kind |-> intent.kind]]
    BY <1>3, <2>1, <2>4 DEF StampedJob
  <2> HIDE DEF x
  <2>6. x.op \in MoveOp(r) /\ x.op.ts = ts /\ x.op.child = id
    BY <2>1, <2>5 DEF MoveOp, Intent
  <2>7. /\ x = [pc |-> x.pc, todo |-> x.todo, op |-> x.op, fresh |-> x.fresh]
        /\ x.fresh = TRUE /\ x.pc = "send" /\ x.todo = <<save>>
    BY <2>5
  <2>8. Len(x.todo) = 1 /\ x.todo[1] = save
    BY <2>7
  <2>9. Creating(x, r) /\ JobOk(x, r)
    BY <2>2, <2>6, <2>7, <2>8 DEF Creating, JobOk
  <2>10. OnMoves(j) /\ ~Saving(x, r)
    BY <1>3, <2>1, <2>7 DEF OnMoves, WillCreate, Saving
  <2>11. QED BY <2>6, <2>7, <2>9, <2>10 DEF x
<1>4. CASE WillSave(j)
  <2>1. IsSave(intent) /\ "new_parent" \notin DOMAIN intent
    BY <1>4 DEF WillSave, IsSave
  <2>2. Tail(j.todo) = <<>>
    <3>1. j.todo = <<j.todo[1]>>
      BY <1>4 DEF WillSave
    <3>2. \A a : Tail(<<a>>) = <<>>
      OBVIOUS
    <3>3. QED BY <3>1, <3>2
  <2>3. x = [pc |-> "send", fresh |-> FALSE, todo |-> <<>>, op |-> [ts |-> ts, op |-> intent]]
    BY <2>1, <2>2 DEF StampedJob
  <2> HIDE DEF x
  <2>4. /\ x = [pc |-> x.pc, todo |-> x.todo, op |-> x.op, fresh |-> x.fresh]
        /\ x.fresh = FALSE /\ x.pc = "send" /\ x.todo = <<>>
        /\ x.op = [ts |-> ts, op |-> intent]
    BY <2>3
  <2>5. DOMAIN x.op = {"ts", "op"} /\ x.op.ts = ts /\ x.op.op = intent
    BY <2>4
  <2>6. x.op = [ts |-> x.op.ts, op |-> x.op.op]
    BY <2>4, <2>5
  <2>7. Saving(x, r) /\ JobOk(x, r)
    BY <2>1, <2>4, <2>5, <2>6 DEF Saving, JobOk
  <2>8. ~OnMoves(x) /\ ~Moving(x, r)
    BY <2>4, <2>5 DEF OnMoves, Moving, MoveOp
  <2>9. QED BY <1>4, <2>4, <2>5, <2>7, <2>8 DEF x
<1>5. QED BY <1>1, <1>2, <1>3, <1>4, TaskStates

LEMMA StampKeeps ==
  ASSUME IInv, NEW r \in Replica, NEW k \in Task[r], Stamp(r, k)
  PROVE  IInv'
<1> DEFINE j  == job[r][k]
           ts == [lamport |-> clock[r] + 1, replica |-> r]
           id == FreshNodeId(ts, ctr[r])
           x  == StampedJob(j, ts, id)
<1>1. /\ j.pc = "stamp"
      /\ clock' = [clock EXCEPT ![r] = @ + 1]
      /\ moves' = moves /\ edits' = edits /\ got' = got /\ restarts' = restarts
  BY DEF Stamp
<1>2. TypeOK /\ LogsOk /\ GotOk /\ JobsOk /\ CountersOk /\ JobOk(j, r)
  BY DEF IInv, TypeOK, JobsOk
<1>3. j.todo # <<>> /\ Head(j.todo) = j.todo[1]
  <2>1. WillMove(j) \/ WillCreate(j) \/ WillSave(j)
    BY <1>1, <1>2, TaskStates
  <2>2. j.todo = <<j.todo[1]>> \/ j.todo = <<j.todo[1], j.todo[2]>>
    BY <2>1 DEF WillMove, WillCreate, WillSave
  <2>3. \A a, b : Head(<<a>>) = a /\ Head(<<a, b>>) = a /\ <<a>> # <<>> /\ <<a, b>> # <<>>
    OBVIOUS
  <2> HIDE DEF j
  <2>4. CASE j.todo = <<j.todo[1]>>
    BY <2>3, <2>4
  <2>5. CASE j.todo = <<j.todo[1], j.todo[2]>>
    BY <2>3, <2>5
  <2>6. QED BY <2>2, <2>4, <2>5
<1>4. /\ job' = [job EXCEPT ![r][k] = x]
      /\ \/ ctr' = [ctr EXCEPT ![r] = @ + 1]
         \/ ctr' = [ctr EXCEPT ![r] = @]
  BY <1>3 DEF Stamp, StampedJob
<1>5. /\ clock[r] \in Nat /\ ctr[r] \in Nat /\ r \in Nat /\ clock' \in [Replica -> Nat]
      /\ ctr' \in [Replica -> Nat] /\ clock'[r] = clock[r] + 1
      /\ \A q \in Replica : clock[q] <= clock'[q] /\ clock[q] \in Nat /\ clock'[q] \in Nat
  BY <1>1, <1>2, <1>4, ReplicaAssumption DEF CountersOk
<1>6. ts \in [lamport : Nat, replica : {r}] /\ ts.lamport = clock[r] + 1 /\ ts.replica = r
  BY <1>5
<1>7. id \in NodeId /\ id[1] = clock[r] + 1 /\ id[2] = r
  <2>1. id = <<clock[r] + 1, r, ctr[r]>>
    BY DEF FreshNodeId
  <2>2. QED BY <1>5, <2>1 DEF NodeId
<1> HIDE DEF ts, id
<1>8. /\ JobOk(x, r) /\ x.pc = "send" /\ x.op.ts = ts
      /\ OnMoves(x) => OnMoves(j)
      /\ x.fresh => x.op.child = id
      /\ Moving(x, r) /\ ~x.fresh =>
             WillMove(j) /\ j.todo[1].child # Nil
                 /\ x.op.child = j.todo[1].child /\ x.op.kind = j.todo[1].kind
      /\ Saving(x, r) => WillSave(j) /\ x.op.op.id = j.todo[1].id
  BY <1>1, <1>2, <1>6, <1>7, StampShapes
<1> HIDE DEF x
<1>9. /\ job' = [q \in Replica |-> [l \in Task[q] |-> job'[q][l]]]
      /\ job'[r][k] = x
      /\ \A q \in Replica : \A l \in Task[q] :
             ~(q = r /\ l = k) => job'[q][l] = job[q][l]
  <2>1. JobBecomes(r, k, x)
    BY <1>2, <1>4, JobSet
  <2>2. QED BY <2>1 DEF JobBecomes
<1>10. TypeOK'
  <2>1. JobsOk'
    BY <1>2, <1>8, <1>9 DEF JobsOk
  <2>2. LogsOk' /\ GotOk' /\ CountersOk'
    BY <1>1, <1>2, <1>5 DEF LogsOk, GotOk, CountersOk
  <2>3. QED BY <2>1, <2>2 DEF TypeOK
<1>11. \A q \in Replica : \A o \in Range(moves[q]) : o.ts.lamport \in Nat
  BY <1>2, MovesHeld, AllMovesOk DEF MovesOk
<1>12. CaughtUp'
  <2> SUFFICES ASSUME NEW q \in Replica, NEW l \in Task[q], OnMoves(job'[q][l]),
                      NEW o \in Range(moves[q])
               PROVE  o.ts.lamport <= clock'[q]
    BY <1>1 DEF CaughtUp
  <2>1. OnMoves(job[q][l])
    BY <1>8, <1>9
  <2>2. o.ts.lamport <= clock[q]
    BY <2>1 DEF IInv, CaughtUp
  <2>3. QED BY <1>5, <1>11, <2>2
<1>13. ASSUME NEW q \in Replica, NEW l \in Task[q], ~(q = r /\ l = k), job'[q][l].pc = "send"
       PROVE  /\ job'[q][l] = job[q][l] /\ job[q][l].op.ts.lamport \in Nat
              /\ job[q][l].op.ts.lamport <= clock[q]
  <2>1. job'[q][l] = job[q][l]
    BY <1>9, <1>13
  <2>2. job[q][l].op.ts.lamport \in Nat
    BY <1>2, <1>13, <2>1, TaskStates DEF JobsOk
  <2>3. job[q][l].op.ts.lamport <= clock[q]
    BY <1>13, <2>1 DEF IInv, StampsPast
  <2>4. QED BY <2>1, <2>2, <2>3
<1>14. StampsPast'
  <2> SUFFICES ASSUME NEW q \in Replica, NEW l \in Task[q], job'[q][l].pc = "send"
               PROVE  job'[q][l].op.ts.lamport <= clock'[q]
    BY DEF StampsPast
  <2>1. CASE q = r /\ l = k
    BY <1>5, <1>6, <1>8, <1>9, <2>1
  <2>2. CASE ~(q = r /\ l = k)
    BY <1>5, <1>13, <2>2
  <2>3. QED BY <2>1, <2>2
<1>15. StampsApart'
  <2> SUFFICES ASSUME NEW q \in Replica, NEW l \in Task[q], NEW m \in Task[q], l # m,
                      job'[q][l].pc = "send", job'[q][m].pc = "send"
               PROVE  job'[q][l].op.ts.lamport # job'[q][m].op.ts.lamport
    BY DEF StampsApart
  <2>1. CASE q = r /\ l = k
    <3>1. job'[q][m].op.ts.lamport <= clock[r] /\ job'[q][m].op.ts.lamport \in Nat
      BY <1>13, <2>1
    <3>2. job'[q][l].op.ts.lamport = clock[r] + 1
      BY <1>6, <1>8, <1>9, <2>1
    <3>3. QED BY <1>5, <3>1, <3>2
  <2>2. CASE q = r /\ m = k
    <3>1. job'[q][l].op.ts.lamport <= clock[r] /\ job'[q][l].op.ts.lamport \in Nat
      BY <1>13, <2>2
    <3>2. job'[q][m].op.ts.lamport = clock[r] + 1
      BY <1>6, <1>8, <1>9, <2>2
    <3>3. QED BY <1>5, <3>1, <3>2
  <2>3. CASE ~(q = r /\ l = k) /\ ~(q = r /\ m = k)
    BY <1>9, <2>3 DEF IInv, StampsApart
  <2>4. QED BY <2>1, <2>2, <2>3
<1>16. StampsNew'
  <2> SUFFICES ASSUME NEW q \in Replica, NEW l \in Task[q], job'[q][l].pc = "send",
                      "child" \in DOMAIN job'[q][l].op, NEW o \in Range(moves[q])
               PROVE  o.ts # job'[q][l].op.ts
    BY <1>1 DEF StampsNew
  <2>1. CASE q = r /\ l = k
    <3>1. OnMoves(j)
      BY <1>8, <1>9, <2>1 DEF OnMoves
    <3>2. o.ts.lamport <= clock[r] /\ o.ts.lamport \in Nat
      BY <1>11, <2>1, <3>1 DEF IInv, CaughtUp
    <3>3. job'[q][l].op.ts.lamport = clock[r] + 1
      BY <1>6, <1>8, <1>9, <2>1
    <3>4. QED BY <1>5, <3>2, <3>3
  <2>2. CASE ~(q = r /\ l = k)
    BY <1>9, <2>2 DEF IInv, StampsNew
  <2>3. QED BY <2>1, <2>2
<1>17. FreshNamed'
  <2> SUFFICES ASSUME NEW q \in Replica, NEW l \in Task[q], job'[q][l].pc = "send",
                      job'[q][l].fresh
               PROVE  /\ job'[q][l].op.child[1] = job'[q][l].op.ts.lamport
                      /\ job'[q][l].op.child[2] = q
    BY DEF FreshNamed
  <2>1. CASE q = r /\ l = k
    BY <1>6, <1>7, <1>8, <1>9, <2>1
  <2>2. CASE ~(q = r /\ l = k)
    BY <1>9, <2>2 DEF IInv, FreshNamed
  <2>3. QED BY <2>1, <2>2
<1>18. MoveKeysUnique' /\ ChildrenCreated'
  BY <1>1 DEF IInv, MoveKeysUnique, ChildrenCreated, Created, AllMoves
<1>19. MovedKnown'
  <2> SUFFICES ASSUME NEW q \in Replica, NEW l \in Task[q]
               PROVE  LET y == job'[q][l] IN
                      /\ WillMove(y) /\ y.todo[1].child # Nil
                             => Known(y.todo[1].child, y.todo[1].kind)
                      /\ Moving(y, q) /\ ~y.fresh => Known(y.op.child, y.op.kind)
    BY <1>1 DEF MovedKnown, Known, AllMoves
  <2>1. CASE q = r /\ l = k
    <3>1. ~WillMove(x)
      BY <1>8 DEF WillMove
    <3>2. Moving(x, r) /\ ~x.fresh => Known(x.op.child, x.op.kind)
      BY <1>8 DEF IInv, MovedKnown
    <3>3. QED BY <1>9, <2>1, <3>1, <3>2
  <2>2. CASE ~(q = r /\ l = k)
    BY <1>9, <2>2 DEF IInv, MovedKnown
  <2>3. QED BY <2>1, <2>2
<1>20. SavesNamed'
  <2>1. AllMoves' = AllMoves /\ AllEdits' = AllEdits
    BY <1>1 DEF AllMoves, AllEdits
  <2>2. ~WillSave(x)
    BY <1>8 DEF WillSave
  <2>3. Saving(x, r) => \E o \in AllMoves' : o.child = x.op.op.id
    BY <1>8, <2>1 DEF IInv, SavesNamed, Named
  <2>4. \A q \in Replica : \A l \in Task[q] :
            \/ job'[q][l] = job[q][l]
            \/ /\ WillSave(job'[q][l]) => \E o \in AllMoves' : o.child = job'[q][l].todo[1].id
               /\ Saving(job'[q][l], q) => \E o \in AllMoves' : o.child = job'[q][l].op.op.id
    BY <1>9, <2>2, <2>3
  <2>5. QED BY <2>1, <2>4, SavesStayNamed DEF IInv
<1>21. QED BY <1>10, <1>12, <1>14, <1>15, <1>16, <1>17, <1>18, <1>19, <1>20 DEF IInv

LEMMA IdleShape ==
  ASSUME NEW r
  PROVE  /\ JobOk(Idle, r) /\ Idle.pc = "idle" /\ ~OnMoves(Idle)
         /\ ~WillMove(Idle) /\ ~WillSave(Idle) /\ ~Moving(Idle, r) /\ ~Saving(Idle, r)
<1>1. /\ Idle.pc = "idle" /\ Idle.todo = <<>> /\ Idle.op = Nil /\ Idle.fresh = FALSE
      /\ Idle = [pc |-> Idle.pc, todo |-> Idle.todo, op |-> Idle.op, fresh |-> Idle.fresh]
  BY DEF Idle
<1>2. QED BY <1>1 DEF JobOk, Free, OnMoves, WillMove, WillSave, Moving, Saving

\* What a task can be at after its operation was appended: at the next one, or at
\* nothing more.
After(j) == {AfterSend(j), Idle}

LEMMA SentShapes ==
  ASSUME NEW r, NEW j, JobOk(j, r), j.pc = "send", NEW x \in After(j)
  PROVE  /\ JobOk(x, r) /\ x.pc # "send" /\ ~OnMoves(x) /\ ~WillMove(x)
         /\ WillSave(x) => Creating(j, r) /\ x.todo[1].id = j.op.child
<1>1. CASE x = Idle
  BY <1>1, IdleShape
<1>2. CASE Moving(j, r) \/ Saving(j, r)
  <2>1. x = Idle
    BY <1>2 DEF After, AfterSend, Moving, Saving
  <2>2. QED BY <1>1, <2>1
<1>3. CASE Creating(j, r) /\ x # Idle
  <2>1. /\ Len(j.todo) = 1 /\ j.todo = <<j.todo[1]>>
        /\ IsSave(j.todo[1]) /\ j.todo[1].id = j.op.child
    BY <1>3 DEF Creating
  <2>2. x = [pc |-> "stamp", todo |-> j.todo, op |-> Nil, fresh |-> FALSE]
    BY <1>3 DEF After, AfterSend, Planned
  <2>3. /\ x = [pc |-> x.pc, todo |-> x.todo, op |-> x.op, fresh |-> x.fresh]
        /\ x.pc = "stamp" /\ x.todo = j.todo /\ x.op = Nil /\ x.fresh = FALSE
    BY <2>2
  <2>4. WillSave(x) /\ JobOk(x, r)
    BY <2>1, <2>3 DEF WillSave, JobOk
  <2>5. ~OnMoves(x) /\ ~WillMove(x)
    BY <2>3, <2>4, TaskStates DEF OnMoves
  <2>6. QED BY <1>3, <2>1, <2>3, <2>4, <2>5
<1>4. QED BY <1>1, <1>2, <1>3, TaskStates

\* The operation of a task is appended, whatever its caller is told.
Sends(r, k, x) ==
    /\ job[r][k].pc = "send"
    /\ Appended(r, job[r][k].op)
    /\ job' = [job EXCEPT ![r][k] = x]
    /\ UNCHANGED <<clock, ctr, restarts>>

LEMMA SendingForms ==
  ASSUME NEW r, NEW k, Send(r, k) \/ SendFails(r, k)
  PROVE  \/ \E x \in After(job[r][k]) : Sends(r, k, x)
         \/ /\ job' = [job EXCEPT ![r][k] = Idle]
            /\ UNCHANGED <<moves, edits, got, clock, ctr, restarts>>
<1>1. CASE Send(r, k)
  <2>1. Sends(r, k, AfterSend(job[r][k]))
    BY <1>1 DEF Send, Sends
  <2>2. QED BY <2>1 DEF After
<1>2. CASE SendFails(r, k)
  <2>1. \/ Sends(r, k, Idle)
        \/ /\ job' = [job EXCEPT ![r][k] = Idle]
           /\ UNCHANGED <<moves, edits, got, clock, ctr, restarts>>
    BY <1>2 DEF SendFails, Sends
  <2>2. QED BY <2>1 DEF After
<1>3. QED BY <1>1, <1>2

LEMMA SendMoveKeeps ==
  ASSUME IInv, NEW r \in Replica, NEW k \in Task[r], NEW x \in After(job[r][k]),
         Sends(r, k, x), "child" \in DOMAIN job[r][k].op
  PROVE  IInv'
<1> DEFINE j  == job[r][k]
           op == j.op
<1>1. /\ j.pc = "send"
      /\ moves' = [moves EXCEPT ![r] = Append(@, op)]
      /\ got' = [got EXCEPT ![r][r]["moves"] = @ + 1]
      /\ edits' = edits /\ clock' = clock /\ ctr' = ctr /\ restarts' = restarts
      /\ job' = [job EXCEPT ![r][k] = x]
  BY DEF Sends, Appended
<1>2. TypeOK /\ LogsOk /\ GotOk /\ JobsOk /\ CountersOk /\ JobOk(j, r)
  BY DEF IInv, TypeOK, JobsOk
<1>3. /\ JobOk(x, r) /\ x.pc # "send" /\ ~OnMoves(x) /\ ~WillMove(x)
      /\ WillSave(x) => Creating(j, r) /\ x.todo[1].id = j.op.child
  BY <1>1, <1>2, SentShapes
<1>4. Moving(j, r) \/ Creating(j, r)
  BY <1>1, <1>2, TaskStates
<1>5. op \in MoveOp(r) /\ op.ts.lamport \in Nat /\ op.ts.replica = r
  BY <1>4 DEF Moving, Creating, MoveOp
<1>6. /\ job' = [q \in Replica |-> [l \in Task[q] |-> job'[q][l]]]
      /\ job'[r][k] = x
      /\ \A q \in Replica : \A l \in Task[q] :
             ~(q = r /\ l = k) => job'[q][l] = job[q][l]
  <2>1. JobBecomes(r, k, x)
    BY <1>1, <1>2, JobSet
  <2>2. QED BY <2>1 DEF JobBecomes
<1> HIDE DEF op
<1>7. /\ moves'[r] = Append(moves[r], op)
      /\ moves'[r] \in Seq(MoveOp(r)) /\ Len(moves'[r]) = Len(moves[r]) + 1
      /\ Range(moves'[r]) = Range(moves[r]) \cup {op}
      /\ \A q \in Replica : q # r => moves'[q] = moves[q]
      /\ moves' = [q \in Replica |-> moves'[q]]
  <2>1. moves = [q \in Replica |-> moves[q]] /\ moves[r] \in Seq(MoveOp(r))
    BY <1>2 DEF LogsOk
  <2>2. /\ moves'[r] = Append(moves[r], op)
        /\ \A q \in Replica : q # r => moves'[q] = moves[q]
        /\ moves' = [q \in Replica |-> moves'[q]]
    BY <1>1, <2>1
  <2>3. /\ Append(moves[r], op) \in Seq(MoveOp(r)) /\ Len(Append(moves[r], op)) = Len(moves[r]) + 1
        /\ Range(Append(moves[r], op)) = Range(moves[r]) \cup {op}
    <3>1. MoveOp(r) \cup {op} = MoveOp(r)
      BY <1>5
    <3>2. /\ Append(moves[r], op) \in Seq(MoveOp(r) \cup {op})
          /\ Len(Append(moves[r], op)) = Len(moves[r]) + 1
          /\ Range(Append(moves[r], op)) = Range(moves[r]) \cup {op}
      BY <2>1, RangeOfAppend
    <3>3. QED BY <3>1, <3>2
  <2>4. QED BY <2>2, <2>3
<1>8. /\ AllMoves' = AllMoves \cup {op}
      /\ \A q \in Replica : Range(moves[q]) \subseteq Range(moves'[q])
      /\ \A q \in Replica : q # r => Range(moves'[q]) = Range(moves[q])
  <2>1. \A q \in Replica : q # r => Range(moves'[q]) = Range(moves[q])
    BY <1>7
  <2>2. \A q \in Replica : Range(moves[q]) \subseteq Range(moves'[q])
    BY <1>7, <2>1
  <2>3. \A y : y \in AllMoves' <=> y \in AllMoves \cup {op}
    BY <1>7, <2>1 DEF AllMoves
  <2>4. QED BY <2>1, <2>2, <2>3
<1>9. TypeOK'
  <2>1. JobsOk'
    BY <1>2, <1>3, <1>6 DEF JobsOk
  <2>2. LogsOk'
    BY <1>1, <1>2, <1>7 DEF LogsOk
  <2>3. GotOk'
    <3>1. got \in [Replica -> [Replica -> [Log -> Nat]]]
      BY <1>2 DEF GotOk
    <3> DEFINE g == [got[r][r] EXCEPT !["moves"] = @ + 1]
    <3>2. g \in [Log -> Nat] /\ g["moves"] = got[r][r]["moves"] + 1
      BY <3>1 DEF Log
    <3>3. got' = [got EXCEPT ![r] = [got[r] EXCEPT ![r] = g]]
      BY <1>1
    <3> HIDE DEF g
    <3>4. /\ got' \in [Replica -> [Replica -> [Log -> Nat]]] /\ got'[r][r] = g
          /\ \A q, p \in Replica : ~(q = r /\ p = r) => got'[q][p] = got[q][p]
      BY <3>1, <3>2, <3>3
    <3>5. \A q \in Replica : Len(moves[q]) \in Nat
      BY <1>2 DEF LogsOk
    <3>6. \A q, p \in Replica : got[q][p]["moves"] \in Nat
      BY <3>1 DEF Log
    <3>7. \A q, p \in Replica : got'[q][p]["moves"] <= Len(moves'[p])
      <4> SUFFICES ASSUME NEW q \in Replica, NEW p \in Replica
                   PROVE  got'[q][p]["moves"] <= Len(moves'[p])
        OBVIOUS
      <4>1. got[q][p]["moves"] <= Len(moves[p]) /\ Len(moves[p]) \in Nat
        BY <1>2, <3>5 DEF GotOk
      <4>2. Len(moves'[p]) = IF p = r THEN Len(moves[p]) + 1 ELSE Len(moves[p])
        BY <1>7
      <4>3. got'[q][p]["moves"] = IF q = r /\ p = r THEN got[q][p]["moves"] + 1
                                  ELSE got[q][p]["moves"]
        BY <3>2, <3>4
      <4>4. QED BY <3>6, <4>1, <4>2, <4>3
    <3>8. \A q \in Replica : got'[q][q]["moves"] = Len(moves'[q])
      BY <1>2, <1>7, <3>2, <3>4 DEF GotOk
    <3>9. QED BY <3>4, <3>7, <3>8 DEF GotOk
  <2>4. QED BY <1>1, <1>2, <2>1, <2>2, <2>3 DEF TypeOK, CountersOk
<1>10. ASSUME NEW q \in Replica, NEW l \in Task[q]
       PROVE  /\ OnMoves(job'[q][l]) \/ job'[q][l].pc = "send" => ~(q = r /\ l = k)
              /\ ~(q = r /\ l = k) => job'[q][l] = job[q][l]
  BY <1>3, <1>6
<1>11. op.ts.lamport <= clock[r]
  BY <1>1 DEF IInv, StampsPast, op
<1>12. CaughtUp'
  <2> SUFFICES ASSUME NEW q \in Replica, NEW l \in Task[q], OnMoves(job'[q][l]),
                      NEW o \in Range(moves'[q])
               PROVE  o.ts.lamport <= clock[q]
    BY <1>1 DEF CaughtUp
  <2>1. OnMoves(job[q][l])
    BY <1>10
  <2>2. o \in Range(moves[q]) \/ (q = r /\ o = op)
    BY <1>7, <1>8
  <2>3. QED BY <1>11, <2>1, <2>2 DEF IInv, CaughtUp
<1>13. StampsPast' /\ StampsApart'
  BY <1>1, <1>10 DEF IInv, StampsPast, StampsApart
<1>14. StampsNew'
  <2> SUFFICES ASSUME NEW q \in Replica, NEW l \in Task[q], job'[q][l].pc = "send",
                      "child" \in DOMAIN job'[q][l].op, NEW o \in Range(moves'[q])
               PROVE  o.ts # job'[q][l].op.ts
    BY DEF StampsNew
  <2>1. ~(q = r /\ l = k) /\ job'[q][l] = job[q][l]
    BY <1>10
  <2>2. CASE o \in Range(moves[q])
    BY <2>1, <2>2 DEF IInv, StampsNew
  <2>3. CASE q = r /\ o = op
    <3>1. job[q][l].op.ts.lamport # job[r][k].op.ts.lamport
      BY <1>1, <2>1, <2>3 DEF IInv, StampsApart
    <3>2. QED BY <2>1, <2>3, <3>1 DEF op
  <2>4. QED BY <1>7, <1>8, <2>2, <2>3
<1>15. FreshNamed'
  BY <1>10 DEF IInv, FreshNamed
<1>16. ASSUME NEW o \in AllMoves PROVE o.ts # op.ts
  <2>1. PICK s \in Replica : o \in MoveOp(s) /\ o \in Range(moves[s])
    BY <1>2, MovesHeld
  <2>2. CASE s = r
    BY <1>1, <2>1, <2>2 DEF IInv, StampsNew, op
  <2>3. CASE s # r
    <3>1. o.ts.replica = s
      BY <2>1 DEF MoveOp
    <3>2. QED BY <1>5, <2>3, <3>1
  <2>4. QED BY <2>2, <2>3
<1>17. MoveKeysUnique'
  <2> SUFFICES ASSUME NEW o \in AllMoves \cup {op}, NEW p \in AllMoves \cup {op}, o.ts = p.ts
               PROVE  o = p
    BY <1>8 DEF MoveKeysUnique
  <2>1. QED BY <1>16 DEF IInv, MoveKeysUnique
<1>18. ~j.fresh => Known(op.child, op.kind)
  BY <1>4 DEF IInv, MovedKnown, Creating, op
<1>19. \A o \in AllMoves : o.child[2] \in Replica /\ Created(o.child)
  <2>1. \A o \in AllMoves : o.child[2] \in Replica
    BY <1>2, MovesHeld DEF MoveOp, NodeId
  <2>2. QED BY <2>1 DEF IInv, ChildrenCreated
<1>20. ChildrenCreated'
  <2> SUFFICES ASSUME NEW o \in AllMoves \cup {op} PROVE Created(o.child)'
    BY <1>8 DEF ChildrenCreated
  <2>1. ASSUME NEW n, n[2] \in Replica, Created(n) PROVE Created(n)'
    BY <1>8, <2>1 DEF Created
  <2>2. CASE o \in AllMoves
    BY <1>19, <2>1, <2>2
  <2>3. CASE o = op /\ j.fresh
    <3>1. op.child[1] = op.ts.lamport /\ op.child[2] = r
      BY <1>1, <2>3 DEF IInv, FreshNamed, op
    <3>2. op \in Range(moves'[op.child[2]])
      BY <1>7, <3>1
    <3>3. QED BY <2>3, <3>1, <3>2 DEF Created
  <2>4. CASE o = op /\ ~j.fresh
    <3>1. PICK p \in AllMoves : p.child = op.child
      BY <1>18, <2>4 DEF Known
    <3>2. Created(op.child) /\ op.child[2] \in Replica
      BY <1>19, <3>1
    <3>3. QED BY <2>1, <2>4, <3>2
  <2>5. QED BY <2>2, <2>3, <2>4
<1>21. MovedKnown'
  <2> DEFINE KnownNow(n, kind) == \E o \in AllMoves \cup {op} : o.child = n /\ o.kind = kind
  <2>1. \A n, kind : Known(n, kind) => KnownNow(n, kind)
    BY DEF Known
  <2>2. SUFFICES ASSUME NEW q \in Replica, NEW l \in Task[q], NEW y, y = job'[q][l]
                 PROVE  /\ WillMove(y) /\ y.todo[1].child # Nil
                               => KnownNow(y.todo[1].child, y.todo[1].kind)
                        /\ Moving(y, q) /\ ~y.fresh => KnownNow(y.op.child, y.op.kind)
    BY <1>8 DEF MovedKnown, Known
  <2> HIDE DEF KnownNow
  <2>3. CASE q = r /\ l = k
    <3>1. ~Moving(x, r)
      BY <1>3 DEF Moving
    <3>2. QED BY <1>3, <1>6, <2>2, <2>3, <3>1
  <2>4. CASE ~(q = r /\ l = k)
    <3>1. y = job[q][l]
      BY <1>6, <2>2, <2>4
    <3>2. QED BY <2>1, <3>1 DEF IInv, MovedKnown
  <2>5. QED BY <2>3, <2>4
<1>22. SavesNamed'
  <2>1. AllEdits' = AllEdits /\ AllMoves \subseteq AllMoves' /\ op \in AllMoves'
    BY <1>1, <1>8 DEF AllEdits
  <2>2. ~Saving(x, r)
    BY <1>3 DEF Saving
  <2>3. WillSave(x) => \E o \in AllMoves' : o.child = x.todo[1].id
    BY <1>3, <2>1 DEF op
  <2>4. \A q \in Replica : \A l \in Task[q] :
            \/ job'[q][l] = job[q][l]
            \/ /\ WillSave(job'[q][l]) => \E o \in AllMoves' : o.child = job'[q][l].todo[1].id
               /\ Saving(job'[q][l], q) => \E o \in AllMoves' : o.child = job'[q][l].op.op.id
    BY <1>6, <2>2, <2>3
  <2>5. QED BY <2>1, <2>4, SavesStayNamed DEF IInv
<1>23. QED
  BY <1>9, <1>12, <1>13, <1>14, <1>15, <1>17, <1>20, <1>21, <1>22 DEF IInv

LEMMA SendSaveKeeps ==
  ASSUME IInv, NEW r \in Replica, NEW k \in Task[r], NEW x \in After(job[r][k]),
         Sends(r, k, x), "child" \notin DOMAIN job[r][k].op
  PROVE  IInv'
<1> DEFINE j  == job[r][k]
           op == j.op
<1>1. /\ j.pc = "send"
      /\ edits' = [edits EXCEPT ![r] = Append(@, op)]
      /\ got' = [got EXCEPT ![r][r]["edits"] = @ + 1]
      /\ moves' = moves /\ clock' = clock /\ ctr' = ctr /\ restarts' = restarts
      /\ job' = [job EXCEPT ![r][k] = x]
  BY DEF Sends, Appended
<1>2. TypeOK /\ LogsOk /\ GotOk /\ JobsOk /\ CountersOk /\ JobOk(j, r)
  BY DEF IInv, TypeOK, JobsOk
<1>3. /\ JobOk(x, r) /\ x.pc # "send" /\ ~OnMoves(x) /\ ~WillMove(x)
      /\ WillSave(x) => Creating(j, r)
  BY <1>1, <1>2, SentShapes
<1>4. Saving(j, r) /\ ~WillSave(x)
  BY <1>1, <1>2, <1>3, TaskStates
<1>5. /\ job' = [q \in Replica |-> [l \in Task[q] |-> job'[q][l]]]
      /\ job'[r][k] = x
      /\ \A q \in Replica : \A l \in Task[q] :
             ~(q = r /\ l = k) => job'[q][l] = job[q][l]
  <2>1. JobBecomes(r, k, x)
    BY <1>1, <1>2, JobSet
  <2>2. QED BY <2>1 DEF JobBecomes
<1> HIDE DEF op
<1>6. /\ edits'[r] \in Seq(Range(edits'[r]))
      /\ Range(edits'[r]) = Range(edits[r]) \cup {op}
      /\ \A q \in Replica : q # r => edits'[q] = edits[q]
      /\ edits' = [q \in Replica |-> edits'[q]]
  <2>1. edits = [q \in Replica |-> edits[q]] /\ edits[r] \in Seq(Range(edits[r]))
    BY <1>2 DEF LogsOk
  <2>2. /\ edits'[r] = Append(edits[r], op)
        /\ \A q \in Replica : q # r => edits'[q] = edits[q]
        /\ edits' = [q \in Replica |-> edits'[q]]
    BY <1>1, <2>1
  <2>3. /\ Append(edits[r], op) \in Seq(Range(edits[r]) \cup {op})
        /\ Range(Append(edits[r], op)) = Range(edits[r]) \cup {op}
    BY <2>1, RangeOfAppend
  <2>4. QED BY <2>2, <2>3
<1>8. TypeOK'
  <2>1. JobsOk'
    BY <1>2, <1>3, <1>5 DEF JobsOk
  <2>2. LogsOk'
    BY <1>1, <1>2, <1>6 DEF LogsOk
  <2>3. GotOk'
    <3>1. got \in [Replica -> [Replica -> [Log -> Nat]]]
      BY <1>2 DEF GotOk
    <3> DEFINE g == [got[r][r] EXCEPT !["edits"] = @ + 1]
    <3>2. g \in [Log -> Nat] /\ g["moves"] = got[r][r]["moves"]
      BY <3>1 DEF Log
    <3>3. got' = [got EXCEPT ![r] = [got[r] EXCEPT ![r] = g]]
      BY <1>1
    <3> HIDE DEF g
    <3>4. /\ got' \in [Replica -> [Replica -> [Log -> Nat]]] /\ got'[r][r] = g
          /\ \A q, p \in Replica : ~(q = r /\ p = r) => got'[q][p] = got[q][p]
      BY <3>1, <3>2, <3>3
    <3>5. \A q, p \in Replica : got'[q][p]["moves"] = got[q][p]["moves"]
      BY <3>2, <3>4
    <3>6. QED BY <1>1, <1>2, <3>4, <3>5 DEF GotOk
  <2>4. QED BY <1>1, <1>2, <2>1, <2>2, <2>3 DEF TypeOK, CountersOk
<1>9. ASSUME NEW q \in Replica, NEW l \in Task[q]
      PROVE  /\ OnMoves(job'[q][l]) \/ job'[q][l].pc = "send" => ~(q = r /\ l = k)
             /\ ~(q = r /\ l = k) => job'[q][l] = job[q][l]
  BY <1>3, <1>5
<1>10. CaughtUp' /\ StampsPast' /\ StampsApart'
  BY <1>1, <1>9 DEF IInv, CaughtUp, StampsPast, StampsApart
<1>11. StampsNew' /\ FreshNamed'
  BY <1>1, <1>9 DEF IInv, StampsNew, FreshNamed
<1>12. MoveKeysUnique' /\ ChildrenCreated'
  BY <1>1 DEF IInv, MoveKeysUnique, ChildrenCreated, Created, AllMoves
<1>13. MovedKnown'
  <2>1. ~Moving(x, r)
    BY <1>3 DEF Moving
  <2>2. QED BY <1>1, <1>3, <1>5, <2>1 DEF IInv, MovedKnown, Known, AllMoves
<1>14. SavesNamed'
  <2>1. AllMoves' = AllMoves
    BY <1>1 DEF AllMoves
  <2>2. \A e \in AllEdits' : e \in AllEdits \/ e = op
    BY <1>6 DEF AllEdits
  <2>3. \E o \in AllMoves' : o.child = op.op.id
    BY <1>4, <2>1 DEF IInv, SavesNamed, Named, op
  <2>4. ~Saving(x, r)
    BY <1>3 DEF Saving
  <2>5. \A q \in Replica : \A l \in Task[q] :
            \/ job'[q][l] = job[q][l]
            \/ ~WillSave(job'[q][l]) /\ ~Saving(job'[q][l], q)
    BY <1>4, <1>5, <2>4
  <2>6. QED BY <2>1, <2>2, <2>3, <2>5, SavesStayNamed DEF IInv
<1>15. QED BY <1>8, <1>10, <1>11, <1>12, <1>13, <1>14 DEF IInv

\* Nothing was appended and the task has ended.
LEMMA NotSentKeeps ==
  ASSUME IInv, NEW r \in Replica, NEW k \in Task[r], job' = [job EXCEPT ![r][k] = Idle],
         UNCHANGED <<moves, edits, got, clock, ctr, restarts>>
  PROVE  IInv'
<1>1. TypeOK /\ LogsOk /\ GotOk /\ JobsOk /\ CountersOk
  BY DEF IInv, TypeOK
<1>2. /\ JobOk(Idle, r) /\ Idle.pc = "idle" /\ ~OnMoves(Idle)
      /\ ~WillMove(Idle) /\ ~WillSave(Idle) /\ ~Moving(Idle, r) /\ ~Saving(Idle, r)
  BY IdleShape
<1>3. /\ job' = [q \in Replica |-> [l \in Task[q] |-> job'[q][l]]]
      /\ job'[r][k] = Idle
      /\ \A q \in Replica : \A l \in Task[q] :
             ~(q = r /\ l = k) => job'[q][l] = job[q][l]
  <2>1. JobBecomes(r, k, Idle)
    BY <1>1, JobSet
  <2>2. QED BY <2>1 DEF JobBecomes
<1>4. ASSUME NEW q \in Replica, NEW l \in Task[q]
      PROVE  /\ OnMoves(job'[q][l]) \/ job'[q][l].pc = "send" => job'[q][l] = job[q][l]
             /\ \/ job'[q][l] = job[q][l]
                \/ /\ ~WillMove(job'[q][l]) /\ ~Moving(job'[q][l], q)
                   /\ ~WillSave(job'[q][l]) /\ ~Saving(job'[q][l], q)
  BY <1>2, <1>3
<1>5. TypeOK'
  <2>1. JobsOk'
    BY <1>1, <1>2, <1>3 DEF JobsOk
  <2>2. QED BY <1>1, <2>1 DEF TypeOK, LogsOk, GotOk, CountersOk
<1>6. CaughtUp' /\ StampsPast' /\ StampsApart'
  BY <1>4 DEF IInv, CaughtUp, StampsPast, StampsApart
<1>7. StampsNew' /\ FreshNamed'
  BY <1>4 DEF IInv, StampsNew, FreshNamed
<1>8. MoveKeysUnique' /\ ChildrenCreated'
  BY DEF IInv, MoveKeysUnique, ChildrenCreated, Created, AllMoves
<1>9. MovedKnown' /\ SavesNamed'
  BY <1>4, TasksKnow, NothingToSave DEF IInv
<1>10. QED BY <1>5, <1>6, <1>7, <1>8, <1>9 DEF IInv

\* A task sends its operation, or fails to.
LEMMA SendingKeeps ==
  ASSUME IInv, NEW r \in Replica, NEW k \in Task[r], Send(r, k) \/ SendFails(r, k)
  PROVE  IInv'
<1>1. CASE \E x \in After(job[r][k]) : Sends(r, k, x)
  BY <1>1, SendMoveKeeps, SendSaveKeeps
<1>2. CASE /\ job' = [job EXCEPT ![r][k] = Idle]
           /\ UNCHANGED <<moves, edits, got, clock, ctr, restarts>>
  BY <1>2, NotSentKeeps
<1>3. QED BY <1>1, <1>2, SendingForms

LEMMA StutterKeeps == IInv /\ UNCHANGED vars => IInv'
<1> SUFFICES ASSUME IInv, UNCHANGED vars PROVE IInv'
  OBVIOUS
<1>1. TypeOK'
  BY DEF IInv, vars, TypeOK, LogsOk, GotOk, JobsOk, CountersOk
<1>2. CaughtUp' /\ StampsPast' /\ StampsApart' /\ StampsNew' /\ FreshNamed'
  BY DEF IInv, vars, CaughtUp, StampsPast, StampsApart, StampsNew, FreshNamed
<1>3. MoveKeysUnique' /\ ChildrenCreated' /\ MovedKnown'
  BY DEF IInv, vars, MoveKeysUnique, ChildrenCreated, Created, MovedKnown, Known, AllMoves
<1>4. SavesNamed'
  BY NothingToSave DEF IInv, vars
<1>5. QED BY <1>1, <1>2, <1>3, <1>4 DEF IInv

\* Whatever the tasks of the devices do, however operations are delivered, whenever
\* an append fails or a process is restarted: stamps are ticks that nobody else has,
\* a task that works on the tree has caught up with its own log, every node id has the
\* tick of a move that was sent, and saves are of nodes that were sent before.
THEOREM Inductive == Spec => []IInv
<1>1. IInv /\ [Next]_vars => IInv'
  <2> SUFFICES ASSUME IInv, Next PROVE IInv'
    BY StutterKeeps
  <2>1. PICK r \in Replica :
            \/ LET t == TreeAt(r)  nodes == DOMAIN t.edges \cup {ROOT} IN
               \E k \in Task[r] :
                   \/ Enter(r, k)
                   \/ job[r][k].pc = "look" /\ Looking(r, k, t, nodes)
                   \/ \E n \in nodes, cid \in Cid, at \in Time :
                          SetContent(r, k, t, n, cid, at)
                   \/ Stamp(r, k)
                   \/ Send(r, k)
                   \/ SendFails(r, k)
            \/ \E s \in Replica, which \in Log : Deliver(r, s, which)
            \/ Restart(r)
    BY DEF Next
  <2>2. TypeOK
    BY DEF IInv
  <2>4. ASSUME NEW k \in Task[r], Enter(r, k) PROVE IInv'
    BY <2>4, EnterKeeps
  <2>5. ASSUME NEW k \in Task[r], job[r][k].pc = "look",
               Looking(r, k, TreeAt(r), DOMAIN TreeAt(r).edges \cup {ROOT})
        PROVE  IInv'
    <3>1. PICK todo : GoodPlan(todo) /\ Found(r, k, todo)
      BY <2>2, <2>5, LookingPlans
    <3>2. Intend(r, k, todo)
      BY <3>1 DEF Found
    <3>3. QED BY <2>5, <3>1, <3>2, IntendKeeps
  <2>6. ASSUME NEW k \in Task[r], NEW n, NEW cid \in Cid, NEW at \in Time,
               SetContent(r, k, TreeAt(r), n, cid, at)
        PROVE  IInv'
    <3> DEFINE todo == <<SetOp(n, cid, at)>>
    <3>1. job[r][k].pc = "idle" /\ Intend(r, k, todo)
      BY <2>6 DEF SetContent
    <3>2. GoodPlan(todo)
      <4>1. n \in DOMAIN TreeAt(r).edges
        BY <2>6 DEF SetContent
      <4>2. Named(n)
        BY <2>2, <4>1, TreeKnows DEF Known, Named
      <4>3. QED BY <4>2 DEF GoodPlan
    <3>3. WillSave(Planned(todo))
      <4>1. IsSave(todo[1]) /\ todo = <<todo[1]>> /\ Len(todo) = 1
        BY DEF IsSave, SetOp
      <4> HIDE DEF todo
      <4>2. QED BY <4>1 DEF WillSave, Planned
    <3> HIDE DEF todo
    <3>4. QED BY <3>1, <3>2, <3>3, IntendKeeps
  <2>7. ASSUME NEW k \in Task[r], Stamp(r, k) PROVE IInv'
    BY <2>7, StampKeeps
  <2>8. ASSUME NEW k \in Task[r], Send(r, k) \/ SendFails(r, k) PROVE IInv'
    BY <2>8, SendingKeeps
  <2>9. ASSUME NEW s \in Replica, NEW which \in Log, Deliver(r, s, which) PROVE IInv'
    BY <2>9, DeliverKeeps
  <2>10. ASSUME Restart(r) PROVE IInv'
    BY <2>10, RestartKeeps
  <2>11. QED BY <2>1, <2>4, <2>5, <2>6, <2>7, <2>8, <2>9, <2>10
<1>2. QED BY <1>1, InitInv, PTL DEF Spec

\* The union of the tree logs, which ce_coord::Merged keys by timestamp, loses no
\* move: no two different moves of any devices share a key, however tasks interleave
\* at the awaits of sync.rs and after restarts, which set the clock back to 0.
THEOREM KeysAreUnique == Spec => []MoveKeysUnique
<1>1. IInv => MoveKeysUnique
  BY DEF IInv
<1>2. QED BY <1>1, Inductive, PTL

\* No device ever records content under an id that no node has: add_file sends the
\* node before its content and stops at the first error, and new versions and
\* write-backs are of nodes that the union held when they were planned.
THEOREM SavesAreOfNodes == Spec => []SavedNodesExist
<1>1. IInv => SavedNodesExist
  BY DEF IInv, SavesNamed, Named, SavedNodesExist
<1>2. QED BY <1>1, Inductive, PTL

\* The id that fresh_node_id mints, of the tick, the replica and the counter that
\* starts at 0 with every process, is the id of no node that any device has moved.
THEOREM CreationsAreNew == Spec => NewNodesAreNew
<1> DEFINE New == \A r \in Replica : \A k \in Task[r] :
                      (Send(r, k) \/ SendFails(r, k)) /\ job[r][k].fresh =>
                          \A o \in AllMoves : o.child # job[r][k].op.child
<1>1. IInv => New
  <2> SUFFICES ASSUME IInv, NEW r \in Replica, NEW k \in Task[r],
                      Send(r, k) \/ SendFails(r, k), job[r][k].fresh,
                      NEW o \in AllMoves, o.child = job[r][k].op.child
               PROVE  FALSE
    OBVIOUS
  <2> DEFINE j == job[r][k]
  <2>1. j.pc = "send" /\ JobOk(j, r)
    BY DEF Send, SendFails, IInv, TypeOK, JobsOk
  <2>2. "child" \in DOMAIN j.op /\ j.op.ts \in [lamport : Nat, replica : {r}]
    BY <2>1, TaskStates
  <2>3. j.op.child[1] = j.op.ts.lamport /\ j.op.child[2] = r
    BY <2>1 DEF IInv, FreshNamed
  <2>4. PICK p \in Range(moves[r]) : p.ts.lamport = j.op.ts.lamport
    BY <2>3 DEF IInv, ChildrenCreated, Created
  <2>5. p.ts \in [lamport : Nat, replica : {r}]
    <3>1. PICK i \in DOMAIN moves[r] : p = moves[r][i]
      BY DEF Range
    <3>2. p \in MoveOp(r)
      BY <3>1 DEF IInv, TypeOK, LogsOk
    <3>3. QED BY <3>2 DEF MoveOp
  <2> HIDE DEF j
  <2>6. p.ts = j.op.ts
    BY <2>2, <2>4, <2>5
  <2>7. QED BY <2>1, <2>2, <2>6 DEF IInv, StampsNew, j
<1>2. IInv /\ [Next]_vars => [New]_vars
  BY <1>1
<1>3. NewNodesAreNew <=> [][New]_vars
  BY DEF NewNodesAreNew
<1>4. QED BY <1>2, <1>3, Inductive, PTL DEF Spec

-----------------------------------------------------------------------------
(* The content logs.  A save is stamped with a tick that no other save of the *)
(* same process gets; only the clock of a restarted process may repeat one.   *)

IsEdit(e, r) ==
    /\ e = [ts |-> e.ts, op |-> e.op] /\ IsSave(e.op)
    /\ e.ts \in [lamport : Nat, replica : {r}]

EditsOk == \A r \in Replica : \A e \in Range(edits[r]) : IsEdit(e, r)

EditsGot == \A r, s \in Replica : got[r][s]["edits"] <= Len(edits[s])

EditsKeyed ==
    \A r \in Replica : restarts[r] = 0 =>
        \A e \in Range(edits[r]) :
            /\ e.ts.lamport <= clock[r]
            /\ \A f \in Range(edits[r]) : f.ts.lamport = e.ts.lamport => f = e
            /\ \A k \in Task[r] :
                   job[r][k].pc = "send" => job[r][k].op.ts.lamport # e.ts.lamport

EditsInv == EditsOk /\ EditsGot /\ EditsKeyed

\* A step that sends no save: whatever it stamps is later than every save.
LEMMA EditsStay ==
  ASSUME IInv, IInv', EditsInv, edits' = edits,
         \A q \in Replica : restarts'[q] = 0 => restarts[q] = 0 /\ clock[q] <= clock'[q],
         \A q \in Replica : \A l \in Task[q] :
            restarts'[q] = 0 /\ job'[q][l].pc = "send" =>
                job'[q][l] = job[q][l] \/ job'[q][l].op.ts.lamport > clock[q],
         \A q, p \in Replica : got'[q][p]["edits"] <= Len(edits[p])
  PROVE  EditsInv'
<1>1. EditsOk' /\ EditsGot'
  BY DEF EditsInv, EditsOk, EditsGot
<1>2. ASSUME NEW q \in Replica, restarts'[q] = 0, NEW e \in Range(edits[q])
      PROVE  /\ e.ts.lamport <= clock'[q]
             /\ \A f \in Range(edits[q]) : f.ts.lamport = e.ts.lamport => f = e
             /\ \A k \in Task[q] :
                    job'[q][k].pc = "send" => job'[q][k].op.ts.lamport # e.ts.lamport
  <2>1. /\ restarts[q] = 0 /\ clock[q] <= clock'[q]
        /\ clock[q] \in Nat /\ clock'[q] \in Nat
    BY <1>2 DEF IInv, TypeOK, CountersOk
  <2>2. e.ts.lamport \in Nat /\ e.ts.lamport <= clock[q]
    BY <1>2, <2>1 DEF EditsInv, EditsOk, EditsKeyed, IsEdit
  <2>3. ASSUME NEW k \in Task[q], job'[q][k].pc = "send"
        PROVE  job'[q][k].op.ts.lamport # e.ts.lamport
    <3>1. CASE job'[q][k] = job[q][k]
      BY <1>2, <2>1, <2>3, <3>1 DEF EditsInv, EditsKeyed
    <3>2. CASE job'[q][k].op.ts.lamport > clock[q]
      <4>1. job'[q][k].op.ts.lamport \in Nat
        <5>1. JobOk(job'[q][k], q)
          BY DEF IInv, TypeOK, JobsOk
        <5>2. job'[q][k].op.ts \in [lamport : Nat, replica : {q}]
          BY <2>3, <5>1, TaskStates
        <5>3. QED BY <5>2
      <4>2. QED BY <2>1, <2>2, <3>2, <4>1
    <3>3. QED BY <1>2, <2>3, <3>1, <3>2
  <2>4. QED BY <1>2, <2>1, <2>2, <2>3 DEF EditsInv, EditsKeyed
<1>3. EditsKeyed'
  BY <1>2 DEF EditsKeyed
<1>4. QED BY <1>1, <1>3 DEF EditsInv

\* What one more delivered operation does to what a device holds.
EditArrives(r, s) ==
    \A q, p \in Replica :
        got'[q][p]["edits"] = IF q = r /\ p = s THEN got[q][p]["edits"] + 1
                              ELSE got[q][p]["edits"]

LEMMA GotMore ==
  ASSUME GotOk, NEW r \in Replica, NEW s \in Replica, NEW which \in Log,
         got' = [got EXCEPT ![r][s][which] = @ + 1]
  PROVE  IF which = "edits" THEN EditArrives(r, s)
         ELSE \A q, p \in Replica : got'[q][p]["edits"] = got[q][p]["edits"]
<1>1. got \in [Replica -> [Replica -> [Log -> Nat]]]
  BY DEF GotOk
<1> DEFINE g == [got[r][s] EXCEPT ![which] = @ + 1]
<1>2. got' = [got EXCEPT ![r] = [got[r] EXCEPT ![s] = g]]
  OBVIOUS
<1>3. g["edits"] = IF which = "edits" THEN got[r][s]["edits"] + 1 ELSE got[r][s]["edits"]
  <2>1. got[r][s] \in [Log -> Nat] /\ "edits" \in Log
    BY <1>1 DEF Log
  <2>2. QED BY <2>1
<1> HIDE DEF g
<1>4. /\ got'[r][s] = g
      /\ \A q, p \in Replica : ~(q = r /\ p = s) => got'[q][p] = got[q][p]
  BY <1>1, <1>2
<1>5. CASE which = "edits"
  <2>1. g["edits"] = got[r][s]["edits"] + 1
    BY <1>3, <1>5
  <2>2. \A q, p \in Replica : got'[q][p]["edits"] = IF q = r /\ p = s
            THEN got[q][p]["edits"] + 1 ELSE got[q][p]["edits"]
    BY ONLY <1>4, <2>1
  <2>3. QED BY <1>5, <2>2 DEF EditArrives
<1>6. CASE which # "edits"
  <2>1. g["edits"] = got[r][s]["edits"]
    BY <1>3, <1>6
  <2>2. \A q, p \in Replica : got'[q][p]["edits"] = got[q][p]["edits"]
    BY ONLY <1>4, <2>1
  <2>3. QED BY <1>6, <2>2
<1>7. QED BY <1>5, <1>6

\* Saving: the stamp that the task got is no earlier save's, and no other task's.
LEMMA SendSaveKeyed ==
  ASSUME IInv, IInv', EditsInv, NEW r \in Replica, NEW k \in Task[r],
         NEW x \in After(job[r][k]), Sends(r, k, x), "child" \notin DOMAIN job[r][k].op
  PROVE  EditsInv'
<1> DEFINE j  == job[r][k]
           op == j.op
<1>1. /\ j.pc = "send"
      /\ edits' = [edits EXCEPT ![r] = Append(@, op)]
      /\ got' = [got EXCEPT ![r][r]["edits"] = @ + 1]
      /\ clock' = clock /\ restarts' = restarts
      /\ job' = [job EXCEPT ![r][k] = x]
  BY DEF Sends, Appended
<1>2. TypeOK /\ LogsOk /\ GotOk /\ CountersOk /\ JobOk(j, r)
  BY DEF IInv, TypeOK, JobsOk
<1>3. Saving(j, r)
  BY <1>1, <1>2, TaskStates
<1>4. x.pc # "send"
  BY <1>1, <1>2, SentShapes
<1>5. /\ job'[r][k] = x
      /\ \A q \in Replica : \A l \in Task[q] : ~(q = r /\ l = k) => job'[q][l] = job[q][l]
  <2>1. JobBecomes(r, k, x)
    BY <1>1, <1>2, JobSet
  <2>2. QED BY <2>1 DEF JobBecomes
<1>6. /\ IsEdit(op, r) /\ op.ts.lamport <= clock[r]
      /\ \A l \in Task[r] : l # k /\ job[r][l].pc = "send" =>
             job[r][l].op.ts.lamport # op.ts.lamport
      /\ restarts[r] = 0 => \A e \in Range(edits[r]) : op.ts.lamport # e.ts.lamport
  <2>1. IsEdit(op, r)
    BY <1>3 DEF Saving, IsEdit
  <2>2. op.ts.lamport <= clock[r]
    BY <1>1 DEF IInv, StampsPast
  <2>3. \A l \in Task[r] : l # k /\ job[r][l].pc = "send" =>
             job[r][l].op.ts.lamport # op.ts.lamport
    BY <1>1 DEF IInv, StampsApart
  <2>4. restarts[r] = 0 => \A e \in Range(edits[r]) : op.ts.lamport # e.ts.lamport
    BY <1>1 DEF EditsInv, EditsKeyed
  <2>5. QED BY <2>1, <2>2, <2>3, <2>4
<1> HIDE DEF op
<1>7. /\ Range(edits'[r]) = Range(edits[r]) \cup {op}
      /\ Len(edits'[r]) = Len(edits[r]) + 1
      /\ \A q \in Replica : q # r => edits'[q] = edits[q]
      /\ \A q \in Replica : Len(edits[q]) \in Nat
  <2>1. /\ edits = [q \in Replica |-> edits[q]]
        /\ \A q \in Replica : edits[q] \in Seq(Range(edits[q]))
    BY <1>2 DEF LogsOk
  <2>2. edits'[r] = Append(edits[r], op) /\ \A q \in Replica : q # r => edits'[q] = edits[q]
    BY <1>1, <2>1
  <2>3. /\ Len(Append(edits[r], op)) = Len(edits[r]) + 1
        /\ Range(Append(edits[r], op)) = Range(edits[r]) \cup {op}
    <3>1. edits[r] \in Seq(Range(edits[r]))
      BY <2>1
    <3>2. QED BY ONLY <3>1, RangeOfAppend
  <2>4. \A q \in Replica : Len(edits[q]) \in Nat
    BY <2>1
  <2>5. QED BY <2>2, <2>3, <2>4
<1>8. EditsOk'
  <2>1. \A q \in Replica : \A e \in Range(edits'[q]) :
            e \in Range(edits[q]) \/ (q = r /\ e = op)
    BY <1>7
  <2>2. QED BY <1>6, <2>1 DEF EditsInv, EditsOk
<1>9. EditsGot'
  <2>1. EditArrives(r, r)
    <3>1. "edits" \in Log
      BY DEF Log
    <3>2. QED BY <1>1, <1>2, <3>1, GotMore
  <2>2. \A q, p \in Replica : got[q][p]["edits"] \in Nat /\ got[q][p]["edits"] <= Len(edits[p])
    BY <1>2 DEF EditsInv, EditsGot, GotOk, Log
  <2> SUFFICES ASSUME NEW q \in Replica, NEW p \in Replica
               PROVE  got'[q][p]["edits"] <= Len(edits'[p])
    BY DEF EditsGot
  <2>3. Len(edits'[p]) = IF p = r THEN Len(edits[p]) + 1 ELSE Len(edits[p])
    BY <1>7
  <2>4. Len(edits[p]) \in Nat /\ got[q][p]["edits"] \in Nat
        /\ got[q][p]["edits"] <= Len(edits[p])
    BY <1>7, <2>2
  <2>5. QED BY <2>1, <2>3, <2>4 DEF EditArrives
<1>10. EditsKeyed'
  <2> SUFFICES ASSUME NEW q \in Replica, restarts[q] = 0, NEW e \in Range(edits'[q])
               PROVE  /\ e.ts.lamport <= clock[q]
                      /\ \A f \in Range(edits'[q]) : f.ts.lamport = e.ts.lamport => f = e
                      /\ \A l \in Task[q] :
                             job'[q][l].pc = "send" => job'[q][l].op.ts.lamport # e.ts.lamport
    BY <1>1 DEF EditsKeyed
  <2>1. \A a \in Range(edits[q]) :
            /\ a.ts.lamport <= clock[q]
            /\ \A f \in Range(edits[q]) : f.ts.lamport = a.ts.lamport => f = a
            /\ \A l \in Task[q] :
                   job[q][l].pc = "send" => job[q][l].op.ts.lamport # a.ts.lamport
    BY DEF EditsInv, EditsKeyed
  <2>2. CASE q # r
    BY <1>5, <1>7, <2>1, <2>2
  <2>3. CASE q = r
    <3>1. \A a \in Range(edits'[r]) : a \in Range(edits[r]) \/ a = op
      BY <1>7
    <3>2. \A l \in Task[r] : job'[r][l].pc = "send" => l # k /\ job'[r][l] = job[r][l]
      BY <1>4, <1>5
    <3>3. CASE e = op
      BY <1>6, <2>3, <3>1, <3>2, <3>3
    <3>4. CASE e \in Range(edits[r])
      <4>1. \A f \in Range(edits'[r]) : f.ts.lamport = e.ts.lamport => f = e
        BY <1>6, <2>1, <2>3, <3>1, <3>4
      <4>2. QED BY <2>1, <2>3, <3>2, <3>4, <4>1
    <3>5. QED BY <2>3, <3>1, <3>3, <3>4
  <2>4. QED BY <2>2, <2>3
<1>11. QED BY <1>8, <1>9, <1>10 DEF EditsInv

\* A step of one task, which sends no save.
LEMMA TaskStays ==
  ASSUME IInv, IInv', EditsInv, NEW r \in Replica, NEW k \in Task[r], NEW x,
         job' = [job EXCEPT ![r][k] = x],
         x.pc = "send" => x.op.ts.lamport > clock[r],
         edits' = edits, restarts' = restarts,
         \A q \in Replica : clock[q] <= clock'[q],
         \A q, p \in Replica : got'[q][p]["edits"] = got[q][p]["edits"]
  PROVE  EditsInv'
<1>1. JobBecomes(r, k, x)
  <2>1. TypeOK
    BY DEF IInv
  <2>2. QED BY <2>1, JobSet
<1>2. \A q \in Replica : \A l \in Task[q] :
         restarts'[q] = 0 /\ job'[q][l].pc = "send" =>
             job'[q][l] = job[q][l] \/ job'[q][l].op.ts.lamport > clock[q]
  BY <1>1 DEF JobBecomes
<1>3. \A q \in Replica : restarts'[q] = 0 => restarts[q] = 0 /\ clock[q] <= clock'[q]
  OBVIOUS
<1>4. \A q, p \in Replica : got'[q][p]["edits"] <= Len(edits[p])
  BY DEF EditsInv, EditsGot
<1>5. QED BY <1>2, <1>3, <1>4, EditsStay

LEMMA EnterKeyed ==
  ASSUME IInv, IInv', EditsInv, NEW r \in Replica, NEW k \in Task[r], Enter(r, k)
  PROVE  EditsInv'
<1> DEFINE new == MaxNat(clock[r], Newest(MovesAt(r)))
           x == [job[r][k] EXCEPT !.pc = "look"]
<1>1. /\ job' = [job EXCEPT ![r][k] = x]
      /\ clock' = [clock EXCEPT ![r] = new]
      /\ edits' = edits /\ got' = got /\ restarts' = restarts
  BY DEF Enter
<1>2. TypeOK
  BY DEF IInv
<1>3. clock[r] <= new
  <2>1. Newest(MovesAt(r)) \in Nat /\ clock[r] \in Nat
    BY <1>2, NewestOfHeld DEF TypeOK, CountersOk
  <2>2. QED BY <2>1 DEF MaxNat
<1> HIDE DEF new
<1>4. \A q \in Replica : clock[q] <= clock'[q]
  <2>1. clock \in [Replica -> Nat]
    BY <1>2 DEF TypeOK, CountersOk
  <2>2. QED BY <1>1, <1>3, <2>1
<1>5. x.pc # "send"
  <2>1. JobOk(job[r][k], r)
    BY <1>2 DEF TypeOK, JobsOk
  <2>2. x.pc = "look"
    BY <2>1 DEF JobOk
  <2>3. QED BY <2>2
<1> HIDE DEF x
<1>6. QED BY <1>1, <1>4, <1>5, TaskStays

LEMMA IntendKeyed ==
  ASSUME IInv, IInv', EditsInv, NEW r \in Replica, NEW k \in Task[r], NEW todo,
         Intend(r, k, todo)
  PROVE  EditsInv'
<1>1. /\ job' = [job EXCEPT ![r][k] = Planned(todo)]
      /\ clock' = clock /\ edits' = edits /\ got' = got /\ restarts' = restarts
  BY DEF Intend
<1>2. \A q \in Replica : clock[q] <= clock'[q]
  BY <1>1 DEF IInv, TypeOK, CountersOk
<1>3. Planned(todo).pc # "send"
  BY DEF Planned
<1>4. QED BY <1>1, <1>2, <1>3, TaskStays

\* tick: the stamp is past every save of this process, for those were ticks too.
LEMMA StampKeyed ==
  ASSUME IInv, IInv', EditsInv, NEW r \in Replica, NEW k \in Task[r], Stamp(r, k)
  PROVE  EditsInv'
<1>1. PICK x : job' = [job EXCEPT ![r][k] = x]
  BY DEF Stamp
<1>2. /\ clock' = [clock EXCEPT ![r] = @ + 1] /\ clock \in [Replica -> Nat]
      /\ edits' = edits /\ got' = got /\ restarts' = restarts
  BY DEF Stamp, IInv, TypeOK, CountersOk
<1>3. \A q \in Replica : clock[q] <= clock'[q]
  BY <1>2
<1>4. x.op.ts.lamport = clock[r] + 1
  <2> DEFINE ts == [lamport |-> clock[r] + 1, replica |-> r]
  <2>1. job'[r][k].op.ts = ts
    <3> DEFINE j == job[r][k]
               intent == Head(j.todo)
               isMove == "new_parent" \in DOMAIN intent
               create == isMove /\ intent.child = Nil
               id == FreshNodeId(ts, ctr[r])
               op == IF isMove
                     THEN [ts |-> ts, child |-> IF create THEN id ELSE intent.child,
                           new_parent |-> intent.new_parent,
                           new_name |-> intent.new_name, kind |-> intent.kind]
                     ELSE [ts |-> ts, op |-> intent]
               todo == IF create THEN [i \in DOMAIN Tail(j.todo) |->
                                          [Tail(j.todo)[i] EXCEPT !.id = id]]
                       ELSE Tail(j.todo)
               y == [pc |-> "send", op |-> op, fresh |-> create, todo |-> todo]
    <3>1. job' = [job EXCEPT ![r][k] = y]
      BY DEF Stamp
    <3>2. op.ts = ts
      <4> HIDE DEF ts, intent, id
      <4>1. QED OBVIOUS
    <3>3. y.op = op
      OBVIOUS
    <3> HIDE DEF y, op
    <3>4. job'[r][k] = y
      <4>1. JobBecomes(r, k, y)
        BY <3>1, JobSet DEF IInv
      <4>2. QED BY <4>1 DEF JobBecomes
    <3>5. QED BY <3>2, <3>3, <3>4
  <2>2. job'[r][k] = x
    <3>1. JobBecomes(r, k, x)
      BY <1>1, JobSet DEF IInv
    <3>2. QED BY <3>1 DEF JobBecomes
  <2>3. QED BY <2>1, <2>2
<1>5. x.op.ts.lamport > clock[r]
  BY <1>2, <1>4
<1>6. QED BY <1>1, <1>2, <1>3, <1>5, TaskStays

LEMMA SendMoveKeyed ==
  ASSUME IInv, IInv', EditsInv, NEW r \in Replica, NEW k \in Task[r],
         NEW x \in After(job[r][k]), Sends(r, k, x), "child" \in DOMAIN job[r][k].op
  PROVE  EditsInv'
<1>1. /\ job' = [job EXCEPT ![r][k] = x]
      /\ got' = [got EXCEPT ![r][r]["moves"] = @ + 1]
      /\ clock' = clock /\ edits' = edits /\ restarts' = restarts
      /\ job[r][k].pc = "send"
  BY DEF Sends, Appended
<1>2. /\ \A q \in Replica : clock[q] <= clock'[q]
      /\ JobOk(job[r][k], r) /\ GotOk
  <2>1. clock \in [Replica -> Nat] /\ JobOk(job[r][k], r) /\ GotOk
    BY DEF IInv, TypeOK, CountersOk, JobsOk
  <2>2. \A q \in Replica : clock[q] <= clock'[q]
    BY <1>1, <2>1
  <2>3. QED BY <2>1, <2>2
<1>3. x.pc # "send"
  BY <1>1, <1>2, SentShapes
<1>4. \A q, p \in Replica : got'[q][p]["edits"] = got[q][p]["edits"]
  <2>1. "moves" \in Log /\ "moves" # "edits"
    BY DEF Log
  <2>2. QED BY <1>1, <1>2, <2>1, GotMore
<1>5. QED BY <1>1, <1>2, <1>3, <1>4, TaskStays

LEMMA SendingKeyed ==
  ASSUME IInv, IInv', EditsInv, NEW r \in Replica, NEW k \in Task[r],
         Send(r, k) \/ SendFails(r, k)
  PROVE  EditsInv'
<1>1. CASE \E x \in After(job[r][k]) : Sends(r, k, x)
  BY <1>1, SendMoveKeyed, SendSaveKeyed
<1>2. CASE /\ job' = [job EXCEPT ![r][k] = Idle]
           /\ UNCHANGED <<moves, edits, got, clock, ctr, restarts>>
  <2>1. clock \in [Replica -> Nat]
    BY DEF IInv, TypeOK, CountersOk
  <2>2. \A q \in Replica : clock[q] <= clock'[q]
    BY <1>2, <2>1
  <2>3. Idle.pc # "send"
    BY IdleShape
  <2>4. QED BY <1>2, <2>2, <2>3, TaskStays
<1>3. QED BY <1>1, <1>2, SendingForms

LEMMA DeliverKeyed ==
  ASSUME IInv, IInv', EditsInv, NEW r \in Replica, NEW s \in Replica, NEW which \in Log,
         Deliver(r, s, which)
  PROVE  EditsInv'
<1>1. /\ got' = [got EXCEPT ![r][s][which] = @ + 1]
      /\ which = "edits" => got[r][s]["edits"] < Len(edits[s])
      /\ clock' = clock /\ edits' = edits /\ job' = job /\ restarts' = restarts
  BY DEF Deliver
<1>2. GotOk /\ clock \in [Replica -> Nat] /\ \A p \in Replica : Len(edits[p]) \in Nat
  <2>1. \A p \in Replica : edits[p] \in Seq(Range(edits[p]))
    BY DEF IInv, TypeOK, LogsOk
  <2>2. \A p \in Replica : Len(edits[p]) \in Nat
    BY <2>1
  <2>3. QED BY <2>2 DEF IInv, TypeOK, CountersOk
<1>3. \A q, p \in Replica : got[q][p]["edits"] \in Nat /\ got[q][p]["edits"] <= Len(edits[p])
  BY <1>2 DEF GotOk, Log, EditsInv, EditsGot
<1>4. IF which = "edits" THEN EditArrives(r, s)
      ELSE \A q, p \in Replica : got'[q][p]["edits"] = got[q][p]["edits"]
  BY <1>1, <1>2, GotMore
<1>5. \A q, p \in Replica : got'[q][p]["edits"] <= Len(edits[p])
  <2> SUFFICES ASSUME NEW q \in Replica, NEW p \in Replica
               PROVE  got'[q][p]["edits"] <= Len(edits[p])
    OBVIOUS
  <2>1. /\ got[q][p]["edits"] \in Nat /\ got[q][p]["edits"] <= Len(edits[p])
        /\ Len(edits[p]) \in Nat
    BY <1>2, <1>3
  <2>2. CASE which = "edits" /\ q = r /\ p = s
    <3>1. got'[q][p]["edits"] = got[q][p]["edits"] + 1
      BY <1>4, <2>2 DEF EditArrives
    <3>2. got[q][p]["edits"] < Len(edits[p])
      BY <1>1, <2>2
    <3>3. QED BY <2>1, <3>1, <3>2
  <2>3. CASE ~(which = "edits" /\ q = r /\ p = s)
    <3>1. got'[q][p]["edits"] = got[q][p]["edits"]
      BY <1>4, <2>3 DEF EditArrives
    <3>2. QED BY <2>1, <3>1
  <2>4. QED BY <2>2, <2>3
<1>6. \A q \in Replica : restarts'[q] = 0 => restarts[q] = 0 /\ clock[q] <= clock'[q]
  BY <1>1, <1>2
<1>7. QED BY <1>1, <1>5, <1>6, EditsStay

LEMMA RestartKeyed ==
  ASSUME IInv, IInv', EditsInv, NEW r \in Replica, Restart(r)
  PROVE  EditsInv'
<1>1. /\ restarts' = [restarts EXCEPT ![r] = @ + 1]
      /\ clock' = [clock EXCEPT ![r] = 0]
      /\ job' = [job EXCEPT ![r] = [k \in Task[r] |-> Idle]]
      /\ got' = [got EXCEPT ![r] = [s \in Replica |-> IF s = r THEN got[r][s]
                                                      ELSE [log \in Log |-> 0]]]
      /\ edits' = edits
  BY DEF Restart
<1>2. /\ clock \in [Replica -> Nat] /\ restarts \in [Replica -> Nat]
      /\ job = [q \in Replica |-> job[q]]
      /\ got \in [Replica -> [Replica -> [Log -> Nat]]]
      /\ \A p \in Replica : Len(edits[p]) \in Nat
  <2>1. /\ job = [q \in Replica |-> [k \in Task[q] |-> job[q][k]]]
        /\ \A p \in Replica : edits[p] \in Seq(Range(edits[p]))
    BY DEF IInv, TypeOK, JobsOk, LogsOk
  <2>2. job = [q \in Replica |-> job[q]]
    BY <2>1
  <2>3. /\ clock \in [Replica -> Nat] /\ restarts \in [Replica -> Nat]
        /\ got \in [Replica -> [Replica -> [Log -> Nat]]]
    BY DEF IInv, TypeOK, CountersOk, GotOk
  <2>4. \A p \in Replica : Len(edits[p]) \in Nat
    BY <2>1
  <2>5. QED BY <2>2, <2>3, <2>4
<1>3. /\ \A q \in Replica : q # r =>
             clock'[q] = clock[q] /\ restarts'[q] = restarts[q] /\ job'[q] = job[q]
      /\ restarts'[r] # 0
  BY <1>1, <1>2
<1>4. \A q \in Replica : restarts'[q] = 0 => restarts[q] = 0 /\ clock[q] <= clock'[q]
  <2> SUFFICES ASSUME NEW q \in Replica, restarts'[q] = 0
               PROVE  restarts[q] = 0 /\ clock[q] <= clock'[q]
    OBVIOUS
  <2>1. q # r
    BY <1>3
  <2>2. clock'[q] = clock[q] /\ restarts'[q] = restarts[q] /\ clock[q] \in Nat
    BY <1>2, <1>3, <2>1
  <2>3. QED BY <2>2
<1>5. \A q \in Replica : \A l \in Task[q] :
         restarts'[q] = 0 /\ job'[q][l].pc = "send" =>
             job'[q][l] = job[q][l] \/ job'[q][l].op.ts.lamport > clock[q]
  BY <1>3
<1>6. \A q, p \in Replica : got'[q][p]["edits"] <= Len(edits[p])
  <2>1. \A q, p \in Replica : got'[q][p]["edits"] = got[q][p]["edits"]
                               \/ got'[q][p]["edits"] = 0
    BY <1>1, <1>2 DEF Log
  <2> SUFFICES ASSUME NEW q \in Replica, NEW p \in Replica
               PROVE  got'[q][p]["edits"] <= Len(edits[p])
    OBVIOUS
  <2>2. got[q][p]["edits"] <= Len(edits[p]) /\ Len(edits[p]) \in Nat
    BY <1>2 DEF EditsInv, EditsGot
  <2>3. got'[q][p]["edits"] = got[q][p]["edits"] \/ got'[q][p]["edits"] = 0
    BY <2>1
  <2>4. QED BY <2>2, <2>3
<1>7. QED BY <1>1, <1>4, <1>5, <1>6, EditsStay

\* The logs hold saves, no device holds more of a log than there is, and as long as
\* its process was not restarted a device stamps no two saves alike.
THEOREM EditsInductive == Spec => []EditsInv
<1>1. Init => EditsInv
  <2> SUFFICES ASSUME Init PROVE EditsInv
    OBVIOUS
  <2>1. \A r \in Replica : Range(edits[r]) = {} /\ Len(edits[r]) = 0
    BY DEF Init, Range
  <2>2. \A r, s \in Replica : got[r][s]["edits"] = 0
    BY DEF Init, Log
  <2>3. EditsGot
    BY <2>1, <2>2 DEF EditsGot
  <2>4. QED BY <2>1, <2>3 DEF EditsInv, EditsOk, EditsKeyed
<1>2. IInv /\ IInv' /\ EditsInv /\ [Next]_vars => EditsInv'
  <2> SUFFICES ASSUME IInv, IInv', EditsInv, [Next]_vars PROVE EditsInv'
    OBVIOUS
  <2>1. CASE UNCHANGED vars
    BY <2>1 DEF vars, EditsInv, EditsOk, EditsGot, EditsKeyed
  <2>2. CASE Next
    <3>1. PICK r \in Replica :
              \/ LET t == TreeAt(r)  nodes == DOMAIN t.edges \cup {ROOT} IN
                 \E k \in Task[r] :
                     \/ Enter(r, k)
                     \/ job[r][k].pc = "look" /\ Looking(r, k, t, nodes)
                     \/ \E n \in nodes, cid \in Cid, at \in Time :
                            SetContent(r, k, t, n, cid, at)
                     \/ Stamp(r, k)
                     \/ Send(r, k)
                     \/ SendFails(r, k)
              \/ \E s \in Replica, which \in Log : Deliver(r, s, which)
              \/ Restart(r)
      BY <2>2 DEF Next
    <3>2. ASSUME NEW k \in Task[r], Enter(r, k) PROVE EditsInv'
      BY <3>2, EnterKeyed
    <3>3. ASSUME NEW k \in Task[r],
                 Looking(r, k, TreeAt(r), DOMAIN TreeAt(r).edges \cup {ROOT})
          PROVE  EditsInv'
      <4>1. TypeOK
        BY DEF IInv
      <4>2. PICK todo : Found(r, k, todo)
        BY <3>3, <4>1, LookingPlans
      <4>3. Intend(r, k, todo)
        BY <4>2 DEF Found
      <4>4. QED BY <4>3, IntendKeyed
    <3>4. ASSUME NEW k \in Task[r], NEW t, NEW n, NEW cid \in Cid, NEW at \in Time,
                 SetContent(r, k, t, n, cid, at)
          PROVE  EditsInv'
      <4>1. Intend(r, k, <<SetOp(n, cid, at)>>)
        BY <3>4 DEF SetContent
      <4>2. QED BY <4>1, IntendKeyed
    <3>5. ASSUME NEW k \in Task[r], Stamp(r, k) PROVE EditsInv'
      BY <3>5, StampKeyed
    <3>6. ASSUME NEW k \in Task[r], Send(r, k) \/ SendFails(r, k) PROVE EditsInv'
      BY <3>6, SendingKeyed
    <3>7. ASSUME NEW s \in Replica, NEW which \in Log, Deliver(r, s, which) PROVE EditsInv'
      BY <3>7, DeliverKeyed
    <3>8. ASSUME Restart(r) PROVE EditsInv'
      BY <3>8, RestartKeyed
    <3>9. QED BY <3>1, <3>2, <3>3, <3>4, <3>5, <3>6, <3>7, <3>8
  <2>3. QED BY <2>1, <2>2
<1>3. QED BY <1>1, <1>2, Inductive, PTL DEF Spec

LEMMA EditsHeld ==
  ASSUME TypeOK, EditsInv, NEW r \in Replica
  PROVE  /\ IsFiniteSet(EditsAt(r))
         /\ \A e \in EditsAt(r) : \E s \in Replica : e \in Range(edits[s]) /\ IsEdit(e, s)
<1> DEFINE part(s) == {edits[s][i] : i \in 1 .. got[r][s]["edits"]}
<1>1. ASSUME NEW s \in Replica
      PROVE  /\ part(s) \subseteq Range(edits[s])
             /\ IsFiniteSet(part(s))
  <2>1. edits[s] \in Seq(Range(edits[s]))
    BY DEF TypeOK, LogsOk
  <2>2. got[r][s]["edits"] \in Nat /\ got[r][s]["edits"] <= Len(edits[s])
    BY DEF TypeOK, GotOk, Log, EditsInv, EditsGot
  <2>3. IsFiniteSet(1 .. got[r][s]["edits"])
    <3>1. 1 \in Int /\ got[r][s]["edits"] \in Int
      BY <2>2
    <3>2. QED BY <3>1, FS_Interval
  <2>4. IsFiniteSet(part(s))
    BY <2>3, ImageFinite
  <2>5. DOMAIN edits[s] = 1 .. Len(edits[s]) /\ Len(edits[s]) \in Nat
    BY <2>1
  <2>6. \A i \in 1 .. got[r][s]["edits"] : i \in DOMAIN edits[s]
    BY <2>2, <2>5
  <2>7. part(s) \subseteq Range(edits[s])
    BY <2>6 DEF Range
  <2>8. QED BY <2>4, <2>7
<1>2. EditsAt(r) = UNION {part(s) : s \in Replica}
  BY DEF EditsAt, Held
<1>3. IsFiniteSet(EditsAt(r))
  <2> DEFINE f == [s \in Replica |-> part(s)]
  <2>1. \A s \in Replica : f[s] = part(s) /\ IsFiniteSet(f[s])
    BY <1>1
  <2>2. EditsAt(r) = UNION {f[s] : s \in Replica}
    BY <1>2, <2>1
  <2>3. IsFiniteSet(UNION {f[s] : s \in Replica})
    <3> HIDE DEF f
    <3>1. \A s \in Replica : IsFiniteSet(f[s])
      BY <2>1
    <3>2. IsFiniteSet(Replica)
      BY ReplicaAssumption
    <3>3. QED BY ONLY <3>1, <3>2, UnionFinite
  <2>4. QED BY <2>2, <2>3
<1>4. \A e \in EditsAt(r) : \E s \in Replica : e \in Range(edits[s]) /\ IsEdit(e, s)
  <2> SUFFICES ASSUME NEW e \in EditsAt(r)
               PROVE  \E s \in Replica : e \in Range(edits[s]) /\ IsEdit(e, s)
    OBVIOUS
  <2>1. PICK s \in Replica : e \in part(s)
    BY <1>2
  <2>2. e \in Range(edits[s])
    BY <1>1, <2>1
  <2>3. QED BY <2>2 DEF EditsInv, EditsOk
<1>5. QED BY <1>3, <1>4

\* The union of the content logs, replayed.
IsContent(f, log, n) ==
    f = [i \in 0 .. n |-> IF i = 0 THEN NoContent ELSE ApplyContent(f[i - 1], log[i].op)]

LEMMA ContentExists ==
  ASSUME NEW log, NEW n \in Nat
  PROVE  \E f : IsContent(f, log, n)
<1> DEFINE T == {l \in Nat : ~ \E f : IsContent(f, log, l)}
<1> SUFFICES ASSUME T # {} PROVE FALSE
  OBVIOUS
<1>1. PICK l \in T : \A k \in T : l <= k
  BY LeastNat
<1>2. l # 0
  <2>1. IsContent([i \in 0 .. 0 |-> NoContent], log, 0)
    BY DEF IsContent
  <2>2. QED BY <2>1
<1>3. l \in Nat /\ l - 1 \in Nat /\ 0 .. l - 1 \subseteq 0 .. l /\ ~(l <= l - 1)
  BY <1>2
<1>4. PICK f : IsContent(f, log, l - 1)
  BY <1>1, <1>3
<1> DEFINE Step(x, i) == ApplyContent(x, log[i].op)
           g == [i \in 0 .. l |-> IF i = l THEN Step(f[l - 1], l) ELSE f[i]]
<1>5. \A i \in 0 .. l - 1 : f[i] = IF i = 0 THEN NoContent ELSE Step(f[i - 1], i)
  BY <1>4 DEF IsContent
<1>6. g = [i \in 0 .. l |-> IF i = 0 THEN NoContent ELSE Step(g[i - 1], i)]
  <2> HIDE DEF Step
  <2>1. QED BY <1>2, <1>3, <1>5
<1>7. IsContent(g, log, l)
  <2> HIDE DEF g
  <2>1. QED BY <1>6 DEF IsContent
<1>8. QED BY <1>1, <1>7

\* What a device reads keeps the saves of the union, in its order.
LEMMA ContentKeepsSaves ==
  ASSUME TypeOK, EditsInv, NEW r \in Replica
  PROVE  LET ops == InOrder(EditsAt(r)) IN
         /\ Len(ops) \in Nat /\ Len(ops) <= Cardinality(EditsAt(r))
         /\ \A i \in 1 .. Len(ops) : ops[i] \in EditsAt(r) /\ ops[i].op.type = "set"
         /\ \A o \in EditsAt(r) : (\A p \in EditsAt(r) : p.ts = o.ts => p = o) =>
               \E i \in 1 .. Len(ops) : ops[i] = o
         /\ \A n : KeepsSaves(ContentAt(r), ops, n, Len(ops))
<1> DEFINE held == EditsAt(r)
           ops  == InOrder(held)
           L    == Len(ops)
<1>1. IsFiniteSet(held) /\ \A e \in held : \E s \in Replica : IsEdit(e, s)
  BY EditsHeld
<1>2. \A e \in held : /\ e.ts = [lamport |-> e.ts.lamport, replica |-> e.ts.replica]
                       /\ e.ts.lamport \in Nat /\ e.ts.replica \in Nat
                       /\ e.op.type = "set"
  <2> HIDE DEF held
  <2> SUFFICES ASSUME NEW e \in held
               PROVE  /\ e.ts = [lamport |-> e.ts.lamport, replica |-> e.ts.replica]
                      /\ e.ts.lamport \in Nat /\ e.ts.replica \in Nat
                      /\ e.op.type = "set"
    OBVIOUS
  <2>1. PICK s \in Replica : IsEdit(e, s)
    BY <1>1
  <2>2. e.ts \in [lamport : Nat, replica : {s}] /\ s \in Nat /\ IsSave(e.op)
    BY <2>1, ReplicaAssumption DEF IsEdit
  <2>3. e.op.type = "set"
    BY <2>2 DEF IsSave, SetOp
  <2>4. QED BY <2>2, <2>3
<1>3. /\ IsFiniteSet({e.ts : e \in held}) /\ Cardinality({e.ts : e \in held}) <= Cardinality(held)
  <2> HIDE DEF held
  <2> DEFINE f == [e \in held |-> e.ts]
  <2>1. f \in Surjection(held, {e.ts : e \in held})
    BY DEF Surjection
  <2> HIDE DEF f
  <2>2. QED BY <1>1, <2>1, FS_Surjection
<1> HIDE DEF held
<1>4. /\ Len(ops) \in Nat
      /\ Len(ops) = Cardinality({e.ts : e \in held})
      /\ \A i \in 1 .. Len(ops) : ops[i] \in held
      /\ \A o \in held : (\A p \in held : p.ts = o.ts => p = o) =>
            \E i \in 1 .. Len(ops) : ops[i] = o
  BY <1>2, <1>3, InOrderOps
<1> DEFINE f == CHOOSE h : IsContent(h, ops, L)
<1>5. ContentAt(r) = f[L]
  BY DEF ContentAt, IsContent, held
<1> HIDE DEF ops
<1>6. IsContent(f, ops, L)
  <2>1. L \in Nat
    BY <1>4
  <2> HIDE DEF L
  <2>2. QED BY <2>1, ContentExists
<1> HIDE DEF f
<1>7. \A i \in 1 .. L : ops[i] \in held /\ ops[i].op.type = "set"
  BY <1>2, <1>4
<1>8. f[0] = NoContent
  <2>1. 0 \in 0 .. L
    BY <1>4
  <2>2. QED BY <1>6, <2>1 DEF IsContent
<1>9. \A i \in 1 .. L : /\ ops[i].op.type \in {"set", "restore", "remove"}
                        /\ Histories(f[i - 1]) => Applied(f[i - 1], f[i], ops[i].op)
  <2> SUFFICES ASSUME NEW i \in 1 .. L
               PROVE  /\ ops[i].op.type \in {"set", "restore", "remove"}
                      /\ Histories(f[i - 1]) => Applied(f[i - 1], f[i], ops[i].op)
    OBVIOUS
  <2>1. ops[i].op.type \in {"set", "restore", "remove"}
    BY <1>7
  <2>2. i \in 0 .. L /\ i # 0
    BY <1>4
  <2>3. f[i] = ApplyContent(f[i - 1], ops[i].op)
    BY <1>6, <2>2 DEF IsContent
  <2> DEFINE m == f[i - 1]
             op == ops[i].op
  <2>4. op.type \in {"set", "restore", "remove"} /\ f[i] = ApplyContent(m, op)
    BY <2>1, <2>3
  <2> HIDE DEF m, op
  <2>5. Histories(m) => Applied(m, f[i], op)
    BY <2>4, ContentApplied
  <2>6. QED BY <2>1, <2>5 DEF m, op
<1>10. \A n : KeepsSaves(f[L], ops, n, L)
  <2>1. L \in Nat
    BY <1>4
  <2> HIDE DEF L
  <2>2. QED BY <1>8, <1>9, <2>1, ReplayKeepsSaves
<1>11. QED
  <2>1. L <= Cardinality(held)
    BY <1>3, <1>4
  <2>2. /\ ops = InOrder(EditsAt(r)) /\ held = EditsAt(r)
    BY DEF ops, held
  <2>3. QED BY <1>4, <1>5, <1>7, <1>10, <2>1, <2>2

\* ContentMerge, on any devices, with any tasks and however late operations arrive:
\* what a device reads has the version of every save that it holds and whose writer
\* was not restarted, as long as the history has room for all that it holds.
THEOREM SavesStayKept == Spec => []SavesKept
<1>1. IInv /\ EditsInv => SavesKept
  <2> SUFFICES ASSUME IInv, EditsInv, NEW r \in Replica, NEW o \in EditsAt(r),
                      restarts[o.ts.replica] = 0, Cardinality(EditsAt(r)) <= MaxVersions
               PROVE  o.op.cid \in CidsOf(ContentAt(r)[o.op.id])
    BY DEF SavesKept
  <2> DEFINE ops == InOrder(EditsAt(r))
             L   == Len(ops)
             n   == o.op.id
             m   == ContentAt(r)
  <2>1. TypeOK
    BY DEF IInv
  <2>2. /\ L \in Nat /\ L <= Cardinality(EditsAt(r))
        /\ \A i \in 1 .. L : ops[i] \in EditsAt(r) /\ ops[i].op.type = "set"
        /\ (\A p \in EditsAt(r) : p.ts = o.ts => p = o) => \E i \in 1 .. L : ops[i] = o
        /\ KeepsSaves(m, ops, n, L)
    BY <2>1, ContentKeepsSaves
  <2>3. \A p \in EditsAt(r) : p.ts = o.ts => p = o
    <3> SUFFICES ASSUME NEW p \in EditsAt(r), p.ts = o.ts PROVE p = o
      OBVIOUS
    <3>1. PICK s \in Replica : o \in Range(edits[s]) /\ IsEdit(o, s)
      BY <2>1, EditsHeld
    <3>2. PICK q \in Replica : p \in Range(edits[q]) /\ IsEdit(p, q)
      BY <2>1, EditsHeld
    <3>3. q = s /\ o.ts.replica = s
      BY <3>1, <3>2 DEF IsEdit
    <3>4. QED BY <3>1, <3>2, <3>3 DEF EditsInv, EditsKeyed
  <2>4. PICK i \in 1 .. L : ops[i] = o
    BY <2>2, <2>3
  <2> HIDE DEF ops, m
  <2>5. i \in SinceIn(ops, n, L) /\ ops[i].op.type = "set"
    BY <2>2, <2>4 DEF SinceIn
  <2>6. o.op.cid \in SavedIn(ops, n, L)
    BY <2>4, <2>5 DEF SavedIn
  <2>7. Cardinality(SinceIn(ops, n, L)) <= MaxVersions + 1
    <3>1. SinceIn(ops, n, L) \subseteq 1 .. L
      BY DEF SinceIn
    <3>2. IsFiniteSet(1 .. L) /\ Cardinality(1 .. L) = L
      <4> HIDE DEF L
      <4>1. 1 \in Int /\ L \in Int /\ L \in Nat
        BY <2>2
      <4>2. QED BY <4>1, FS_Interval
    <3>3. /\ Cardinality(SinceIn(ops, n, L)) <= Cardinality(1 .. L)
          /\ Cardinality(SinceIn(ops, n, L)) \in Nat
      BY <3>1, <3>2, FS_Subset, FS_CardinalityType
    <3>4. Cardinality(EditsAt(r)) \in Nat
      BY <2>1, EditsHeld, FS_CardinalityType
    <3>5. QED BY <2>2, <3>2, <3>3, <3>4, MaxVersionsAssumption
  <2>8. SavedIn(ops, n, L) \subseteq CidsOf(m[n])
    BY <2>2, <2>6, <2>7 DEF KeepsSaves
  <2>9. QED BY <2>6, <2>8 DEF m
<1>2. QED BY <1>1, Inductive, EditsInductive, PTL
=============================================================================
