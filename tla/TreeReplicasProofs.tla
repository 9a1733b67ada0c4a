------------------------- MODULE TreeReplicasProofs -------------------------
(***************************************************************************)
(* Theorems about TreeReplicas, for any set of replicas, any set of nodes  *)
(* and names, and any number of moves.                                     *)
(***************************************************************************)
EXTENDS TreeRefinement, ReplayLemmas

\* A move that is built from nodes, names and kinds makes an edge, which is not
\* the absent edge.
LEMMA NewEdgeType ==
  ASSUME NEW op \in MoveOp
  PROVE  NewEdge(op) \in Edge /\ NewEdge(op) # Nil
BY NilAssumption DEF MoveOp, NewEdge, Edge

LEMMA EdgeOfType ==
  ASSUME NEW t \in TreeType, NEW n
  PROVE  EdgeOf(t.edges, n) \in Edge \cup {Nil}
BY DEF EdgeOf, TreeType

\* Pointing a node at an edge, or at none, keeps the tree in its type.
LEMMA SetEdgeType ==
  ASSUME NEW t \in TreeType, NEW n \in NodeId, NEW x \in Edge \cup {Nil}
  PROVE  SetEdge(t, n, x) \in TreeType
<1>1. PICK S \in SUBSET NodeId : t.edges \in [S -> Edge]
  BY DEF TreeType
<1>2. t.log \in Seq(LogEntry) /\ t.children \in SUBSET (NodeId \X Name \X NodeId)
  BY DEF TreeType
<1>3. CASE x = Nil
  <2>1. DropEdge(t.edges, n) \in [S \ {n} -> Edge]
    BY <1>1 DEF DropEdge
  <2>2. IndexEntries(x, n) = {}
    BY <1>3 DEF IndexEntries
  <2>3. QED BY <1>2, <1>3, <2>1, <2>2 DEF SetEdge, TreeType
<1>4. CASE x \in Edge /\ x # Nil
  <2>1. PutEdge(t.edges, n, x) \in [S \cup {n} -> Edge]
    BY <1>1, <1>4 DEF PutEdge
  <2>2. IndexEntries(x, n) \in SUBSET (NodeId \X Name \X NodeId)
    BY <1>4 DEF IndexEntries, Edge
  <2>3. S \cup {n} \in SUBSET NodeId
    OBVIOUS
  <2>4. QED BY <1>2, <1>4, <2>1, <2>2, <2>3 DEF SetEdge, TreeType
<1>5. QED BY <1>3, <1>4

LEMMA PushMoveType ==
  ASSUME NEW t \in TreeType, NEW op \in MoveOp
  PROVE  /\ PushMove(t, op) \in TreeType
         /\ [op |-> op, old |-> EdgeOf(t.edges, op.child)] \in LogEntry
<1>1. [op |-> op, old |-> EdgeOf(t.edges, op.child)] \in LogEntry
  BY EdgeOfType DEF LogEntry
<1>2. DoMove(t, op) \in TreeType
  <2>1. op.child \in NodeId
    BY DEF MoveOp
  <2>2. QED BY <2>1, NewEdgeType, SetEdgeType DEF DoMove
<1>3. t.log \in Seq(LogEntry)
  BY DEF TreeType
<1>4. Append(t.log, [op |-> op, old |-> EdgeOf(t.edges, op.child)]) \in Seq(LogEntry)
  BY <1>1, <1>3
<1>5. QED BY <1>1, <1>2, <1>4 DEF PushMove, WithLog, TreeType

LEMMA PopMoveType ==
  ASSUME NEW t \in TreeType, t.log # <<>>
  PROVE  PopMove(t) \in TreeType
<1>1. t.log \in Seq(LogEntry)
  BY DEF TreeType
<1>2. t.log[Len(t.log)] \in LogEntry
  BY <1>1
<1>3. SubSeq(t.log, 1, Len(t.log) - 1) \in Seq(LogEntry)
  BY <1>1
<1>4. UndoMove(t, t.log[Len(t.log)]) \in TreeType
  <2>1. /\ t.log[Len(t.log)].op.child \in NodeId
        /\ t.log[Len(t.log)].old \in Edge \cup {Nil}
    BY <1>2 DEF LogEntry, MoveOp
  <2>2. QED BY <2>1, SetEdgeType DEF UndoMove
<1>5. QED BY <1>3, <1>4 DEF PopMove, WithLog, TreeType

-----------------------------------------------------------------------------
(* Type correctness. *)

LEMMA AfterPushType ==
  ASSUME NEW op \in MoveOp, NEW rest \in Seq(LogEntry)
  PROVE  AfterPush(op, rest) \in JobType
BY DEF AfterPush, JobType, Idle

LEMMA BeginType ==
  ASSUME TypeOK, NEW r \in Replica, NEW op \in MoveOp, Begin(r, op)
  PROVE  job' \in [Replica -> JobType]
<1>1. Idle \in JobType /\ [phase |-> "undo", op |-> op, tail |-> <<>>] \in JobType
  BY DEF Idle, JobType
<1>2. QED BY <1>1 DEF TypeOK, Begin

LEMMA InitType == Init => TypeOK
<1> SUFFICES ASSUME Init PROVE TypeOK
  OBVIOUS
<1>1. EmptyTree \in TreeType
  <2> DEFINE e == [n \in {} |-> Nil]
  <2>1. e \in [{} -> Edge] /\ {} \in SUBSET NodeId
    OBVIOUS
  <2> HIDE DEF e
  <2>2. QED BY <2>1 DEF EmptyTree, TreeType, e
<1>2. Idle \in JobType
  BY DEF Idle, JobType
<1>3. QED BY <1>1, <1>2 DEF Init, TypeOK

LEMMA NextType == TypeOK /\ [Next]_vars => TypeOK'
<1> SUFFICES ASSUME TypeOK, [Next]_vars PROVE TypeOK'
  OBVIOUS
<1>1. ASSUME NEW r \in Replica, NEW child \in Movable, NEW parent \in NodeId,
             NEW name \in Name, NEW kind \in Kind,
             ProposeMove(r, child, parent, name, kind)
      PROVE  TypeOK'
  <2> DEFINE op == [ts |-> [lamport |-> clock[r] + 1, replica |-> r], child |-> child,
                    new_parent |-> parent, new_name |-> name, kind |-> kind]
  <2>1. op \in MoveOp
    BY MovableAssumption DEF TypeOK, MoveOp, Timestamp
  <2>2. /\ clock' = [clock EXCEPT ![r] = @ + 1]
        /\ sent' = sent \cup {op} /\ Begin(r, op) /\ tree' = tree
    BY <1>1 DEF ProposeMove
  <2> HIDE DEF op
  <2>3. job' \in [Replica -> JobType]
    BY <2>1, <2>2, BeginType
  <2>4. clock' \in [Replica -> Nat]
    BY <2>2 DEF TypeOK
  <2>5. sent' \in SUBSET MoveOp /\ tree' \in [Replica -> TreeType]
    BY <2>1, <2>2 DEF TypeOK
  <2>6. QED BY <2>3, <2>4, <2>5 DEF TypeOK
<1>2. ASSUME NEW r \in Replica, NEW op \in sent, DeliverMove(r, op)
      PROVE  TypeOK'
  <2>1. op \in MoveOp /\ op.ts.lamport \in Nat
    BY DEF TypeOK, MoveOp, Timestamp
  <2>2. job' \in [Replica -> JobType]
    BY <1>2, <2>1, BeginType DEF DeliverMove
  <2>3. MaxNat(clock[r], op.ts.lamport) + DeliveryTick \in Nat
    BY <2>1, DeliveryTickAssumption DEF TypeOK, MaxNat
  <2>4. clock' \in [Replica -> Nat]
    BY <1>2, <2>3 DEF DeliverMove, TypeOK
  <2>5. QED BY <1>2, <2>2, <2>4 DEF DeliverMove, TypeOK
<1>3. ASSUME NEW r \in Replica, UndoStep(r)
      PROVE  TypeOK'
  <2> DEFINE t == tree[r]
             last == t.log[Len(t.log)]
             rest == <<last>> \o job[r].tail
  <2>1. /\ t \in TreeType /\ t.log # <<>> /\ t.log \in Seq(LogEntry)
        /\ job[r].op \in MoveOp /\ job[r].tail \in Seq(LogEntry)
    BY <1>3 DEF UndoStep, HasLater, TypeOK, TreeType, JobType
  <2>2. PopMove(t) \in TreeType
    BY <2>1, PopMoveType
  <2>3. last \in LogEntry
    BY <2>1
  <2>4. rest \in Seq(LogEntry)
    <3> HIDE DEF last
    <3>1. QED BY <2>1, <2>3
  <2>5. [phase |-> "undo", op |-> job[r].op, tail |-> rest] \in JobType
    BY <2>1, <2>4 DEF JobType
  <2>6. /\ tree' = [tree EXCEPT ![r] = PopMove(t)]
        /\ job' = [job EXCEPT ![r] = [phase |-> "undo", op |-> job[r].op, tail |-> rest]]
        /\ clock' = clock /\ sent' = sent
    BY <1>3 DEF UndoStep
  <2> HIDE DEF rest, t
  <2>7. QED BY <2>2, <2>5, <2>6 DEF TypeOK
<1>4. ASSUME NEW r \in Replica, DoStep(r)
      PROVE  TypeOK'
  <2>1. job[r] \in [phase : {"undo"}, op : MoveOp, tail : Seq(LogEntry)]
    BY <1>4 DEF DoStep, TypeOK, JobType
  <2>2. PushMove(tree[r], job[r].op) \in TreeType
    BY <2>1, PushMoveType DEF TypeOK
  <2>3. AfterPush(job[r].op, job[r].tail) \in JobType
    BY <2>1, AfterPushType
  <2>4. QED BY <1>4, <2>2, <2>3 DEF DoStep, TypeOK
<1>5. ASSUME NEW r \in Replica, RedoStep(r)
      PROVE  TypeOK'
  <2>1. /\ job[r].op \in MoveOp /\ job[r].tail \in Seq(LogEntry)
        /\ job[r].tail # <<>>
    BY <1>5 DEF RedoStep, TypeOK, JobType
  <2>2. Head(job[r].tail) \in LogEntry /\ Tail(job[r].tail) \in Seq(LogEntry)
    BY <2>1
  <2>3. PushMove(tree[r], Head(job[r].tail).op) \in TreeType
    BY <2>2, PushMoveType DEF TypeOK, LogEntry
  <2>4. AfterPush(job[r].op, Tail(job[r].tail)) \in JobType
    BY <2>1, <2>2, AfterPushType
  <2>5. QED BY <1>5, <2>3, <2>4 DEF RedoStep, TypeOK
<1>6. CASE UNCHANGED vars
  BY <1>6 DEF vars, TypeOK
<1>7. QED BY <1>1, <1>2, <1>3, <1>4, <1>5, <1>6 DEF Next

\* The variables always have their types: every entry of every log holds a move
\* and the edge, or the absence of one, that undo_move would restore.
THEOREM TypeCorrect == Spec => []TypeOK
BY InitType, NextType, PTL DEF Spec

-----------------------------------------------------------------------------
(* The loops of integrate. *)

TreesBuilt == \A r \in Replica : Built(tree[r], LogEntry)

IInv == TypeOK /\ TreesBuilt /\ LoopOrder /\ ClocksAhead /\ UniqueTimestamps

\* What pushing a move does to the log, and to the set of moves it holds.
LEMMA PushMoveLog ==
  ASSUME NEW t \in TreeType, NEW op \in MoveOp
  PROVE  LET u == PushMove(t, op) IN
         /\ Len(t.log) \in Nat
         /\ Len(u.log) = Len(t.log) + 1
         /\ u.log[Len(u.log)].op = op
         /\ \A i \in 1 .. Len(t.log) : u.log[i] = t.log[i]
         /\ LogOps(u) = LogOps(t) \cup {op}
<1> DEFINE u == PushMove(t, op)
           entry == [op |-> op, old |-> EdgeOf(t.edges, op.child)]
<1>1. t.log \in Seq(LogEntry) /\ entry \in LogEntry
  BY PushMoveType DEF TreeType
<1>2. u.log = Append(t.log, entry)
  BY DEF PushMove, WithLog
<1>3. entry.op = op
  OBVIOUS
<1> HIDE DEF u, entry
<1>4. /\ Len(t.log) \in Nat
      /\ Len(u.log) = Len(t.log) + 1
      /\ u.log[Len(u.log)].op = op
      /\ \A i \in 1 .. Len(t.log) : u.log[i] = t.log[i]
  BY <1>1, <1>2, <1>3
<1>5. LogOps(u) = LogOps(t) \cup {op}
  <2>1. /\ LogOps(t) = {t.log[i].op : i \in 1 .. Len(t.log)}
        /\ LogOps(u) = {u.log[i].op : i \in 1 .. Len(u.log)}
    BY DEF LogOps
  <2>2. /\ \A i \in 1 .. Len(t.log) : i \in 1 .. Len(u.log)
        /\ \A i \in 1 .. Len(u.log) : i = Len(u.log) \/ i \in 1 .. Len(t.log)
        /\ Len(u.log) \in 1 .. Len(u.log)
    BY <1>4
  <2>3. ASSUME NEW x \in LogOps(u) PROVE x \in LogOps(t) \/ x = op
    BY <1>4, <2>1, <2>2
  <2>4. ASSUME NEW x \in LogOps(t) PROVE x \in LogOps(u)
    BY <1>4, <2>1, <2>2
  <2>5. op \in LogOps(u)
    BY <1>4, <2>1, <2>2
  <2>6. QED BY <2>3, <2>4, <2>5
<1>6. QED BY <1>4, <1>5 DEF u

\* Timestamps of moves are totally ordered.
LEMMA TsOrder ==
  ASSUME NEW o \in MoveOp, NEW p \in MoveOp
  PROVE  /\ TsLess(o.ts, p.ts) \/ o.ts = p.ts \/ TsLess(p.ts, o.ts)
         /\ ~TsLess(o.ts, o.ts)
         /\ \A q \in MoveOp : TsLess(o.ts, p.ts) /\ TsLess(p.ts, q.ts) => TsLess(o.ts, q.ts)
<1>1. ASSUME NEW q \in MoveOp
      PROVE  /\ q.ts.lamport \in Nat /\ q.ts.replica \in Nat
             /\ q.ts = [lamport |-> q.ts.lamport, replica |-> q.ts.replica]
  <2>1. q.ts \in Timestamp
    BY DEF MoveOp
  <2>2. QED BY <2>1, ReplicaAssumption DEF Timestamp
<1>2. /\ o.ts.lamport \in Nat /\ p.ts.lamport \in Nat
      /\ o.ts.replica \in Nat /\ p.ts.replica \in Nat
  BY <1>1
<1>3. TsLess(o.ts, p.ts) \/ o.ts = p.ts \/ TsLess(p.ts, o.ts)
  <2>1. CASE o.ts.lamport = p.ts.lamport /\ o.ts.replica = p.ts.replica
    BY <1>1, <2>1
  <2>2. CASE ~(o.ts.lamport = p.ts.lamport /\ o.ts.replica = p.ts.replica)
    BY <1>2, <2>2 DEF TsLess
  <2>3. QED BY <2>1, <2>2
<1>4. ~TsLess(o.ts, o.ts)
  BY <1>2 DEF TsLess
<1>5. ASSUME NEW q \in MoveOp, TsLess(o.ts, p.ts), TsLess(p.ts, q.ts)
      PROVE  TsLess(o.ts, q.ts)
  <2>1. q.ts.lamport \in Nat /\ q.ts.replica \in Nat
    BY <1>1
  <2>2. QED BY <2>1, <1>2, <1>5 DEF TsLess
<1>6. QED BY <1>3, <1>4, <1>5

\* Pushing a move that is later than the whole log keeps the log sorted.
LEMMA PushKeepsSorted ==
  ASSUME NEW t \in TreeType, NEW op \in MoveOp, Sorted(t.log),
         \A i \in 1 .. Len(t.log) : TsLess(t.log[i].op.ts, op.ts)
  PROVE  Sorted(PushMove(t, op).log)
<1> DEFINE u == PushMove(t, op)
<1>1. /\ Len(t.log) \in Nat
      /\ Len(u.log) = Len(t.log) + 1
      /\ u.log[Len(u.log)].op = op
      /\ \A i \in 1 .. Len(t.log) : u.log[i] = t.log[i]
  BY PushMoveLog
<1> HIDE DEF u
<1>2. SUFFICES ASSUME NEW i \in 1 .. Len(u.log), NEW j \in 1 .. Len(u.log), i < j
               PROVE  TsLess(u.log[i].op.ts, u.log[j].op.ts)
  BY DEF Sorted, u
<1>3. i \in 1 .. Len(t.log) /\ u.log[i] = t.log[i]
  BY <1>1, <1>2
<1>4. CASE j = Len(u.log)
  BY <1>1, <1>3, <1>4
<1>5. CASE j \in 1 .. Len(t.log)
  BY <1>1, <1>2, <1>3, <1>5 DEF Sorted
<1>6. QED BY <1>1, <1>4, <1>5

UndoJob == [phase : {"undo"}, op : MoveOp, tail : Seq(LogEntry)]
RedoJob == [phase : {"redo"}, op : MoveOp, tail : Seq(LogEntry) \ {<<>>}]

\* Undoing an entry that is later than the new move keeps the loop's order and
\* hands the entry over from the log to the tail.
LEMMA UndoKeepsOrder ==
  ASSUME NEW t \in TreeType, Built(t, LogEntry), NEW j \in UndoJob,
         LoopOrdered(t, j), t.log # <<>>,
         TsLess(j.op.ts, t.log[Len(t.log)].op.ts)
  PROVE  LET k == [phase |-> "undo", op |-> j.op,
                   tail |-> <<t.log[Len(t.log)]>> \o j.tail]
         IN  LoopOrdered(PopMove(t), k) /\ Taken(PopMove(t), k) = Taken(t, j)
<1> DEFINE n == Len(t.log)
           last == t.log[n]
           u == PopMove(t)
           rest == <<last>> \o j.tail
           k == [phase |-> "undo", op |-> j.op, tail |-> rest]
<1>1. /\ t.log \in Seq(LogEntry) /\ n \in Nat \ {0}
      /\ u.log \in Seq(LogEntry) /\ Len(u.log) = n - 1
      /\ \A i \in 1 .. n - 1 : u.log[i] = t.log[i]
  BY PopKeepsBuilt
<1>2. j.op \in MoveOp /\ j.tail \in Seq(LogEntry) /\ j.phase = "undo" /\ last \in LogEntry
  BY <1>1 DEF UndoJob
<1> HIDE DEF u, last
<1>3. /\ Len(j.tail) \in Nat /\ Len(rest) = Len(j.tail) + 1
      /\ rest[1] = last
      /\ \A i \in 1 .. Len(j.tail) : rest[i + 1] = j.tail[i]
      /\ \A i \in 2 .. Len(rest) : i - 1 \in 1 .. Len(j.tail) /\ rest[i] = j.tail[i - 1]
  BY <1>2
<1> HIDE DEF n, rest
<1>4. n \in 1 .. Len(t.log) /\ last = t.log[n] /\ n = Len(t.log)
  BY <1>1 DEF last, n
<1>5. /\ \A i, m \in 1 .. n : i < m => TsLess(t.log[i].op.ts, t.log[m].op.ts)
      /\ \A i, m \in 1 .. Len(j.tail) : i < m => TsLess(j.tail[i].op.ts, j.tail[m].op.ts)
      /\ \A i \in 1 .. n, m \in 1 .. Len(j.tail) :
             TsLess(t.log[i].op.ts, j.tail[m].op.ts)
      /\ ~HasTs(t, j.op.ts)
      /\ \A m \in 1 .. Len(j.tail) : TsLess(j.op.ts, j.tail[m].op.ts)
  BY <1>2, <1>4 DEF LoopOrdered, Sorted
<1>6. Sorted(u.log)
  <2>1. \A i \in 1 .. Len(u.log) : i \in 1 .. n /\ u.log[i] = t.log[i]
    BY <1>1
  <2>2. QED BY <1>5, <2>1 DEF Sorted
<1>7. Sorted(rest)
  <2> SUFFICES ASSUME NEW i \in 1 .. Len(rest), NEW m \in 1 .. Len(rest), i < m
               PROVE  TsLess(rest[i].op.ts, rest[m].op.ts)
    BY DEF Sorted
  <2>1. m \in 2 .. Len(rest) /\ m - 1 \in 1 .. Len(j.tail) /\ rest[m] = j.tail[m - 1]
    BY <1>3
  <2>2. CASE i = 1
    <3>1. TsLess(t.log[n].op.ts, j.tail[m - 1].op.ts)
      BY <1>1, <1>5, <2>1
    <3>2. rest[i] = t.log[n]
      BY <1>3, <1>4, <2>2
    <3>3. QED BY <2>1, <3>1, <3>2
  <2>3. CASE i # 1
    <3>1. i - 1 \in 1 .. Len(j.tail) /\ rest[i] = j.tail[i - 1] /\ i - 1 < m - 1
      BY <2>1, <2>3, <1>3
    <3>2. QED BY <2>1, <3>1, <1>5
  <2>4. QED BY <2>2, <2>3
<1>8. ASSUME NEW i \in 1 .. Len(u.log), NEW m \in 1 .. Len(rest)
      PROVE  TsLess(u.log[i].op.ts, rest[m].op.ts)
  <2>1. i \in 1 .. n /\ i < n /\ u.log[i] = t.log[i]
    BY <1>1
  <2>2. CASE m = 1
    BY <2>1, <2>2, <1>3, <1>4, <1>5
  <2>3. CASE m # 1
    <3>1. m - 1 \in 1 .. Len(j.tail) /\ rest[m] = j.tail[m - 1]
      BY <2>3, <1>3
    <3>2. QED BY <2>1, <3>1, <1>5
  <2>4. QED BY <2>2, <2>3
<1>9. ~HasTs(u, j.op.ts)
  BY <1>1, <1>4, <1>5 DEF HasTs
<1>10. ASSUME NEW m \in 1 .. Len(rest) PROVE TsLess(j.op.ts, rest[m].op.ts)
  <2>1. CASE m = 1
    BY <2>1, <1>3, <1>4
  <2>2. CASE m # 1
    <3>1. m - 1 \in 1 .. Len(j.tail) /\ rest[m] = j.tail[m - 1]
      BY <2>2, <1>3
    <3>2. QED BY <3>1, <1>5
  <2>3. QED BY <2>1, <2>2
<1>11. LoopOrdered(u, k)
  BY <1>6, <1>7, <1>8, <1>9, <1>10 DEF LoopOrdered
<1>12. LogOps(t) = LogOps(u) \cup {last.op}
  <2>1. /\ LogOps(t) = {t.log[i].op : i \in 1 .. n}
        /\ LogOps(u) = {u.log[i].op : i \in 1 .. Len(u.log)}
    BY <1>4 DEF LogOps
  <2>2. ASSUME NEW x \in LogOps(t) PROVE x \in LogOps(u) \/ x = last.op
    <3>1. PICK i \in 1 .. n : x = t.log[i].op
      BY <2>1
    <3>2. i # n => i \in 1 .. Len(u.log) /\ u.log[i] = t.log[i]
      BY <1>1
    <3>3. QED BY <1>4, <2>1, <3>1, <3>2
  <2>3. ASSUME NEW x \in LogOps(u) PROVE x \in LogOps(t)
    <3>1. PICK i \in 1 .. Len(u.log) : x = u.log[i].op
      BY <2>1
    <3>2. i \in 1 .. n /\ u.log[i] = t.log[i]
      BY <1>1
    <3>3. QED BY <2>1, <3>1, <3>2
  <2>4. last.op \in LogOps(t)
    BY <1>4, <2>1
  <2>5. QED BY <2>2, <2>3, <2>4
<1>13. TailOps(k) = TailOps(j) \cup {last.op}
  <2>1. TailOps(k) = {rest[i].op : i \in 1 .. Len(rest)}
    BY DEF TailOps
  <2>2. \A i \in 1 .. Len(rest) : i = 1 \/ i \in 2 .. Len(rest)
    BY <1>3
  <2>3. 1 \in 1 .. Len(rest) /\ \A i \in 1 .. Len(j.tail) : i + 1 \in 1 .. Len(rest)
    BY <1>3
  <2>4. TailOps(j) = {j.tail[i].op : i \in 1 .. Len(j.tail)}
    BY DEF TailOps
  <2> HIDE DEF k
  <2>5. ASSUME NEW op \in TailOps(k) PROVE op \in TailOps(j) \cup {last.op}
    <3>1. PICK i \in 1 .. Len(rest) : op = rest[i].op
      BY <2>1
    <3>2. QED BY <3>1, <2>2, <2>4, <1>3
  <2>6. ASSUME NEW op \in TailOps(j) PROVE op \in TailOps(k)
    <3>1. PICK i \in 1 .. Len(j.tail) : op = j.tail[i].op
      BY <2>4
    <3>2. i + 1 \in 1 .. Len(rest) /\ rest[i + 1].op = op
      BY <3>1, <2>3, <1>3
    <3>3. QED BY <3>2, <2>1
  <2>7. last.op \in TailOps(k)
    BY <2>1, <2>3, <1>3
  <2>8. QED BY <2>5, <2>6, <2>7
<1>14. Taken(u, k) = Taken(t, j)
  <2>1. k.phase = "undo" /\ k.op = j.op
    OBVIOUS
  <2> HIDE DEF k
  <2>2. QED BY <2>1, <1>2, <1>12, <1>13 DEF Taken
<1>15. QED BY <1>11, <1>14 DEF u, rest, last, n

\* A move that belongs after the log and before the entries that are suspended.
Between(op, t, rest) ==
    /\ Sorted(t.log) /\ Sorted(rest)
    /\ \A i \in 1 .. Len(t.log) : TsLess(t.log[i].op.ts, op.ts)
    /\ \A m \in 1 .. Len(rest) : TsLess(op.ts, rest[m].op.ts)
    /\ \A i \in 1 .. Len(t.log), m \in 1 .. Len(rest) :
           TsLess(t.log[i].op.ts, rest[m].op.ts)

\* Pushing a move between the log and what remains to be redone keeps the order.
LEMMA PushKeepsOrder ==
  ASSUME NEW t \in TreeType, NEW op \in MoveOp, NEW new \in MoveOp,
         NEW rest \in Seq(LogEntry), Between(op, t, rest)
  PROVE  /\ LoopOrdered(PushMove(t, op), AfterPush(new, rest))
         /\ Taken(PushMove(t, op), AfterPush(new, rest))
              = LogOps(t) \cup {op} \cup {rest[i].op : i \in 1 .. Len(rest)}
<1> USE DEF Between
<1> DEFINE u == PushMove(t, op)
           k == AfterPush(new, rest)
<1>1. /\ Len(t.log) \in Nat
      /\ Len(u.log) = Len(t.log) + 1
      /\ u.log[Len(u.log)].op = op
      /\ \A i \in 1 .. Len(t.log) : u.log[i] = t.log[i]
      /\ LogOps(u) = LogOps(t) \cup {op}
  BY PushMoveLog
<1>2. k.phase # "undo" /\ k.tail = rest
  BY DEF AfterPush, Idle
<1>3. Sorted(u.log)
  BY PushKeepsSorted
<1> HIDE DEF u, k
<1>4. ASSUME NEW i \in 1 .. Len(u.log), NEW m \in 1 .. Len(rest)
      PROVE  TsLess(u.log[i].op.ts, rest[m].op.ts)
  <2>1. CASE i = Len(u.log)
    BY <1>1, <2>1
  <2>2. CASE i # Len(u.log)
    <3>1. i \in 1 .. Len(t.log) /\ u.log[i] = t.log[i]
      BY <1>1, <2>2
    <3>2. QED BY <3>1
  <2>3. QED BY <2>1, <2>2
<1>5. LoopOrdered(u, k)
  BY <1>2, <1>3, <1>4 DEF LoopOrdered
<1>6. Taken(u, k) = LogOps(t) \cup {op} \cup {rest[i].op : i \in 1 .. Len(rest)}
  BY <1>1, <1>2 DEF Taken, TailOps
<1>7. QED BY <1>5, <1>6 DEF u, k

\* When nothing later is left in the log, doing the new move keeps the order.
LEMMA DoKeepsOrder ==
  ASSUME NEW t \in TreeType, NEW j \in UndoJob, LoopOrdered(t, j),
         ~ (t.log # <<>> /\ TsLess(j.op.ts, t.log[Len(t.log)].op.ts))
  PROVE  LET k == AfterPush(j.op, j.tail)
         IN  /\ LoopOrdered(PushMove(t, j.op), k)
             /\ Taken(PushMove(t, j.op), k) = Taken(t, j)
<1>1. /\ t.log \in Seq(LogEntry) /\ Len(t.log) \in Nat
      /\ j.op \in MoveOp /\ j.tail \in Seq(LogEntry) /\ j.phase = "undo"
  BY DEF TreeType, UndoJob
<1>2. /\ Sorted(t.log) /\ Sorted(j.tail) /\ ~HasTs(t, j.op.ts)
      /\ \A i \in 1 .. Len(t.log), m \in 1 .. Len(j.tail) :
             TsLess(t.log[i].op.ts, j.tail[m].op.ts)
      /\ \A m \in 1 .. Len(j.tail) : TsLess(j.op.ts, j.tail[m].op.ts)
  BY <1>1 DEF LoopOrdered
<1>3. ASSUME NEW i \in 1 .. Len(t.log)
      PROVE  TsLess(t.log[i].op.ts, j.op.ts)
  <2> DEFINE n == Len(t.log)
             last == t.log[n]
  <2>1. n \in 1 .. n /\ t.log # <<>> /\ last \in LogEntry /\ t.log[i] \in LogEntry
    BY <1>1
  <2>2. last.op \in MoveOp /\ t.log[i].op \in MoveOp
    BY <2>1 DEF LogEntry
  <2>3. last.op.ts # j.op.ts
    BY <2>1, <1>2 DEF HasTs
  <2>4. TsLess(last.op.ts, j.op.ts)
    BY <2>1, <2>2, <2>3, <1>1, TsOrder
  <2>5. CASE i = n
    BY <2>4, <2>5
  <2>6. CASE i # n
    <3>1. i < n
      BY <2>6, <1>1
    <3>2. TsLess(t.log[i].op.ts, last.op.ts)
      BY <2>1, <3>1, <1>2 DEF Sorted
    <3>3. QED BY <2>2, <2>4, <3>2, <1>1, TsOrder
  <2>7. QED BY <2>5, <2>6
<1>4. QED
  <2>1. Between(j.op, t, j.tail)
    BY <1>2, <1>3 DEF Between
  <2>2. QED BY <1>1, <2>1, PushKeepsOrder DEF Taken, TailOps

\* Redoing the oldest suspended entry keeps the order.
LEMMA RedoKeepsOrder ==
  ASSUME NEW t \in TreeType, NEW j \in RedoJob, LoopOrdered(t, j)
  PROVE  LET k == AfterPush(j.op, Tail(j.tail))
             u == PushMove(t, Head(j.tail).op)
         IN  LoopOrdered(u, k) /\ Taken(u, k) = Taken(t, j)
<1> DEFINE op == Head(j.tail).op
           rest == Tail(j.tail)
<1>1. /\ j.op \in MoveOp /\ j.tail \in Seq(LogEntry) /\ j.tail # <<>> /\ j.phase = "redo"
  BY DEF RedoJob
<1>2. /\ rest \in Seq(LogEntry) /\ Head(j.tail) \in LogEntry
      /\ Len(rest) \in Nat /\ Len(j.tail) = Len(rest) + 1
      /\ op = j.tail[1].op
      /\ \A m \in 1 .. Len(rest) : rest[m] = j.tail[m + 1]
  BY <1>1
<1>3. op \in MoveOp
  BY <1>2 DEF LogEntry
<1>4. /\ Sorted(t.log) /\ Sorted(j.tail)
      /\ \A i \in 1 .. Len(t.log), m \in 1 .. Len(j.tail) :
             TsLess(t.log[i].op.ts, j.tail[m].op.ts)
  BY DEF LoopOrdered
<1> HIDE DEF op, rest
<1>5. 1 \in 1 .. Len(j.tail) /\ \A m \in 1 .. Len(rest) : m + 1 \in 2 .. Len(j.tail)
  BY <1>2
<1>6. Sorted(rest)
  <2> SUFFICES ASSUME NEW i \in 1 .. Len(rest), NEW m \in 1 .. Len(rest), i < m
               PROVE  TsLess(rest[i].op.ts, rest[m].op.ts)
    BY DEF Sorted
  <2>1. i + 1 < m + 1 /\ i + 1 \in 1 .. Len(j.tail) /\ m + 1 \in 1 .. Len(j.tail)
    BY <1>2
  <2>2. QED BY <2>1, <1>2, <1>4 DEF Sorted
<1>7. \A i \in 1 .. Len(t.log) : TsLess(t.log[i].op.ts, op.ts)
  BY <1>2, <1>4, <1>5
<1>8. ASSUME NEW m \in 1 .. Len(rest) PROVE TsLess(op.ts, rest[m].op.ts)
  <2>1. m + 1 \in 1 .. Len(j.tail) /\ 1 < m + 1
    BY <1>2
  <2>2. QED BY <2>1, <1>2, <1>4, <1>5 DEF Sorted
<1>9. ASSUME NEW i \in 1 .. Len(t.log), NEW m \in 1 .. Len(rest)
      PROVE  TsLess(t.log[i].op.ts, rest[m].op.ts)
  <2>1. m + 1 \in 1 .. Len(j.tail) /\ rest[m] = j.tail[m + 1]
    BY <1>2
  <2>2. TsLess(t.log[i].op.ts, j.tail[m + 1].op.ts)
    BY <1>4, <2>1
  <2>3. QED BY <2>1, <2>2
<1>10. /\ LoopOrdered(PushMove(t, op), AfterPush(j.op, rest))
       /\ Taken(PushMove(t, op), AfterPush(j.op, rest))
            = LogOps(t) \cup {op} \cup {rest[i].op : i \in 1 .. Len(rest)}
  <2>1. Between(op, t, rest)
    BY <1>4, <1>6, <1>7, <1>8, <1>9 DEF Between
  <2>2. QED BY <1>1, <1>2, <1>3, <2>1, PushKeepsOrder
<1>11. Taken(t, j) = LogOps(t) \cup {op} \cup {rest[i].op : i \in 1 .. Len(rest)}
  <2> DEFINE R == {rest[i].op : i \in 1 .. Len(rest)}
  <2>1. TailOps(j) = {j.tail[i].op : i \in 1 .. Len(j.tail)}
    BY DEF TailOps
  <2>2. \A i \in 1 .. Len(j.tail) :
            i = 1 \/ (i - 1 \in 1 .. Len(rest) /\ rest[i - 1] = j.tail[i])
    BY <1>2
  <2>3. ASSUME NEW x \in TailOps(j) PROVE x = op \/ x \in R
    <3>1. PICK i \in 1 .. Len(j.tail) : x = j.tail[i].op
      BY <2>1
    <3>2. CASE i = 1
      BY <1>2, <3>1, <3>2
    <3>3. CASE i # 1
      BY <2>2, <3>1, <3>3
    <3>4. QED BY <3>2, <3>3
  <2>4. op \in TailOps(j)
    BY <2>1, <1>2, <1>5
  <2>5. ASSUME NEW x \in R PROVE x \in TailOps(j)
    BY <2>1, <1>2, <1>5
  <2> HIDE DEF R
  <2>6. TailOps(j) = {op} \cup R
    BY <2>3, <2>4, <2>5
  <2>7. Taken(t, j) = LogOps(t) \cup {op} \cup R
    BY <2>6, <1>1 DEF Taken
  <2>8. QED BY <2>7 DEF R
<1>12. QED BY <1>10, <1>11 DEF op, rest

LEMMA InitInv == Init => IInv
<1> SUFFICES ASSUME Init PROVE IInv
  OBVIOUS
<1>1. TypeOK
  BY InitType
<1>2. TreesBuilt
  BY EmptyTreeBuilt DEF Init, TreesBuilt
<1>3. \A r \in Replica : tree[r].log = <<>> /\ job[r].tail = <<>> /\ job[r].phase = "idle"
  BY DEF Init, EmptyTree, Idle
<1>4. LoopOrder
  BY <1>3 DEF LoopOrder, LoopOrdered, Sorted
<1>5. \A r \in Replica : Known(r) = {}
  BY <1>3 DEF Known, Taken, TailOps, LogOps
<1>6. ClocksAhead /\ UniqueTimestamps
  BY <1>5 DEF Init, ClocksAhead, UniqueTimestamps
<1>7. QED BY <1>1, <1>2, <1>4, <1>6 DEF IInv

\* The published moves agree with the clocks of their writers.
SentStamped == \A op \in sent : op.ts.lamport <= clock[op.ts.replica]

ClocksGrow == \A s \in Replica : clock[s] <= clock'[s]

\* Every action changes the tree and the integrate call of one replica.  What it
\* must guarantee of that replica for the invariant to hold of all.
LEMMA OneReplicaSteps ==
  ASSUME IInv, TypeOK', NEW r \in Replica, NEW u, NEW k,
         tree' = [tree EXCEPT ![r] = u], job' = [job EXCEPT ![r] = k],
         ClocksGrow, sent \subseteq sent', SentStamped', UniqueTimestamps',
         Built(u, LogEntry), LoopOrdered(u, k),
         Known(r) \subseteq Taken(u, k), Taken(u, k) \subseteq sent',
         \A op \in Taken(u, k) : op.ts.lamport <= clock'[r]
  PROVE  IInv' /\ \A s \in Replica : Known(s) \subseteq Known(s)'
<1>1. tree \in [Replica -> TreeType] /\ job \in [Replica -> JobType]
  BY DEF IInv, TypeOK
<1>2. /\ tree'[r] = u /\ job'[r] = k
      /\ \A s \in Replica \ {r} : tree'[s] = tree[s] /\ job'[s] = job[s]
  BY <1>1
<1>3. /\ Known(r)' = Taken(u, k)
      /\ \A s \in Replica \ {r} : Known(s)' = Known(s)
  BY <1>2 DEF Known
<1>4. TreesBuilt'
  BY <1>2 DEF IInv, TreesBuilt
<1>5. LoopOrder'
  BY <1>2 DEF IInv, LoopOrder
<1>6. ASSUME NEW s \in Replica, NEW op \in Known(s)'
      PROVE  op \in sent' /\ op.ts.lamport <= clock'[s]
  <2>1. CASE s = r
    BY <1>3, <1>6, <2>1
  <2>2. CASE s # r
    <3>1. op \in Known(s) /\ op \in sent /\ op.ts.lamport <= clock[s]
      BY <1>3, <1>6, <2>2 DEF IInv, ClocksAhead
    <3>2. op.ts.lamport \in Nat /\ clock[s] \in Nat /\ clock'[s] \in Nat
      BY <3>1 DEF IInv, TypeOK, MoveOp, Timestamp
    <3>3. QED BY <3>1, <3>2 DEF ClocksGrow
  <2>3. QED BY <2>1, <2>2
<1>7. ClocksAhead'
  BY <1>6 DEF ClocksAhead, SentStamped
<1>8. QED BY <1>3, <1>4, <1>5, <1>7 DEF IInv

\* What entering integrate with a move guarantees of the replica.
LEMMA BeginOrder ==
  ASSUME NEW t \in TreeType, NEW j \in JobType, LoopOrdered(t, j),
         j.phase = "idle", NEW op
  PROVE  LET k == IF HasTs(t, op.ts) THEN Idle
                  ELSE [phase |-> "undo", op |-> op, tail |-> <<>>]
         IN  /\ LoopOrdered(t, k)
             /\ Taken(t, j) = LogOps(t)
             /\ Taken(t, k) = LogOps(t) \/ Taken(t, k) = LogOps(t) \cup {op}
<1>1. j.tail = <<>>
  BY DEF JobType
<1>2. Taken(t, j) = LogOps(t)
  BY <1>1 DEF Taken, TailOps
<1>3. CASE HasTs(t, op.ts)
  BY <1>2, <1>3 DEF Taken, TailOps, LoopOrdered, Sorted, Idle
<1>4. CASE ~HasTs(t, op.ts)
  <2> DEFINE k == [phase |-> "undo", op |-> op, tail |-> <<>>]
  <2>1. k.phase = "undo" /\ k.op = op /\ k.tail = <<>> /\ Len(k.tail) = 0
    OBVIOUS
  <2> HIDE DEF k
  <2>2. LoopOrdered(t, k)
    BY <2>1, <1>4 DEF LoopOrdered, Sorted
  <2>3. Taken(t, k) = LogOps(t) \cup {op}
    BY <2>1 DEF Taken, TailOps
  <2>4. QED BY <1>2, <1>4, <2>2, <2>3 DEF k
<1>5. QED BY <1>3, <1>4

\* Every step keeps the invariant and loses no move.
LEMMA NextInv ==
  IInv /\ [Next]_vars => IInv' /\ \A s \in Replica : Known(s) \subseteq Known(s)'
<1> SUFFICES ASSUME IInv, [Next]_vars
             PROVE  IInv' /\ \A s \in Replica : Known(s) \subseteq Known(s)'
  OBVIOUS
<1>1. TypeOK /\ TypeOK'
  BY NextType DEF IInv
<1>2. /\ clock \in [Replica -> Nat] /\ clock' \in [Replica -> Nat]
      /\ sent \subseteq MoveOp /\ sent' \subseteq MoveOp
      /\ tree \in [Replica -> TreeType] /\ job \in [Replica -> JobType]
  BY <1>1 DEF TypeOK
<1>3. /\ \A s \in Replica : Built(tree[s], LogEntry) /\ LoopOrdered(tree[s], job[s])
      /\ SentStamped /\ UniqueTimestamps
      /\ \A s \in Replica : /\ Known(s) \subseteq sent
                            /\ \A op \in Known(s) : op.ts.lamport <= clock[s]
  BY DEF IInv, TreesBuilt, LoopOrder, ClocksAhead, SentStamped
<1>4. clock' = clock => ClocksGrow
  BY <1>2 DEF ClocksGrow
<1>5. clock' = clock /\ sent' = sent => SentStamped' /\ UniqueTimestamps'
  BY <1>3 DEF SentStamped, UniqueTimestamps
<1>6. ASSUME NEW r \in Replica, NEW child \in Movable, NEW parent \in NodeId,
             NEW name \in Name, NEW kind \in Kind,
             ProposeMove(r, child, parent, name, kind)
      PROVE  IInv' /\ \A s \in Replica : Known(s) \subseteq Known(s)'
  <2> DEFINE op == [ts |-> [lamport |-> clock[r] + 1, replica |-> r], child |-> child,
                    new_parent |-> parent, new_name |-> name, kind |-> kind]
             k == IF HasTs(tree[r], op.ts) THEN Idle
                  ELSE [phase |-> "undo", op |-> op, tail |-> <<>>]
  <2>1. /\ job[r].phase = "idle" /\ tree' = tree /\ sent' = sent \cup {op}
        /\ clock' = [clock EXCEPT ![r] = clock[r] + 1]
        /\ job' = [job EXCEPT ![r] = k]
    BY <1>6 DEF ProposeMove, IsIdle, Begin
  <2>2. op \in MoveOp /\ op.ts.lamport = clock[r] + 1 /\ op.ts.replica = r
    BY <1>2, MovableAssumption DEF MoveOp, Timestamp
  <2> HIDE DEF op
  <2>3. clock'[r] = clock[r] + 1 /\ \A s \in Replica \ {r} : clock'[s] = clock[s]
    BY <2>1, <1>2
  <2>4. ClocksGrow
    BY <2>3, <1>2 DEF ClocksGrow
  <2>5. SentStamped'
    <3> SUFFICES ASSUME NEW o \in sent'
                 PROVE  o.ts.lamport <= clock'[o.ts.replica]
      BY DEF SentStamped
    <3>1. CASE o = op
      BY <3>1, <2>2, <2>3, <1>2
    <3>2. CASE o \in sent
      <4>1. o.ts.lamport <= clock[o.ts.replica] /\ o.ts.lamport \in Nat
            /\ o.ts.replica \in Replica
        BY <3>2, <1>2, <1>3 DEF SentStamped, MoveOp, Timestamp
      <4>2. clock[o.ts.replica] <= clock'[o.ts.replica]
        BY <4>1, <2>4 DEF ClocksGrow
      <4>3. QED BY <4>1, <4>2, <1>2
    <3>3. QED BY <3>1, <3>2, <2>1
  <2>6. \A o \in sent : o.ts # op.ts
    <3> SUFFICES ASSUME NEW o \in sent, o.ts = op.ts PROVE FALSE
      OBVIOUS
    <3>1. o.ts.lamport <= clock[r]
      BY <2>2, <1>3 DEF SentStamped
    <3>2. QED BY <3>1, <2>2, <1>2
  <2>7. UniqueTimestamps'
    BY <2>1, <2>6, <1>3 DEF UniqueTimestamps
  <2>8. /\ LoopOrdered(tree[r], k)
        /\ Taken(tree[r], job[r]) = LogOps(tree[r])
        /\ Taken(tree[r], k) = LogOps(tree[r]) \/ Taken(tree[r], k) = LogOps(tree[r]) \cup {op}
    BY <2>1, <1>2, <1>3, BeginOrder
  <2> HIDE DEF k
  <2>9. /\ Known(r) \subseteq Taken(tree[r], k) /\ Taken(tree[r], k) \subseteq sent'
        /\ Taken(tree[r], k) \subseteq Known(r) \cup {op}
    BY <2>1, <2>8, <1>3 DEF Known
  <2>10. \A o \in Taken(tree[r], k) : o.ts.lamport <= clock'[r]
    <3> SUFFICES ASSUME NEW o \in Taken(tree[r], k)
                 PROVE  o.ts.lamport <= clock'[r]
      OBVIOUS
    <3>1. CASE o = op
      BY <3>1, <2>2, <2>3, <1>2
    <3>2. CASE o # op
      <4>1. o \in sent /\ o.ts.lamport <= clock[r]
        BY <3>2, <2>9, <1>3
      <4>2. o.ts.lamport \in Nat
        BY <4>1, <1>2 DEF MoveOp, Timestamp
      <4>3. QED BY <4>1, <4>2, <2>3, <1>2
    <3>3. QED BY <3>1, <3>2
  <2>11. tree' = [tree EXCEPT ![r] = tree[r]] /\ Built(tree[r], LogEntry)
    BY <2>1, <1>2, <1>3
  <2>12. sent \subseteq sent'
    BY <2>1
  <2>13. QED
    BY <2>1, <2>4, <2>5, <2>7, <2>8, <2>9, <2>10, <2>11, <2>12, <1>1, OneReplicaSteps
<1>7. ASSUME NEW r \in Replica, NEW op \in sent, DeliverMove(r, op)
      PROVE  IInv' /\ \A s \in Replica : Known(s) \subseteq Known(s)'
  <2> DEFINE k == IF HasTs(tree[r], op.ts) THEN Idle
                  ELSE [phase |-> "undo", op |-> op, tail |-> <<>>]
  <2>1. /\ job[r].phase = "idle" /\ tree' = tree /\ sent' = sent
        /\ clock' = [clock EXCEPT ![r] = MaxNat(clock[r], op.ts.lamport) + DeliveryTick]
        /\ job' = [job EXCEPT ![r] = k]
    BY <1>7 DEF DeliverMove, IsIdle, Begin
  <2>2. op \in MoveOp /\ op.ts.lamport \in Nat
    BY <1>2 DEF MoveOp, Timestamp
  <2>3. /\ clock[r] <= clock'[r] /\ op.ts.lamport <= clock'[r]
        /\ \A s \in Replica \ {r} : clock'[s] = clock[s]
    BY <2>1, <2>2, <1>2, DeliveryTickAssumption DEF MaxNat
  <2>4. ClocksGrow
    BY <2>3, <1>2 DEF ClocksGrow
  <2>5. SentStamped'
    <3> SUFFICES ASSUME NEW o \in sent
                 PROVE  o.ts.lamport <= clock'[o.ts.replica]
      BY <2>1 DEF SentStamped
    <3>1. o.ts.lamport <= clock[o.ts.replica] /\ o.ts.lamport \in Nat
          /\ o.ts.replica \in Replica
      BY <1>2, <1>3 DEF SentStamped, MoveOp, Timestamp
    <3>2. clock[o.ts.replica] <= clock'[o.ts.replica]
      BY <3>1, <2>4 DEF ClocksGrow
    <3>3. QED BY <3>1, <3>2, <1>2
  <2>6. UniqueTimestamps'
    BY <2>1, <1>3 DEF UniqueTimestamps
  <2>7. /\ LoopOrdered(tree[r], k)
        /\ Taken(tree[r], job[r]) = LogOps(tree[r])
        /\ Taken(tree[r], k) = LogOps(tree[r]) \/ Taken(tree[r], k) = LogOps(tree[r]) \cup {op}
    BY <2>1, <1>2, <1>3, BeginOrder
  <2> HIDE DEF k
  <2>8. /\ Known(r) \subseteq Taken(tree[r], k) /\ Taken(tree[r], k) \subseteq sent'
        /\ Taken(tree[r], k) \subseteq Known(r) \cup {op}
    BY <2>1, <2>7, <1>3 DEF Known
  <2>9. \A o \in Taken(tree[r], k) : o.ts.lamport <= clock'[r]
    <3> SUFFICES ASSUME NEW o \in Taken(tree[r], k), o # op
                 PROVE  o.ts.lamport <= clock'[r]
      BY <2>3
    <3>1. o \in sent /\ o.ts.lamport <= clock[r]
      BY <2>8, <1>3
    <3>2. o.ts.lamport \in Nat
      BY <3>1, <1>2 DEF MoveOp, Timestamp
    <3>3. QED BY <3>1, <3>2, <2>3, <1>2
  <2>10. tree' = [tree EXCEPT ![r] = tree[r]] /\ Built(tree[r], LogEntry)
    BY <2>1, <1>2, <1>3
  <2>11. QED
    BY <2>1, <2>4, <2>5, <2>6, <2>7, <2>8, <2>9, <2>10, <1>1, OneReplicaSteps
<1>8. ASSUME NEW r \in Replica, NEW u, NEW k,
             tree' = [tree EXCEPT ![r] = u], job' = [job EXCEPT ![r] = k],
             clock' = clock, sent' = sent,
             Built(u, LogEntry), LoopOrdered(u, k), Taken(u, k) = Known(r)
      PROVE  IInv' /\ \A s \in Replica : Known(s) \subseteq Known(s)'
  BY <1>1, <1>3, <1>4, <1>5, <1>8, OneReplicaSteps
<1>9. ASSUME NEW r \in Replica, UndoStep(r)
      PROVE  IInv' /\ \A s \in Replica : Known(s) \subseteq Known(s)'
  <2> DEFINE t == tree[r]
             j == job[r]
             k == [phase |-> "undo", op |-> j.op,
                   tail |-> <<t.log[Len(t.log)]>> \o j.tail]
  <2>1. /\ t \in TreeType /\ j \in UndoJob /\ t.log # <<>>
        /\ TsLess(j.op.ts, t.log[Len(t.log)].op.ts)
    BY <1>2, <1>9 DEF UndoStep, HasLater, JobType, UndoJob
  <2>2. Built(t, LogEntry) /\ LoopOrdered(t, j)
    BY <1>3
  <2>3. /\ tree' = [tree EXCEPT ![r] = PopMove(t)] /\ job' = [job EXCEPT ![r] = k]
        /\ clock' = clock /\ sent' = sent
    BY <1>9 DEF UndoStep
  <2>4. LoopOrdered(PopMove(t), k) /\ Taken(PopMove(t), k) = Known(r)
    BY <2>1, <2>2, UndoKeepsOrder DEF Known
  <2>5. Built(PopMove(t), LogEntry)
    BY <2>1, <2>2, PopKeepsBuilt
  <2> HIDE DEF t, j, k
  <2>6. QED BY <2>3, <2>4, <2>5, <1>8
<1>10. ASSUME NEW r \in Replica, DoStep(r)
       PROVE  IInv' /\ \A s \in Replica : Known(s) \subseteq Known(s)'
  <2> DEFINE t == tree[r]
             j == job[r]
             k == AfterPush(j.op, j.tail)
             u == PushMove(t, j.op)
  <2>1. /\ t \in TreeType /\ j \in UndoJob /\ j.op \in MoveOp
        /\ ~ (t.log # <<>> /\ TsLess(j.op.ts, t.log[Len(t.log)].op.ts))
    BY <1>2, <1>10 DEF DoStep, HasLater, JobType, UndoJob
  <2>2. Built(t, LogEntry) /\ LoopOrdered(t, j)
    BY <1>3
  <2>3. /\ tree' = [tree EXCEPT ![r] = u] /\ job' = [job EXCEPT ![r] = k]
        /\ clock' = clock /\ sent' = sent
    BY <1>10 DEF DoStep
  <2>4. LoopOrdered(u, k) /\ Taken(u, k) = Known(r)
    BY <2>1, <2>2, DoKeepsOrder DEF Known
  <2>5. Built(u, LogEntry)
    BY <2>1, <2>2, PushMoveType, NewEdgeType, PushKeepsBuilt
  <2> HIDE DEF t, j, k, u
  <2>6. QED BY <2>3, <2>4, <2>5, <1>8
<1>11. ASSUME NEW r \in Replica, RedoStep(r)
       PROVE  IInv' /\ \A s \in Replica : Known(s) \subseteq Known(s)'
  <2> DEFINE t == tree[r]
             j == job[r]
             k == AfterPush(j.op, Tail(j.tail))
             u == PushMove(t, Head(j.tail).op)
  <2>1. /\ t \in TreeType /\ j \in RedoJob
        /\ j.tail \in Seq(LogEntry) /\ j.tail # <<>>
    BY <1>2, <1>11 DEF RedoStep, JobType, RedoJob
  <2>2. Built(t, LogEntry) /\ LoopOrdered(t, j)
    BY <1>3
  <2>3. /\ tree' = [tree EXCEPT ![r] = u] /\ job' = [job EXCEPT ![r] = k]
        /\ clock' = clock /\ sent' = sent
    BY <1>11 DEF RedoStep
  <2>4. LoopOrdered(u, k) /\ Taken(u, k) = Known(r)
    BY <2>1, <2>2, RedoKeepsOrder DEF Known
  <2>5. Built(u, LogEntry)
    <3>1. Head(j.tail) \in LogEntry
      BY <2>1
    <3>2. Head(j.tail).op \in MoveOp
      BY <3>1 DEF LogEntry
    <3>3. QED BY <2>1, <2>2, <3>2, PushMoveType, NewEdgeType, PushKeepsBuilt
  <2> HIDE DEF t, j, k, u
  <2>6. QED BY <2>3, <2>4, <2>5, <1>8
<1>12. CASE UNCHANGED vars
  <2>1. /\ tree' = tree /\ job' = job /\ clock' = clock /\ sent' = sent
    BY <1>12 DEF vars
  <2>2. \A s \in Replica : Known(s)' = Known(s)
    BY <2>1 DEF Known
  <2>3. TreesBuilt' /\ LoopOrder' /\ UniqueTimestamps'
    BY <2>1 DEF IInv, TreesBuilt, LoopOrder, UniqueTimestamps
  <2>4. ClocksAhead'
    BY <2>1, <2>2 DEF IInv, ClocksAhead
  <2>5. QED BY <2>2, <2>3, <2>4, <1>1 DEF IInv
<1>13. QED BY <1>6, <1>7, <1>9, <1>10, <1>11, <1>12 DEF Next

-----------------------------------------------------------------------------
(* The theorems. *)

LEMMA BuiltIsOk ==
  ASSUME IInv, NEW r \in Replica
  PROVE  /\ Built(tree[r], LogEntry)
         /\ AcyclicEdges(tree[r].edges)
         /\ tree[r].children = IndexOf(tree[r].edges)
<1>1. PICK st : BuildsUp(st, tree[r], LogEntry)
  BY DEF IInv, TreesBuilt, Built
<1>2. QED BY <1>1 DEF IInv, TreesBuilt, BuildsUp, TreeOk

\* The inductive invariant: each replica's tree is, even between two iterations
\* of integrate's loops, the one that its log builds entry by entry.
THEOREM Inductive == Spec => []IInv
<1>1. IInv /\ [Next]_vars => IInv'
  BY NextInv
<1>2. QED BY InitInv, <1>1, PTL DEF Spec

\* No delivery order and no intermediate state of integrate puts a directory
\* inside itself: the cycle skip of do_move is enough.
THEOREM NoCycles == Spec => []Acyclic
<1>1. IInv => Acyclic
  BY BuiltIsOk DEF Acyclic
<1>2. QED BY Inductive, <1>1, PTL

\* The children index that do_move and undo_move patch entry by entry stays the
\* exact inverse of the edges.
THEOREM IndexIsExact == Spec => []IndexConsistent
<1>1. IInv => IndexConsistent
  BY BuiltIsOk DEF IndexConsistent
<1>2. QED BY Inductive, <1>1, PTL

\* Replicas that integrated the same moves, in whatever order and however often,
\* hold the same edges, index and log with the same displaced edges.
THEOREM ReplicasConverge == Spec => []Convergence
<1>1. ASSUME IInv PROVE Convergence
  <2>1. SUFFICES ASSUME NEW r \in Replica, NEW s \in Replica,
                        LogOps(tree[r]) = LogOps(tree[s])
                 PROVE  tree[r] = tree[s]
    BY DEF Convergence
  <2>2. Stamped(LogEntry)
    <3> SUFFICES ASSUME NEW x \in LogEntry
                 PROVE  x.op.ts.lamport \in Nat /\ x.op.ts.replica \in Nat
      BY DEF Stamped
    <3>1. x.op.ts \in Timestamp
      BY DEF LogEntry, MoveOp
    <3>2. QED BY <3>1, ReplicaAssumption DEF Timestamp
  <2>3. /\ Built(tree[r], LogEntry) /\ Built(tree[s], LogEntry)
        /\ Sorted(tree[r].log) /\ Sorted(tree[s].log)
    BY <1>1, BuiltIsOk DEF IInv, LoopOrder, LoopOrdered
  <2> DEFINE t == tree[r]
             u == tree[s]
  <2> HIDE DEF t, u
  <2>4. t = u
    <3>1. /\ Built(t, LogEntry) /\ Built(u, LogEntry)
          /\ Sorted(t.log) /\ Sorted(u.log) /\ LogOps(t) = LogOps(u)
      BY <2>1, <2>3 DEF t, u
    <3>2. QED BY <2>2, <3>1, BuiltTreesAgree
  <2>5. QED BY <2>4 DEF t, u
<1>2. QED BY Inductive, <1>1, PTL

\* No two moves share a timestamp, so the order of the log is total.
THEOREM TimestampsUnique == Spec => []UniqueTimestamps
<1>1. IInv => UniqueTimestamps
  BY DEF IInv
<1>2. QED BY Inductive, <1>1, PTL

\* What a replica has taken in survives every undo and redo.
THEOREM NoMoveLost == Spec => NothingLost
<1>1. IInv /\ [Next]_vars => [\A r \in Replica : Known(r) \subseteq Known(r)']_vars
  BY NextInv
<1>2. QED BY Inductive, <1>1, PTL DEF Spec, NothingLost

\* A replica's own move is later than every move in its tree.
THEOREM OwnMovesAreLast == Spec => StampsAfterSeen
<1>1. ASSUME IInv, [Next]_vars, NEW r \in Replica, NEW op \in sent' \ sent,
             op.ts.replica = r, NEW o \in LogOps(tree[r])
      PROVE  TsLess(o.ts, op.ts)
  <2>1. TypeOK /\ o \in Known(r) /\ o \in sent /\ o.ts.lamport <= clock[r]
    BY <1>1 DEF IInv, ClocksAhead, Known, Taken
  <2>2. clock[r] \in Nat /\ o.ts.lamport \in Nat
    BY <2>1 DEF TypeOK, MoveOp, Timestamp
  <2>3. PICK s \in Replica, child \in Movable, parent \in NodeId, name \in Name, kind \in Kind :
            ProposeMove(s, child, parent, name, kind)
    BY <1>1 DEF Next, vars, DeliverMove, UndoStep, DoStep, RedoStep
  <2>4. op.ts = [lamport |-> clock[s] + 1, replica |-> s]
    BY <1>1, <2>3 DEF ProposeMove
  <2>5. op.ts.lamport = clock[r] + 1
    BY <1>1, <2>4
  <2>6. QED BY <2>1, <2>2, <2>5 DEF TsLess
<1>2. IInv /\ [Next]_vars =>
        [\A r \in Replica : \A op \in sent' \ sent :
             op.ts.replica = r => \A o \in LogOps(tree[r]) : TsLess(o.ts, op.ts)]_vars
  BY <1>1
<1>3. QED BY Inductive, <1>2, PTL DEF Spec, StampsAfterSeen

-----------------------------------------------------------------------------
(* The replicated tree implements SharedTree *)

\* The order of timestamps is the order of positions in a sorted log.
LEMMA SortedPositions ==
  ASSUME NEW log \in Seq(LogEntry), Sorted(log),
         NEW i \in 1 .. Len(log), NEW j \in 1 .. Len(log)
  PROVE  /\ TsLess(log[i].op.ts, log[j].op.ts) <=> i < j
         /\ log[i].op = log[j].op => i = j
<1>0. log[i] \in LogEntry /\ log[j] \in LogEntry
  OBVIOUS
<1>1. log[i].op \in MoveOp /\ log[j].op \in MoveOp
  BY <1>0 DEF LogEntry
<1>2. /\ i < j => TsLess(log[i].op.ts, log[j].op.ts)
      /\ j < i => TsLess(log[j].op.ts, log[i].op.ts)
  BY DEF Sorted
<1>3. ~(TsLess(log[i].op.ts, log[j].op.ts) /\ TsLess(log[j].op.ts, log[i].op.ts))
  BY <1>1, TsOrder
<1>4. ~TsLess(log[i].op.ts, log[i].op.ts)
  BY <1>1, TsOrder
<1>5. i \in Int /\ j \in Int /\ (i < j \/ j < i \/ i = j)
  OBVIOUS
<1>6. QED BY <1>2, <1>3, <1>4, <1>5

\* The first k moves of a sorted log are k moves.
LEMMA PrefixSize ==
  ASSUME NEW log \in Seq(LogEntry), Sorted(log), NEW k \in 0 .. Len(log)
  PROVE  Cardinality({log[i].op : i \in 1 .. k}) = k
<1> DEFINE ops == {log[i].op : i \in 1 .. k}
           f == [i \in 1 .. k |-> log[i].op]
<1>1. Len(log) \in Nat /\ k \in Nat /\ 1 .. k \subseteq 1 .. Len(log)
  OBVIOUS
<1>2. IsFiniteSet(1 .. k) /\ Cardinality(1 .. k) = k
  BY <1>1, FS_Interval
<1>3. \A i, j \in 1 .. k : f[i] = f[j] => i = j
  BY <1>1, SortedPositions
<1>4. f \in [1 .. k -> ops] /\ \A o \in ops : \E i \in 1 .. k : f[i] = o
  OBVIOUS
<1>5. f \in Bijection(1 .. k, ops)
  BY <1>3, <1>4 DEF Bijection, Injection, Surjection, IsInjective
<1> HIDE DEF ops, f
<1>6. ExistsBijection(1 .. k, ops)
  BY <1>5 DEF ExistsBijection
<1>7. Cardinality(ops) = Cardinality(1 .. k)
  BY <1>2, <1>6, FS_Bijection
<1>8. QED BY <1>2, <1>7 DEF ops

\* Counting the moves that come before one finds the moves of a sorted log in
\* the order of the log.
LEMMA NthOfSorted ==
  ASSUME NEW t \in TreeType, Sorted(t.log)
  PROVE  /\ Len(t.log) \in Nat
         /\ Cardinality(LogOps(t)) = Len(t.log)
         /\ \A k \in 1 .. Len(t.log) : Nth(LogOps(t), k) = t.log[k].op
<1> DEFINE log == t.log
           n == Len(log)
           ops == LogOps(t)
<1>1. log \in Seq(LogEntry) /\ n \in Nat /\ Sorted(log)
  BY DEF TreeType
<1>2. ops = {log[i].op : i \in 1 .. n}
  BY DEF LogOps
<1> HIDE DEF log, ops
<1>3. Cardinality(ops) = n
  BY <1>1, <1>2, PrefixSize
<1>4. ASSUME NEW k \in 1 .. n
      PROVE  Cardinality({p \in ops : TsLess(p.ts, log[k].op.ts)}) = k - 1
  <2>1. k - 1 \in 0 .. n
    BY <1>1
  <2>2. {p \in ops : TsLess(p.ts, log[k].op.ts)} = {log[i].op : i \in 1 .. k - 1}
    <3>1. ASSUME NEW p \in ops, TsLess(p.ts, log[k].op.ts)
          PROVE  p \in {log[i].op : i \in 1 .. k - 1}
      <4>1. PICK i \in 1 .. n : p = log[i].op
        BY <1>2
      <4>2. i < k
        BY <1>1, <3>1, <4>1, SortedPositions
      <4>3. i \in 1 .. k - 1
        BY <4>2, <1>1
      <4>4. QED BY <4>1, <4>3
    <3>2. ASSUME NEW i \in 1 .. k - 1
          PROVE  log[i].op \in ops /\ TsLess(log[i].op.ts, log[k].op.ts)
      <4>1. i \in 1 .. n /\ i < k
        BY <1>1
      <4>2. QED BY <4>1, <1>1, <1>2, SortedPositions
    <3>3. QED BY <3>1, <3>2
  <2>3. QED BY <1>1, <2>1, <2>2, PrefixSize
<1>5. ASSUME NEW k \in 1 .. n
      PROVE  Nth(ops, k) = log[k].op
  <2> DEFINE Rank(o) == Cardinality({p \in ops : TsLess(p.ts, o.ts)})
  <2>1. log[k].op \in ops /\ Rank(log[k].op) = k - 1
    BY <1>2, <1>4
  <2>2. ASSUME NEW o \in ops, Rank(o) = k - 1 PROVE o = log[k].op
    <3>1. PICK i \in 1 .. n : o = log[i].op
      BY <1>2
    <3>2. Rank(o) = i - 1
      BY <3>1, <1>4
    <3>3. i = k
      BY <3>2, <2>2, <1>1
    <3>4. QED BY <3>1, <3>3
  <2>3. Nth(ops, k) = CHOOSE o \in ops : Rank(o) = k - 1
    BY DEF Nth
  <2> HIDE DEF Rank
  <2>4. QED BY <2>1, <2>2, <2>3
<1>6. QED BY <1>1, <1>3, <1>5 DEF log, ops

\* A tree whose sorted log builds it is the canonical tree of its moves.
LEMMA BuiltIsCanonical ==
  ASSUME NEW t \in TreeType, Built(t, LogEntry), Sorted(t.log)
  PROVE  t = CanonicalTree(LogOps(t))
<1> DEFINE n == Len(t.log)
           ops == LogOps(t)
           IsBuilt(f) == f = [k \in 0 .. n |-> IF k = 0 THEN EmptyTree
                                               ELSE PushMove(f[k - 1], Nth(ops, k))]
<1>1. n \in Nat /\ Cardinality(ops) = n /\ \A k \in 1 .. n : Nth(ops, k) = t.log[k].op
  BY NthOfSorted
<1>2. PICK st : BuildsUp(st, t, LogEntry)
  BY DEF Built
<1>3. /\ st[0] = EmptyTree /\ st[n] = t
      /\ \A k \in 1 .. n : st[k] = PushMove(st[k - 1], Nth(ops, k))
  BY <1>1, <1>2 DEF BuildsUp
<1>4. CanonicalTree(ops) = (CHOOSE f : IsBuilt(f))[n]
  BY <1>1 DEF CanonicalTree
<1> HIDE DEF n, ops
<1>5. IsBuilt([k \in 0 .. n |-> st[k]])
  <2> DEFINE f == [k \in 0 .. n |-> st[k]]
  <2>1. \A k \in 0 .. n : f[k] = IF k = 0 THEN EmptyTree
                                 ELSE PushMove(f[k - 1], Nth(ops, k))
    <3> SUFFICES ASSUME NEW k \in 0 .. n
                 PROVE  f[k] = IF k = 0 THEN EmptyTree
                               ELSE PushMove(f[k - 1], Nth(ops, k))
      OBVIOUS
    <3>1. CASE k = 0
      BY <3>1, <1>1, <1>3
    <3>2. CASE k # 0
      <4>1. k \in 1 .. n /\ k - 1 \in 0 .. n
        BY <3>2, <1>1
      <4>2. QED BY <4>1, <3>2, <1>3
    <3>3. QED BY <3>1, <3>2
  <2>2. QED BY <2>1
<1>6. ASSUME NEW f, IsBuilt(f) PROVE f[n] = t
  <2>0. \A k \in 0 .. n : f[k] = IF k = 0 THEN EmptyTree
                                 ELSE PushMove(f[k - 1], Nth(ops, k))
    BY <1>6
  <2> HIDE DEF IsBuilt
  <2> DEFINE T == {k \in 0 .. n : f[k] # st[k]}
  <2>1. T = {}
    <3> SUFFICES ASSUME T # {} PROVE FALSE
      OBVIOUS
    <3>1. T \in SUBSET Nat
      BY <1>1
    <3>2. PICK m \in T : \A k \in T : m <= k
      BY <3>1, LeastNat
    <3>3. m # 0
      BY <2>0, <3>2, <1>3, <1>1
    <3>4. m \in 1 .. n /\ m - 1 \in 0 .. n /\ ~(m <= m - 1)
      BY <3>2, <3>3, <1>1
    <3>5. f[m - 1] = st[m - 1]
      BY <3>2, <3>4
    <3>6. f[m] = st[m]
      BY <2>0, <3>3, <3>4, <3>5, <1>3
    <3>7. QED BY <3>2, <3>6
  <2>2. QED BY <2>1, <1>1, <1>3
<1> HIDE DEF IsBuilt
<1>7. QED BY <1>4, <1>5, <1>6 DEF ops

-----------------------------------------------------------------------------
(* The refinement. *)

\* A move that is being integrated is among the moves the replica knows, and is
\* one of the published moves.
JobKnown == \A r \in Replica : ~IsIdle(r) => job[r].op \in Known(r)

\* Every step of a replica's loops leaves the moves it knows as they are.
LEMMA LoopStepsKnow ==
  ASSUME IInv, NEW r \in Replica, UndoStep(r) \/ DoStep(r) \/ RedoStep(r)
  PROVE  /\ Known(r)' = Known(r)
         /\ job[r].phase # "idle"
         /\ job'[r].phase # "idle" => job'[r].op = job[r].op
         /\ \A s \in Replica \ {r} : tree'[s] = tree[s] /\ job'[s] = job[s]
         /\ sent' = sent
<1> DEFINE t == tree[r]
           j == job[r]
<1>1. /\ tree \in [Replica -> TreeType] /\ job \in [Replica -> JobType]
      /\ Built(t, LogEntry) /\ LoopOrdered(t, j)
  BY DEF IInv, TypeOK, TreesBuilt, LoopOrder
<1>2. CASE UndoStep(r)
  <2>1. /\ t \in TreeType /\ j \in UndoJob /\ t.log # <<>>
        /\ TsLess(j.op.ts, t.log[Len(t.log)].op.ts) /\ j.phase = "undo"
    BY <1>1, <1>2 DEF UndoStep, HasLater, JobType, UndoJob
  <2>2. /\ tree' = [tree EXCEPT ![r] = PopMove(t)]
        /\ job' = [job EXCEPT ![r] = [phase |-> "undo", op |-> j.op,
                                      tail |-> <<t.log[Len(t.log)]>> \o j.tail]]
        /\ sent' = sent
    BY <1>2 DEF UndoStep
  <2>3. Known(r)' = Known(r)
    BY <1>1, <2>1, <2>2, UndoKeepsOrder DEF Known
  <2>4. QED BY <1>1, <2>1, <2>2, <2>3
<1>3. CASE DoStep(r)
  <2>1. /\ t \in TreeType /\ j \in UndoJob /\ j.phase = "undo"
        /\ ~ (t.log # <<>> /\ TsLess(j.op.ts, t.log[Len(t.log)].op.ts))
    BY <1>1, <1>3 DEF DoStep, HasLater, JobType, UndoJob
  <2>2. /\ tree' = [tree EXCEPT ![r] = PushMove(t, j.op)]
        /\ job' = [job EXCEPT ![r] = AfterPush(j.op, j.tail)]
        /\ sent' = sent
    BY <1>3 DEF DoStep
  <2>3. Known(r)' = Known(r)
    BY <1>1, <2>1, <2>2, DoKeepsOrder DEF Known
  <2>4. QED BY <1>1, <2>1, <2>2, <2>3 DEF AfterPush, Idle
<1>4. CASE RedoStep(r)
  <2>1. t \in TreeType /\ j \in RedoJob /\ j.phase = "redo"
    BY <1>1, <1>4 DEF RedoStep, JobType, RedoJob
  <2>2. /\ tree' = [tree EXCEPT ![r] = PushMove(t, Head(j.tail).op)]
        /\ job' = [job EXCEPT ![r] = AfterPush(j.op, Tail(j.tail))]
        /\ sent' = sent
    BY <1>4 DEF RedoStep
  <2>3. Known(r)' = Known(r)
    BY <1>1, <2>1, <2>2, RedoKeepsOrder DEF Known
  <2>4. QED BY <1>1, <2>1, <2>2, <2>3 DEF AfterPush, Idle
<1>5. QED BY <1>2, <1>3, <1>4

\* What entering integrate with a move does to the moves a replica has taken in.
LEMMA BeginKnows ==
  ASSUME IInv, NEW r \in Replica, NEW op \in MoveOp, IsIdle(r),
         Begin(r, op), tree' = tree
  PROVE  /\ Known(r) = LogOps(tree[r])
         /\ IsIdle(r)' => job' = job
         /\ ~IsIdle(r)' => /\ job'[r].op = op /\ op \notin Known(r)
                           /\ Known(r)' = Known(r) \cup {op}
         /\ \A s \in Replica \ {r} : job'[s] = job[s]
<1> DEFINE k == IF HasTs(tree[r], op.ts) THEN Idle
                ELSE [phase |-> "undo", op |-> op, tail |-> <<>>]
<1>1. /\ tree \in [Replica -> TreeType] /\ job \in [Replica -> JobType]
      /\ job[r].phase = "idle"
  BY DEF IInv, TypeOK, IsIdle
<1>2. job[r] = Idle
  BY <1>1 DEF JobType, Idle
<1>3. job' = [job EXCEPT ![r] = k]
  BY DEF Begin
<1>4. job'[r] = k /\ \A s \in Replica \ {r} : job'[s] = job[s]
  BY <1>1, <1>3
<1>5. Known(r) = LogOps(tree[r])
  BY <1>2 DEF Known, Taken, TailOps, Idle
<1>6. CASE HasTs(tree[r], op.ts)
  <2>1. job' = job
    BY <1>1, <1>2, <1>3, <1>6
  <2>2. QED BY <2>1, <1>4, <1>5, <1>1 DEF IsIdle
<1>7. CASE ~HasTs(tree[r], op.ts)
  <2>1. k.phase = "undo" /\ k.op = op /\ k.tail = <<>> /\ Len(k.tail) = 0
    BY <1>7
  <2>2. op \notin LogOps(tree[r])
    BY <1>7 DEF LogOps, HasTs
  <2> HIDE DEF k
  <2>3. Known(r)' = Known(r) \cup {op}
    BY <1>4, <1>5, <2>1 DEF Known, Taken, TailOps
  <2>4. QED BY <1>4, <1>5, <2>1, <2>2, <2>3 DEF IsIdle
<1>8. QED BY <1>6, <1>7

\* A replica that can be read shows the canonical tree of the moves it knows.
LEMMA IdleIsCanonical ==
  ASSUME IInv, NEW r \in Replica, IsIdle(r)
  PROVE  Known(r) = LogOps(tree[r]) /\ tree[r] = CanonicalTree(Known(r))
<1>1. /\ tree[r] \in TreeType /\ job[r] \in JobType
      /\ Built(tree[r], LogEntry) /\ LoopOrdered(tree[r], job[r])
  BY DEF IInv, TypeOK, TreesBuilt, LoopOrder
<1>2. job[r] = Idle
  BY <1>1 DEF IsIdle, JobType, Idle
<1>3. Known(r) = LogOps(tree[r])
  BY <1>2 DEF Known, Taken, TailOps, Idle
<1>4. Sorted(tree[r].log)
  BY <1>1 DEF LoopOrdered
<1> DEFINE t == tree[r]
<1>5. t \in TreeType /\ Built(t, LogEntry) /\ Sorted(t.log)
  BY <1>1, <1>4
<1> HIDE DEF t
<1>6. t = CanonicalTree(LogOps(t))
  BY <1>5, BuiltIsCanonical
<1>7. QED BY <1>3, <1>6 DEF t

ReadableIsCanonical ==
    \A r \in Replica : IsIdle(r) => tree[r] = CanonicalTree(Known(r))

LEMMA InvReadable == IInv => ReadableIsCanonical
BY IdleIsCanonical DEF ReadableIsCanonical

LEMMA InvReadableNext == IInv' => ReadableIsCanonical'
BY InvReadable, PTL

\* The actions in the shape the proofs below use: a writer proposes a move, a
\* replica begins one that was delivered, or a replica's loop takes a step.
LEMMA StepShapes ==
  ASSUME IInv, Next
  PROVE  \E r \in Replica :
            \/ \E op \in BoundedMove :
                   /\ IsIdle(r) /\ Begin(r, op) /\ tree' = tree
                   /\ sent' = sent \cup {op} /\ op.ts = [lamport |-> clock[r] + 1, replica |-> r]
            \/ \E op \in sent : IsIdle(r) /\ Begin(r, op) /\ tree' = tree /\ sent' = sent
            \/ UndoStep(r) \/ DoStep(r) \/ RedoStep(r)
<1>1. ASSUME NEW r \in Replica, NEW child \in Movable, NEW parent \in NodeId,
             NEW name \in Name, NEW kind \in Kind,
             ProposeMove(r, child, parent, name, kind)
      PROVE  \E op \in BoundedMove :
                   /\ IsIdle(r) /\ Begin(r, op) /\ tree' = tree
                   /\ sent' = sent \cup {op} /\ op.ts = [lamport |-> clock[r] + 1, replica |-> r]
  <2> DEFINE op == [ts |-> [lamport |-> clock[r] + 1, replica |-> r], child |-> child,
                    new_parent |-> parent, new_name |-> name, kind |-> kind]
  <2>1. /\ IsIdle(r) /\ Begin(r, op) /\ tree' = tree /\ sent' = sent \cup {op}
        /\ clock[r] < MaxLamport
    BY <1>1 DEF ProposeMove
  <2>2. clock[r] \in Nat
    BY DEF IInv, TypeOK
  <2>3. clock[r] + 1 \in 1 .. MaxLamport
    BY <2>1, <2>2, BoundsAssumption
  <2>4. op \in BoundedMove
    BY <2>3 DEF BoundedMove
  <2>5. op.ts = [lamport |-> clock[r] + 1, replica |-> r]
    OBVIOUS
  <2> HIDE DEF op
  <2>6. QED BY <2>1, <2>4, <2>5
<1>2. ASSUME NEW r \in Replica, NEW op \in sent, DeliverMove(r, op)
      PROVE  IsIdle(r) /\ Begin(r, op) /\ tree' = tree /\ sent' = sent
  BY <1>2 DEF DeliverMove
<1>3. QED BY <1>1, <1>2 DEF Next

LEMMA BoundedMoves == BoundedMove \subseteq MoveOp
BY MovableAssumption, BoundsAssumption DEF BoundedMove, MoveOp, Timestamp

LEMMA JobKnownInit == Init => JobKnown
BY DEF Init, JobKnown, IsIdle, Idle

LEMMA JobKnownNext == IInv /\ JobKnown /\ [Next]_vars => JobKnown'
<1> SUFFICES ASSUME IInv, JobKnown, [Next]_vars PROVE JobKnown'
  OBVIOUS
<1>1. sent \subseteq MoveOp
  BY DEF IInv, TypeOK
<1>2. ASSUME NEW r \in Replica, NEW op \in MoveOp, IsIdle(r), Begin(r, op), tree' = tree
      PROVE  JobKnown'
  <2>1. ASSUME NEW s \in Replica, ~IsIdle(s)' PROVE job'[s].op \in Known(s)'
    <3>1. CASE s = r
      BY <1>2, <2>1, <3>1, BeginKnows
    <3>2. CASE s # r
      <4>1. job'[s] = job[s]
        BY <1>2, <3>2, BeginKnows
      <4>2. Known(s)' = Known(s)
        BY <4>1, <1>2 DEF Known
      <4>3. QED BY <2>1, <4>1, <4>2 DEF JobKnown, IsIdle
    <3>3. QED BY <3>1, <3>2
  <2>2. QED BY <2>1 DEF JobKnown
<1>3. ASSUME NEW r \in Replica, UndoStep(r) \/ DoStep(r) \/ RedoStep(r)
      PROVE  JobKnown'
  <2>1. ASSUME NEW s \in Replica, ~IsIdle(s)' PROVE job'[s].op \in Known(s)'
    <3>1. CASE s = r
      BY <1>3, <2>1, <3>1, LoopStepsKnow DEF JobKnown, IsIdle
    <3>2. CASE s # r
      <4>1. job'[s] = job[s] /\ tree'[s] = tree[s]
        BY <1>3, <3>2, LoopStepsKnow
      <4>2. Known(s)' = Known(s)
        BY <4>1 DEF Known
      <4>3. QED BY <2>1, <4>1, <4>2 DEF JobKnown, IsIdle
    <3>3. QED BY <3>1, <3>2
  <2>2. QED BY <2>1 DEF JobKnown
<1>4. CASE UNCHANGED vars
  <2>1. tree' = tree /\ job' = job
    BY <1>4 DEF vars
  <2>2. \A s \in Replica : Known(s)' = Known(s)
    BY <2>1 DEF Known
  <2>3. QED BY <2>1, <2>2 DEF JobKnown, IsIdle
<1>5. CASE Next
  <2>1. PICK r \in Replica :
            \/ \E op \in BoundedMove : IsIdle(r) /\ Begin(r, op) /\ tree' = tree
            \/ \E op \in sent : IsIdle(r) /\ Begin(r, op) /\ tree' = tree
            \/ UndoStep(r) \/ DoStep(r) \/ RedoStep(r)
    BY <1>5, StepShapes
  <2>2. QED BY <2>1, <1>1, <1>2, <1>3, BoundedMoves
<1>6. QED BY <1>4, <1>5

\* What no other replica's step changes of the abstract state.
LEMMA OthersShown ==
  ASSUME NEW r \in Replica,
         \A s \in Replica \ {r} : tree'[s] = tree[s] /\ job'[s] = job[s]
  PROVE  /\ [s \in Replica |-> TakenIn(s)]'
               = [[s \in Replica |-> TakenIn(s)] EXCEPT ![r] = TakenIn(r)']
         /\ [s \in Replica |-> ShownBy(s)]'
               = [[s \in Replica |-> ShownBy(s)] EXCEPT ![r] = ShownBy(r)']
<1>1. ASSUME NEW s \in Replica \ {r}
      PROVE  TakenIn(s)' = TakenIn(s) /\ ShownBy(s)' = ShownBy(s)
  BY DEF TakenIn, ShownBy, IsIdle, Known
<1>2. /\ [s \in Replica |-> TakenIn(s)]' = [s \in Replica |-> TakenIn(s)']
      /\ [s \in Replica |-> ShownBy(s)]' = [s \in Replica |-> ShownBy(s)']
  OBVIOUS
<1>3. QED BY <1>1, <1>2

\* Entering integrate with a published move the replica lacks borrows the replica;
\* with one it has, the call returns at once and nothing is to be seen.
LEMMA BeginShows ==
  ASSUME IInv, NEW r \in Replica, NEW op \in MoveOp, IsIdle(r),
         Begin(r, op), tree' = tree
  PROVE  /\ ShownBy(r) # Nil
         /\ TakenIn(r)' = TakenIn(r)
         /\ IsIdle(r)' => ShownBy(r)' = ShownBy(r)
         /\ ~IsIdle(r)' => ShownBy(r)' = Nil
         /\ \A s \in Replica \ {r} : tree'[s] = tree[s] /\ job'[s] = job[s]
<1>1. tree[r] \in TreeType
  BY DEF IInv, TypeOK
<1>2. ShownBy(r) # Nil
  BY <1>1, HiddenAssumption DEF ShownBy
<1>3. \A s \in Replica \ {r} : tree'[s] = tree[s] /\ job'[s] = job[s]
  BY BeginKnows
<1>4. CASE IsIdle(r)'
  <2>1. job' = job
    BY <1>4, BeginKnows
  <2>2. Known(r)' = Known(r)
    BY <2>1 DEF Known
  <2>3. QED BY <1>2, <1>3, <1>4, <2>1, <2>2 DEF TakenIn, ShownBy
<1>5. CASE ~IsIdle(r)'
  <2>1. job'[r].op = op /\ op \notin Known(r) /\ Known(r)' = Known(r) \cup {op}
    BY <1>5, BeginKnows
  <2>2. TakenIn(r)' = Known(r) /\ TakenIn(r) = Known(r)
    BY <1>5, <2>1 DEF TakenIn
  <2>3. QED BY <1>2, <1>3, <1>5, <2>2 DEF ShownBy
<1>6. QED BY <1>4, <1>5

\* An iteration of a loop is not to be seen, unless it is the last one: then the
\* move has been taken in and the canonical tree is shown.
LEMMA LoopShows ==
  ASSUME IInv, IInv', JobKnown, NEW r \in Replica,
         UndoStep(r) \/ DoStep(r) \/ RedoStep(r)
  PROVE  /\ ShownBy(r) = Nil
         /\ ~IsIdle(r)' => ShownBy(r)' = Nil /\ TakenIn(r)' = TakenIn(r)
         /\ IsIdle(r)' => /\ job[r].op \in sent \ TakenIn(r)
                          /\ TakenIn(r)' = TakenIn(r) \cup {job[r].op}
                          /\ ShownBy(r)' = CanonicalTree(TakenIn(r) \cup {job[r].op})
<1>1. /\ Known(r)' = Known(r) /\ ~IsIdle(r)
      /\ ~IsIdle(r)' => job'[r].op = job[r].op
  BY LoopStepsKnow DEF IsIdle
<1>2. TakenIn(r) = Known(r) \ {job[r].op} /\ ShownBy(r) = Nil
  BY <1>1 DEF TakenIn, ShownBy
<1>3. CASE ~IsIdle(r)'
  BY <1>1, <1>2, <1>3 DEF TakenIn, ShownBy
<1>4. CASE IsIdle(r)'
  <2>1. job[r].op \in Known(r) /\ job[r].op \in sent
    BY <1>1 DEF JobKnown, IInv, ClocksAhead
  <2>2. TakenIn(r)' = Known(r) /\ Known(r) = TakenIn(r) \cup {job[r].op}
    BY <1>1, <1>2, <1>4, <2>1 DEF TakenIn
  <2>3. tree'[r] = CanonicalTree(Known(r)')
    BY <1>4, InvReadableNext DEF ReadableIsCanonical
  <2>4. tree'[r] = CanonicalTree(Known(r))
    BY <1>1, <2>3
  <2>5. QED BY <1>2, <1>4, <2>1, <2>2, <2>4 DEF ShownBy
<1>5. QED BY <1>3, <1>4

AbstractVars == <<sent, [r \in Replica |-> TakenIn(r)], [r \in Replica |-> ShownBy(r)]>>

\* The initial states map to the initial state of the abstract specification.
LEMMA InitShared == Init => Shared!Init
<1> SUFFICES ASSUME Init PROVE Shared!Init
  OBVIOUS
<1>1. IInv /\ \A r \in Replica : IsIdle(r)
  BY InitInv DEF Init, IsIdle, Idle
<1>2. \A r \in Replica : LogOps(tree[r]) = {}
  BY DEF Init, EmptyTree, LogOps
<1>3. \A r \in Replica : Known(r) = {} /\ tree[r] = CanonicalTree({})
  BY <1>1, <1>2, IdleIsCanonical
<1>4. \A r \in Replica : TakenIn(r) = {} /\ ShownBy(r) = CanonicalTree({})
  BY <1>1, <1>3 DEF TakenIn, ShownBy
<1>5. sent = {}
  BY DEF Init
<1>6. QED BY <1>4, <1>5 DEF Shared!Init

\* Every step is a step of the abstract specification, or is not to be seen in it.
LEMMA NextShared ==
  IInv /\ IInv' /\ JobKnown /\ [Next]_vars => [Shared!Next]_AbstractVars
<1> SUFFICES ASSUME IInv, IInv', JobKnown, [Next]_vars
             PROVE  Shared!Next \/ AbstractVars' = AbstractVars
  OBVIOUS
<1> DEFINE taken == [r \in Replica |-> TakenIn(r)]
           shown == [r \in Replica |-> ShownBy(r)]
<1>1. sent \subseteq MoveOp /\ BoundedMove \subseteq MoveOp
  BY BoundedMoves DEF IInv, TypeOK
<1>2. ASSUME NEW r \in Replica, NEW op \in BoundedMove, IsIdle(r), Begin(r, op),
             tree' = tree, sent' = sent \cup {op},
             op.ts = [lamport |-> clock[r] + 1, replica |-> r]
      PROVE  Shared!Next
  <2>1. /\ ShownBy(r) # Nil /\ TakenIn(r)' = TakenIn(r)
        /\ IsIdle(r)' => ShownBy(r)' = ShownBy(r)
        /\ ~IsIdle(r)' => ShownBy(r)' = Nil
        /\ \A s \in Replica \ {r} : tree'[s] = tree[s] /\ job'[s] = job[s]
    BY <1>1, <1>2, BeginShows
  <2>2. taken' = [taken EXCEPT ![r] = TakenIn(r)'] /\ shown' = [shown EXCEPT ![r] = ShownBy(r)']
    BY <2>1, OthersShown
  <2>3. \A o \in sent : o.ts # op.ts
    <3> SUFFICES ASSUME NEW o \in sent, o.ts = op.ts PROVE FALSE
      OBVIOUS
    <3>1. o.ts.lamport <= clock[r] /\ clock[r] \in Nat
      BY <1>2 DEF IInv, ClocksAhead, TypeOK
    <3>2. QED BY <1>2, <3>1
  <2>4. ~IsIdle(r)'
    <3>1. LogOps(tree[r]) \subseteq sent
      BY <1>2, IdleIsCanonical DEF IInv, ClocksAhead
    <3>2. ~HasTs(tree[r], op.ts)
      BY <2>3, <3>1 DEF HasTs, LogOps
    <3>3. job \in [Replica -> JobType]
      BY DEF IInv, TypeOK
    <3>4. job'[r].phase = "undo"
      BY <1>2, <3>2, <3>3 DEF Begin
    <3>5. QED BY <3>4 DEF IsIdle
  <2>5. \A o \in TakenIn(r) : TsLess(o.ts, op.ts)
    <3> SUFFICES ASSUME NEW o \in TakenIn(r) PROVE TsLess(o.ts, op.ts)
      OBVIOUS
    <3>1. o \in Known(r) /\ o \in sent /\ o.ts.lamport <= clock[r]
      BY <1>2 DEF TakenIn, IInv, ClocksAhead
    <3>2. clock[r] \in Nat /\ o.ts.lamport \in Nat
      BY <1>1, <3>1 DEF IInv, TypeOK, MoveOp, Timestamp
    <3>3. QED BY <1>2, <3>1, <3>2 DEF TsLess
  <2>6. /\ taken[r] = TakenIn(r) /\ shown[r] = ShownBy(r)
        /\ taken' = taken /\ shown' = [shown EXCEPT ![r] = Nil]
    BY <2>1, <2>2, <2>4
  <2>7. Shared!Publish(r, op)
    BY <1>2, <2>1, <2>3, <2>5, <2>6 DEF Shared!Publish
  <2>8. QED BY <2>7 DEF Shared!Next
<1>3. ASSUME NEW r \in Replica, NEW op \in sent, IsIdle(r), Begin(r, op),
             tree' = tree, sent' = sent
      PROVE  Shared!Next \/ AbstractVars' = AbstractVars
  <2>1. /\ ShownBy(r) # Nil /\ TakenIn(r)' = TakenIn(r)
        /\ IsIdle(r)' => ShownBy(r)' = ShownBy(r)
        /\ ~IsIdle(r)' => ShownBy(r)' = Nil
        /\ \A s \in Replica \ {r} : tree'[s] = tree[s] /\ job'[s] = job[s]
    BY <1>1, <1>3, BeginShows
  <2>2. taken' = [taken EXCEPT ![r] = TakenIn(r)'] /\ shown' = [shown EXCEPT ![r] = ShownBy(r)']
    BY <2>1, OthersShown
  <2>3. taken' = taken /\ shown[r] = ShownBy(r)
    BY <2>1, <2>2
  <2>4. CASE IsIdle(r)'
    <3>1. shown' = shown
      BY <2>1, <2>2, <2>4
    <3>2. QED BY <1>3, <2>3, <3>1 DEF AbstractVars
  <2>5. CASE ~IsIdle(r)'
    <3>1. shown' = [shown EXCEPT ![r] = Nil]
      BY <2>1, <2>2, <2>5
    <3>2. Shared!Borrow(r)
      BY <1>3, <2>1, <2>3, <3>1 DEF Shared!Borrow
    <3>3. QED BY <3>2 DEF Shared!Next
  <2>6. QED BY <2>4, <2>5
<1>4. ASSUME NEW r \in Replica, UndoStep(r) \/ DoStep(r) \/ RedoStep(r)
      PROVE  Shared!Next \/ AbstractVars' = AbstractVars
  <2>1. \A s \in Replica \ {r} : tree'[s] = tree[s] /\ job'[s] = job[s]
    BY <1>4, LoopStepsKnow
  <2>2. taken' = [taken EXCEPT ![r] = TakenIn(r)'] /\ shown' = [shown EXCEPT ![r] = ShownBy(r)']
    BY <2>1, OthersShown
  <2>3. ShownBy(r) = Nil /\ shown[r] = Nil /\ taken[r] = TakenIn(r) /\ sent' = sent
    BY <1>4, LoopShows, LoopStepsKnow
  <2>4. CASE ~IsIdle(r)'
    <3>1. ShownBy(r)' = Nil /\ TakenIn(r)' = TakenIn(r)
      BY <1>4, <2>4, LoopShows
    <3>2. taken' = taken /\ shown' = shown
      BY <2>2, <2>3, <3>1
    <3>3. QED BY <2>3, <3>2 DEF AbstractVars
  <2>5. CASE IsIdle(r)'
    <3>1. /\ job[r].op \in sent \ TakenIn(r)
          /\ TakenIn(r)' = TakenIn(r) \cup {job[r].op}
          /\ ShownBy(r)' = CanonicalTree(TakenIn(r) \cup {job[r].op})
      BY <1>4, <2>5, LoopShows
    <3>2. PICK op \in sent \ TakenIn(r) :
              /\ TakenIn(r)' = TakenIn(r) \cup {op}
              /\ ShownBy(r)' = CanonicalTree(TakenIn(r) \cup {op})
      BY <3>1
    <3>3. Shared!Take(r, op)
      BY <2>2, <2>3, <3>2 DEF Shared!Take
    <3>4. QED BY <2>3, <3>2, <3>3 DEF Shared!Next
  <2>6. QED BY <2>4, <2>5
<1>5. CASE UNCHANGED vars
  <2>1. tree' = tree /\ job' = job /\ sent' = sent
    BY <1>5 DEF vars
  <2>2. \A r \in Replica : TakenIn(r)' = TakenIn(r) /\ ShownBy(r)' = ShownBy(r)
    BY <2>1 DEF TakenIn, ShownBy, Known, IsIdle
  <2>3. QED BY <2>1, <2>2 DEF AbstractVars
<1>6. CASE Next
  BY <1>2, <1>3, <1>4, <1>6, StepShapes
<1>7. QED BY <1>5, <1>6

\* The replicated tree implements the shared tree: whatever the order, lateness
\* and repetition of the deliveries, a replica that can be read shows the one tree
\* that the set of the moves it has integrated determines, and it takes in one
\* published move at a time.
THEOREM ImplementsShared == Spec => ImplementsSharedTree
<1>1. IInv /\ JobKnown /\ [Next]_vars => IInv' /\ JobKnown'
  BY NextInv, JobKnownNext
<1>2. Init => IInv /\ JobKnown
  BY InitInv, JobKnownInit
<1>3. Spec => [](IInv /\ JobKnown)
  BY <1>1, <1>2, PTL DEF Spec
<1>4. IInv /\ IInv' /\ JobKnown /\ [Next]_vars => [Shared!Next]_AbstractVars
  BY NextShared
<1>5. QED
  BY InitShared, <1>3, <1>4, PTL DEF Spec, ImplementsSharedTree, Shared!Spec, AbstractVars
=============================================================================
