---------------------------- MODULE TreeReplicas ----------------------------
(***************************************************************************)
(* The move-CRDT of tree.rs at several replicas.  Every replica stamps     *)
(* moves of its own, publishes them, and integrates every published move   *)
(* in whatever order, and as often, as the mesh delivers it.               *)
(*                                                                         *)
(* DriveTree::integrate is modelled loop iteration by loop iteration: one  *)
(* action undoes one later entry, one does the new move, one redoes one    *)
(* suspended entry.  The tree is exclusively borrowed while this runs, so  *)
(* nothing reads it between these steps (`Idle' marks when it can be read) *)
(* and the step-wise form is what makes the loop provable: its correctness *)
(* is an inductive invariant instead of an induction over the log.         *)
(***************************************************************************)
EXTENDS MoveTree

CONSTANTS Replica,     \* the writers; a set of numbers, ordered like replica ids
          NodeId,      \* every node a move can name, ROOT and TRASH included
          Movable,     \* the nodes that writers move; every operation refuses ROOT
          Name, Kind,  \* directory-entry names, and the kinds (dir, file)
          MaxLamport,  \* bound: no replica stamps a move beyond this tick
          MaxMoves,    \* bound: number of moves published by all replicas
          DeliveryTick \* 1: Drive's clock also ticks on a delivery; 0: DriveCrdt's does not

ASSUME ReplicaAssumption == Replica \subseteq Nat
ASSUME MovableAssumption == Movable \subseteq NodeId \ {ROOT}
ASSUME BoundsAssumption == MaxLamport \in Nat /\ MaxMoves \in Nat
ASSUME DeliveryTickAssumption == DeliveryTick \in {0, 1}
ASSUME NilAssumption == Nil \notin [parent : NodeId, name : Name, kind : Kind]

VARIABLES tree,   \* tree[r]: the DriveTree of replica r
          job,    \* job[r]: the integrate call r is in, if any
          clock,  \* clock[r]: r's Lamport clock
          sent    \* every move published so far

vars == <<tree, job, clock, sent>>

Timestamp == [lamport : Nat, replica : Replica]

MoveOp == [ts : Timestamp, child : NodeId, new_parent : NodeId,
           new_name : Name, kind : Kind]

Edge == [parent : NodeId, name : Name, kind : Kind]

LogEntry == [op : MoveOp, old : Edge \cup {Nil}]

\* No integrate call is running.
Idle == [phase |-> "idle", op |-> Nil, tail |-> <<>>]

IsIdle(r) == job[r].phase = "idle"

-----------------------------------------------------------------------------

Init ==
    /\ tree  = [r \in Replica |-> EmptyTree]
    /\ job   = [r \in Replica |-> Idle]
    /\ clock = [r \in Replica |-> 0]
    /\ sent  = {}

\* Enter integrate: a move whose timestamp is in the log already is ignored.
Begin(r, op) ==
    job' = [job EXCEPT ![r] =
               IF HasTs(tree[r], op.ts) THEN Idle
               ELSE [phase |-> "undo", op |-> op, tail |-> <<>>]]

\* Stamp a move with the next tick, publish it and start integrating it.  The
\* tree accepts any move of a node other than the root, which every operation
\* that builds one refuses; which moves a drive builds is module Drive's part.
ProposeMove(r, child, parent, name, kind) ==
    LET op == [ts         |-> [lamport |-> clock[r] + 1, replica |-> r],
               child      |-> child,
               new_parent |-> parent,
               new_name   |-> name,
               kind       |-> kind]
    IN  /\ IsIdle(r)
        /\ clock[r] < MaxLamport /\ Cardinality(sent) < MaxMoves
        /\ clock' = [clock EXCEPT ![r] = @ + 1]
        /\ sent'  = sent \cup {op}
        /\ Begin(r, op)
        /\ UNCHANGED tree

\* A published move arrives: late, early, again, or back at its own writer.
DeliverMove(r, op) ==
    /\ IsIdle(r)
    /\ MaxNat(clock[r], op.ts.lamport) + DeliveryTick <= MaxLamport
    /\ clock' = [clock EXCEPT ![r] = MaxNat(@, op.ts.lamport) + DeliveryTick]
    /\ Begin(r, op)
    /\ UNCHANGED <<tree, sent>>

\* Wrong variant: nothing is ever undone.
NeverLater(r) == FALSE

\* Entries of r's log that are later than the move being integrated.
HasLater(r) ==
    /\ tree[r].log # <<>>
    /\ TsLess(job[r].op.ts, tree[r].log[Len(tree[r].log)].op.ts)

\* Undo the newest entry and keep it in the suspended tail.
UndoStep(r) ==
    /\ job[r].phase = "undo"
    /\ HasLater(r)
    /\ tree' = [tree EXCEPT ![r] = PopMove(@)]
    /\ job'  = [job EXCEPT ![r] =
                   [phase |-> "undo",
                    op    |-> @.op,
                    tail  |-> <<tree[r].log[Len(tree[r].log)]>> \o @.tail]]
    /\ UNCHANGED <<clock, sent>>

\* The state after one move was pushed and `rest' remains to be redone.
AfterPush(op, rest) ==
    IF rest = <<>> THEN Idle ELSE [phase |-> "redo", op |-> op, tail |-> rest]

\* Everything later is undone: do the new move.
DoStep(r) ==
    /\ job[r].phase = "undo"
    /\ ~HasLater(r)
    /\ tree' = [tree EXCEPT ![r] = PushMove(@, job[r].op)]
    /\ job'  = [job EXCEPT ![r] = AfterPush(@.op, @.tail)]
    /\ UNCHANGED <<clock, sent>>

\* Wrong variant: a redone entry keeps the edge it displaced the first time.
RedoStale(r) ==
    /\ job[r].phase = "redo"
    /\ LET entry == Head(job[r].tail) IN
       tree' = [tree EXCEPT ![r] = WithLog(DoMove(@, entry.op), Append(@.log, entry))]
    /\ job' = [job EXCEPT ![r] = AfterPush(@.op, Tail(@.tail))]
    /\ UNCHANGED <<clock, sent>>

\* Redo the oldest suspended entry; its displaced edge is recomputed.
RedoStep(r) ==
    /\ job[r].phase = "redo"
    /\ tree' = [tree EXCEPT ![r] = PushMove(@, Head(job[r].tail).op)]
    /\ job'  = [job EXCEPT ![r] = AfterPush(@.op, Tail(@.tail))]
    /\ UNCHANGED <<clock, sent>>

Step(r) == UndoStep(r) \/ DoStep(r) \/ RedoStep(r)

Next ==
    \E r \in Replica :
        \/ \E child \in Movable, parent \in NodeId, name \in Name, kind \in Kind :
               ProposeMove(r, child, parent, name, kind)
        \/ \E op \in sent : DeliverMove(r, op)
        \/ UndoStep(r)
        \/ DoStep(r)
        \/ RedoStep(r)

Spec == Init /\ [][Next]_vars

\* integrate is synchronous code, so a call that has started ends; that every
\* published move reaches every replica is what the mesh log promises.
DeliverNew(r, op) == ~HasTs(tree[r], op.ts) /\ DeliverMove(r, op)

FairSpec ==
    /\ Spec
    /\ \A r \in Replica : WF_vars(Step(r))
    /\ \A r \in Replica : WF_vars(\E op \in sent : DeliverNew(r, op))
-----------------------------------------------------------------------------
(* Properties *)

TreeType ==
    [log : Seq(LogEntry), edges : UNION {[S -> Edge] : S \in SUBSET NodeId},
     children : SUBSET (NodeId \X Name \X NodeId)]

JobType ==
    [phase : {"idle"}, op : {Nil}, tail : {<<>>}]
        \cup [phase : {"undo"}, op : MoveOp, tail : Seq(LogEntry)]
        \cup [phase : {"redo"}, op : MoveOp, tail : Seq(LogEntry) \ {<<>>}]

\* The types of the variables: the edges of DriveTree are a partial function of
\* the nodes, its log a sequence of moves with the edge each one displaced.
TypeOK ==
    /\ clock \in [Replica -> Nat]
    /\ sent \in SUBSET MoveOp
    /\ job \in [Replica -> JobType]
    /\ tree \in [Replica -> TreeType]

\* do_move's cycle skip: no order of delivery, and no intermediate state of the
\* undo and redo loops, ever holds a directory inside itself.
Acyclic == \A r \in Replica : AcyclicEdges(tree[r].edges)

\* The children index, maintained beside the edges by do_move and undo_move, is
\* at all times exactly the inverse of the edges.
IndexConsistent ==
    \A r \in Replica : tree[r].children = IndexOf(tree[r].edges)

\* Two replicas that integrated the same moves agree on the whole tree, whatever
\* the order, the lateness and the repetition of the deliveries.
Convergence ==
    \A r, s \in Replica :
        (/\ IsIdle(r) /\ IsIdle(s)
         /\ LogOps(tree[r]) = LogOps(tree[s])) => tree[r] = tree[s]

\* The moves a replica has taken in, those a running integrate holds included.
TailOps(j) == {j.tail[i].op : i \in 1 .. Len(j.tail)}

Taken(t, j) == LogOps(t) \cup TailOps(j) \cup (IF j.phase = "undo" THEN {j.op} ELSE {})

Known(r) == Taken(tree[r], job[r])

\* What the undo and redo loops of integrate maintain: the log and the suspended
\* tail are in timestamp order and the whole log precedes the tail; while
\* undoing, the new move is not in the log and precedes the whole tail.
LoopOrdered(t, j) ==
    /\ Sorted(t.log) /\ Sorted(j.tail)
    /\ \A i \in 1 .. Len(t.log), k \in 1 .. Len(j.tail) :
           TsLess(t.log[i].op.ts, j.tail[k].op.ts)
    /\ j.phase = "undo" =>
           /\ ~HasTs(t, j.op.ts)
           /\ \A k \in 1 .. Len(j.tail) : TsLess(j.op.ts, j.tail[k].op.ts)

LoopOrder == \A r \in Replica : LoopOrdered(tree[r], job[r])

\* A writer's clock has reached every move it stamped, and every replica's clock
\* every move it took in; a replica takes in nothing that was not published.
ClocksAhead ==
    /\ \A op \in sent : op.ts.lamport <= clock[op.ts.replica]
    /\ \A r \in Replica :
           /\ Known(r) \subseteq sent
           /\ \A op \in Known(r) : op.ts.lamport <= clock[r]

\* integrate loses no move: what a replica has taken in stays known through every
\* undo and redo.
NothingLost == [][\A r \in Replica : Known(r) \subseteq Known(r)']_vars

\* The code orders moves by a timestamp it takes for unique: no two different
\* moves are ever published under one timestamp.
UniqueTimestamps == \A o, p \in sent : o.ts = p.ts => o = p

\* A move a replica stamps is later than every move that replica has integrated,
\* so a user's own last action is never undone by one it had already seen.
StampsAfterSeen ==
    [][\A r \in Replica : \A op \in sent' \ sent :
          op.ts.replica = r => \A o \in LogOps(tree[r]) : TsLess(o.ts, op.ts)]_vars

\* Once no one stamps moves any more, fair delivery brings every replica to the
\* one tree that holds all of them.
EventuallyConverged ==
    <>[](\A r, s \in Replica :
            IsIdle(r) /\ LogOps(tree[r]) = sent /\ tree[r] = tree[s])
=============================================================================
