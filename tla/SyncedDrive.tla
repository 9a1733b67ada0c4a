----------------------------- MODULE SyncedDrive -----------------------------
(***************************************************************************)
(* ce-drive-core/src/sync.rs: a drive that several devices write.  Every   *)
(* device appends moves and content operations to two logs of its own,     *)
(* follows the logs of its peers, and reads the replay of the union of all *)
(* operations it holds, in timestamp order.                                *)
(*                                                                         *)
(* An operation of the code awaits between its parts and borrows the drive *)
(* shared, so several run at a time on one device and operations of peers  *)
(* arrive in between.  Each part is an action:                             *)
(*   Enter      with_tree's first read, which advances the clock;          *)
(*   Mkdir ...  with_tree's second read, on which the operation decides;   *)
(*   Stamp      tick;                                                      *)
(*   Send       the append to the own log, SendFails one that fails.       *)
(* An operation whose lookup fails has only advanced the clock, as an      *)
(* Enter followed by another lookup does.                                  *)
(*                                                                         *)
(* ce-coord's Merged is not in the repository: as its use here requires, a *)
(* writer's log survives its process, is delivered in its own order, and   *)
(* is read whole when the drive is opened again.                           *)
(***************************************************************************)
EXTENDS MoveTree, ContentMap

CONSTANTS Replica,     \* the devices; numbers, ordered like replica ids
          Task,        \* Task[r]: the tasks that use the drive at a time on device r
          Name,        \* the names commands use: sequences of numbers
          Cid, Time,   \* the contents that are saved, and modification times
          MaxOps,      \* bound: no task starts at this many operations and tasks
          MaxFailures  \* bound: process restarts and failed appends of all devices

\* A node id is the tick, the replica and the counter it was minted with.
NodeId == Nat \X Replica \X Nat

Kind == {"dir", "file"}

\* What a move can put its node under, and where it can leave it.
Place == NodeId \cup {ROOT, TRASH}

ASSUME ReplicaAssumption == Replica \subseteq Nat /\ IsFiniteSet(Replica)

\* None is neither a node nor an edge.
ASSUME NilAssumption ==
    Nil \notin NodeId /\ Nil \notin [parent : Place, name : Name, kind : Kind]

VARIABLES moves,    \* moves[r]: the tree log that r writes
          edits,    \* edits[r]: the content log that r writes
          got,      \* got[r][s]: how much of s's two logs r holds
          clock,    \* clock[r]: the Lamport clock of r's process
          ctr,      \* ctr[r]: the node counter of r's process
          job,      \* job[r][k]: what task k of r is at
          restarts, \* restarts[r]: how often r's process was restarted
          errors    \* how many appends have ended in an error

vars == <<moves, edits, got, clock, ctr, job, restarts, errors>>

Log == {"moves", "edits"}

-----------------------------------------------------------------------------
(* What a device holds and reads. *)

\* The operations of all writers that r holds.
Held(r, log, which) == UNION {{log[s][i] : i \in 1 .. got[r][s][which]} : s \in Replica}

MovesAt(r) == Held(r, moves, "moves")
EditsAt(r) == Held(r, edits, "edits")

\* The union, keyed by timestamp: one operation for each, in ascending order.
InOrder(ops) ==
    LET keys  == {o.ts : o \in ops}
        at(i) == CHOOSE ts \in keys : Cardinality({u \in keys : TsLess(u, ts)}) = i - 1
    IN  [i \in 1 .. Cardinality(keys) |-> CHOOSE o \in ops : o.ts = at(i)]

\* TreeMerge and ContentMerge: the union folded in ascending timestamp order.
TreeAt(r) == ReplayMoves(InOrder(MovesAt(r)))

ContentAt(r) ==
    LET ops == InOrder(EditsAt(r))
        m[i \in 0 .. Len(ops)] ==
            IF i = 0 THEN NoContent ELSE ApplyContent(m[i - 1], ops[i].op)
    IN  m[Len(ops)]

\* resolve_dir: what a directory argument can resolve to.
Dirs(t) == {n \in Resolvable(t) : n = ROOT \/ t.edges[n].kind = "dir"}

\* child_named: the child of that bare name with the least id.
Namesakes(t, parent, name) ==
    {c[3] : c \in {x \in ChildrenOf(t, parent) : x[2] = name /\ ~IsTrashed(t.edges, x[3])}}

ChildNamed(t, parent, name) ==
    CHOOSE n \in Namesakes(t, parent, name) :
        \A m \in Namesakes(t, parent, name) \ {n} : LexLess(n, m)

-----------------------------------------------------------------------------
(* A task: idle, looking something up, about to stamp the first of the       *)
(* operations it intends, or about to send the one it stamped.               *)

Idle == [pc |-> "idle", todo |-> <<>>, op |-> Nil, fresh |-> FALSE]
Planned(todo) == [pc |-> "stamp", todo |-> todo, op |-> Nil, fresh |-> FALSE]

Busy(r) == Cardinality({k \in Task[r] : job[r][k].pc # "idle"})

Load ==
    errors + FoldFunction(+, 0, [r \in Replica |-> Len(moves[r]) + Len(edits[r]) + Busy(r)])

Failures == FoldFunction(+, 0, restarts) + errors

MoveIntent(child, parent, name, kind) ==
    [child |-> child, new_parent |-> parent, new_name |-> name, kind |-> kind]

\* The greatest Lamport tick among the operations a device holds.
Newest(ops) == Max({0} \cup {o.ts.lamport : o \in ops})

Init ==
    /\ moves = [r \in Replica |-> <<>>]
    /\ edits = [r \in Replica |-> <<>>]
    /\ got = [r \in Replica |-> [s \in Replica |-> [log \in Log |-> 0]]]
    /\ clock = [r \in Replica |-> 0]
    /\ ctr = [r \in Replica |-> 0]
    /\ job = [r \in Replica |-> [k \in Task[r] |-> Idle]]
    /\ restarts = [r \in Replica |-> 0]
    /\ errors = 0

\* Wrong variant: the clock is set to the newest move, back if need be.
EnterSetsClock(r, k) ==
    /\ job[r][k].pc = "idle" /\ Load < MaxOps
    /\ clock' = [clock EXCEPT ![r] = Newest(MovesAt(r))]
    /\ job' = [job EXCEPT ![r][k].pc = "look"]
    /\ UNCHANGED <<moves, edits, got, ctr, restarts, errors>>

\* with_tree, first read: observe the newest move of the union; the content log
\* is not looked at.
Enter(r, k) ==
    /\ job[r][k].pc = "idle" /\ Load < MaxOps
    /\ clock' = [clock EXCEPT ![r] = MaxNat(@, Newest(MovesAt(r)))]
    /\ job' = [job EXCEPT ![r][k].pc = "look"]
    /\ UNCHANGED <<moves, edits, got, ctr, restarts, errors>>

Intend(r, k, todo) ==
    /\ job' = [job EXCEPT ![r][k] = Planned(todo)]
    /\ UNCHANGED <<moves, edits, got, clock, ctr, restarts, errors>>

\* with_tree, second read: the lookup is done and the task will send `todo'.
Found(r, k, todo) ==
    /\ job[r][k].pc = "look"
    /\ Intend(r, k, todo)

\* mkdir does not look for a child of that name.
Mkdir(r, k, t, parent, name) ==
    /\ parent \in Dirs(t)
    /\ Found(r, k, <<MoveIntent(Nil, parent, name, "dir")>>)

\* add_file: a new node and its content.
AddFile(r, k, t, parent, name, cid, at) ==
    /\ parent \in Dirs(t) /\ Namesakes(t, parent, name) = {}
    /\ Found(r, k, <<MoveIntent(Nil, parent, name, "file"), SetOp(Nil, cid, at)>>)

\* add_file where a child has the name: its content, be it a file or not.
AddVersion(r, k, t, parent, name, cid, at) ==
    /\ parent \in Dirs(t) /\ Namesakes(t, parent, name) # {}
    /\ Found(r, k, <<SetOp(ChildNamed(t, parent, name), cid, at)>>)

Mv(r, k, t, n, parent, name) ==
    /\ n \in Resolvable(t) \ {ROOT} /\ parent \in Dirs(t)
    /\ Found(r, k, <<MoveIntent(n, parent, name, t.edges[n].kind)>>)

Rm(r, k, t, n) ==
    /\ n \in Resolvable(t) \ {ROOT}
    /\ Found(r, k, <<MoveIntent(n, TRASH, t.edges[n].name, t.edges[n].kind)>>)

\* set_content looks nothing up: the write-back of a file that a mount opened.
SetContent(r, k, t, n, cid, at) ==
    /\ job[r][k].pc = "idle" /\ Load < MaxOps
    /\ n \in DOMAIN t.edges /\ t.edges[n].kind = "file"
    /\ Intend(r, k, <<SetOp(n, cid, at)>>)

\* Wrong variant: the tick is left out of the id.
TicklessNodeId(ts, c) == <<0, ts.replica, c>>

\* fresh_node_id: the tick, the replica, and a counter of the process.
FreshNodeId(ts, c) == <<ts.lamport, ts.replica, c>>

\* tick, and the id of a node that is to be created.
Stamp(r, k) ==
    LET intent == Head(job[r][k].todo)
        ts     == [lamport |-> clock[r] + 1, replica |-> r]
        isMove == "new_parent" \in DOMAIN intent
        create == isMove /\ intent.child = Nil
        id     == FreshNodeId(ts, ctr[r])
    IN  /\ job[r][k].pc = "stamp"
        /\ clock' = [clock EXCEPT ![r] = @ + 1]
        /\ ctr' = [ctr EXCEPT ![r] = IF create THEN @ + 1 ELSE @]
        /\ job' = [job EXCEPT ![r][k] =
              [pc    |-> "send",
               op    |-> IF isMove
                         THEN [ts |-> ts, child |-> IF create THEN id ELSE intent.child,
                               new_parent |-> intent.new_parent,
                               new_name |-> intent.new_name, kind |-> intent.kind]
                         ELSE [ts |-> ts, op |-> intent],
               fresh |-> create,
               todo  |-> IF create THEN [i \in DOMAIN Tail(@.todo) |->
                                            [Tail(@.todo)[i] EXCEPT !.id = id]]
                         ELSE Tail(@.todo)]]
        /\ UNCHANGED <<moves, edits, got, restarts, errors>>

\* The task after its operation was sent.
AfterSend(j) ==
    IF j.todo = <<>> THEN Idle ELSE Planned(j.todo)

\* The own log with the operation, which the device itself holds at once.
Appended(r, op) ==
    IF "child" \in DOMAIN op
    THEN /\ moves' = [moves EXCEPT ![r] = Append(@, op)]
         /\ got' = [got EXCEPT ![r][r]["moves"] = @ + 1]
         /\ UNCHANGED edits
    ELSE /\ edits' = [edits EXCEPT ![r] = Append(@, op)]
         /\ got' = [got EXCEPT ![r][r]["edits"] = @ + 1]
         /\ UNCHANGED moves

\* propose: the operation is appended, and the task goes on.
Send(r, k) ==
    /\ job[r][k].pc = "send"
    /\ Appended(r, job[r][k].op)
    /\ job' = [job EXCEPT ![r][k] = AfterSend(@)]
    /\ UNCHANGED <<clock, ctr, restarts, errors>>

\* Wrong variant: the error is not passed on and the task sends what is left.
SendFailsGoesOn(r, k) ==
    /\ job[r][k].pc = "send" /\ Failures < MaxFailures
    /\ errors' = errors + 1
    /\ \/ Appended(r, job[r][k].op)
       \/ UNCHANGED <<moves, edits, got>>
    /\ job' = [job EXCEPT ![r][k] = AfterSend(@)]
    /\ UNCHANGED <<clock, ctr, restarts>>

\* propose ends in an error, or its caller stops waiting for it: the operation was
\* appended before or it was not, and the `?' after it ends the task, whatever it
\* had left to send.
SendFails(r, k) ==
    /\ job[r][k].pc = "send" /\ Failures < MaxFailures
    /\ errors' = errors + 1
    /\ \/ Appended(r, job[r][k].op)
       \/ UNCHANGED <<moves, edits, got>>
    /\ job' = [job EXCEPT ![r][k] = Idle]
    /\ UNCHANGED <<clock, ctr, restarts>>

\* The next operation of s's log arrives at r.
Deliver(r, s, which) ==
    /\ got[r][s][which] < Len(IF which = "moves" THEN moves[s] ELSE edits[s])
    /\ got' = [got EXCEPT ![r][s][which] = @ + 1]
    /\ UNCHANGED <<moves, edits, clock, ctr, job, restarts, errors>>

\* r's process ends, whatever its tasks were at, and the drive is opened again:
\* clock and counter start at 0, the own logs are there, the peers' are followed
\* anew.
Restart(r) ==
    /\ Failures < MaxFailures
    /\ restarts' = [restarts EXCEPT ![r] = @ + 1]
    /\ clock' = [clock EXCEPT ![r] = 0]
    /\ ctr' = [ctr EXCEPT ![r] = 0]
    /\ job' = [job EXCEPT ![r] = [k \in Task[r] |-> Idle]]
    /\ got' = [got EXCEPT ![r] = [s \in Replica |-> IF s = r THEN @[s]
                                                    ELSE [log \in Log |-> 0]]]
    /\ UNCHANGED <<moves, edits, errors>>

Looking(r, k, t, nodes) ==
    \/ \E parent \in nodes, name \in Name :
           \/ Mkdir(r, k, t, parent, name)
           \/ \E cid \in Cid, at \in Time : AddFile(r, k, t, parent, name, cid, at)
           \/ \E cid \in Cid, at \in Time : AddVersion(r, k, t, parent, name, cid, at)
           \/ \E n \in nodes : Mv(r, k, t, n, parent, name)
    \/ \E n \in nodes : Rm(r, k, t, n)

Next ==
    \E r \in Replica :
        \/ LET t == TreeAt(r)  nodes == DOMAIN t.edges \cup {ROOT} IN
           \E k \in Task[r] :
               \/ Enter(r, k)
               \/ job[r][k].pc = "look" /\ Looking(r, k, t, nodes)
               \/ \E n \in nodes, cid \in Cid, at \in Time : SetContent(r, k, t, n, cid, at)
               \/ Stamp(r, k)
               \/ Send(r, k)
               \/ SendFails(r, k)
        \/ \E s \in Replica, which \in Log : Deliver(r, s, which)
        \/ Restart(r)

Spec == Init /\ [][Next]_vars

-----------------------------------------------------------------------------
(* Properties *)

AllMoves == UNION {Range(moves[r]) : r \in Replica}
AllEdits == UNION {Range(edits[r]) : r \in Replica}

\* The union of the tree logs is keyed by timestamp: however the tasks of a device
\* interleave, and after a restart, no two different moves have one key.
MoveKeysUnique == \A o, p \in AllMoves : o.ts = p.ts => o = p

\* The id that fresh_node_id mints is no other node's, on no device, whatever was
\* restarted: a creation is never the move of a node that exists.
NewNodesAreNew ==
    [][\A r \in Replica : \A k \in Task[r] :
          (Send(r, k) \/ SendFails(r, k)) /\ job[r][k].fresh =>
              \A o \in AllMoves : o.child # job[r][k].op.child]_vars

\* Until its writer is restarted, no save that a device made is lost: wherever it
\* has arrived it is the current version or in the history, however the saves of
\* the devices and the tasks overlap and in whatever order they arrive.
SavesKept ==
    \A r \in Replica :
        LET content == ContentAt(r) IN
        \A o \in EditsAt(r) :
            restarts[o.ts.replica] = 0 /\ Cardinality(EditsAt(r)) <= MaxVersions
                => o.op.cid \in CidsOf(content[o.op.id])

\* add_file sends the node and then its content, and stops at the first error: no
\* device ever records content under an id that is no node's, which nothing lists
\* and which all_cids would keep stored for ever; nor does a write-back or a new
\* version, for which a device looked at a union that has changed since.
SavedNodesExist ==
    \A e \in AllEdits : \E o \in AllMoves : o.child = e.op.id
=============================================================================
