------------------------------- MODULE Drive --------------------------------
(***************************************************************************)
(* ce-drive-core/src/drive.rs: a drive is a move log, a content log and a  *)
(* Lamport clock (DriveState, what is saved) with the tree and the content *)
(* map replayed from them (what is used).  Every command of a user is one  *)
(* action, on the copy of the drive that one replica holds; replicas merge *)
(* each other's operations.                                                *)
(*                                                                         *)
(* A path argument is modelled by the node it resolves to.  The command    *)
(* that fails its checks changes nothing and is no step.                   *)
(***************************************************************************)
EXTENDS MoveTree, ContentMap

CONSTANTS Replica,    \* the devices that write; numbers, ordered like replica ids
          Name,       \* the names commands use: sequences of numbers
          Cid,        \* the contents that are saved; numbers
          Time,       \* modification times, in milliseconds; numbers
          Command,    \* the commands that the users issue
          MaxLamport, \* bound: no command runs on beyond this tick
          MaxNodes,   \* bound: nodes that one process creates
          MaxMoves    \* bound: length of a move log with repeated deliveries

VARIABLES drive, \* drive[r]: the drive as replica r holds it
          fresh  \* fresh[r]: r's process-wide node counter; restarts at 0

vars == <<drive, fresh>>

Kind == {"dir", "file"}

\* A node id is the tick and the counter it was minted with; one that was minted in a
\* browser page names the page in between.
OwnId == Nat \X Nat
NodeId == OwnId \cup (Nat \X Nat \X Nat)

\* What a move can put its node under, and where it can leave it.
Place == NodeId \cup {ROOT, TRASH, LIMBO}

ASSUME ReplicaAssumption == Replica \subseteq Nat

\* What a node can be called: what a user types, a file name of a disk, or an id.
AnyName == Seq(Nat)

ASSUME NameAssumption == Name \subseteq AnyName

\* The reserved ids are no ids of nodes, the trash is neither the root nor limbo, and
\* None is not an edge.
ASSUME ReservedAssumption ==
    /\ TRASH \notin {ROOT, LIMBO} /\ {ROOT, TRASH, LIMBO} \cap NodeId = {}
    /\ Nil \notin [parent : Place, name : AnyName, kind : Kind]

NewDrive ==
    [lamport |-> 0, moves |-> <<>>, contents |-> <<>>,
     tree |-> EmptyTree, content |-> NoContent]

-----------------------------------------------------------------------------
(* Replay of the logs. *)

\* The operations of a log in timestamp order; the sort is stable.
ByTs(log) ==
    LET earlier(i) == {j \in DOMAIN log :
                          TsLess(log[j].ts, log[i].ts) \/ (log[j].ts = log[i].ts /\ j < i)}
    IN  [k \in DOMAIN log |-> log[CHOOSE i \in DOMAIN log : Cardinality(earlier(i)) = k - 1]]

\* Apply to m, in timestamp order, the operations of a log on the nodes `ids'.
Fold(m, log, ids) ==
    LET ops == ByTs(log)
        at[i \in 0 .. Len(ops)] ==
            IF i = 0 THEN m
            ELSE IF ops[i].op.id \in ids THEN ApplyContent(at[i - 1], ops[i].op)
            ELSE at[i - 1]
    IN  at[Len(ops)]

\* fold_content: apply a content log in timestamp order.
FoldContent(log) == Fold(NoContent, log, {o.op.id : o \in Range(log)})

\* refold_key: derive one record anew from the operations on it.
RefoldKey(m, log, id) == Fold(WithoutRecord(m, id), log, {id})

\* Drive::from_state.
FromState(d) ==
    [d EXCEPT !.tree = ReplayMoves(d.moves), !.content = FoldContent(d.contents)]

-----------------------------------------------------------------------------
(* The steps that commands are made of. *)

NextTs(d, r) == [lamport |-> d.lamport + 1, replica |-> r]

\* tick and push_move.
EmitMove(d, r, child, parent, name, kind) ==
    LET op == [ts |-> NextTs(d, r), child |-> child, new_parent |-> parent,
               new_name |-> name, kind |-> kind]
    IN  [d EXCEPT !.lamport = @ + 1, !.tree = Integrate(@, op), !.moves = Append(@, op)]

\* push_content: stamp a content operation, apply it, append it.
EmitContent(d, r, op) ==
    [d EXCEPT !.lamport  = @ + 1,
              !.content  = ApplyContent(@, op),
              !.contents = Append(@, [ts |-> NextTs(d, r), op |-> op])]

KindOf(d, n) == IF n \in DOMAIN d.tree.edges THEN d.tree.edges[n].kind ELSE "file"

\* resolve_dir: what a directory argument can resolve to.
Dirs(d) == {n \in Resolvable(d.tree) : n = ROOT \/ KindOf(d, n) = "dir"}

\* child_named: the first child of that bare name that is not in the trash.
Namesakes(d, parent, name) ==
    {c[3] : c \in {x \in ChildrenOf(d.tree, parent) :
                     x[2] = name /\ ~IsTrashed(d.tree.edges, x[3])}}

ChildNamed(d, parent, name) ==
    CHOOSE n \in Namesakes(d, parent, name) :
        \A m \in Namesakes(d, parent, name) \ {n} : LexLess(n, m)

\* Wrong variant: the tick alone makes the id.
TickId(d, r) == <<d.lamport + 1, 1>>

\* fresh_node_id: the tick and the process-wide counter.
FreshId(d, r) == <<d.lamport + 1, fresh[r]>>

\* The elements of S in the order that `before', a set of pairs, puts them in.
InRank(S, before) ==
    [k \in 1 .. Cardinality(S) |->
        CHOOSE x \in S : Cardinality({y \in S : <<y, x>> \in before}) = k - 1]

\* The nodes directly in the trash.
Trash(d) == {e.child : e \in Readdir(d.tree, TRASH)}

\* The children `ids' of a directory in the order of its listing: by the name that
\* is shown, and where two are shown alike by the bare name.
ByShownName(t, dir, ids) ==
    LET name(n)  == t.edges[n].name
        shown(n) == Rendered(t, <<dir, name(n), n>>)
        before(m, n) ==
            \/ LexLess(shown(m), shown(n))
            \/ shown(m) = shown(n) /\ LexLess(name(m), name(n))
            \/ shown(m) = shown(n) /\ name(m) = name(n) /\ LexLess(m, n)
    IN  InRank(ids, {p \in ids \X ids : before(p[1], p[2])})

TrashListing(d, ids) == ByShownName(d.tree, TRASH, ids)

\* hard_delete: move each node to limbo and remove its content record.
HardDelete(d, r, ids) ==
    LET delete(e, n) ==
            LET moved == EmitMove(e, r, n, LIMBO, n, KindOf(e, n))
            IN  IF n \in DOMAIN e.content THEN EmitContent(moved, r, RemoveOp(n)) ELSE moved
        done[i \in 0 .. Len(ids)] == IF i = 0 THEN d ELSE delete(done[i - 1], ids[i])
    IN  done[Len(ids)]

-----------------------------------------------------------------------------
(* Commands. *)

Allowed(r, command, ticks) ==
    /\ command \in Command
    /\ drive[r].lamport + ticks <= MaxLamport

Mkdir(r, parent, name) ==
    /\ Allowed(r, "mkdir", 1) /\ fresh[r] < MaxNodes
    /\ parent \in Dirs(drive[r])
    /\ Namesakes(drive[r], parent, name) = {}
    /\ drive' = [drive EXCEPT ![r] =
                    EmitMove(@, r, FreshId(@, r), parent, name, "dir")]
    /\ fresh' = [fresh EXCEPT ![r] = @ + 1]

\* add_file where no child has the name: a new node and its content.
AddFile(r, parent, name, cid, at) ==
    /\ Allowed(r, "add", 2) /\ fresh[r] < MaxNodes
    /\ parent \in Dirs(drive[r])
    /\ Namesakes(drive[r], parent, name) = {}
    /\ LET id == FreshId(drive[r], r) IN
       drive' = [drive EXCEPT ![r] =
                    EmitContent(EmitMove(@, r, id, parent, name, "file"),
                                r, SetOp(id, cid, at))]
    /\ fresh' = [fresh EXCEPT ![r] = @ + 1]

\* add_file where a file has the name: a new version of that file.
AddVersion(r, parent, name, cid, at) ==
    /\ Allowed(r, "add", 1)
    /\ parent \in Dirs(drive[r])
    /\ Namesakes(drive[r], parent, name) # {}
    /\ LET id == ChildNamed(drive[r], parent, name) IN
       /\ KindOf(drive[r], id) = "file"
       /\ drive' = [drive EXCEPT ![r] = EmitContent(@, r, SetOp(id, cid, at))]
    /\ UNCHANGED fresh

\* mv: no check for a child of that name, nor for a move below the node itself.
Mv(r, n, parent, name) ==
    /\ Allowed(r, "mv", 1)
    /\ n \in Resolvable(drive[r].tree) \ {ROOT}
    /\ parent \in Dirs(drive[r])
    /\ drive' = [drive EXCEPT ![r] = EmitMove(@, r, n, parent, name, KindOf(@, n))]
    /\ UNCHANGED fresh

Rm(r, n) ==
    /\ Allowed(r, "rm", 1)
    /\ n \in Resolvable(drive[r].tree) \ {ROOT}
    /\ drive' = [drive EXCEPT ![r] =
                    EmitMove(@, r, n, TRASH, @.tree.edges[n].name, KindOf(@, n))]
    /\ UNCHANGED fresh

\* Wrong variant: the node is renamed where it is.
RestoreInPlace(r, n, parent, name) ==
    /\ Allowed(r, "restore", 1)
    /\ n \in DOMAIN drive[r].tree.edges /\ IsTrashed(drive[r].tree.edges, n)
    /\ drive' = [drive EXCEPT ![r] =
                    EmitMove(@, r, n, @.tree.edges[n].parent, name, KindOf(@, n))]
    /\ UNCHANGED fresh

\* restore takes a node id, which is in the trash when a walk from it meets TRASH:
\* the node, a node below it, and TRASH itself.
Restore(r, n, parent, name) ==
    /\ Allowed(r, "restore", 1)
    /\ IsTrashed(drive[r].tree.edges, n)
    /\ parent \in Dirs(drive[r])
    /\ Namesakes(drive[r], parent, name) = {}
    /\ drive' = [drive EXCEPT ![r] = EmitMove(@, r, n, parent, name, KindOf(@, n))]
    /\ UNCHANGED fresh

EmptyTrash(r) ==
    LET ids == TrashListing(drive[r], Trash(drive[r])) IN
    /\ Allowed(r, "empty", 2 * Len(ids))
    /\ ids # <<>>
    /\ drive' = [drive EXCEPT ![r] = HardDelete(@, r, ids)]
    /\ UNCHANGED fresh

\* gc_trash with a retention: only what has no content, or old content.
GcTrash(r, cutoff) ==
    LET content == drive[r].content
        old == {n \in Trash(drive[r]) : n \in DOMAIN content => content[n].mtime <= cutoff}
        ids == TrashListing(drive[r], old)
    IN  /\ Allowed(r, "gc", 2 * Len(ids))
        /\ ids # <<>>
        /\ drive' = [drive EXCEPT ![r] = HardDelete(@, r, ids)]
        /\ UNCHANGED fresh

\* set_content: the write-back of a mount, by node id.  The file may have been
\* deleted since it was opened; the id is not checked.
SetContent(r, n, cid, at) ==
    /\ Allowed(r, "write", 1)
    /\ n \in DOMAIN drive[r].tree.edges /\ KindOf(drive[r], n) = "file"
    /\ drive' = [drive EXCEPT ![r] = EmitContent(@, r, SetOp(n, cid, at))]
    /\ UNCHANGED fresh

\* restore_version: a cid that is not in the history is stamped all the same.
RestoreVersion(r, n, cid, now) ==
    /\ Allowed(r, "version", 1)
    /\ n \in Resolvable(drive[r].tree) \cap DOMAIN drive[r].content
    /\ drive' = [drive EXCEPT ![r] = EmitContent(@, r, RestoreOp(n, cid, now))]
    /\ UNCHANGED fresh

\* A new process: the saved state is replayed, the node counter starts over.
Reload(r) ==
    /\ "reload" \in Command
    /\ drive' = [drive EXCEPT ![r] = FromState(@)]
    /\ fresh' = [fresh EXCEPT ![r] = 0]

-----------------------------------------------------------------------------
(* Merging what other replicas wrote. *)

Observe(d, ts) == MaxNat(d.lamport, ts.lamport) + 1

Others(r) == Replica \ {r}

\* apply_remote_move: integrate, and record it however often it arrives.
RemoteMove(r, op) ==
    /\ Observe(drive[r], op.ts) <= MaxLamport /\ Len(drive[r].moves) < MaxMoves
    /\ drive' = [drive EXCEPT ![r] =
                    [drive[r] EXCEPT !.lamport = Observe(drive[r], op.ts),
                                     !.tree    = Integrate(@, op),
                                     !.moves   = Append(@, op)]]
    /\ UNCHANGED fresh

\* Wrong variant: the operation is applied as it arrives.
RemoteContentOnArrival(r, op) ==
    /\ Observe(drive[r], op.ts) <= MaxLamport
    /\ op \notin Range(drive[r].contents)
    /\ drive' = [drive EXCEPT ![r] =
                    [drive[r] EXCEPT !.lamport  = Observe(drive[r], op.ts),
                                     !.contents = Append(@, op),
                                     !.content  = ApplyContent(@, op.op)]]
    /\ UNCHANGED fresh

\* apply_remote_content: insert in timestamp order unless it is there already,
\* and derive the record it is about anew.
RemoteContent(r, op) ==
    LET log    == drive[r].contents
        pos    == Cardinality({i \in DOMAIN log : TsLess(log[i].ts, op.ts)})
        known  == pos < Len(log) /\ log[pos + 1].ts = op.ts
        merged == IF known THEN log ELSE InsertAt(log, pos + 1, op)
    IN  /\ Observe(drive[r], op.ts) <= MaxLamport
        /\ drive' = [drive EXCEPT ![r] =
                        [drive[r] EXCEPT !.lamport  = Observe(drive[r], op.ts),
                                         !.contents = merged,
                                         !.content  = IF known THEN @
                                                      ELSE RefoldKey(@, merged, op.op.id)]]
        /\ UNCHANGED fresh

\* What r can be sent: the operations that their own writer has in its log.
MovesFrom(s) == {o \in Range(drive[s].moves) : o.ts.replica = s}
ContentsFrom(s) == {o \in Range(drive[s].contents) : o.ts.replica = s}

-----------------------------------------------------------------------------
(* Compaction: a new log that creates every live node, parents first, and    *)
(* saves every version of its record again, oldest first.                    *)

\* The content operations that stand for the record of n, if it has one.
Resaves(d, n) ==
    IF n \notin DOMAIN d.content THEN <<>>
    ELSE LET c == d.content[n]
         IN  [i \in DOMAIN c.versions |-> SetOp(n, c.versions[i].cid, c.versions[i].at)]
                 \o <<SetOp(n, c.cid, c.mtime)>>

\* The live children of a directory by name and id.
LiveChildren(d, parent) ==
    LET live == {c \in ChildrenOf(d.tree, parent) :
                    ~IsTrashed(d.tree.edges, c[3]) /\ ~IsLimbo(d.tree.edges, c[3])}
        before(x, y) == LexLess(x[2], y[2]) \/ (x[2] = y[2] /\ LexLess(x[3], y[3]))
    IN  InRank(live, {p \in live \X live : before(p[1], p[2])})

\* Stamp and append one content operation after the other.
EmitAll(d, r, ops) ==
    LET at[i \in 0 .. Len(ops)] == IF i = 0 THEN d ELSE EmitContent(at[i - 1], r, ops[i])
    IN  at[Len(ops)]

\* Wrong variant: directories below the first level are not visited.
RecreateShallow(d, r, c, acc) ==
    [out |-> EmitMove(acc.out, r, c[3], c[1], c[2], KindOf(d, c[3])), queue |-> acc.queue]

\* out: the new logs so far and their clock; queue: directories still to visit.
Recreate(d, r, c, acc) ==
    LET n == c[3]
        log1 == EmitMove(acc.out, r, n, c[1], c[2], KindOf(d, n))
    IN  [out   |-> EmitAll(log1, r, Resaves(d, n)),
         queue |-> IF KindOf(d, n) = "dir" THEN Append(acc.queue, n) ELSE acc.queue]

\* Recreate the live children of the first directory of the queue.
Visit(d, r, acc) ==
    LET kids == LiveChildren(d, Head(acc.queue))
        at[i \in 0 .. Len(kids)] ==
            IF i = 0 THEN [out |-> acc.out, queue |-> Tail(acc.queue)]
            ELSE Recreate(d, r, kids[i], at[i - 1])
    IN  IF acc.queue = <<>> THEN acc ELSE at[Len(kids)]

Compacted(d, r) ==
    LET dirs == Cardinality(DOMAIN d.tree.edges) + 1
        at[i \in 0 .. dirs] ==
            IF i = 0 THEN [out |-> NewDrive, queue |-> <<ROOT>>]
            ELSE Visit(d, r, at[i - 1])
    IN  FromState(at[dirs].out)

\* Meant for a drive with a single writer.
Compact(r) ==
    /\ "compact" \in Command /\ Others(r) = {}
    /\ UNCHANGED fresh
    /\ LET new == Compacted(drive[r], r) IN
       /\ new.lamport <= MaxLamport
       /\ drive' = [drive EXCEPT ![r] = new]

-----------------------------------------------------------------------------

Init ==
    /\ drive = [r \in Replica |-> NewDrive]
    /\ fresh = [r \in Replica |-> 0]

Nodes(r) == DOMAIN drive[r].tree.edges \cup {ROOT}

\* The id argument of restore is not checked to name a node of the user's.
Restorable(r) ==
    Nodes(r) \cup (IF "restore_trash" \in Command THEN {TRASH} ELSE {})

Structural(r) ==
    \E parent \in Nodes(r), name \in Name :
        \/ Mkdir(r, parent, name)
        \/ \E cid \in Cid, at \in Time : AddFile(r, parent, name, cid, at)
        \/ \E n \in Nodes(r) : Mv(r, n, parent, name)
        \/ \E n \in Restorable(r) : Restore(r, n, parent, name)

Editing(r) ==
    \E cid \in Cid, at \in Time :
        \/ \E parent \in Nodes(r), name \in Name : AddVersion(r, parent, name, cid, at)
        \/ \E n \in Nodes(r) : SetContent(r, n, cid, at)
        \/ \E n \in Nodes(r) : RestoreVersion(r, n, cid, at)

Deleting(r) ==
    \/ \E n \in Nodes(r) : Rm(r, n)
    \/ EmptyTrash(r)
    \/ \E cutoff \in Time : GcTrash(r, cutoff)

Merging(r) ==
    \E s \in Others(r) :
        \/ \E op \in MovesFrom(s) : RemoteMove(r, op)
        \/ \E op \in ContentsFrom(s) : RemoteContent(r, op)

Next ==
    \E r \in Replica :
        Structural(r) \/ Editing(r) \/ Deleting(r) \/ Merging(r) \/ Compact(r) \/ Reload(r)

Spec == Init /\ [][Next]_vars

-----------------------------------------------------------------------------
(* Properties *)

\* What a process uses is what the next process will replay from the saved logs:
\* applying operations as they come, re-folding one record on a merge, and
\* compacting leave nothing in memory that the logs do not say.
ViewsMatchLogs == \A r \in Replica : drive[r] = FromState(drive[r])

\* Replicas that merged the same operations hold the same tree and the same
\* content, whatever the order of arrival and the repetitions.
MergedAgree ==
    \A r, s \in Replica :
        (/\ Range(drive[r].moves) = Range(drive[s].moves)
         /\ Range(drive[r].contents) = Range(drive[s].contents))
            => /\ drive[r].tree = drive[s].tree
               /\ drive[r].content = drive[s].content

\* A command that creates a node adds one to the tree: the id it mints, from the
\* clock and a counter that restarts with the process, is not in use.
NewNodesAreNew ==
    [][\A r \in Replica : fresh'[r] > fresh[r] =>
          Cardinality(DOMAIN drive'[r].tree.edges)
              = Cardinality(DOMAIN drive[r].tree.edges) + 1]_vars

\* The operations on n since the last that removes its record, by their positions.
SinceRemoval(log, n) ==
    {i \in DOMAIN log :
        /\ log[i].op.id = n
        /\ \A j \in DOMAIN log : log[j].op.id = n /\ log[j].op.type = "remove" => j < i}

\* What these save.
SavedSince(log, n) ==
    {log[i].op.cid : i \in {j \in SinceRemoval(log, n) : log[j].op.type = "set"}}

\* "Nothing is lost" of FileContent::record: while the history is not full, every
\* version saved since the record was last removed is the current one or in the
\* history, whichever edits won.
EverySaveKept ==
    \A r \in Replica : \A n \in DOMAIN drive[r].content :
        LET log == drive[r].contents IN
        Cardinality(SinceRemoval(log, n)) <= MaxVersions + 1 =>
            SavedSince(log, n) \subseteq CidsOf(drive[r].content[n])

\* Deleting a directory hides everything below it, and restoring it brings all of
\* that back to life with its content.
RestoreBringsBack ==
    [][\A r \in Replica : \A n \in Nodes(r), parent \in Nodes(r), name \in Name :
          Restore(r, n, parent, name) =>
              \A m \in DOMAIN drive[r].tree.edges :
                  IsAncestor(drive[r].tree.edges, n, m) =>
                      m \in Resolvable(drive'[r].tree)]_vars

\* Compaction drops the trash and limbo and nothing else: the live nodes keep
\* their places, their names and their kinds.
CompactKeepsPlaces ==
    [][\A r \in Replica : Compact(r) =>
          LET old == drive[r].tree  new == drive'[r].tree IN
          /\ DOMAIN new.edges = Resolvable(old) \ {ROOT}
          /\ \A n \in DOMAIN new.edges : new.edges[n] = old.edges[n]]_vars
=============================================================================
