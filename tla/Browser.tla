------------------------------ MODULE Browser -------------------------------
(***************************************************************************)
(* ce-drive-wasm: the drive in a browser page (crdt.rs, a copy of the      *)
(* core's tree and content map, and lib.rs, the DriveCrdt object that the  *)
(* page calls).  A page mints operations of its own, publishes them, and   *)
(* takes in what devices running the core and other pages published.  A    *)
(* page that is loaded again starts with an empty DriveCrdt and a counter  *)
(* of zero; the JavaScript around it, which is not part of the repository, *)
(* is taken to replay the page's own operations before it mints a new one. *)
(*                                                                         *)
(* Devices are the replicas of module Drive; they merge what pages publish.*)
(***************************************************************************)
EXTENDS Drive

CONSTANTS Page,      \* the replica ids of the pages; numbers
          Minting,   \* the calls that pages make
          MaxTick,   \* bound: no page mints beyond this tick
          MaxHeard,  \* bound: content operations a page takes in, repeats included
          MaxReloads \* bound: reloads of each page

ASSUME PageAssumption == Page \subseteq Nat /\ Page \cap Replica = {}

VARIABLES page,      \* page[b]: the DriveCrdt of page b and its node counter
          published, \* the operations that pages have published
          heard,     \* heard[b]: the content operations b applied, in that order
          reloads    \* reloads[b]: how often b was loaded again

browserVars == <<drive, fresh, page, published, heard, reloads>>

-----------------------------------------------------------------------------
(* crdt.rs: the tree.  do_move, undo_move and apply are the algorithm of the *)
(* core's integrate, readdir, path and resolve that of the core's views.     *)

\* Wrong variant: operations are done in the order in which they arrive.
ApplyMoveLast(t, op) == IntegrateLast(t, op)

\* DriveTree::apply.
ApplyMove(t, op) == Integrate(t, op)

\* readdir.
ListDir(t, dir) == Readdir(t, dir)

\* path and resolve.
DerivedPath(t, n) == PathOf(t, n)
ResolvePath(t, path) == Resolve(t, path)

\* child_named, which skips what is in the trash.
ChildrenNamed(t, dir, name) ==
    {c[3] : c \in {x \in ChildrenOf(t, dir) : x[2] = name /\ ~IsTrashed(t.edges, x[3])}}

\* Of the nodes that share a bare name, the one that was moved last.
Keeper(t, rivals) ==
    CHOOSE c \in rivals :
        \A d \in rivals \ {c} : TsLess(DefiningTs(t, d[3]), DefiningTs(t, c[3]))

\* Wrong variant: the oldest of the rivals is reported as the winner.
ConflictsOldestWins(t, dir) ==
    LET rivals(c) == {d \in Shown(t, dir) : d[2] = c[2]}
        oldest(c) == CHOOSE o \in rivals(c) : \A d \in rivals(c) \ {o} :
                         TsLess(DefiningTs(t, o[3]), DefiningTs(t, d[3]))
    IN  {[winner |-> oldest(c)[3], loser |-> c[3], name |-> c[2],
          rendered |-> c[2] \o <<DefiningTs(t, c[3]).replica, DefiningTs(t, c[3]).lamport>>] :
            c \in {d \in Shown(t, dir) : d # oldest(d)}}

\* conflicts: every node of a directory that lost its bare name, and to which.
Conflicts(t, dir) ==
    LET rivals(c) == {d \in Shown(t, dir) : d[2] = c[2]}
    IN  {[winner |-> Keeper(t, rivals(c))[3], loser |-> c[3], name |-> c[2],
          rendered |-> c[2] \o <<DefiningTs(t, c[3]).replica, DefiningTs(t, c[3]).lamport>>] :
            c \in {d \in Shown(t, dir) : d # Keeper(t, rivals(d))}}

-----------------------------------------------------------------------------
(* crdt.rs: the content map.  Its versions carry no conflict mark.           *)

Saved(cid, at) == [cid |-> cid, at |-> at]

\* Wrong variant: a save that loses is forgotten.
RecordSaveDropsLoser(c, cid, at) ==
    IF cid = c.cid \/ ~Wins(c, cid, at) THEN c
    ELSE [cid |-> cid, mtime |-> at,
          versions |-> PushVersion(c.versions, Saved(c.cid, c.mtime))]

\* FileContent::record.
RecordSave(c, cid, at) ==
    IF cid = c.cid THEN c
    ELSE IF Wins(c, cid, at)
    THEN [cid |-> cid, mtime |-> at,
          versions |-> PushVersion(c.versions, Saved(c.cid, c.mtime))]
    ELSE [c EXCEPT !.versions = PushVersion(@, Saved(cid, at))]

\* FileContent::restore.
RestoreSave(c, cid, now) ==
    IF \E i \in DOMAIN c.versions : c.versions[i].cid = cid
    THEN [cid |-> cid, mtime |-> now,
          versions |-> PushVersion(c.versions, Saved(c.cid, c.mtime))]
    ELSE c

\* ContentMap::apply.
ApplySave(m, op) ==
    CASE op.type = "set" ->
           WithRecord(m, op.id,
                      IF op.id \in DOMAIN m THEN RecordSave(m[op.id], op.cid, op.at)
                      ELSE [cid |-> op.cid, mtime |-> op.at, versions |-> <<>>])
      [] op.type = "restore" /\ op.id \in DOMAIN m ->
           WithRecord(m, op.id, RestoreSave(m[op.id], op.cid, op.at))
      [] op.type = "remove" -> WithoutRecord(m, op.id)
      [] OTHER -> m

\* FileContent::all_cids of a record, and all_cids of the map.
CidsKept(m) == AllCids(m)

-----------------------------------------------------------------------------
(* lib.rs: DriveCrdt. *)

\* DriveCrdt::new.
NewPage == [lamport |-> 0, ctr |-> 0, tree |-> EmptyTree, content |-> NoContent]

\* observe: up to the arriving tick and no further.
ObserveTs(p, ts) == [p EXCEPT !.lamport = MaxNat(@, ts.lamport)]

\* tick.
PageTs(p, b) == [lamport |-> p.lamport + 1, replica |-> b]

\* Wrong variant: the id leaves out who mints it.
PageNodeIdNoReplica(p, b) == <<p.lamport + 1, p.ctr>>

\* fresh_node_id: the tick, the replica, and the counter of the loaded module.
PageNodeId(p, b) == <<p.lamport + 1, b, p.ctr>>

\* resolve_dir: what a directory argument can resolve to.
PageDirs(p) ==
    {n \in Resolvable(p.tree) : n = ROOT \/ p.tree.edges[n].kind = "dir"}

MoveOf(p, b, child, dir, name, kind) ==
    [ts |-> PageTs(p, b), child |-> child, new_parent |-> dir,
     new_name |-> name, kind |-> kind]

\* A move is stamped, applied and handed out for publishing.
MintMove(p, op) == [p EXCEPT !.lamport = @ + 1, !.tree = ApplyMove(@, op)]

\* mint_content: the same for a content operation.
MintContent(p, op) == [p EXCEPT !.lamport = @ + 1, !.content = ApplySave(@, op)]

\* The JavaScript replays what the page published before it was loaded again.
CaughtUp(b) ==
    \A op \in published : op.ts.replica = b =>
        IF "child" \in DOMAIN op THEN HasTs(page[b].tree, op.ts)
        ELSE \E i \in DOMAIN heard[b] : heard[b][i].ts = op.ts

MayMint(b, call, ticks) ==
    /\ call \in Minting
    /\ page[b].lamport + ticks <= MaxTick
    /\ CaughtUp(b)

\* A call that mints one move.
MintsMove(b, op) ==
    /\ page' = [page EXCEPT ![b] = MintMove(@, op)]
    /\ published' = published \cup {op}
    /\ UNCHANGED <<drive, fresh, heard, reloads>>

PageMkdir(b, dir, name) ==
    LET op == MoveOf(page[b], b, PageNodeId(page[b], b), dir, name, "dir") IN
    /\ MayMint(b, "mkdir", 1)
    /\ dir \in PageDirs(page[b])
    /\ ChildrenNamed(page[b].tree, dir, name) = {}
    /\ page' = [page EXCEPT ![b] = [MintMove(page[b], op) EXCEPT !.ctr = @ + 1]]
    /\ published' = published \cup {op}
    /\ UNCHANGED <<drive, fresh, heard, reloads>>

\* addFile where nothing has the name: a new node and its content.
PageAddFile(b, dir, name, cid, at) ==
    LET mv    == MoveOf(page[b], b, PageNodeId(page[b], b), dir, name, "file")
        moved == [MintMove(page[b], mv) EXCEPT !.ctr = @ + 1]
        set   == [ts |-> PageTs(moved, b), op |-> SetOp(mv.child, cid, at)]
    IN  /\ MayMint(b, "add", 2)
        /\ dir \in PageDirs(page[b])
        /\ ChildrenNamed(page[b].tree, dir, name) = {}
        /\ page' = [page EXCEPT ![b] = MintContent(moved, set.op)]
        /\ published' = published \cup {mv, set}
        /\ heard' = [heard EXCEPT ![b] = Append(@, set)]
        /\ UNCHANGED <<drive, fresh, reloads>>

\* A call that mints one content operation.
MintsSet(b, n, cid, at) ==
    LET set == [ts |-> PageTs(page[b], b), op |-> SetOp(n, cid, at)] IN
    /\ page' = [page EXCEPT ![b] = MintContent(@, set.op)]
    /\ published' = published \cup {set}
    /\ heard' = [heard EXCEPT ![b] = Append(@, set)]
    /\ UNCHANGED <<drive, fresh, reloads>>

\* addFile where a file has the name: an edit of that file, the first by id.
PageAddVersion(b, dir, name, cid, at) ==
    LET named == ChildrenNamed(page[b].tree, dir, name) IN
    /\ MayMint(b, "add", 1)
    /\ dir \in PageDirs(page[b])
    /\ \E n \in named :
           /\ \A m \in named \ {n} : LexLess(n, m)
           /\ page[b].tree.edges[n].kind = "file"
           /\ MintsSet(b, n, cid, at)

\* setContent takes a node id and looks nothing up.
PageSetContent(b, n, cid, at) ==
    /\ MayMint(b, "write", 1)
    /\ n \in DOMAIN page[b].tree.edges /\ page[b].tree.edges[n].kind = "file"
    /\ MintsSet(b, n, cid, at)

\* move: no check for a child of that name.
PageMove(b, n, dir, name) ==
    /\ MayMint(b, "mv", 1)
    /\ n \in Resolvable(page[b].tree) \ {ROOT}
    /\ dir \in PageDirs(page[b])
    /\ MintsMove(b, MoveOf(page[b], b, n, dir, name, page[b].tree.edges[n].kind))

PageRemove(b, n) ==
    /\ MayMint(b, "rm", 1)
    /\ n \in Resolvable(page[b].tree) \ {ROOT}
    /\ MintsMove(b, MoveOf(page[b], b, n, TRASH, page[b].tree.edges[n].name,
                           page[b].tree.edges[n].kind))

\* applyMoveOp and applyMoveOps.
TakeMove(b, op) ==
    /\ page' = [page EXCEPT ![b] =
                   [ObserveTs(page[b], op.ts) EXCEPT !.tree = ApplyMove(@, op)]]
    /\ UNCHANGED <<drive, fresh, published, heard, reloads>>

\* applyContentOp and applyContentOps: applied as it arrives, and every time.
TakeContent(b, op) ==
    /\ Len(heard[b]) < MaxHeard
    /\ page' = [page EXCEPT ![b] =
                   [ObserveTs(page[b], op.ts) EXCEPT !.content = ApplySave(@, op.op)]]
    /\ heard' = [heard EXCEPT ![b] = Append(@, op)]
    /\ UNCHANGED <<drive, fresh, published, reloads>>

\* The page is loaded again.
ReloadPage(b) ==
    /\ reloads[b] < MaxReloads
    /\ page' = [page EXCEPT ![b] = NewPage]
    /\ heard' = [heard EXCEPT ![b] = <<>>]
    /\ reloads' = [reloads EXCEPT ![b] = @ + 1]
    /\ UNCHANGED <<drive, fresh, published>>

-----------------------------------------------------------------------------

PublishedMoves == {op \in published : "child" \in DOMAIN op}
PublishedEdits == published \ PublishedMoves

\* Everything that is on the mesh: the devices' logs and what pages published.
AllMoves == PublishedMoves \cup UNION {MovesFrom(r) : r \in Replica}
AllEdits == PublishedEdits \cup UNION {ContentsFrom(r) : r \in Replica}

BrowserInit ==
    /\ Init
    /\ page = [b \in Page |-> NewPage]
    /\ published = {}
    /\ heard = [b \in Page |-> <<>>]
    /\ reloads = [b \in Page |-> 0]

Mints(b) ==
    \/ \E dir \in DOMAIN page[b].tree.edges \cup {ROOT}, name \in Name :
        \/ PageMkdir(b, dir, name)
        \/ \E cid \in Cid, at \in Time : PageAddFile(b, dir, name, cid, at)
        \/ \E cid \in Cid, at \in Time : PageAddVersion(b, dir, name, cid, at)
        \/ \E n \in DOMAIN page[b].tree.edges : PageMove(b, n, dir, name)
    \/ \E n \in DOMAIN page[b].tree.edges :
        \/ PageRemove(b, n)
        \/ \E cid \in Cid, at \in Time : PageSetContent(b, n, cid, at)

Takes(b) ==
    \/ \E op \in AllMoves : TakeMove(b, op)
    \/ \E op \in AllEdits : TakeContent(b, op)

\* A device runs a command or merges what a page published.
DeviceStep(r) ==
    /\ \/ Structural(r) \/ Editing(r) \/ Deleting(r)
       \/ \E op \in PublishedMoves : RemoteMove(r, op)
       \/ \E op \in PublishedEdits : RemoteContent(r, op)
    /\ UNCHANGED <<page, published, heard, reloads>>

BrowserNext ==
    \/ \E b \in Page : Mints(b) \/ Takes(b) \/ ReloadPage(b)
    \/ \E r \in Replica : DeviceStep(r)

BrowserSpec == BrowserInit /\ [][BrowserNext]_browserVars

-----------------------------------------------------------------------------
(* Properties *)

\* A page and a device, or two pages, that took in the same moves hold the same
\* tree: the copy of the tree in the browser keeps to the core's, whichever side
\* minted the moves and whatever the order, the lateness and the repetition.
TreesAgree ==
    /\ \A b, c \in Page :
           LogOps(page[b].tree) = LogOps(page[c].tree) => page[b].tree = page[c].tree
    /\ \A b \in Page, r \in Replica :
           LogOps(page[b].tree) = LogOps(drive[r].tree) => page[b].tree = drive[r].tree

\* A page mints no id and no timestamp a second time, not after it was loaded again
\* either, and never one that a device mints: new nodes are new everywhere.
FreshEverywhere ==
    /\ [](\A o, p \in AllMoves \cup AllEdits : o.ts = p.ts => o = p)
    /\ [][\A b \in Page : page'[b].ctr > page[b].ctr =>
            \A op \in PublishedMoves' \ PublishedMoves :
                ~ \E old \in AllMoves : old.child = op.child]_browserVars

\* The blobs that the page is told to keep: while the history is not full, every
\* content it heard of since the file's record was last removed is among them,
\* whatever the order in which the operations came.
BlobsKept ==
    \A b \in Page : \A n \in DOMAIN page[b].content :
        Cardinality(SinceRemoval(heard[b], n)) <= MaxVersions + 1 =>
            SavedSince(heard[b], n) \subseteq CidsKept(page[b].content)

\* The conflicts a page reports are the ones its listings show: the winner is
\* listed under the contested name and every loser under the reported one, and in
\* the root directory pathOf and resolve lead to the winner and back.
ConflictsAsListed ==
    \A b \in Page : \A dir \in DOMAIN page[b].tree.edges \cup {ROOT, TRASH} :
        LET listed == ListDir(page[b].tree, dir) IN
        \A c \in Conflicts(page[b].tree, dir) :
            /\ \E e \in listed : e.child = c.winner /\ e.name = c.name
            /\ \E e \in listed : e.child = c.loser /\ e.name = c.rendered
            /\ dir = ROOT =>
                   ResolvePath(page[b].tree, DerivedPath(page[b].tree, c.winner)) = c.winner

\* "The folded state is identical on every device regardless of delivery order":
\* a page that applied the same content operations as another, or as a device,
\* shows the same current version of every file.
SameFoldEverywhere ==
    \A b \in Page :
        /\ \A c \in Page : Range(heard[b]) = Range(heard[c]) =>
               page[b].content = page[c].content
        /\ \A r \in Replica : Range(heard[b]) = Range(drive[r].contents) =>
               /\ DOMAIN page[b].content = DOMAIN drive[r].content
               /\ \A n \in DOMAIN drive[r].content :
                      page[b].content[n].cid = drive[r].content[n].cid
=============================================================================
