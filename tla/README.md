# A TLA+ development of ce-drive

ce-drive is a replicated file drive: a directory tree that is a move-CRDT, a
map from file nodes to versioned contents, a change feed over both, a drive
that one process uses and saves, a drive that several devices write together,
and front ends (mounts, a folder mirror, a browser library, a command line)
around them. The contents themselves are objects in a content-addressed store.

This directory holds TLA+ modules for the parts of it that decide what users
see and keep, TLC instances that check them, and theorems about the tree, the drives,
the mounts, the folder
mirror and the files of the command line, whose proofs TLAPS checks. Source paths below are
relative to `src/crates/`; `core` is `ce-drive-core/src`.

    tlc -workers 2 -config MCTreeReplicas.cfg MCTreeReplicas.tla    # a run
    tlapm TreeReplicasProofs.tla                                    # a module of proofs

## 1. Inventory

### Tree: `core/tree.rs`

*State*: a log of moves, each with the edge that it displaced, in ascending
timestamp order; `edges`, from a node to its parent, name and kind; `children`,
the inverse index of `edges` that `readdir` uses. A timestamp is a Lamport tick
and a replica id, compared in that order.
*Operations*: `integrate` (undo the later moves, do the new one, redo), which is
made of `do_move` (skips a move that would form a cycle) and `undo_move`; the
views `readdir` (with the conflict-rename of equal names), `path`, `resolve`,
`is_trashed`, `is_live`.
*Hard*: moves arrive in any order and repeatedly; concurrent moves form cycles
together that neither forms alone; index and edges are maintained apart.
*Correct when*: never a cycle, also between undo and redo; the index is exact;
replicas that took in the same moves are equal; no move is lost; no two listed
names of a directory are equal; a path leads back to its node.

### Content map: `core/content.rs`

*State*: for a file node a current cid and modification time, and a history of
at most `MAX_VERSIONS` versions, each perhaps marked as a conflict.
*Operations*: `Set` (`record`: the later time wins, the greater cid among equal
times, the loser goes to the history), `Restore`, `Remove`.
*Hard*: winning, losing and repeated saves against the cap and the
deduplication of the history; the result depends on the order of application.
*Correct when*: a save is never lost while the history has room.

### Drive: `core/drive.rs`

*State*: `DriveState`, which is what is saved (move log, content log, Lamport
clock); the tree and content map replayed from it; a node counter of the
process, which is not saved.
*Operations*: `mkdir`, `add_file`, `mv`, `rm`, `restore`, `empty_trash`,
`gc_trash`, `set_content`, `restore_version`, `apply_remote_move`,
`apply_remote_content`, `compact`, `from_state`.
*Interaction*: every front end calls these; the logs are the input of the feed
and of other replicas.
*Hard*: long sequences of commands, restarts between them (the counter starts
over), remote operations that arrive late and twice and must be folded in at
their place, compaction, which writes new logs and sets the clock back.
*Correct when*: the views are what the next process will replay; a created node
is new; no node falls out of root, trash and limbo; saves are kept; merged
drives agree; restoring from the trash brings everything back.

### Change feed: `core/changes.rs`

*State*: none of its own; the client keeps a cursor, the last timestamp it saw.
*Operations*: `changes_since`, `changes_page`.
*Hard*: polls between commands, page boundaries, two logs merged into one feed,
a classification that depends on moves before the cursor, compaction.
*Correct when*: a client that keeps polling is told everything once, in order.

### Multi-writer drive: `core/sync.rs`

*State*: per process a clock and a node counter; through `ce-coord` one tree log
and one content log per writer, which outlive the process.
*Operations*: `mkdir`, `add_file`, `mv`, `rm`, `set_content`, each a lookup
(`with_tree`), `tick`, and `propose`, with an await between them; peers' logs
arrive in the background; `open` after a restart.
*Hard*: tasks interleave at the awaits; the union of the logs changes between
two reads; an append fails, or its caller stops waiting, with half of `add_file`
done; the clock starts at 0 again when the process does.
*Correct when*: the keys by which the union deduplicates are unique; ids are
unique; no save is lost; what is saved is saved of a node that there is.

### Virtual file system: `ce-drive-mount/src/vfs.rs`

*State*: open files (buffer, dirty flag, hydrated flag), handles, the drive.
*Operations*: `open`, `hydrate`, `read`, `write`, `truncate`, `flush`, `release`,
`create`, `mkdir`, `unlink`, `rename`, `revalidate`.
*Interaction*: the adapters call it from several threads; it owns a `Drive`.
*Hard*: one mutex, released around every download and upload; `flush` uploads without
the lock and clears the dirty flag afterwards;
`rename` over an existing name; a file deleted while open.
*Correct when*: a handle holds a version of its file plus its own writes; what was
written is uploaded before the handle goes; a rename leaves the renamed file.

### Adapters: `ce-drive-mount/src/linux_fuser.rs`, `macos_fskit.rs`, `windows.rs`

*State*: none of their own; the kernel holds the handles. At the end of a mount
the drive's state goes to `on_unmount`, which the command line saves.
*Operations*: one callback per kernel request, each of which blocks on one call of
the engine; `readdir` and `readdirplus` fill a buffer from an offset; `mount`.
*Interaction*: `fuser` serves one request at a time; the threads of WinFsp call
concurrently, and only open, read, write, flush and close.
*Hard*: what a flush that was answered means for the state that is handed over,
after failed uploads and other requests in between; resuming a listing.
*Correct when*: what was flushed is handed over; a listing that is resumed shows
each entry once.

### Folder mirror: `ce-drive-mount/src/materialize.rs`

*State*: a folder on disk; the copy of the drive that the command loaded.
*Operations*: `materialize`; `push` (list the files, upload and record what
differs, trash what was not listed); `watch`, which pushes again and again.
*Interaction*: reads and writes a folder that the user edits; uploads to the
store; `push` saves its copy of the drive over whatever was saved meanwhile.
*Hard*: the folder changes while it is listed, read and compared; a run stops
between any two of its steps; a path is compared as it is listed and resolved as
it is named, and the two differ where several files have one name.
*Correct when*: files that nobody touched survive a push; deleted ones go; a push
from an unchanged folder changes nothing; materialize writes everything (with
exceptions where several files have one name, see section 5).

### Object store: `core/store.rs`

*State*: the node's blobs, by hash: chunks, and manifests.
*Operations*: `missing_chunks`, `put_bytes`, `put_file`, `get_file_to_path`.
*Hard*: an upload stops between probe, chunks and manifest.
*Correct when*: what is recorded in a drive can be fetched.

### Browser drive: `ce-drive-wasm/src/crdt.rs`, `lib.rs`

*State*: a clock, a tree and a content map per page, a node counter per loaded
module; nothing is kept over a reload.
*Operations*: `mkdir`, `addFile`, `setContent`, `move`, `remove`, each of which
mints operations for publishing; `applyMoveOp`, `applyContentOp`; `conflicts`.
*Interaction*: exchanges operations with devices that run the core.
*Hard*: a second implementation of tree and content map, with another clock rule
and content operations applied in order of arrival; reloads.
*Correct when*: its tree is the core's; ids and timestamps are new everywhere; no
content it heard of is dropped; both sides show the same version.

### Command line: `ce-drive-cli/src/main.rs`

*State*: on disk the state file, the JSON file of an earlier version, the journal
of grants, and the temporary files of both; per process the drive it loaded.
*Operations*: every command is a process that loads, changes and saves, by
`write_atomic`: create, write, sync, rename. `push --watch` loads once and saves
many times. There is no lock.
*Hard*: processes at the same time, with one temporary name; kills between any
two steps; a power loss undoes directory changes that were not synced.
*Correct when*: the file the next command loads is whole; what was reported is in
it.

### The rest

`core/share.rs` (inputs of the external capability library), `core/audit.rs`
(formats the feed; its journal is a file of the command line),
`core/durability.rs` (pins cids through an external client), `core/search.rs`
(ranks strings), `core/names.rs` (character rules). External: `ce-coord`
(replicated logs and their union), `ce-cap`, the node's blob store.

### How they interact

    kernel ---> adapters ---> Vfs --.
    folder mirror, command line ----+--calls--> Drive --owns--> Tree, Content map
            |                                   |   ^
            v                             logs  |   | moves and content operations
      Object store                              v   |
                              Change feed <-----+---+===(mesh)===> Browser page

    SyncedDrive ---propose---> own logs ==(ce-coord)==> logs of the peers
         ^------------- union, replayed in timestamp order -----------'

## 2. Modules

| Module | Models | Uses |
|---|---|---|
| `MoveTree` | `tree.rs` as operators on a record `[log, edges, children]`: `DoMove`, `UndoMove`, `Integrate`, `Readdir`, `PathOf`, `Resolve` | |
| `TreeReplicas` | replicas that move nodes and deliver moves, with `integrate` loop iteration by loop iteration | `MoveTree` |
| `SharedTree` | abstract: copies whose value is a function of the set of operations taken in | |
| `TreeRefinement` | the mapping from `TreeReplicas` to `SharedTree` | `TreeReplicas`, `SharedTree` |
| `ReplayLemmas` | lemmas on the operators, and on `Integrate` and `ReplayMoves` as a whole | `MoveTree`, `TLAPS` |
| `TreeReplicasProofs` | the theorems about replicas, and that they implement `SharedTree` | `TreeRefinement`, `TLAPS` |
| `ContentMap` | `content.rs` as operators: `Record`, `PushVersion`, `RestoreRecord`, `ApplyContent` | |
| `Drive` | `drive.rs`: one action per command, `Reload`, merging, `Compact` | `MoveTree`, `ContentMap` |
| `DriveFeed` | `changes.rs` and a polling client, over `Drive` | `Drive` |
| `SyncedDrive` | `sync.rs`: an action per part of an operation between two awaits | `MoveTree`, `ContentMap` |
| `Vfs` | `vfs.rs`: an action per locked section of a call, over `Drive` | `Drive` |
| `Mounts` | the adapters: which calls reach the engine, when, and what is saved at the end; the listings | `Vfs` |
| `Browser` | `ce-drive-wasm`: pages, their calls and reloads, next to devices | `Drive` |
| `Folder` | `materialize.rs` and the uploads of `store.rs`, over `Drive` | `Drive` |
| `CommandLine` | `main.rs`: processes, their files and crashes | |
| `CommandLineProofs` | the proofs that files stay intact and what was reported is kept | `CommandLine`, `TLAPS` |
| `DriveProofs` | the proofs that a drive in memory is what its logs replay to, that merged drives agree, that saves are kept, and that creations are new nodes | `Drive`, `ReplayLemmas` |
| `ClientProofs` | the proofs about the folder (what a push records can be fetched) and the feed (its client misses nothing, in order and once) | `Folder`, `DriveFeed`, `DriveProofs` |
| `MountsProofs` | the proofs that handles hold their files, and that uploads and answered flushes are kept to the end of the mount | `Mounts`, `DriveProofs` |
| `SyncedDriveProofs` | the proofs that keys and ids are new, files are completed and saves are kept | `SyncedDrive`, `ReplayLemmas` |
| `BrowserProofs` | the proofs that pages follow the devices, keep what they heard, and mint nothing twice | `Browser`, `DriveProofs` |
| `MCTreeReplicas`, `MCDrive`, `MCDriveFeed`, `MCSyncedDrive`, `MCVfs`, `MCBrowser`, `MCFolder`, `MCCommandLine` | values for the constants; properties that only TLC evaluates | |

How state and actions correspond to the code:

* **`MoveTree`**. `edges` is a partial function for `HashMap<NodeId, Edge>`;
  `children`, a `BTreeSet` per parent, is one set of triples. Nodes, names and
  kinds are opaque. The walk of `is_ancestor` is bounded by the number of
  edges, as in the code. A name is a sequence of numbers, so that the name that
  `readdir` renders for a loser (`name.conflict-replica-tick`) is that sequence
  extended by the replica and the tick. As in the code it may meet another node's
  own name, which the runs of the folder do. The code renders eight hexadecimal digits
  of the replica id; that
  two replicas of one drive share them is left out.
* **`TreeReplicas`**. `ProposeMove` is `tick` and `integrate` of an own move;
  `DeliverMove` is `apply_remote_move` (`DeliveryTick = 1`) or the browser's
  (`DeliveryTick = 0`). `UndoStep`, `DoStep` and `RedoStep` are the iterations
  of `integrate`. The code runs them under an exclusive borrow, and no action
  of the replica happens in between (`IsIdle`); the small steps are there to
  state, and prove, what the loops maintain.
* **`SharedTree`, `TreeRefinement`**. A replica is readable when it is idle; then
  `shown` is its whole tree, displaced edges included, and `taken` the moves of
  its log. While the loops run it shows nothing, and the move under way counts
  as taken at their last step. `Publish` demands a stamp that is new and later
  than all the replica has taken in, so that the refinement also says that
  stamps are unique and that no own move is overruled by what it saw.
* **`Drive`**. `drive[r]` is a `Drive` with its `DriveState`; a path argument is
  the node that it resolves to (`Resolvable`, `Dirs`). A command that fails its
  checks changes nothing and is no step. `Reload` ends the process and runs
  `from_state` on what it saved. `Integrate` is atomic here: nothing observes it.
  `RestoreVersion` and
  `SetContent` need no check of history or life, as the code has none. Compaction
  is enabled only where a drive has a single replica, as its comment demands.
* **`DriveFeed`**. `Poll` is `changes_page` and the client's store of the
  returned cursor; `Run` is any action of `Drive`. `told` and `made` record what
  happened, for the properties.
* **`SyncedDrive`**. A task of a device goes `idle` → `look` (`Enter`: the first
  read of the union, which advances the clock) → `stamp` (`Mkdir`, ...: the
  second read, on which the operation decides) → `send` (`Stamp`: `tick` and
  `fresh_node_id`) → `idle`, or `stamp` for the second operation of `add_file`
  (`Send`: `propose`). `SendFails` is a `propose` that ends in an error, or whose
  caller drops the future: the operation is in the log or not, and the `?` ends the
  task, whatever it had left to send, while the process lives on. `errors` counts
  these. `Deliver` is one operation of one log of one peer.
  `fresh` of a task is for a property.
* **`Vfs`**. `drive[Me]` is the engine's drive, and its structural calls are made
  of the commands of `Drive`, addressed the way the engine does it: from an
  inode to a path of bare names, and back to a node (`DirAt`, `At`). A call on a
  handle is `idle`, fetching, about to apply its part, uploading, or about to
  close; whatever is between two of these runs under the mutex. Bytes are the
  set of edits that they contain, a cid a number that determines them. An inode
  is its node. `Revalidate` brings a peer's version of a file, since that is
  what is re-read; no caller in the repository passes it anything but the
  engine's own state. `own`, `whole`, `since` and `late` of a handle are for
  properties.
* **`Mounts`**. `os` chooses an adapter at the start: `fuse`, whose callbacks
  wait for each other (`NoRequest`) and which forgets a handle at release whatever
  the answer; `winfsp`, whose callbacks do not wait; `engine`, which is `VfsNext`
  without an adapter. `Proceed` is the rest of a call of the engine. `Unmount`
  hands over `drive[Me]`. `acked` collects what flushes promised. A listing is a
  function of the names and an offset: `ReaddirBuffer` and `ReaddirplusBuffer` are
  the two callbacks, `Collected` the kernel that asks until nothing comes.
* **`Browser`**. The tree is `MoveTree` again, since `crdt.rs` is a copy of the
  algorithm, and `page[b]` a `DriveCrdt` with its node counter. Devices are the
  replicas of `Drive`; `DeviceStep` is a command or the merge of what a page
  published. `heard` is the order of arrival, for the properties. A page mints
  only when it has replayed its own operations (`CaughtUp`): the JavaScript that
  should do so is outside the repository, and without it a reloaded page
  stamps operations with timestamps it has used.
* **`Folder`**. `disk` maps the paths of the folder to bytes or to a directory,
  `job` is the run under way with the drive it loaded and what it still has to
  visit, `blobs` what the store holds. A step of a run is one entry of the folder
  or one upload; user, other commands and `Abandon` (a failure or a kill) come
  in between. `EndPush` is the trash phase with the save, since neither the folder
  nor the store is looked at in between; it deletes by paths listed beforehand, one
  after the other (`Swept`), and comes to no end when one of them leads nowhere.
  An entry of a listing is a path with the nodes that led to it (`via`), since a path
  may lead to another node than the one it was listed for. A run of the specification begins
  with one of the drives in `Saved`: an empty one; one where `mv` left two files
  of one name (`Collided`), of which the earlier or the later won it; and one to
  which the edited copy of the loser was added (`Copied`). The user edits some
  given paths and whatever is in the folder, the copies of conflicts included. `from`,
  `mirrored` and `touched` of a run are for properties. `sync` of the command line
  is `materialize` under another name.
* **`CommandLine`**. Files have names and inodes. The content of a file is the
  set of the runs whose changes it contains, which is what tells a lost save from
  a kept one, and `fill` says whether it is whole. `Create` to `Finish` are the
  system calls of `write_atomic` and `save_state`. Each of them may fail
  (`SaveFails`), which ends a command and is only a warning for `push --watch`
  (`Goon`); a failed removal of the earlier version's file goes unnoticed.
  `PowerLoss` brings back any
  earlier directory, and empties inodes that were not synced. `Share` is a run
  whose target is the journal. `alone`, `overlap` and `unread` record the
  exceptions that the properties make.

The definitions whose comment begins "Wrong variant" are no part of any
specification. Each is a plausible mistake in the definition that follows it;
put in its place, it must make the property that PROJECT.json pairs it with
fail, which shows that the property says something about the code.

## 3. Runs

| Run | Instance | What it shows | Result |
|---|---|---|---|
| `tree_core` | 2 replicas, `ROOT`, `TRASH`, 2 directories, 1 name, tick 2, 3 moves, fair | no cycle and an exact index in every state of the loops; convergence; the abstract tree is implemented; paths lead back; under fair delivery all replicas end with one tree of all moves | holds, 134,241 states |
| `drive_everyday` | 1 replica, 1 name, 2 cids, 2 times, 3 nodes, tick 5, history of 2 | any sequence of commands of one process, compaction included: every save kept, ids are new while the clock is not set back, restoring brings the subtree back, compaction keeps places, names and kinds of the live nodes | holds, 220,006 states |
| `drive_merge` | 2 replicas, 1 node per process, 1 name, 2 cids, tick 4, 3 delivered moves per log; all commands but `mv`, `gc` and `compact` | remote operations in any order, late and repeated, between commands and restarts, hard deletion included: merged drives agree; memory is what the next process replays | holds, 221,757 states |
| `drive_feed` | 1 replica, 1 node per process, pages of 1, 2 and unbounded, tick 6 | a polling client is told everything once, in order, creations as creations | holds, 199,915 states |
| `synced_writers` | 2 devices, one with 2 tasks, 2 cids, 3 operations, 1 failed append or restart | interleavings at the awaits, deliveries, failed appends and a restart: keys of moves and ids are unique, saves are kept, nothing is saved of a node whose own append failed | holds, 739,956 states |
| `vfs_calls` | each adapter; 2 calls at a time, 2 mounted files, 1 handle, 2 edits, 2 operations or 1 rename, 1 created node; buffers of 1, 2 and 4 entries | a handle holds a version of its file and its own writes; a clean handle is saved (unless, outside fuse, a write overlapped its upload); uploads are kept; what a flush promised is handed over at the unmount; a rename keeps the name taken; a listing is complete | holds, 201,853 states |
| `browser` | 1 page, 1 device, 1 name, 2 cids, tick 2 of the page and 5 of the device, 2 content operations heard, 1 reload | the copy of the tree keeps to the core's; ids and stamps are new everywhere; contents are kept; reported conflicts are the ones that are listed | holds, 353,575 states |
| `folder` | a path and one below it, an empty drive or one with rivals, 2 cids that share a chunk and the empty file, 2 times, 2 runs, 2 edits of these paths or of what is there, commands `mkdir` and `add` meanwhile up to tick 3 | what is recorded is stored; untouched files survive a push and win if they are newer; what was deleted in the folder is trashed in the drive, at any depth; a push from a mirror writes nothing; materialize writes everything; with the exceptions of section 5 for names taken twice; rivals are listed apart; without them the trash phase comes to its end | holds, 242,824 states |
| `command_line` | 2 processes, 3 saves, with and without an earlier version's file | the state file and the journal are whole and on disk; saves and grants are kept while commands do not overlap, whichever system call fails | holds, 916,555 states |
| `drive_ids` | a process per command, with compaction | `NewNodesAreNew` fails: see finding 1 | violated |
| `vfs_flush` | WinFsp; a write during an upload | `CleanIsUploaded` fails: finding 2 | violated |
| `browser_order` | a page that only listens, a device that restores a version | `SameFoldEverywhere` fails: finding 3 | violated |

**Why the bounds are enough.** Two replicas with two ticks each give every
relative order of three moves, with ties of the tick decided by the replica; two
directories are the least that form a cycle together, and with three moves an
earlier one makes a later one a cycle, or no longer one, when it is redone. The
same instance with four moves (1,707,105 states) holds as well, and takes four
minutes. The trash is the third parent, without which no walk ends elsewhere than
at the root. That a node's own name is the one another is rendered by takes three
nodes of one directory, and is left to `folder`. In `drive_everyday` five ticks let a
file be created (two ticks),
saved, deleted and restored, or deleted and collected; two cids and two times
give every outcome of `record` (later, earlier, equal with greater or lesser
cid, same cid), and a history of two meets its cap. In `drive_merge` four ticks are a
file and its deletion, return or two more versions, or a directory that is deleted for
good, each replica with observations of the other's: content out of order, a deletion
against a return, and the same operation again. `restore` stands for the moves that
`mv` makes; directories moved below each other are left to `tree_core`. In
`drive_feed` the log gets a second node from a second process; six ticks are a file
that is deleted, returns and moves between polls, or is removed for good, with a tick
to spare. `SyncedDrive` needs two tasks on a device for interleavings and a second
device for deliveries; three operations let a device create, a second save or move, and
a third act on the
outcome; one failure is an append of either half of `add_file`, of another task's save
or move, or a restart before, between or after them. In `vfs_calls` two calls on one
handle give every overlap of a download,
a write, an upload and a close, and a peer's save changes the file under the
handle; both edits, in any order, tell a lost write from a lost base. The
mounted files take four ticks; two more allow two uploads, saves or creations,
or one rename over the other file. A directory with two or three entries fills
buffers of one and two in their middle, and fits one of four.

In `browser` the page's two ticks are one `addFile` or two other calls, before or
after the device's own operations, and the device's five let it create a file,
delete it, empty the trash, and take in what the page made; a reload in between
starts counter and clock over. Two operations heard are a save and a removal, two
saves, or one of them twice, in any order. In `folder` two runs are materialize and
push, two pushes, or two rounds of watch, each with two edits, and with a file that
another command adds before or during the first, or with directories that it makes;
the nested path makes files and directories trade places. Three ticks let a command
add the nested file, which materialize writes and the user deletes, alone or with its
directory. Of two rivals, materialize writes both and the user edits or deletes the
one, the other or both, before the push; a third file with the name of the conflict
is there from the beginning or comes about by such a push. `MaxPushed` is past what two
pushes stamp after all that. In `command_line` three
saves are two that overlap and one that loads the outcome, or a watch that saves
twice while another command runs.

`MaxLamport`, `MaxMoves`, `MaxNodes`, `MaxVersions`, `MaxOps`, `MaxFailures`,
`MaxHandles`, `MaxTick`, `MaxHeard`, `MaxReloads`, `MaxPushed`, `MaxEdits` and
`MaxRuns` are the bounds; all but `MaxVersions`, which is the code's own with
a smaller value, only stop behaviours. They do stop them, which is why the runs
do not check for deadlock. `command_line` needs no bound to stop, since a power
loss is always possible, and its deadlock check is vacuous.

Larger instances hold as well: `drive_merge` with `mv` instead of `restore` (868,769
states), `drive_feed` with three nodes per process and no `restore` (695,615), `browser`
with three operations heard (1,017,339), and `folder` with a third
path beside the first (`ThreePaths`, 1,150,886). They take two to four minutes each, and
are left out so that each run ends within a minute or so.

**Symmetry.** The tasks of a device in the `SyncedDrive` run and the calls in
the `Vfs` runs are interchangeable: neither the specifications nor the properties
order or name them, and none of these runs checks liveness. Replicas, pages and
processes are numbers and are never symmetric, since timestamps compare them, nor are
cids, by which `record` breaks ties.

**Fairness** is assumed in `tree_core` only, and only
`EventuallyConverged` needs it. `WF(Step(r))`: `integrate` is
synchronous code whose loops end. `WF(DeliverNew)` for each replica: as long as
there is a published move it has not integrated, it integrates one sometime,
which is what the mesh log promises its followers. Nothing is assumed of the
writers, nor of deliveries of moves that are already known.

**Commands per run.** The constant `Command` of `Drive` limits what a run's users
do (`MCDrive` and the other MC modules name the sets). The value `restore_trash`,
which lets `Restore` take the id `TRASH` itself (the code accepts it), is in none
of them. Processes restart in `drive_merge`, `drive_feed` and `drive_ids`.
In `drive_everyday` compaction runs in a process that lives on; `drive_ids` is the
same with a new process per command.

## 4. Proofs

For all sets of replicas (numbers), nodes, movable nodes, names and kinds, all
bounds, and both clock rules:

| Module | Theorem | Property of `Spec` |
|---|---|---|
| `TreeReplicasProofs` | `TypeCorrect` | `[]TypeOK` |
| | `Inductive` | `[]IInv` |
| | `NoCycles` | `[]Acyclic` |
| | `IndexIsExact` | `[]IndexConsistent` |
| | `ReplicasConverge` | `[]Convergence` |
| | `TimestampsUnique` | `[]UniqueTimestamps` |
| | `NoMoveLost` | `NothingLost` |
| | `OwnMovesAreLast` | `StampsAfterSeen` |
| | `ImplementsShared` | `ImplementsSharedTree` |

for all sets of devices, tasks, names and contents, and all bounds:

| `SyncedDriveProofs` | `Inductive` | `[]IInv` |
|---|---|---|
| | `KeysAreUnique` | `[]MoveKeysUnique` |
| | `SavesAreOfNodes` | `[]SavedNodesExist` |
| | `CreationsAreNew` | `NewNodesAreNew` |
| | `EditsInductive` | `[]EditsInv` |
| | `SavesStayKept` | `[]SavesKept` |

for all sets of replicas, names, contents, times and commands, and all bounds:

| `DriveProofs` | `Inductive` | `[]IInv` |
|---|---|---|
| | `ViewsAreReplays` | `[]ViewsMatchLogs` |
| | `MergedDrivesAgree` | `[]MergedAgree` |
| | `SavesAreKept` | `[]EverySaveKept` |
| | `CreationsAreNew` | `NewNodesAreNew`, unless `Command` has both `compact` and `reload` |

for all sets of browser pages and of devices, all names and contents, and all bounds:

| `BrowserProofs` | `BrowserInductive` | `[]BInv` of `BrowserSpec` |
|---|---|---|
| | `PagesFollowDevices` | `[]TreesAgree` |
| | `HeardBlobsAreKept` | `[]BlobsKept` |
| | `MintedOnce` | `FreshEverywhere` |

for all names, files and chunks that a folder holds, and any number of edits,
commands and runs:

| `ClientProofs` | `FolderInductive` | `[]FInv` |
|---|---|---|
| | `RecordedFilesAreStored` | `[]RecordedIsStored` |
| | `RivalsAreToldApart` | `[]RivalsListedApart` |

for a drive with one writer whose commands do not include `compact`, all names and
contents, all page sizes, and any number of commands, restarts and polls:

| `ClientProofs` | `FeedInductive` | `[]FeedInv` of `FeedSpec` |
|---|---|---|
| | `NothingIsMissed` | `[]FeedMissesNothing` |
| | `FeedIsOrdered` | `[]FeedInOrder` |
| | `CreationsToldOnce` | `[]CreatedOnce` |

for each adapter and for the engine alone, all numbers of concurrent calls, all names,
edits, contents and mounted files, and all bounds:

| `MountsProofs` | `MountInductive` | `[]MountInv` of `MountSpec` |
|---|---|---|
| | `HandlesHoldTheirFiles` | `[]HandleHoldsItsFile` |
| | `CleanHandlesAreSaved` | `[]UnsavedIsDirty` |
| | `UploadsAreKept` | `[]UploadsKept` |
| | `FlushesAreHandedOver` | `[]FlushedIsHandedOver` |

and for all sets of processes and any number of saves:

| `CommandLineProofs` | `FilesStayIntact` | `[]FilesIntact` |
|---|---|---|
| | `ReportedIsKept` | `[]SavedIsKept` |
| | `ReportedGrantsAreKept` | `[]GrantsKept` |

**Assumptions** (named, in the modules that declare the constants):
`ReplicaAssumption` (replica ids are numbers: the proofs use that they are
ordered; in `SyncedDrive` also that there are finitely many devices),
`MovableAssumption` (no one moves `ROOT`, which every operation of
the code refuses), `BoundsAssumption`, `DeliveryTickAssumption`,
`NilAssumption` (`Nil` is not an edge, nor, in `SyncedDrive`, a node),
`NameAssumption` (names are sequences of numbers, which `Drive` sorts),
`ReservedAssumption` (the trash is neither the root nor limbo, none of the three is an
id of a node, and `Nil` is not an edge),
`CursorAssumption` and `LimitAssumption` (the cursor at the beginning is no timestamp, and
page sizes are numbers),
`FolderAssumption` (one replica has a folder, the paths a user edits are not empty,
and the files have chunks, the empty one among them),
`WriterAssumption` (the process of a mount is the one writer of its copy of the drive,
and the files of the mounted drive have names),
`ObjectAssumption` (a cid determines the bytes of an object, and what a peer saves has
such a cid: the store is addressed by content),
`PageAssumption` (the replica ids of pages are numbers, and none of them is a device's:
the constructor demands one that is "globally unique per device"),
`MaxVersionsAssumption` (a history holds a version at least), `HiddenAssumption` (`Nil`
is not a tree)
and `ProcessAssumption` (0 stands for no process). The number of nodes need not be
finite; that a tree has finitely many edges is part of what is proved.

**The argument for the tree.** `Acyclic` alone is not inductive: `undo_move` puts
back an edge that the log entry remembers, and nothing in `Acyclic` says that this
edge fits. The inductive invariant is

    IInv == TypeOK /\ TreesBuilt /\ LoopOrder /\ ClocksAhead /\ UniqueTimestamps

`TreesBuilt` says that each tree is what doing the moves of its log, one after
the other, from the empty tree gives, with each entry remembering the edge it
displaced (by way of a sequence of trees, one per prefix of the log). An undo
then leads to the tree of the prefix, and the do and redo steps extend the
sequence by one tree, which is acyclic and has an exact index because
`do_move` keeps both. `LoopOrder` says that log and suspended tail are in
timestamp order, the log before the tail and the new move between them: this
makes the final log sorted. Two sorted logs with one set of moves are equal when
timestamps identify moves (`UniqueTimestamps`, which needs `ClocksAhead`), and
equal logs build equal trees: this is `ReplicasConverge`. It is because
`integrate` is modelled step by step that this is a proof about actions and not
an induction over the log.

**The argument for the refinement.** The value of a set of moves is
`CanonicalTree`: the moves done once each from the empty tree, the k-th being the
one that k - 1 moves of the set precede. The k-th move of a sorted log is that
move (`NthOfSorted`), so that the trees which `TreesBuilt` speaks of are the
canonical ones (`BuiltIsCanonical`), and an idle replica shows the value of what
it has taken in (`IdleIsCanonical`). The rest maps steps: `ProposeMove` is
`Publish`, `DeliverMove` of an unknown move is `Borrow`, the loop step that ends
the integration is `Take`, all others stutter. That a move under way has been
published and was not known before (`JobKnown`) is an invariant of its own.

**The argument for the files.** `FilesIntact` speaks of what the directory holds
or may hold after a power loss; that a rename puts only whole and synced inodes
there depends on who else may write the inode. The inductive invariant is

    IInv == TypeOK /\ DirsSound /\ WritersSound

`DirsSound` says of every directory, now or after a power loss, that each name has
an inode made for its target and, unless two processes overlapped on that target,
that the target's inode is whole, synced, and not the one under the temporary
name, which the next create truncates. `WritersSound` says that the only writer
of a target holds the inode under the temporary name, has written it alone, has it
whole once written and synced once synced. `Create` is the hard step: it truncates
an inode that no target has, in no directory that may come back.

**The argument for what was reported.** `SavedIsKept` speaks of the file, and a
save replaces the whole file by what its process loaded earlier. The invariant

    KeptInv == IInv /\ ReportsType /\ OneAtATime /\ RunsNumbered
                    /\ \A t \in Target : Relied(t) => Keeps(t)

adds that commands which never overlapped leave at most one process active, and,
per target, that the running command builds on everything reported so far
(`BuildsOn`): it has it in memory, in the inode it has written, and after the
rename in the file. `Keeps` also speaks of the directories that a power loss may
bring back: each still leads to the drive of the earlier version, under the new
name or the old one. A kill between rename and report shows why the file may
hold more than what was reported, never less. The invariant uses `IInv`, since a
create that truncated a loaded inode would lose everything.

**Integration as a whole.** `Drive`, `SyncedDrive`, `Browser` and `Vfs` use
`Integrate` and `ReplayMoves` as operators, not step by step. `ReplayLemmas` shows
what they return: if a tree is what its sorted log builds (`Replayed`), integrating
a move with a new stamp, wherever it belongs in the log, gives the tree that the
longer sorted log builds (`IntegrateReplayed`); so does replaying any sequence of
moves with distinct stamps, in any order (`ReplayMovesReplayed`); two such trees
with the same moves are equal (`ReplayedAgree`), and every edge is that of one of
the moves (`EdgesOfMoves`). The undo and redo loops are recursive functions; their
existence, and what they compute, follow from the least position at which the
claim would fail.

**The argument for a drive.** `ViewsMatchLogs` says that replaying the logs of a
drive gives its tree and content back. The invariant has two parts,

    IInv == TypeOK /\ Originals

`TypeOK` includes, for each drive (`DriveOk`), that no stamp is past the clock, that
a timestamp stands for one move, though the move may be in the log several times,
that the content log is in strict timestamp order, and that tree and content are
those of the logs. A command stamps with the next tick: its move is the last to be
replayed and its content operation the last to be folded (`ReplayAppend`,
`FoldAppend`). A remote move arrives late or again. `IntegrateReplayed` needs that it
is the one move of its stamp, and the log of the receiver alone does not say so;
`Originals` does: all moves with the stamp of a replica are in that replica's own
log. A remote content operation is inserted at its place (`InsertKeepsOrder`) and one
record is folded again; since no operation reads or writes another node's record
(`ApplyKeywise`), that is the fold of the longer log (`RefoldIsFold`). Hard deletion
and compaction are loops over a listing. The listing is in a strict total order and
so names every node once (`RankIsSequence`, `ChainOrders`), and the loops keep
`DriveOk` from one iteration to the next (`HardDeleteGrows`, `VisitOk`,
`CompactedOk`). For `MergedAgree`, two replays of the same moves agree
(`ReplayedAgree`), and two logs in strict timestamp order with the same operations
are one log (`OrderedLogsEqual`).

`EverySaveKept` follows the fold of the content log from one prefix to the next
(`FoldKeepsSaves`). Since the last removal of a node's record, every operation adds at
most one version to its history, so the history is no longer than those operations
are many, and a push drops nothing while there is room (`PushVersionKeeps`). A
repeated cid is the one save that pushes nothing, and it is the current one.

`CreationsAreNew` rests on a second invariant, `Minted`, about the ids that moves
name. As long as no clock is set back, the tick in such an id is at most a tick of its
creator's own log, so that an id minted with the next tick is unknown
(`FreshIsUnknown`), whatever the counter in it. A compaction sets the clock back; then
it is the counter that has moved on, as long as no later process starts it
over. The theorem leaves out the case in which both happen, and there it is false:
that is finding 1. A move of an unknown node is done last, displaces nothing and
closes no cycle, so that the tree has exactly that node more (`IntegrateLater`,
`UnknownIsAdded`).

**The argument for a folder.** `RecordedIsStored` speaks of the drive that is saved,
and a run saves the copy that it loaded at its beginning and has changed since. The
invariant

    FInv == IInv /\ DOMAIN disk \subseteq Path /\ Stored(drive[Me].content)
                 /\ (job = NoJob \/ Running)

says of the run's drive what `IInv` says of the saved one, and that all it refers to
is stored. While a file is put, each of its chunks is stored or still to be sent
(`PutOk`: the probe counted it as missing), so that the record, which comes when
none is missing, refers to a file that is there. A save makes the content map
refer to one cid more (`SetAddsOne`, by `RecordCids`), which is the one just stored,
and a move to none (`MoveAddsNone`). The drives in which a name is taken twice are
made of the same operations (`SavedOk`). Blobs only grow. That two processes load one drive
and the later save undoes the earlier does not matter here: either drive refers to
stored files only. The trash phase is a loop over a listing in the order of paths; that
it keeps the drive in order follows from the least step at which it would not
(`SweptOk`); the listing is finite because each directory is and the walk goes no
deeper than there are edges (`AllEntriesFinite`).

`RivalsListedApart` needs of these drives that their trees are replayed. The timestamp
that ranks a node among its rivals is that of a move in the log (`RankedByItsMove`), the
log is sorted, and so no two nodes have one rank (`RanksDiffer`). At most one of two
rivals is later than the other and keeps the name; what is appended to the others'
names is their rank.

**The argument for the mounts.** A call of the engine looks something up, lets the mutex
go for a download or an upload, and acts on what it had looked up. What makes this
right is that the content log only grows meanwhile (`Prolongs`): each structural call,
save and revalidation appends to it (`Continued`, for the commands of `Drive` that the
engine calls one by one; `SaveFacts`, `MoveFacts`), so that bytes which were current
at some position of the log, or are a version, remain so (`CurrentStays`,
`VersionStays`). The invariant

    MountInv == DriveInv /\ HandlesInv /\ CallsInv /\ FuseInv
                  /\ KernelInv /\ AckedInv /\ (saved = Nil \/ saved = drive[Me])

says of every handle that its buffer is a current version since it was opened, with
the handle's own writes, and of every call what it holds on its way (`CallOk`): a
fetched cid was current for the handle since it was opened and is a version; an
upload has the bytes of its handle's buffer, unless a write came in between, which
marks the handle (`late`). When the upload ends, its bytes are the last version in
the log (`LastIsVersion`), so a handle that becomes clean then, and was not written to,
holds a version. A call finds its handle as it left it, or closed (`Tame`): this is
what a step of one call has to keep for all others. In a fuse mount one request at a
time (`FuseInv`) means that no write comes during an upload. `KernelInv` says that
the kernel's handles are open and that no call closes one of them. An answered
flush is a version by `AckedInv`. That versions are not dropped is
`FoldKeepsSaves` again, as the log of a mount removes nothing (`EditsKept`): a mount
neither empties the trash nor collects it. A path of the engine leads to a node
with an edge, or to none (`ResolveIsNode`), which the deletion of a displaced node
in `rename` relies on.

**The argument for several devices.** Several tasks of a device share one clock and
one log, and a restart sets the clock to 0. That a stamp is new needs all of this:

* `CaughtUp`: a task that looks up, will stamp, or has stamped a move finds the
  clock at or past all moves of its own log. After a restart this is false of the
  device and true of every task, as each has observed its log since. Tasks that
  only save content need not have, so that a restart can repeat the key of a save.
* `StampsPast`, `StampsApart`, `StampsNew`: a stamp that is taken and not yet sent
  is at most the clock, differs from those of the device's other tasks, and from
  all stamps in the log.
* `ChildrenCreated`, `FreshNamed`: the tick in a node's id is the tick of a move in
  its creator's log, so that an id minted with a new tick is new although the
  counter in it started over. A moved node was looked up, in a tree whose edges are
  those of the moves it was replayed from (`MovedKnown`, by `EdgesOfMoves`).
* `SavesNamed`: a save that was sent, or that a task is to stamp or to send, is of a
  node that was sent: `add_file` stamps the content only once the append of the node
  has returned, and any other save is of a node found in a tree whose edges are
  those of moves. A failed append ends the task, so that nothing is left to send.

`SavesKept` is about the saves of processes that were not restarted. Its invariant

    EditsInv == EditsOk /\ EditsGot /\ EditsKeyed

says (`EditsKeyed`) that until its first restart a device stamps every save with a
tick at most its clock that none of its other saves has, and none of its tasks is
still to send. The union of the content logs by timestamp then has every such save,
and its fold keeps it while the history has room (`ReplayKeepsSaves`, which follows
the fold as `FoldKeepsSaves` does). After a restart the keys may repeat, and
`SavesKept` leaves the saves of that device out: of two with one key the union keeps
one.

That the greatest tick of a union exists, and that the union in timestamp order has
its operations at all positions, are lemmas on finite sets (`NewestIsUpper`,
`InOrderOps`).

**The argument for the pages.** A page applies operations as they come and never
replays, so that the proof is about one step of `apply` at a time. The invariant

    BInv == IInv /\ PagesOk /\ Stamping(published) /\ IdsBacked
              /\ \A r \in Replica : FromPages(drive[r]) /\ LogsApart(drive[r])

says of the devices what holds of `Drive`, as a device that takes in what a page
published takes a step that `Drive` does not have. `PagesOk`: a page's tree is
`Replayed`, so that `ReplayedAgree` gives `TreesAgree`, and its content keeps the
saves of the list of what it heard, in the order it heard it (`KeepsSaves`, by one
operation at a time; unlike the core's fold this needs no order of the stamps). For
`MintedOnce`, a stamp has one operation (`Stamping`), devices have page stamps from the
mesh only (`FromPages`) and no stamp in both logs (`LogsApart`), and the tick in an id
that a page minted is the tick of an operation it published (`IdsBacked`). A page
stamps only when it has caught up with what it published before it was loaded, so
that its clock is past all its own stamps (`CaughtUpIsPast`) and the next tick is in no
stamp and no id. An id that a device minted is a pair and never equal to a page's.

**The argument for the feed.** The two hypotheses are needed: a remote operation that
arrives late is below the cursor and is never told (a hazard of the list), and
compaction sets the clock back (section 5). With one writer the move log is in the order
of its stamps (`SoleWriter`), and every command lets both logs go on with later stamps
(`GoesOn`, a part of what the lemmas on the commands in `DriveProofs` show), while a
restart changes neither. The invariant

    FeedInv == IInv /\ \A r \in Replica : SoleWriter(drive[r]) /\ Introduced(drive[r])
                                            /\ ToldOk(drive[r])

says (`ToldOk`) that the client was told changes of the drive in ascending order, that
its cursor is at the last of them, and that whatever it was not told is admitted by the
cursor. What a command stamps is after every cursor (`StillTold`). A poll returns what
the cursor admits, all of it and sorted (`ChangesFacts`: the loop over the two logs and
the stable sort), so that a page is the part that comes first, and all that is left is
after the page's last change (`PolledOk`). `Introduced` says that a node is moved before
it is moved to the trash: no command trashes a node that has no edge
(`CommandsIntroduce`), and without it the first thing told of a node could be that it
was trashed.

**Only model-checked**, and why:

* `EventuallyConverged` is liveness, which the prover does not handle under fairness.
* `PathsLeadBack` (`MCTreeReplicas`) and `ConflictsAsListed` (`Browser`) relate the
  views of a tree to each other, and paths are recursive functions along it.
* `RestoreBringsBack` and `CompactKeepsPlaces` of `Drive` compare trees along paths, the
  second across the two nested loops of a compaction. That both loops keep the
  drive in order is proved (`CompactedOk`).
* The action properties of `Folder` and `DestinationStays` of the mounts speak of where
  paths of names lead before and after several moves. `PushTrashesDeleted` also says,
  of drives without rivals, that the trash phase of a push comes to its end.
* `ListingComplete` of the mounts is about a loop over a listing whose resume
  rule is a parameter, an operator that the provers cannot instantiate.
* The three violations of section 5 are counterexamples.

## 5. Findings

1. **`compact` brings back node ids** (`drive_ids`). `core/drive.rs:554` sets
   the clock to the number of operations in the new logs, and an id is a tick and a counter
   that starts over with every process. On the command line
   `mkdir x; mkdir y; rm x; compact; mkdir z` gives `z` the id of the live `y`,
   and moves `y`.
2. **A write during an upload is lost** (`vfs_flush`). `flush` clears the dirty
   flag after the upload, whatever was written during it; no later flush uploads
   that write and `release` drops it. With one call at a time this cannot
   happen, and the fuse adapters make one at a time; the WinFsp adapter and the
   tests do not.
3. **The browser's content depends on the order of arrival** (`browser_order`).
   `ce-drive-wasm/src/lib.rs:157` applies a content operation when it comes and
   whenever it comes; the core folds the log by timestamp. A page that hears of a
   save after the restore that followed it, or of a restore before the version that
   it names, shows another version than the device. No content is dropped
   (`BlobsKept`), and the tree is not affected (`TreesAgree`).

Further disagreements between code and text, and faults of the code, were met. They
have no run of their own; where a property would fail for them, it states them as its
exception.

* The names of a listing are not unique after the conflict-rename (`tree.rs:254`: "names
  are filesystem-unique"), and no user has to type the name of a conflict for it. `mv`
  onto an existing name (`drive.rs:248` does not look) leaves two files of one name,
  without any second writer. `materialize` writes the loser under its conflict name
  (`materialize.rs:79`), the user edits that copy, and the next push asks for the bytes
  recorded under the path, gets the loser's (`materialize.rs:162`), and calls `add_file`,
  which looks for the bare name (`drive.rs:221`), finds none and adds a third file. It is
  listed under the same name as the loser, and the path leads to the loser with
  the old bytes. In `folder` this happens with two runs and one edit.
  `RivalsListedApart` says what is left: entries that are listed alike have different
  names of their own. Of the same cause:
  * `PushKeepsFolder` and `PushTakesNewer` except the paths that `add_file` does not
    find by their bare name (`Plain`). An edited copy of a conflict is recorded on
    another node than the one its path leads to; an edited winner is recorded on
    the one of its namesakes with the least id, which may be the loser. Without this
    exception the run finds both violated.
  * The path goes on to lead to the old bytes, so `watch` uploads and records the same
    file again in each round.
  * `MaterializeWritesAll` excepts files that share their listed path, or that of a
    directory above them (`HasOwnPath`): the one written later is the one on disk. A
    directory and a file that are listed alike make `materialize` fail.
  * `PushTrashesDeleted` says that what is left was shown under the path of a
    file in the folder before the trash phase began. Deleting the winner in the folder
    trashes it, and the loser then takes over the name, without a file in the folder,
    until the next push.
  * When both are gone from the folder, the first `rm` renames the other, the second
    (`materialize.rs:105`) finds no such path, and the push fails, as does each
    later one. `PushTrashesDeleted` claims that a push comes to its end only for drives
    without rivals; with them `EndPush` is not enabled and the run can only end by
    `Abandon`.
* `add_file` of `sync.rs` appends the node and its content by two awaited calls
  (`sync.rs:254-269`). An error of the second, a caller that stops waiting, or the end
  of the process in between leaves a file without content, which nothing completes,
  also when the process lives on. What does hold is the converse,
  `SavedNodesExist`: content is never sent of a node that was not.
* A feed cursor does not survive compaction: the new stamps start at 1, and what is
  done next is not reported to a client whose cursor is greater
  (`core/changes.rs:12` promises a monotone cursor).
* `open` of `sync.rs` starts the clock at 0 and only the tree log advances it, so
  that a device's first saves after a restart can have the keys of earlier ones, of
  which the union keeps one (`sync.rs:67`: distinct keys). `with_tree` reads the
  union once for the clock and once for the tree, and never the content log, so
  that an operation can be stamped at or below one it has seen (`sync.rs:162`).
* `Vfs::rename` over an existing file asks for the path of the displaced node after
  the move (`vfs.rs:518`). A path is made of bare names, and the node moved last
  has the bare name, so that the renamed file goes to the trash and the name still
  leads to the old one.
* Compaction stamps nodes and versions anew: another of two nodes of one name may
  keep the bare name, and a version that a user restored is displaced by the one
  with the later time (`docs/architecture.md:139`: "byte-identical live state").
* `empty_trash` removes the content records of the nodes directly in the trash
  only (`drive.rs:321`: every trashed node).
* `readdirplus` counts "." into the offsets and then skips that many children:
  each full buffer is followed by a gap (`linux_fuser.rs:326-329`, and the copy
  for macOS). WinFsp's `read_directory` ignores the marker it should resume from
  (`windows.rs:230`), as does the enumeration of ProjFS, whose comment says that it
  is called "again for the rest" (`windows.rs:506`).
* The comment at `linux_fuser.rs:77` says "flush all on unmount"; no handle is
  flushed. `FlushedIsHandedOver` is what remains true.
* An error in reading the journal of grants makes it an empty one, which the next
  share saves over it (`main.rs:718`).
* `write_atomic` is atomic for one process at a time: a second one truncates the
  temporary file that the first is about to rename (`main.rs:757`), and a save
  that was reported can be undone by a power loss, as the directory is not synced.
* A push that was begun by a folder in which materialize stopped half way trashes
  what was not yet written, and records a file that was truncated.

## 6. Not modelled, and why

* Share capabilities: attenuation and verification belong to `ce-cap`, outside the
  repository. Durability: pins through an external client, no state. Search and
  name validation: pure functions on strings, no state.
* Adapters: ProjFS (it only reads), name normalization, attributes, error numbers,
  and the listings of Windows, which never resume. The kernel's own caches.
* `Vfs`: the inode table (it only grows), the size limit, modes, `dirty_model`
  (nothing reads it). The kernel's side is external: it names children as they are
  listed, opens files only, and refuses to rename a directory to below itself.
* Store: the streaming upload `put_file`, which ends in the same recorded state as
  `put_bytes`; `get_file_to_path`, which nothing calls; garbage collection of blobs,
  which is the node's.
* `SyncedDrive`: `checkpoint`, `sync_status` and `add_writer`, which delegate to
  `ce-coord`. The union is modelled from its use in `sync.rs`: a writer's log
  survives its process, arrives in its own order, and is read whole when the
  drive is opened; the union can change between two reads; keys are timestamps.
* `Folder`: symbolic links and modes; names that are no valid drive names.
* `SetDoc` (reserved in the code), sizes and mode bits: no decision reads them.
* The overflow of the 64-bit clocks and counters: out of reach of any run.
* The encodings of the state file and of operations; that decoding refuses what is
  not whole is modelled.

## 7. Plan

Done: all modules of section 2, with the proofs of section 4.

Next, in this order:

1. The feed over merging drives, with the promise restricted to what arrives in
   order.
2. Properties that state what the disagreements of section 5 break, once the
   code decides which side is right.
3. `SyncedDrive` as an implementation of `SharedTree`, by the union of its logs.
