------------------------------- MODULE Folder -------------------------------
(***************************************************************************)
(* ce-drive-mount/src/materialize.rs: a plain folder on disk that mirrors  *)
(* the drive, with the part of ce-drive-core/src/store.rs that push needs. *)
(* materialize writes every file of the drive into the folder; push lists  *)
(* the folder, uploads what is new or changed, records it, and trashes in  *)
(* the drive what was not in the list; watch pushes again and again.  The  *)
(* user edits the folder at any moment, other commands change the saved    *)
(* drive at any moment, and a run can fail or be killed at any step.       *)
(*                                                                         *)
(* drive[Me] is the saved drive; a run works on the copy it loaded.  Bytes *)
(* are named by their cid, which content addressing makes one to one.      *)
(***************************************************************************)
EXTENDS Drive

CONSTANTS ChunksOf, \* ChunksOf[cid]: the chunks of that file; not themselves cids
          EditPath, \* the paths that the user edits: sequences of names
          Hollow,   \* the cid of the empty file
          MaxPushed, \* bound: no push runs on beyond this tick
          MaxEdits, \* bound: edits of the folder by the user
          MaxRuns   \* bound: materialize and push runs, each round of watch one

ASSUME FolderAssumption ==
    /\ \E r \in Replica : Replica = {r}
    /\ Cid \subseteq DOMAIN ChunksOf /\ Hollow \in DOMAIN ChunksOf
    /\ EditPath \subseteq Seq(AnyName) \ {<<>>}

VARIABLES disk,  \* the folder: path |-> Nil for a directory, else [cid, mtime]
          job,   \* the run that is under way
          blobs, \* the blob store: chunks, and manifests under their objects' cids
          edits, \* edits of the folder so far
          runs   \* runs so far

folderVars == <<drive, fresh, disk, job, blobs, edits, runs>>

Me == CHOOSE r \in Replica : TRUE

NoJob == [op |-> "idle"]

-----------------------------------------------------------------------------
(* Paths: sequences of names as listings render them. *)

Parent(p) == SubSeq(p, 1, Len(p) - 1)

\* A path comes before those below it.
PathLess(p, q) ==
    \E k \in 1 .. Len(q) :
        /\ \A i \in 1 .. k - 1 : i <= Len(p) /\ p[i] = q[i]
        /\ k > Len(p) \/ LexLess(p[k], q[k])

Below(p) == {q \in DOMAIN disk : Len(q) >= Len(p) /\ SubSeq(q, 1, Len(p)) = p}

\* read_dir, sorted by file name.
Entries(p) ==
    SetToSortSeq({q \in DOMAIN disk : Len(q) = Len(p) + 1 /\ Parent(q) = p}, PathLess)

\* Wrong variant: directories are not descended into.
FilesAtTop == {p \in DOMAIN disk : disk[p] # Nil /\ Len(p) = 1}

\* collect_disk_paths.
FilesOnDisk == {p \in DOMAIN disk : disk[p] # Nil}

IsFolder(p) == p = <<>> \/ (p \in DOMAIN disk /\ disk[p] = Nil)

\* The path under which the listings from the root downwards show n.
ShownPath(t, n) ==
    LET len == Cardinality(DOMAIN t.edges)
        up[i \in 0 .. len] ==
            IF i = 0 THEN [at |-> n, names |-> <<>>]
            ELSE LET w == up[i - 1] IN
                 IF w.at \notin DOMAIN t.edges THEN w
                 ELSE LET e == t.edges[w.at] IN
                      [at    |-> e.parent,
                       names |-> <<Rendered(t, <<e.parent, e.name, w.at>>)>> \o w.names]
    IN  up[len].names

LiveFiles(d) == {n \in Resolvable(d.tree) \ {ROOT} : KindOf(d, n) = "file"}

\* The entries of ls, each with the entries that led to it; a path may lead to another
\* directory than the entry it was made from.
Inside(d, e) ==
    LET dir == Resolve(d.tree, e.path) IN
    IF KindOf(d, Last(e.via)) = "dir" /\ dir \in Dirs(d)
    THEN {[path |-> Append(e.path, f.name), via |-> Append(e.via, f.child)] :
             f \in Readdir(d.tree, dir)}
    ELSE {}

\* The entries of the root: all there are if directories are not descended into.
EntriesAtTop(d) ==
    {[path |-> <<f.name>>, via |-> <<f.child>>] : f \in Readdir(d.tree, ROOT)}

\* What drive_file_paths comes by.
AllEntries(d) ==
    LET depth == Cardinality(DOMAIN d.tree.edges)
        level[k \in 1 .. depth] ==
            IF k = 1 THEN EntriesAtTop(d) ELSE UNION {Inside(d, e) : e \in level[k - 1]}
    IN  UNION {level[k] : k \in 1 .. depth}

\* 0 stands for no content.
CurrentCid(d, n) == IF n \in DOMAIN d.content THEN d.content[n].cid ELSE 0

\* The folder holds the files of the drive, all of them and nothing else.
Mirrors(d) ==
    /\ {p \in DOMAIN disk : disk[p] # Nil} = {ShownPath(d.tree, n) : n \in LiveFiles(d)}
    /\ \A n \in LiveFiles(d) : disk[ShownPath(d.tree, n)].cid = CurrentCid(d, n)
    /\ \A p \in DOMAIN disk : disk[p] = Nil => Resolve(d.tree, p) \in Dirs(d)

-----------------------------------------------------------------------------
(* The user and the other commands. *)

\* Edits that the run under way may or may not see.
Touch(ps) ==
    /\ edits < MaxEdits /\ edits' = edits + 1
    /\ job' = IF job = NoJob THEN job ELSE [job EXCEPT !.touched = @ \cup ps]
    /\ UNCHANGED <<drive, fresh, blobs, runs>>

EditFile(p, cid, at) ==
    /\ IsFolder(Parent(p)) /\ ~IsFolder(p)
    /\ p \in DOMAIN disk => disk[p].cid # cid
    /\ disk' = [q \in DOMAIN disk \cup {p} |->
                   IF q = p THEN [cid |-> cid, mtime |-> at] ELSE disk[q]]
    /\ Touch({p})

MakeFolder(p) ==
    /\ IsFolder(Parent(p)) /\ p \notin DOMAIN disk
    /\ disk' = [q \in DOMAIN disk \cup {p} |-> IF q = p THEN Nil ELSE disk[q]]
    /\ Touch({p})

Delete(p) ==
    /\ p \in DOMAIN disk
    /\ disk' = [q \in DOMAIN disk \ Below(p) |-> disk[q]]
    /\ Touch(Below(p))

\* The other commands load, change and save; what they record is stored by then.
OtherCommand ==
    /\ Structural(Me) \/ Editing(Me) \/ Deleting(Me) \/ Reload(Me)
    /\ LET known == AllCids(drive'[Me].content)
       IN  blobs' = blobs \cup known \cup UNION {ChunksOf[c] : c \in known}
    /\ UNCHANGED <<disk, job, edits, runs>>

-----------------------------------------------------------------------------
(* A run in general. *)

\* A failed fetch, upload or disk access, a refusal by the drive, or a kill: the
\* run ends and nothing more is saved.
Abandon ==
    /\ job # NoJob
    /\ job' = NoJob
    /\ UNCHANGED <<drive, fresh, disk, blobs, edits, runs>>

-----------------------------------------------------------------------------
(* materialize *)

\* ls, as what remains to be written; a file without a record is passed over.
Listing(d, dir, path) ==
    LET kept == {e \in Readdir(d.tree, dir) : e.kind = "dir" \/ e.child \in DOMAIN d.content}
        todo == ByShownName(d.tree, dir, {e.child : e \in kept})
        name(n) == Rendered(d.tree, <<dir, d.tree.edges[n].name, n>>)
    IN  [i \in DOMAIN todo |-> [path |-> Append(path, name(todo[i])), child |-> todo[i]]]

StartMaterialize ==
    /\ job = NoJob /\ runs < MaxRuns /\ runs' = runs + 1
    /\ job' = [op |-> "materialize", d |-> drive[Me], touched |-> {},
               todo |-> Listing(drive[Me], ROOT, <<>>)]
    /\ UNCHANGED <<drive, fresh, disk, blobs, edits>>

\* create_dir_all, and the listing of the directory that the path leads to; when it
\* leads to a file shown alike, ls fails.
WriteDir ==
    /\ job.op = "materialize" /\ job.todo # <<>>
    /\ LET e == Head(job.todo)  dir == Resolve(job.d.tree, e.path) IN
       /\ KindOf(job.d, e.child) = "dir"
       /\ e.path \in DOMAIN disk => disk[e.path] = Nil
       /\ \A i \in 1 .. Len(e.path) - 1 : IsFolder(SubSeq(e.path, 1, i))
       /\ disk' = [q \in DOMAIN disk \cup {e.path} |-> IF q = e.path THEN Nil ELSE disk[q]]
       /\ job' = IF dir \in Dirs(job.d)
                 THEN [job EXCEPT !.todo = Listing(job.d, dir, e.path) \o Tail(@)]
                 ELSE NoJob
    /\ UNCHANGED <<drive, fresh, blobs, edits, runs>>

Put(p, cid, at) ==
    disk' = [q \in DOMAIN disk \cup {p} |-> IF q = p THEN [cid |-> cid, mtime |-> at] ELSE disk[q]]

\* Wrong variant: a file that is there is taken to be the one of the drive.
WriteFileIfAbsent ==
    /\ job.op = "materialize" /\ job.todo # <<>>
    /\ LET e == Head(job.todo)  cid == CurrentCid(job.d, e.child) IN
       /\ KindOf(job.d, e.child) = "file"
       /\ IsFolder(Parent(e.path)) /\ ~IsFolder(e.path)
       /\ \E now \in Time : IF e.path \in DOMAIN disk THEN UNCHANGED disk ELSE Put(e.path, cid, now)
       /\ job' = [job EXCEPT !.todo = Tail(@)]
    /\ UNCHANGED <<drive, fresh, blobs, edits, runs>>

\* get_object and fs::write, which truncates first: a kill leaves an empty file.
WriteFile ==
    /\ job.op = "materialize" /\ job.todo # <<>>
    /\ LET e == Head(job.todo)  cid == CurrentCid(job.d, e.child) IN
       /\ KindOf(job.d, e.child) = "file"
       /\ {cid} \cup ChunksOf[cid] \subseteq blobs
       /\ IsFolder(Parent(e.path)) /\ ~IsFolder(e.path)
       /\ \E now \in Time :
            \/ /\ Put(e.path, cid, now)
               /\ job' = [job EXCEPT !.todo = Tail(@)]
            \/ /\ Put(e.path, Hollow, now)
               /\ job' = NoJob
    /\ UNCHANGED <<drive, fresh, blobs, edits, runs>>

EndMaterialize ==
    /\ job.op = "materialize" /\ job.todo = <<>>
    /\ job' = NoJob
    /\ UNCHANGED <<drive, fresh, disk, blobs, edits, runs>>

-----------------------------------------------------------------------------
(* push and watch *)

\* The snapshot of the files on disk, then the entries of the folder to visit.
\* from and mirrored say for the properties where this push started.
BeginPush(d, made, watch) ==
    [op |-> "push", d |-> d, todo |-> Entries(<<>>), touched |-> {},
     listed |-> FilesOnDisk, put |-> Nil, made |-> made, watch |-> watch,
     changed |-> FALSE, from |-> d, mirrored |-> Mirrors(d)]

StartPush(watch) ==
    /\ job = NoJob /\ runs < MaxRuns /\ runs' = runs + 1
    /\ job' = BeginPush(drive[Me], 0, watch)
    /\ UNCHANGED <<drive, fresh, disk, blobs, edits>>

\* watch: the next push, on the drive in memory.
WakeUp ==
    /\ job.op = "asleep" /\ runs < MaxRuns /\ runs' = runs + 1
    /\ job' = BeginPush(job.d, job.made, TRUE)
    /\ UNCHANGED <<drive, fresh, disk, blobs, edits>>

Visiting == job.op = "push" /\ job.put = Nil /\ job.todo # <<>>

JobId == <<job.d.lamport + 1, job.made>>

\* ensure_dir and read_dir of a directory entry.
VisitDir ==
    /\ Visiting
    /\ LET p == Head(job.todo)  dir == Resolve(job.d.tree, Parent(p)) IN
       /\ p \in DOMAIN disk /\ disk[p] = Nil
       /\ IF Resolve(job.d.tree, p) # Nil
          THEN job' = [job EXCEPT !.todo = Entries(p) \o Tail(@)]
          ELSE /\ dir \in Dirs(job.d) /\ job.d.lamport < MaxPushed
               /\ Namesakes(job.d, dir, Last(p)) = {}
               /\ job' = [job EXCEPT !.todo = Entries(p) \o Tail(@), !.made = @ + 1,
                                     !.d = EmitMove(@, Me, JobId, dir, Last(p), "dir")]
    /\ UNCHANGED <<drive, fresh, disk, blobs, edits, runs>>

\* Wrong variant: the probe stops at the first chunk that is there.
MissingUnlessAny(cid) == IF ChunksOf[cid] \cap blobs # {} THEN {} ELSE ChunksOf[cid]

\* missing_chunks: an error that is no 404 fails the push (Abandon).
MissingChunks(cid) == ChunksOf[cid] \ blobs

\* fs::read of a file entry, and the probe of put_bytes.
VisitFile ==
    /\ Visiting
    /\ LET p == Head(job.todo) IN
       /\ p \in DOMAIN disk /\ disk[p] # Nil
       /\ job' = [job EXCEPT !.todo = Tail(@),
                             !.put = [path |-> p, cid |-> disk[p].cid, mtime |-> disk[p].mtime,
                                      missing |-> MissingChunks(disk[p].cid)]]
    /\ UNCHANGED <<drive, fresh, disk, blobs, edits, runs>>

Putting == job.op = "push" /\ job.put # Nil

UploadChunk ==
    /\ Putting
    /\ \E c \in job.put.missing :
        /\ blobs' = blobs \cup {c}
        /\ job' = [job EXCEPT !.put.missing = @ \ {c}]
    /\ UNCHANGED <<drive, fresh, disk, edits, runs>>

\* The recorded cid of the path, for the test for unchanged files.
ExistingCid(p) ==
    LET n == Resolve(job.d.tree, p) IN IF n = Nil THEN 0 ELSE CurrentCid(job.d, n)

\* add_file of a new file.
RecordedAnew(dir, file) ==
    [job EXCEPT !.put = Nil, !.changed = TRUE, !.made = @ + 1,
                !.d = EmitContent(EmitMove(@, Me, JobId, dir, Last(file.path), "file"),
                                  Me, SetOp(JobId, file.cid, file.mtime))]

\* Wrong variant: the modification time of the file is not passed on.
RecordedWithoutTime(dir, file) ==
    LET name == Last(file.path) IN
    IF Namesakes(job.d, dir, name) = {} THEN RecordedAnew(dir, file)
    ELSE [job EXCEPT !.put = Nil, !.changed = TRUE,
                     !.d = EmitContent(@, Me, SetOp(ChildNamed(@, dir, name), file.cid, 0))]

\* add_file: a new version of the file of that name, or a new file.
Recorded(dir, file) ==
    LET name == Last(file.path) IN
    IF Namesakes(job.d, dir, name) = {} THEN RecordedAnew(dir, file)
    ELSE [job EXCEPT !.put = Nil, !.changed = TRUE,
                     !.d = EmitContent(@, Me, SetOp(ChildNamed(@, dir, name), file.cid, file.mtime))]

\* Wrong variant: the recorded content is not looked at.
RecordFileAlways ==
    /\ Putting /\ job.put.missing = {}
    /\ blobs' = blobs \cup {job.put.cid}
    /\ LET file == job.put  dir == Resolve(job.d.tree, Parent(file.path)) IN
       /\ dir \in Dirs(job.d) /\ job.d.lamport + 2 <= MaxPushed
       /\ job' = Recorded(dir, file)
    /\ UNCHANGED <<drive, fresh, disk, edits, runs>>

\* The manifest is stored, and the file is recorded unless its cid is the recorded
\* one.  A directory of that name, or a file in the place of its parent, fails
\* the push.
RecordFile ==
    /\ Putting /\ job.put.missing = {}
    /\ blobs' = blobs \cup {job.put.cid}
    /\ LET file == job.put  dir == Resolve(job.d.tree, Parent(file.path)) IN
       IF ExistingCid(file.path) = file.cid
       THEN job' = [job EXCEPT !.put = Nil]
       ELSE /\ dir \in Dirs(job.d) /\ job.d.lamport + 2 <= MaxPushed
            /\ \A n \in Namesakes(job.d, dir, Last(file.path)) :
                   n = ChildNamed(job.d, dir, Last(file.path)) => KindOf(job.d, n) = "file"
            /\ job' = Recorded(dir, file)
    /\ UNCHANGED <<drive, fresh, disk, edits, runs>>

InListingOrder(entries) ==
    LET before(e, f) == PathLess(e.path, f.path) \/ (e.path = f.path /\ PathLess(e.via, f.via))
    IN  InRank(entries, {p \in entries \X entries : before(p[1], p[2])})

\* The files of the drive that were not in the snapshot, in the order of the listings:
\* a path under which several are shown is there several times.
Gone ==
    InListingOrder({e \in AllEntries(job.d) :
                       KindOf(job.d, Last(e.via)) = "file" /\ e.path \notin job.listed})

\* rm; Nil when the path does not lead to a node that can be deleted.
Trashed(d, p) ==
    LET n == Resolve(d.tree, p) IN
    IF n \notin DOMAIN d.tree.edges THEN Nil
    ELSE EmitMove(d, Me, n, TRASH, d.tree.edges[n].name, KindOf(d, n))

\* The drive without these; Nil when one of them could not be deleted.
Swept(gone) ==
    LET at[i \in 0 .. Len(gone)] ==
            IF i = 0 THEN job.d
            ELSE IF at[i - 1] = Nil THEN Nil ELSE Trashed(at[i - 1], gone[i].path)
    IN  at[Len(gone)]

\* The trash phase and the save: push saves always, watch when something changed,
\* and a failed save is only a warning there.
EndPush ==
    /\ job.op = "push" /\ job.put = Nil /\ job.todo = <<>>
    /\ LET gone == Gone  swept == Swept(gone) IN
       /\ job.d.lamport + Len(gone) <= MaxPushed
       /\ swept # Nil
       /\ IF job.watch
          THEN /\ job' = [op |-> "asleep", d |-> swept, made |-> job.made, touched |-> {}]
               /\ \/ UNCHANGED drive
                  \/ (job.changed \/ gone # <<>>) /\ drive' = [drive EXCEPT ![Me] = swept]
          ELSE job' = NoJob /\ drive' = [drive EXCEPT ![Me] = swept]
    /\ UNCHANGED <<fresh, disk, blobs, edits, runs>>

-----------------------------------------------------------------------------

\* add_file of a name that no child of the root has, as a new process mints ids.
Added(d, name, cid) ==
    LET id == <<d.lamport + 1, 0>>
    IN  EmitContent(EmitMove(d, Me, id, ROOT, name, "file"), Me, SetOp(id, cid, 0))

\* Two files, and then mv of the one made at tick `won' onto the name of the other,
\* which goes on under the name of a conflict.
Collided(name, cid, won) ==
    LET other == Append(name, 0)
        one == Added(NewDrive, IF won = 1 THEN other ELSE name, cid)
        two == Added(one, IF won = 1 THEN name ELSE other, Hollow)
    IN  EmitMove(two, Me, <<won, 0>>, ROOT, name, "file")

\* And a third file of that very name: the copy of the loser in a folder was edited
\* and pushed, and add_file looks for bare names.
Copied(name, cid) ==
    LET d == Collided(name, cid, 3)
    IN  Added(d, Rendered(d.tree, <<ROOT, name, <<1, 0>>>>), Hollow)

\* The saved drives that the runs begin with.
Saved ==
    {NewDrive} \cup {Collided(name, cid, won) : name \in Name, cid \in Cid, won \in {1, 3}}
               \cup {Copied(name, cid) : name \in Name, cid \in Cid}

FolderInit ==
    /\ drive \in [Replica -> Saved]
    /\ fresh = [r \in Replica |-> 0]
    /\ disk = [p \in {} |-> Nil]
    /\ job = NoJob
    /\ LET known == AllCids(drive[Me].content)
       IN  blobs = known \cup UNION {ChunksOf[c] : c \in known}
    /\ edits = 0 /\ runs = 0

UserEdits ==
    \E p \in EditPath \cup DOMAIN disk :
        \/ \E cid \in Cid, at \in Time : EditFile(p, cid, at)
        \/ MakeFolder(p)
        \/ Delete(p)

\* The command sync walks the same way, over materialize of main.rs.
Materializing == StartMaterialize \/ WriteDir \/ WriteFile \/ EndMaterialize

Pushing ==
    \/ \E watch \in BOOLEAN : StartPush(watch)
    \/ VisitDir \/ VisitFile \/ UploadChunk \/ RecordFile \/ EndPush \/ WakeUp

FolderNext == UserEdits \/ OtherCommand \/ Materializing \/ Pushing \/ Abandon

FolderSpec == FolderInit /\ [][FolderNext]_folderVars

-----------------------------------------------------------------------------
(* Properties *)

\* "Re-chunked and delta-uploaded": whatever is recorded, in the saved drive or by
\* the push under way, can be fetched: its manifest and all its chunks are in the
\* store, although every upload can fail and a push can die between two of them.
RecordedIsStored ==
    \A d \in {drive[Me]} \cup (IF job = NoJob THEN {} ELSE {job.d}) :
        \A cid \in AllCids(d.content) : {cid} \cup ChunksOf[cid] \subseteq blobs

\* Two nodes of a directory are listed alike only if one has for its own the very name
\* that the other, having lost its own to a rival, is rendered by.
ListedApart(t, dir) ==
    \A x, y \in Readdir(t, dir) :
        x.name = y.name /\ x.child # y.child =>
            t.edges[x.child].name # t.edges[y.child].name

\* readdir tells the nodes of one name in a directory apart, in the saved drive and in
\* the one that the run works on.  tree.rs:254 promises more, that the names of a
\* listing are unique after the conflict-rename, and that is not so here: materialize
\* writes a loser under its conflict name (materialize.rs:79), the user edits that
\* copy, and the push adds it as a node of its own (materialize.rs:172, drive.rs:221),
\* which is then listed under the name that the loser is still listed under.
RivalsListedApart ==
    \A d \in {drive[Me]} \cup (IF job = NoJob THEN {} ELSE {job.d}) :
        \A dir \in {ROOT, TRASH} \cup DOMAIN d.tree.edges : ListedApart(d.tree, dir)

\* No two files or directories of one directory have one name.
NoRivals(d) ==
    \A n \in Resolvable(d.tree) \ {ROOT} :
        LET e == d.tree.edges[n] IN Namesakes(d, e.parent, e.name) = {n}

\* The files in the folder that nobody touched since the run began.
Untouched == {p \in DOMAIN disk : disk[p] # Nil} \ job.touched

\* add_file of p reaches the node that p leads to: it has that name as its own, and of
\* the files of its directory that have it the least id.
Plain(d, p) ==
    LET n == Resolve(d.tree, p) IN
    n # Nil => LET e == d.tree.edges[n] IN e.name = Last(p) /\ ChildNamed(d, e.parent, e.name) = n

\* n and the directories above it have their paths for themselves.
HasOwnPath(t, n) ==
    \A m \in Resolvable(t) \ AncestorsOrSelf(t.edges, n) :
        ~IsPrefix(ShownPath(t, m), ShownPath(t, n))

\* A file that was in the folder when the push began, and that nobody touched while
\* it ran, is live in the drive that the push leaves, with its bytes, current or in
\* the history, and is the node that had its path before if there was one.  Not so
\* where several files of a directory have one name: push looks the old bytes up by
\* the name shown (materialize.rs:162) and records the new ones by the bare name.
PushKeepsFolder ==
    [][EndPush =>
        LET left == Swept(Gone) IN
        \A p \in Untouched :
            LET n   == Resolve(job.d.tree, p)
                old == Resolve(job.from.tree, p)
            IN  Plain(job.from, p) =>
                    /\ n \in Resolvable(left.tree)
                    /\ disk[p].cid \in CidsOf(left.content[n])
                    /\ old # Nil => n = old]_folderVars

\* Its bytes are the current ones when they were saved later than what the drive
\* had for that path; what was saved earlier, or is as old, may end in the history.
\* The same exception.
PushTakesNewer ==
    [][EndPush =>
        LET left == Swept(Gone) IN
        \A p \in Untouched :
            LET old == Resolve(job.from.tree, p) IN
            (/\ Plain(job.from, p)
             /\ old \in DOMAIN job.from.content => disk[p].mtime > job.from.content[old].mtime)
                => CurrentCid(left, Resolve(job.d.tree, p)) = disk[p].cid]_folderVars

\* A push that comes to its end has trashed what the user deleted, at any depth: every
\* file that is left was shown, when the trash phase began, under the path of a file
\* in the folder or of one that was edited meanwhile.  (When the winner of a name is
\* trashed, the next file of that name takes the name over.)  And it does come to its
\* end, however many of the files are gone with their directories, unless a name is
\* taken twice: then the first rm may rename the file that the second looks for
\* (materialize.rs:105), and this push and all later ones fail.
PushTrashesDeleted ==
    /\ [](/\ job.op = "push" /\ job.put = Nil /\ job.todo = <<>>
         /\ NoRivals(job.d)
             => Swept(Gone) # Nil)
    /\ [][EndPush =>
            \A n \in LiveFiles(Swept(Gone)) :
                HasOwnPath(job.d.tree, job.d.tree.edges[n].parent) =>
                    ShownPath(job.d.tree, n) \in Untouched \cup job.touched]_folderVars

\* A push from a folder that holds what the drive holds, and that nobody touches,
\* writes nothing to the logs: no version, no directory, no trash.
MirroredPushIsNoop ==
    [][(EndPush /\ job.mirrored /\ job.touched = {}) => Swept(Gone) = job.from]_folderVars

\* When materialize ends, every file of the drive it loaded is in the folder, with
\* the current bytes, where the listings of the drive show it, unless they show
\* another one there, which then may have been written over it.
MaterializeWritesAll ==
    [][(EndMaterialize /\ job.touched = {}) =>
        \A n \in LiveFiles(job.d) :
            LET p == ShownPath(job.d.tree, n) IN
            HasOwnPath(job.d.tree, n) =>
                p \in Untouched /\ disk[p].cid = CurrentCid(job.d, n)]_folderVars
=============================================================================
