-------------------------------- MODULE Vfs ---------------------------------
(***************************************************************************)
(* ce-drive-mount/src/vfs.rs: the engine of the mounts over the drive of   *)
(* one process.  Kernel calls run concurrently and share one mutex, which  *)
(* is released around every download and upload, so a call is the sequence *)
(* of its locked sections:                                                 *)
(*   Access   read, write or truncate begins, with the lookups of hydrate; *)
(*   Fetched  the end of hydrate;       Apply   the call's own part;       *)
(*   Flush    the snapshot of flush;    Uploaded  its second half;         *)
(*   Close    the end of release.                                          *)
(* A structural call is one section, made of commands of Drive.            *)
(*                                                                         *)
(* The bytes of a file are the set of edits that they contain; an object's *)
(* cid is a number that determines its bytes.  An inode is the node that   *)
(* it stands for, since the inode table only grows.  Modes and the size    *)
(* limit are left out, and dirty_model, which nothing reads.               *)
(***************************************************************************)
EXTENDS Drive

CONSTANTS Me,         \* the replica of this process, the only one of Replica
          Peer,       \* the replica whose saves a revalidation brings
          Call,       \* the kernel calls that can be under way at a time
          Edit,       \* what a write can add to a file; powers of two
          Mounted,    \* the names of the files in the drive that is mounted: a sequence
          MaxHandles  \* bound: file handles that are ever opened

VARIABLES handles, \* handles[fh]: the OpenFile of an open handle
          opened,  \* next_fh - 1: how many handles were ever opened
          call     \* call[k]: where a kernel call is

vfsVars == <<drive, fresh, handles, opened, call>>

\* The cid of a file that was created and never flushed; of all cids the least.
NoCid == 0

CidOf(bytes) == 1 + FoldSet(+, 0, bytes)

Bytes(cid) ==
    IF cid = NoCid THEN {} ELSE CHOOSE bytes \in SUBSET Edit : CidOf(bytes) = cid

\* The process is the one writer; a peer's stamps are another's.
ASSUME WriterAssumption ==
    /\ Replica = {Me} /\ Peer \in Nat
    /\ Mounted \in Seq(AnyName)

\* A cid is the address of an object, so that it determines the bytes; what a peer
\* saved is an object, too.
ASSUME ObjectAssumption ==
    /\ \A bytes \in SUBSET Edit : bytes # Nil /\ CidOf(bytes) # NoCid
    /\ \A a, b \in SUBSET Edit : CidOf(a) = CidOf(b) => a = b
    /\ \A cid \in Cid : cid = NoCid \/ \E bytes \in SUBSET Edit : CidOf(bytes) = cid

\* own, whole, since and late are for the properties: the handle's writes since it
\* was truncated, whether it ever was, the length of the content log when it was
\* opened, and whether a write came during an upload.
Handle(n, buf, dirty, since) ==
    [node |-> n, buf |-> buf, dirty |-> dirty,
     own |-> {}, whole |-> dirty, since |-> since, late |-> FALSE]

WithHandle(h) ==
    [fh \in DOMAIN handles \cup {opened + 1} |-> IF fh = opened + 1 THEN h ELSE handles[fh]]

Returned == [pc |-> "idle"]

Returns(k) == call' = [call EXCEPT ![k] = Returned]

-----------------------------------------------------------------------------
(* Handles. *)

Open(n) ==
    /\ opened < MaxHandles
    /\ n \in DOMAIN drive[Me].tree.edges /\ KindOf(drive[Me], n) = "file"
    /\ handles' = WithHandle(Handle(n, Nil, FALSE, Len(drive[Me].contents)))
    /\ opened' = opened + 1
    /\ UNCHANGED <<drive, fresh, call>>

\* Once the handle has its buffer a read has its answer, and changes nothing.
Hydrated(fh, intent) ==
    IF intent.type = "read" THEN Returned
    ELSE [pc |-> "apply", fh |-> fh, intent |-> intent]

\* read, write or truncate begins: a cold handle's cid is looked up, and fetched
\* without the lock.
Access(k, fh, intent) ==
    LET n == handles[fh].node  content == drive[Me].content IN
    /\ call[k].pc = "idle"
    /\ call' = [call EXCEPT ![k] =
          IF handles[fh].buf # Nil THEN Hydrated(fh, intent)
          ELSE [pc |-> "fetch", fh |-> fh, intent |-> intent,
                cid |-> IF n \in DOMAIN content THEN content[n].cid ELSE NoCid]]
    /\ UNCHANGED <<drive, fresh, handles, opened>>

\* Wrong variant: the bytes that were fetched replace what was written meanwhile.
FetchedOverwrites(k) ==
    LET fh == call[k].fh IN
    /\ call[k].pc = "fetch"
    /\ call' = [call EXCEPT ![k] = Hydrated(fh, @.intent)]
    /\ handles' = IF fh \in DOMAIN handles
                  THEN [handles EXCEPT ![fh].buf = Bytes(call[k].cid)]
                  ELSE handles
    /\ UNCHANGED <<drive, fresh, opened>>

\* The object has arrived; a buffer that is there by now stays.
Fetched(k) ==
    LET fh == call[k].fh IN
    /\ call[k].pc = "fetch"
    /\ call' = [call EXCEPT ![k] = Hydrated(fh, @.intent)]
    /\ handles' = IF fh \in DOMAIN handles /\ handles[fh].buf = Nil
                  THEN [handles EXCEPT ![fh].buf = Bytes(call[k].cid)]
                  ELSE handles
    /\ UNCHANGED <<drive, fresh, opened>>

\* The call returns the store's error.
FetchFailed(k) ==
    /\ call[k].pc = "fetch" /\ call[k].cid # NoCid
    /\ Returns(k)
    /\ UNCHANGED <<drive, fresh, handles, opened>>

Uploading(fh) == \E k \in Call : call[k].pc = "upload" /\ call[k].fh = fh

\* The handle after a write or a truncate (to size 0).
Written(h, intent, late) ==
    LET writes == intent.type = "write" IN
    [h EXCEPT !.buf   = IF writes THEN h.buf \cup intent.edits ELSE {},
              !.dirty = TRUE,
              !.own   = IF writes THEN h.own \cup intent.edits ELSE {},
              !.whole = h.whole \/ ~writes,
              !.late  = h.late \/ late]

\* The rest of write and truncate; an error if the handle was closed meanwhile.
Apply(k) ==
    LET fh == call[k].fh IN
    /\ call[k].pc = "apply"
    /\ Returns(k)
    /\ handles' = IF fh \in DOMAIN handles
                  THEN [handles EXCEPT ![fh] = Written(@, call[k].intent, Uploading(fh))]
                  ELSE handles
    /\ UNCHANGED <<drive, fresh, opened>>

\* flush, or the flush of a release: the snapshot that is uploaded without the
\* lock, and the modification time.  A clean handle has nothing to upload.
Flush(k, fh, closing, at) ==
    /\ call[k].pc = "idle"
    /\ call' = [call EXCEPT ![k] =
          IF handles[fh].dirty
          THEN [pc |-> "upload", fh |-> fh, closing |-> closing,
                node |-> handles[fh].node, bytes |-> handles[fh].buf, at |-> at]
          ELSE IF closing THEN [pc |-> "close", fh |-> fh] ELSE Returned]
    /\ UNCHANGED <<drive, fresh, handles, opened>>

AfterUpload(k) ==
    call' = [call EXCEPT ![k] =
                IF @.closing THEN [pc |-> "close", fh |-> @.fh] ELSE Returned]

\* The upload succeeded: a new version of the node, and the handle is clean.
Uploaded(k) ==
    LET fh == call[k].fh
        op == SetOp(call[k].node, CidOf(call[k].bytes), call[k].at)
    IN  /\ call[k].pc = "upload" /\ drive[Me].lamport < MaxLamport
        /\ drive' = [drive EXCEPT ![Me] = EmitContent(@, Me, op)]
        /\ handles' = IF fh \in DOMAIN handles
                      THEN [handles EXCEPT ![fh].dirty = FALSE] ELSE handles
        /\ AfterUpload(k)
        /\ UNCHANGED <<fresh, opened>>

\* Wrong variant: a failed upload leaves the handle clean.
UploadFailedClean(k) ==
    /\ call[k].pc = "upload"
    /\ handles' = IF call[k].fh \in DOMAIN handles
                  THEN [handles EXCEPT ![call[k].fh].dirty = FALSE] ELSE handles
    /\ Returns(k)
    /\ UNCHANGED <<drive, fresh, opened>>

\* The upload failed: the handle stays dirty, and a release does not close it.
UploadFailed(k) ==
    /\ call[k].pc = "upload"
    /\ Returns(k)
    /\ UNCHANGED <<drive, fresh, handles, opened>>

Close(k) ==
    /\ call[k].pc = "close"
    /\ handles' = [fh \in DOMAIN handles \ {call[k].fh} |-> handles[fh]]
    /\ Returns(k)
    /\ UNCHANGED <<drive, fresh, opened>>

-----------------------------------------------------------------------------
(* Structure.  The engine goes from an inode to the path of bare names and   *)
(* back to a node, which is another one if the directory lost its bare name. *)

At(t, dir, name) == IF PathOf(t, dir) = Nil THEN Nil ELSE Resolve(t, Append(PathOf(t, dir), name))

DirAt(t, dir) == IF PathOf(t, dir) = Nil THEN Nil ELSE Resolve(t, PathOf(t, dir))

\* A new file, or, of a file that has the name, a version without bytes.
Create(dir, name, at) ==
    LET d == drive[Me]  parent == DirAt(d.tree, dir) IN
    /\ opened < MaxHandles
    /\ \/ AddFile(Me, parent, name, NoCid, at)
       \/ AddVersion(Me, parent, name, NoCid, at)
    /\ handles' = WithHandle(Handle(IF Namesakes(d, parent, name) = {} THEN FreshId(d, Me)
                                    ELSE ChildNamed(d, parent, name),
                                    {}, TRUE, Len(d.contents) + 1))
    /\ opened' = opened + 1
    /\ UNCHANGED call

MakeDir(dir, name) ==
    /\ Mkdir(Me, DirAt(drive[Me].tree, dir), name)
    /\ UNCHANGED <<handles, opened, call>>

\* unlink and rmdir.
Unlink(dir, name) ==
    /\ Rm(Me, At(drive[Me].tree, dir, name))
    /\ UNCHANGED <<handles, opened, call>>

\* The move, and the deletion of the node that had the name, by its path.
Renamed(d, n, dir, name, old) ==
    LET moved == EmitMove(d, Me, n, DirAt(d.tree, dir), name, KindOf(d, n))
        path  == IF PathOf(moved.tree, old) = Nil
                 THEN Append(PathOf(d.tree, dir), name) ELSE PathOf(moved.tree, old)
        gone  == Resolve(moved.tree, path)
    IN  IF old = Nil \/ gone \in {Nil, ROOT} THEN moved
        ELSE EmitMove(moved, Me, gone, TRASH, moved.tree.edges[gone].name, KindOf(moved, gone))

\* Wrong variant: a rename of a node to the name it has displaces the node itself.
DisplacedBy(t, n, dir, name) == At(t, dir, name)

\* The node that has the new name.
Displaced(t, n, dir, name) ==
    IF At(t, dir, name) = n THEN Nil ELSE At(t, dir, name)

\* The kernel refuses to rename a directory to below itself.
Rename(dir, name, newDir, newName) ==
    LET d == drive[Me]  t == d.tree  n == At(t, dir, name) IN
    /\ Allowed(Me, "mv", 2)
    /\ n \in Resolvable(t) \ {ROOT} /\ DirAt(t, newDir) \in Dirs(d)
    /\ ~IsAncestor(t.edges, n, newDir)
    /\ drive' = [drive EXCEPT ![Me] =
                    Renamed(@, n, newDir, newName, Displaced(t, n, newDir, newName))]
    /\ UNCHANGED <<fresh, handles, opened, call>>

\* The model is read again and has a peer's version of a file; handles stay.
Revalidate(n, cid, at) ==
    LET d == drive[Me] IN
    /\ Allowed(Me, "peer", 1)
    /\ n \in DOMAIN d.tree.edges /\ KindOf(d, n) = "file"
    /\ drive' = [drive EXCEPT ![Me] = FromState(EmitContent(d, Peer, SetOp(n, cid, at)))]
    /\ UNCHANGED <<fresh, handles, opened, call>>

-----------------------------------------------------------------------------

\* A drive that is mounted: files with a content that an earlier process saved.
WithFile(d, name, cid, at) ==
    LET id == <<d.lamport + 1, 0>>
    IN  EmitContent(EmitMove(d, Me, id, ROOT, name, "file"), Me, SetOp(id, cid, at))

WithFiles(cid, at) ==
    LET d[i \in 0 .. Len(Mounted)] ==
            IF i = 0 THEN NewDrive ELSE WithFile(d[i - 1], Mounted[i], cid, at)
    IN  d[Len(Mounted)]

VfsInit ==
    /\ \E cid \in Cid, at \in Time : drive = [r \in Replica |-> WithFiles(cid, at)]
    /\ fresh = [r \in Replica |-> 0]
    /\ handles = <<>> /\ opened = 0
    /\ call = [k \in Call |-> Returned]

Intents ==
    [type : {"write"}, edits : {{e} : e \in Edit}]
        \cup [type : {"read", "truncate"}, edits : {{}}]

\* The names that the kernel has for the children of a directory.
Listed(dir) == {c.name : c \in Readdir(drive[Me].tree, dir)}

Handling(k) ==
    \/ \E fh \in DOMAIN handles, intent \in Intents : Access(k, fh, intent)
    \/ \E fh \in DOMAIN handles, closing \in BOOLEAN, at \in Time : Flush(k, fh, closing, at)
    \/ Fetched(k) \/ FetchFailed(k) \/ Apply(k)
    \/ Uploaded(k) \/ UploadFailed(k) \/ Close(k)

Structuring ==
    \E dir \in Nodes(Me) :
        \/ \E name \in Name : MakeDir(dir, name) \/ \E at \in Time : Create(dir, name, at)
        \/ \E name \in Listed(dir) :
               \/ Unlink(dir, name)
               \/ \E newDir \in Nodes(Me), newName \in Name : Rename(dir, name, newDir, newName)

VfsNext ==
    \/ \E k \in Call : Handling(k)
    \/ \E n \in Nodes(Me) : Open(n)
    \/ \E n \in Nodes(Me), cid \in Cid, at \in Time : Revalidate(n, cid, at)
    \/ Structuring

VfsSpec == VfsInit /\ [][VfsNext]_vfsVars

-----------------------------------------------------------------------------
(* Properties *)

\* The content log of a node, as a set of operations.
EditsOf(n) == {o \in Range(drive[Me].contents) : o.op.id = n}

Recorded(n, bytes) == \E o \in EditsOf(n) : Bytes(o.op.cid) = bytes

\* Close-to-open: a handle holds a version of its file that was current when it
\* was opened or later, with all that was written through the handle since, in
\* spite of downloads that end late and of files that change under it.
HandleHoldsItsFile ==
    \A fh \in DOMAIN handles :
        LET h == handles[fh]  log == drive[Me].contents
            current(i) ==
                LET m == FoldContent(SubSeq(log, 1, i))
                IN  IF h.node \in DOMAIN m THEN Bytes(m[h.node].cid) ELSE {}
        IN  h.buf # Nil =>
                IF h.whole THEN h.buf = h.own
                ELSE \E i \in h.since .. Len(log) : h.buf = current(i) \cup h.own

\* "Has un-uploaded writes -- cleared after a flush upload" of OpenFile.dirty: a
\* handle that is not dirty has nothing that was not uploaded.
CleanIsUploaded ==
    \A fh \in DOMAIN handles :
        LET h == handles[fh] IN
        h.buf # Nil => h.dirty \/ Recorded(h.node, h.buf)

\* Whatever overlaps, in whatever order uploads of earlier and later modification
\* times end, and wherever the file is moved: an uploaded version is current or
\* in the history.
UploadsKept ==
    \A n \in DOMAIN drive[Me].content :
        Cardinality(EditsOf(n)) <= MaxVersions + 1 =>
            {o.op.cid : o \in EditsOf(n)} \subseteq CidsOf(drive[Me].content[n])

\* "The destination is never lost": after a rename the new name leads to a node.
DestinationStays ==
    [][drive' # drive =>
          \A dir \in Nodes(Me), newDir \in Nodes(Me), newName \in Name :
              \A name \in Listed(dir) :
                  Rename(dir, name, newDir, newName) =>
                      At(drive'[Me].tree, newDir, newName) # Nil]_vfsVars

=============================================================================
