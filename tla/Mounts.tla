------------------------------- MODULE Mounts -------------------------------
(***************************************************************************)
(* The adapters of ce-drive-mount over the engine of Vfs: who calls it,    *)
(* with what, how many at a time, and what becomes of the drive at the end.*)
(*   fuse    linux_fuser.rs, and macos_fskit.rs, which has the same        *)
(*           callbacks: the library serves one request at a time and each  *)
(*           callback blocks on one call of the engine;                    *)
(*   winfsp  windows.rs: the threads of the host call at the same time;    *)
(*           there is no callback that creates, renames or deletes;        *)
(*   engine  the engine as a library: every call, at any time.             *)
(* Neither adapter has a callback for truncate or calls revalidate.        *)
(* Permissions, error numbers and attributes are left out, and ProjFS,     *)
(* which only reads.                                                       *)
(***************************************************************************)
EXTENDS Vfs

CONSTANTS Os,   \* the adapters a run looks at
          Room  \* how many entries the kernel's buffer for a listing takes

VARIABLES os,    \* the adapter that is mounted
          fds,   \* the handles that the kernel has and has not released
          acked, \* node and bytes of every flush that was answered with success
          saved  \* the DriveState handed to on_unmount, or Nil

mountVars == <<vfsVars, os, fds, acked, saved>>

kernelVars == <<fds, acked>>

\* The library takes the next request when the callback has returned.
NoRequest == \A k \in Call : call[k].pc = "idle"

\* What a flush that finds nothing to do has promised: that what it holds is saved.
\* A write during an upload makes the promise void (UnsavedIsDirty).
Promised(fh) ==
    IF handles[fh].dirty \/ handles[fh].buf = Nil \/ handles[fh].late THEN {}
    ELSE {<<handles[fh].node, handles[fh].buf>>}

-----------------------------------------------------------------------------
(* fuse: one request at a time, and all the calls of the engine but two. *)

FuseOpen(n) ==
    /\ NoRequest
    /\ Open(n) /\ fds' = fds \cup {opened'}
    /\ UNCHANGED acked

FuseRead(k, fh) ==
    /\ NoRequest
    /\ Access(k, fh, [type |-> "read", edits |-> {}])
    /\ UNCHANGED kernelVars

FuseWrite(k, fh, e) ==
    /\ NoRequest
    /\ Access(k, fh, [type |-> "write", edits |-> {e}])
    /\ UNCHANGED kernelVars

\* Wrong variant: the callback starts the upload, and answers without waiting for it.
FuseFlushSpawned(k, fh, at) ==
    /\ NoRequest
    /\ Flush(k, fh, FALSE, at)
    /\ acked' = acked \cup (IF handles[fh].buf = Nil THEN {}
                            ELSE {<<handles[fh].node, handles[fh].buf>>})
    /\ UNCHANGED fds

\* flush and fsync are one.
FuseFlush(k, fh, at) ==
    /\ NoRequest
    /\ Flush(k, fh, FALSE, at)
    /\ acked' = acked \cup Promised(fh)
    /\ UNCHANGED fds

\* The kernel forgets the handle, whatever the answer.
FuseRelease(k, fh, at) ==
    /\ NoRequest
    /\ Flush(k, fh, TRUE, at)
    /\ fds' = fds \ {fh} /\ acked' = acked \cup Promised(fh)

FuseCreate(dir, name, at) ==
    /\ NoRequest
    /\ Create(dir, name, at) /\ fds' = fds \cup {opened'}
    /\ UNCHANGED acked

FuseMkdir(dir, name) == NoRequest /\ MakeDir(dir, name) /\ UNCHANGED kernelVars

\* unlink and rmdir are one; a directory need not be empty.
FuseRemove(dir, name) == NoRequest /\ Unlink(dir, name) /\ UNCHANGED kernelVars

FuseRename(dir, name, newDir, newName) ==
    NoRequest /\ Rename(dir, name, newDir, newName) /\ UNCHANGED kernelVars

-----------------------------------------------------------------------------
(* winfsp: calls at any time, on files that a path leads to. *)

WinOpen(n) ==
    /\ n \in Resolvable(drive[Me].tree)
    /\ Open(n) /\ fds' = fds \cup {opened'}
    /\ UNCHANGED acked

WinRead(k, fh) ==
    Access(k, fh, [type |-> "read", edits |-> {}]) /\ UNCHANGED kernelVars

WinWrite(k, fh, e) ==
    Access(k, fh, [type |-> "write", edits |-> {e}]) /\ UNCHANGED kernelVars

WinFlush(k, fh, at) ==
    /\ Flush(k, fh, FALSE, at)
    /\ acked' = acked \cup Promised(fh)
    /\ UNCHANGED fds

\* close has no answer: an upload that fails is lost with the handle.
WinClose(k, fh, at) ==
    /\ Flush(k, fh, TRUE, at)
    /\ fds' = fds \ {fh}
    /\ UNCHANGED acked

-----------------------------------------------------------------------------
(* The rest of a call, and the end of the mount. *)

Proceed(k) ==
    \/ /\ Fetched(k) \/ FetchFailed(k) \/ Apply(k) \/ UploadFailed(k) \/ Close(k)
       /\ UNCHANGED kernelVars
    \/ /\ Uploaded(k)
       /\ acked' = acked \cup {<<call[k].node, call[k].bytes>>}
       /\ UNCHANGED fds

\* A fuse mount is busy while the kernel has a handle; a WinFsp host can be stopped.
\* No handle is flushed.
Unmount ==
    /\ os # "engine" /\ NoRequest
    /\ os = "fuse" => fds = {}
    /\ saved' = drive[Me]
    /\ UNCHANGED <<vfsVars, os, kernelVars>>

MountInit ==
    /\ VfsInit
    /\ os \in Os
    /\ fds = {} /\ acked = {} /\ saved = Nil

\* The callbacks that change anything or hand out bytes: macos_fskit.rs has a copy
\* of them.
Fuse ==
    \/ \E n \in Nodes(Me) : FuseOpen(n)
    \/ \E k \in Call, fh \in fds :
           \/ FuseRead(k, fh)
           \/ \E e \in Edit : FuseWrite(k, fh, e)
           \/ \E at \in Time : FuseFlush(k, fh, at) \/ FuseRelease(k, fh, at)
    \/ \E dir \in Nodes(Me) :
           \/ \E name \in Name : FuseMkdir(dir, name)
           \/ \E name \in Name, at \in Time : FuseCreate(dir, name, at)
           \/ \E name \in Listed(dir) :
                  \/ FuseRemove(dir, name)
                  \/ \E newDir \in Nodes(Me), newName \in Name :
                         FuseRename(dir, name, newDir, newName)

WinFsp ==
    \/ \E n \in Nodes(Me) : WinOpen(n)
    \/ \E k \in Call, fh \in fds :
           \/ WinRead(k, fh)
           \/ \E e \in Edit : WinWrite(k, fh, e)
           \/ \E at \in Time : WinFlush(k, fh, at) \/ WinClose(k, fh, at)

MountNext ==
    /\ saved = Nil
    /\ \/ /\ \/ os = "engine" /\ VfsNext /\ UNCHANGED kernelVars
             \/ os = "fuse" /\ Fuse
             \/ os = "winfsp" /\ WinFsp
             \/ os # "engine" /\ \E k \in Call : Proceed(k)
          /\ UNCHANGED <<os, saved>>
       \/ Unmount

MountSpec == MountInit /\ [][MountNext]_mountVars

-----------------------------------------------------------------------------
(* Listings: what the kernel gets by asking for one buffer after the other.  *)

Dot == <<0>>
DotDot == <<0, 0>>

\* The names of readdir in order, rendered.
Names(dir) == SetToSortSeq(Listed(dir), LexLess)

\* Wrong variant: an entry's offset is its own position, so that it comes again.
ReaddirBufferAgain(names, offset, room) ==
    LET rows == <<Dot, DotDot>> \o names
    IN  [i \in 1 .. Cardinality({j \in 1 .. room : offset + j <= Len(rows)}) |->
            [name |-> rows[offset + i], offset |-> offset + i - 1]]

\* readdir from an offset: each entry with the offset to go on with.
ReaddirBuffer(names, offset, room) ==
    LET rows == <<Dot, DotDot>> \o names
    IN  [i \in 1 .. Cardinality({j \in 1 .. room : offset + j <= Len(rows)}) |->
            [name |-> rows[offset + i], offset |-> offset + i]]

\* readdirplus: the children's offsets count "." in, and are then skipped among the
\* children alone.
ReaddirplusBuffer(names, offset, room) ==
    LET dot  == IF offset = 0 THEN <<[name |-> Dot, offset |-> 1]>> ELSE <<>>
        rest == [i \in 1 .. Cardinality({j \in 1 .. room - Len(dot) : offset + j <= Len(names)}) |->
                    [name |-> names[offset + i], offset |-> offset + i + 1]]
    IN  dot \o rest

\* What a listing collects: it asks until a buffer comes back empty.
Collected(buffer(_), most) ==
    LET ask[i \in 0 .. most] ==
            IF i = 0 THEN [offset |-> 0, names |-> <<>>]
            ELSE LET so == ask[i - 1]  rows == buffer(so.offset) IN
                 IF rows = <<>> THEN so
                 ELSE [offset |-> Last(rows).offset,
                       names  |-> so.names \o [j \in DOMAIN rows |-> rows[j].name]]
    IN  ask[most].names

-----------------------------------------------------------------------------
(* Properties *)

\* A clean handle holds what its file has as a version, current or prior: failed
\* uploads, and flushes of one handle at the same time, leave nothing unsaved that
\* looks saved.  Without fuse's one request at a time the exception is a write that
\* came while the handle was uploaded.
UnsavedIsDirty ==
    \A fh \in DOMAIN handles :
        LET h == handles[fh] IN
        h.buf # Nil /\ (h.late => os = "fuse") => h.dirty \/ Recorded(h.node, h.buf)

\* A flush, fsync or release that was answered with success holds to the end: its
\* bytes are a version, current or prior, in the state that is handed over for
\* saving, whatever failed, was renamed or was deleted in between.
FlushedIsHandedOver ==
    saved # Nil =>
        \A a \in acked :
            Cardinality(EditsOf(a[1])) <= MaxVersions + 1 =>
                \E cid \in CidsOf(saved.content[a[1]]) : Bytes(cid) = a[2]

\* A listing of a directory that stays as it is reports every entry once, however
\* small the kernel's buffer.  readdirplus reports none twice, and every one if the
\* buffer takes them all; else it leaves out the one after each full buffer.
ListingComplete ==
    \A dir \in Dirs(drive[Me]), room \in Room :
        LET names == Names(dir)  most == Len(names) + 3
            all   == Collected(LAMBDA o : ReaddirBuffer(names, o, room), most)
            plus  == Collected(LAMBDA o : ReaddirplusBuffer(names, o, room), most)
        IN  /\ all = <<Dot, DotDot>> \o names
            /\ IsInjective(plus)
            /\ room > Len(names) => plus = <<Dot>> \o names
=============================================================================
