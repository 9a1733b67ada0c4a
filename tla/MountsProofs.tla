---------------------------- MODULE MountsProofs ----------------------------
(***************************************************************************)
(* Theorems about Mounts, for any calls, names, edits and bounds, and for  *)
(* the three ways of calling the engine: what an open handle holds, what a *)
(* clean handle and an answered flush promise, and what of it is handed    *)
(* over when the mount ends.                                               *)
(***************************************************************************)
EXTENDS Mounts, DriveProofs

\* What a cid of the content log can be.
Object == {NoCid} \cup {CidOf(bytes) : bytes \in SUBSET Edit}

\* The content log saves objects, and the current version of a file is one of them.
Logged(d) ==
    /\ \A i \in 1 .. Len(d.contents) :
          d.contents[i].op.type = "set" /\ d.contents[i].op.cid \in Object
    /\ \A n \in DOMAIN d.content : \E i \in 1 .. Len(d.contents) :
          d.contents[i].op.id = n /\ d.contents[i].op.cid = d.content[n].cid

\* No move makes a file of a node beyond S.
FilesIn(d, S) ==
    \A i \in 1 .. Len(d.moves) : d.moves[i].kind = "file" => d.moves[i].child \in S

\* The drive of a mount: nothing is ever purged, so that every file has a content.
MountedDrive(d) == DriveOk(d) /\ Logged(d) /\ FilesIn(d, DOMAIN d.content)

\* The content log of d is where that of e begins.
Prolongs(e, d) ==
    /\ Len(d.contents) <= Len(e.contents)
    /\ \A i \in 1 .. Len(d.contents) : e.contents[i] = d.contents[i]
    /\ DOMAIN d.content \subseteq DOMAIN e.content

\* The bytes of n as the first i operations of the log leave it.
BytesAt(log, i, n) ==
    LET m == FoldContent(SubSeq(log, 1, i))
    IN  IF n \in DOMAIN m THEN Bytes(m[n].cid) ELSE {}

\* Of n, these bytes were the current version since position i of the log.
CurrentSince(d, n, bytes, i) ==
    \E j \in i .. Len(d.contents) : bytes = BytesAt(d.contents, j, n)

\* A version of n has these bytes.
IsVersion(d, n, bytes) ==
    \E i \in 1 .. Len(d.contents) : d.contents[i].op.id = n /\ Bytes(d.contents[i].op.cid) = bytes

HandleOk(h, d) ==
    /\ h = [node |-> h.node, buf |-> h.buf, dirty |-> h.dirty, own |-> h.own,
            whole |-> h.whole, since |-> h.since, late |-> h.late]
    /\ h.dirty \in BOOLEAN /\ h.whole \in BOOLEAN /\ h.late \in BOOLEAN
    /\ h.buf \in (SUBSET Edit) \cup {Nil} /\ h.own \in SUBSET Edit
    /\ h.node \in DOMAIN d.content
    /\ h.since \in Nat /\ h.since <= Len(d.contents)
    /\ h.buf = Nil => ~h.dirty /\ ~h.whole /\ ~h.late /\ h.own = {}
    /\ h.buf # Nil =>
          IF h.whole THEN h.buf = h.own
          ELSE \E i \in h.since .. Len(d.contents) : h.buf = BytesAt(d.contents, i, h.node) \cup h.own
    /\ h.buf # Nil => h.dirty \/ h.late \/ IsVersion(d, h.node, h.buf)

\* Where a call is in the engine: the handle it works on may be closed by now.
CallOk(c, hs, n, d) ==
    \/ c = Returned
    \/ /\ c.pc \in {"fetch", "apply", "upload", "close"} /\ c.fh \in 1 .. n
       /\ c.pc \in {"fetch", "apply"} => c.intent \in Intents
       /\ c.pc = "fetch" =>
             /\ Bytes(c.cid) \in SUBSET Edit
             /\ c.fh \in DOMAIN hs =>
                   /\ CurrentSince(d, hs[c.fh].node, Bytes(c.cid), hs[c.fh].since)
                   /\ IsVersion(d, hs[c.fh].node, Bytes(c.cid))
       /\ c.pc = "apply" =>
             /\ c.intent.type # "read"
             /\ c.fh \in DOMAIN hs => hs[c.fh].buf # Nil
       /\ c.pc = "upload" =>
             /\ c.node \in DOMAIN d.content /\ c.bytes \in SUBSET Edit
             /\ c.fh \in DOMAIN hs =>
                   c.node = hs[c.fh].node /\ (c.bytes = hs[c.fh].buf \/ hs[c.fh].late)

\* A fuse mount serves one request at a time.
OneRequest == \A k, l \in Call : k = l \/ call[k].pc = "idle" \/ call[l].pc = "idle"

DriveInv ==
    /\ drive = [r \in Replica |-> drive[r]] /\ MountedDrive(drive[Me])
    /\ fresh \in [Replica -> Nat]

HandlesInv ==
    /\ opened \in Nat /\ handles = [fh \in DOMAIN handles |-> handles[fh]]
    /\ DOMAIN handles \subseteq 1 .. opened
    /\ \A fh \in DOMAIN handles : HandleOk(handles[fh], drive[Me])

CallsInv ==
    /\ call = [k \in Call |-> call[k]]
    /\ \A k \in Call : CallOk(call[k], handles, opened, drive[Me])

FuseInv ==
    os = "fuse" => OneRequest /\ \A fh \in DOMAIN handles : ~handles[fh].late

AckedInv ==
    \A a \in acked : a[1] \in DOMAIN drive[Me].content /\ IsVersion(drive[Me], a[1], a[2])

\* A call that ends by closing its handle.
Closing(c) == c.pc = "close" \/ (c.pc = "upload" /\ c.closing)

\* The kernel's handles are open, and no call closes one of them.
KernelInv ==
    /\ os = "engine" => fds = {}
    /\ fds \subseteq DOMAIN handles
    /\ \A k \in Call : Closing(call[k]) => call[k].fh \notin fds

MountInv ==
    /\ DriveInv /\ HandlesInv /\ CallsInv /\ FuseInv
    /\ KernelInv /\ AckedInv
    /\ saved = Nil \/ saved = drive[Me]

-----------------------------------------------------------------------------
(* The drive of a mount *)

LEMMA WriterIsReplica == Me \in Replica /\ Me \in Nat
BY WriterAssumption, ReplicaAssumption

\* A save prolongs the log by one version.
LEMMA SaveFacts ==
  ASSUME NEW d, DriveOk(d), Logged(d), NEW r \in Nat, NEW n, NEW cid \in Object, NEW at
  PROVE  LET e == EmitContent(d, r, SetOp(n, cid, at)) IN
         /\ DriveOk(e) /\ Logged(e) /\ Prolongs(e, d)
         /\ e.moves = d.moves /\ e.tree = d.tree
         /\ DOMAIN e.content = DOMAIN d.content \cup {n}
         /\ Len(e.contents) = Len(d.contents) + 1
         /\ e.contents[Len(d.contents) + 1].op = SetOp(n, cid, at)
<1> DEFINE op == SetOp(n, cid, at)
           o == [ts |-> NextTs(d, r), op |-> op]
           e == EmitContent(d, r, op)
           L == Len(d.contents)
<1>1. op.type = "set" /\ op.id = n /\ op.cid = cid /\ op.at = at
  BY DEF SetOp
<1> HIDE DEF op
<1>2. DriveOk(e)
  BY <1>1, EmitContentGrows
<1>3. e = [lamport |-> d.lamport + 1, moves |-> d.moves, contents |-> Append(d.contents, o),
           tree |-> d.tree, content |-> ApplyContent(d.content, op)]
  <2>1. d = [lamport |-> d.lamport, moves |-> d.moves, contents |-> d.contents,
             tree |-> d.tree, content |-> d.content]
    BY DEF DriveOk
  <2>2. e = [d EXCEPT !.lamport = @ + 1, !.content = ApplyContent(@, op),
                      !.contents = Append(@, o)]
    BY Zenon DEF EmitContent
  <2> HIDE DEF e, o
  <2>3. QED BY <2>1, <2>2
<1> HIDE DEF e
<1>4. d.contents \in Seq(Range(d.contents)) /\ L \in Nat
  BY LogFacts DEF DriveOk, ContentLog, InOrder
<1>5. /\ Len(e.contents) = L + 1 /\ e.contents[L + 1] = o
      /\ \A i \in 1 .. L : e.contents[i] = d.contents[i]
  <2>1. e.contents = Append(d.contents, o)
    BY <1>3
  <2> HIDE DEF o
  <2>2. QED BY <1>4, <2>1
<1>6. o.op = op
  OBVIOUS
<1> HIDE DEF o
<1> DEFINE c == IF n \in DOMAIN d.content THEN Record(d.content[n], cid, at)
                ELSE [cid |-> cid, mtime |-> at, versions |-> <<>>]
<1>7. e.content = WithRecord(d.content, n, c)
  BY <1>1, <1>3 DEF ApplyContent
<1>8. c.cid = cid \/ (n \in DOMAIN d.content /\ c.cid = d.content[n].cid)
  <2>1. CASE n \notin DOMAIN d.content
    BY <2>1
  <2>2. CASE n \in DOMAIN d.content
    <3> DEFINE b == d.content[n]
    <3>1. HasHistory(b)
      BY <2>2, FoldHistories DEF DriveOk, ContentLog, Histories
    <3>2. c = Record(b, cid, at)
      BY <2>2
    <3> HIDE DEF b, c
    <3>3. b = [cid |-> b.cid, mtime |-> b.mtime, versions |-> b.versions]
      BY <3>1 DEF HasHistory
    <3>4. c.cid = cid \/ c.cid = b.cid
      <4>1. \/ c = b
            \/ \E v : c = [cid |-> cid, mtime |-> at, versions |-> PushVersion(b.versions, v)]
            \/ \E v : c = [b EXCEPT !.versions = PushVersion(b.versions, v)]
        BY <3>2, RecordForms
      <4>2. ASSUME NEW v, c = [b EXCEPT !.versions = PushVersion(b.versions, v)]
            PROVE  c.cid = b.cid
        BY <3>3, <4>2
      <4>3. QED BY <4>1, <4>2
    <3>5. QED BY <2>2, <3>4 DEF b
  <2>3. QED BY <2>1, <2>2
<1> HIDE DEF c
<1>9. DOMAIN e.content = DOMAIN d.content \cup {n}
  BY <1>7 DEF WithRecord
<1>10. Logged(e)
  <2>1. \A i \in 1 .. L + 1 : i \in 1 .. L \/ i = L + 1
    BY <1>4
  <2>2. \A i \in 1 .. L + 1 : e.contents[i].op.type = "set" /\ e.contents[i].op.cid \in Object
    BY <1>1, <1>5, <1>6, <2>1 DEF Logged
  <2>3. ASSUME NEW m \in DOMAIN e.content
        PROVE  \E i \in 1 .. L + 1 : e.contents[i].op.id = m /\ e.contents[i].op.cid = e.content[m].cid
    <3>1. L + 1 \in 1 .. L + 1 /\ 1 .. L \subseteq 1 .. L + 1
      BY <1>4
    <3>2. CASE m = n /\ c.cid = cid
      <4>1. e.content[m].cid = cid
        BY <1>7, <1>9, <3>2 DEF WithRecord
      <4>2. QED BY <1>1, <1>5, <1>6, <3>1, <3>2, <4>1
    <3>3. CASE m \in DOMAIN d.content /\ e.content[m].cid = d.content[m].cid
      <4>1. PICK i \in 1 .. L : d.contents[i].op.id = m /\ d.contents[i].op.cid = d.content[m].cid
        BY <3>3 DEF Logged
      <4>2. QED BY <1>5, <3>1, <3>3, <4>1
    <3>4. CASE m # n
      <4>1. m \in DOMAIN d.content /\ e.content[m] = d.content[m]
        BY <1>7, <1>9, <3>4 DEF WithRecord
      <4>2. QED BY <3>3, <4>1
    <3>5. CASE m = n /\ n \in DOMAIN d.content /\ c.cid = d.content[n].cid
      <4>1. e.content[m] = c
        BY <1>7, <1>9, <3>5 DEF WithRecord
      <4>2. QED BY <3>3, <3>5, <4>1
    <3>6. QED BY <1>8, <3>2, <3>4, <3>5
  <2>4. QED BY <1>5, <2>2, <2>3 DEF Logged
<1>11. Prolongs(e, d)
  <2>1. L <= L + 1
    BY <1>4
  <2>2. QED BY <1>5, <1>9, <2>1 DEF Prolongs
<1>12. e.moves = d.moves /\ e.tree = d.tree
  BY <1>3
<1>13. QED BY <1>2, <1>5, <1>6, <1>9, <1>10, <1>11, <1>12 DEF e, op

\* A move leaves the contents alone.
LEMMA MoveFacts ==
  ASSUME NEW d, DriveOk(d), NEW child \in Item, NEW parent \in Place,
         NEW name \in AnyName, NEW kind \in Kind
  PROVE  LET e == EmitMove(d, Me, child, parent, name, kind) IN
         /\ DriveOk(e) /\ Prolongs(e, d)
         /\ e.contents = d.contents /\ e.content = d.content
         /\ \A S : FilesIn(d, S) /\ (kind = "file" => child \in S) => FilesIn(e, S)
<1> DEFINE op == [ts |-> NextTs(d, Me), child |-> child, new_parent |-> parent,
                  new_name |-> name, kind |-> kind]
           e == EmitMove(d, Me, child, parent, name, kind)
           M == Len(d.moves)
<1>1. DriveOk(e)
  BY EmitMoveGrows, WriterIsReplica
<1>2. e = [lamport |-> d.lamport + 1, moves |-> Append(d.moves, op), contents |-> d.contents,
           tree |-> Integrate(d.tree, op), content |-> d.content]
  <2>1. d = [lamport |-> d.lamport, moves |-> d.moves, contents |-> d.contents,
             tree |-> d.tree, content |-> d.content]
    BY DEF DriveOk
  <2>2. e = [d EXCEPT !.lamport = @ + 1, !.tree = Integrate(@, op), !.moves = Append(@, op)]
    BY Zenon DEF EmitMove
  <2> HIDE DEF e, op
  <2>3. QED BY <2>1, <2>2
<1> HIDE DEF e
<1>3. op.child = child /\ op.kind = kind
  OBVIOUS
<1> HIDE DEF op
<1>4. d.moves \in Seq(MoveOp) /\ M \in Nat
  BY DEF DriveOk, MovesLog
<1>5. /\ Len(e.moves) = M + 1 /\ e.moves[M + 1] = op
      /\ \A i \in 1 .. M : e.moves[i] = d.moves[i]
  BY <1>2, <1>4
<1>6. \A i \in 1 .. M + 1 : i \in 1 .. M \/ i = M + 1
  BY <1>4
<1>7. \A S : FilesIn(d, S) /\ (kind = "file" => child \in S) => FilesIn(e, S)
  BY <1>3, <1>5, <1>6 DEF FilesIn
<1>8. e.contents = d.contents /\ e.content = d.content
  BY <1>2
<1>9. Prolongs(e, d)
  <2>1. Len(d.contents) \in Nat
    BY LogFacts DEF DriveOk, ContentLog
  <2>2. QED BY <1>8, <2>1 DEF Prolongs
<1>10. QED BY <1>1, <1>7, <1>8, <1>9 DEF e


-----------------------------------------------------------------------------
(* Files and paths *)

\* A node that a mount takes for a file has a content.
LEMMA FileHasContent ==
  ASSUME NEW d, MountedDrive(d), NEW n \in DOMAIN d.tree.edges, KindOf(d, n) = "file"
  PROVE  n \in DOMAIN d.content
<1> DEFINE t == d.tree
<1>1. DriveOk(d) /\ FilesIn(d, DOMAIN d.content)
  BY DEF MountedDrive
<1>2. Built(t, LogEntries(MoveOp)) /\ LogOps(t) = Range(d.moves)
  BY <1>1, DriveTree DEF Replayed
<1>3. d.moves \in Seq(MoveOp)
  BY <1>1 DEF DriveOk, MovesLog
<1>4. Range(d.moves) = {d.moves[i] : i \in 1 .. Len(d.moves)}
  <2>1. DOMAIN d.moves = 1 .. Len(d.moves)
    BY <1>3
  <2>2. QED BY <2>1 DEF Range
<1>5. n \in DOMAIN t.edges /\ t.edges[n].kind = "file"
  BY DEF KindOf
<1> HIDE DEF t
<1>6. PICK i \in 1 .. Len(t.log) : t.log[i].op.child = n /\ t.edges[n] = NewEdge(t.log[i].op)
  BY <1>2, <1>5, EdgesOfMoves
<1>7. t.log[i].op.kind = "file"
  BY <1>5, <1>6 DEF NewEdge
<1>8. t.log[i].op \in Range(d.moves)
  <2>1. t.log[i].op \in LogOps(t)
    BY <1>6 DEF LogOps
  <2>2. QED BY <1>2, <2>1
<1>9. PICK k \in 1 .. Len(d.moves) : t.log[i].op = d.moves[k]
  BY <1>4, <1>8
<1>10. QED BY <1>1, <1>6, <1>7, <1>9 DEF FilesIn

\* The walk of path().
WalkStep(t, w) ==
    IF w.at # ROOT /\ w.at \in DOMAIN t.edges
    THEN [at |-> t.edges[w.at].parent, names |-> <<t.edges[w.at].name>> \o w.names]
    ELSE w

IsClimb(f, t, n, k) ==
    f = [i \in 0 .. k |-> IF i = 0 THEN [at |-> n, names |-> <<>>] ELSE WalkStep(t, f[i - 1])]

LEMMA ClimbExists ==
  ASSUME NEW t, NEW n, NEW k \in Nat
  PROVE  \E f : IsClimb(f, t, n, k)
<1> DEFINE T == {l \in Nat : ~ \E f : IsClimb(f, t, n, l)}
<1> SUFFICES ASSUME T # {} PROVE FALSE
  OBVIOUS
<1>1. PICK l \in T : \A j \in T : l <= j
  BY LeastNat
<1>2. l # 0
  <2>1. IsClimb([i \in 0 .. 0 |-> [at |-> n, names |-> <<>>]], t, n, 0)
    BY DEF IsClimb
  <2>2. QED BY <2>1
<1>3. l \in Nat /\ l - 1 \in Nat /\ 0 .. l - 1 \subseteq 0 .. l /\ ~(l <= l - 1)
  BY <1>2
<1>4. PICK f : IsClimb(f, t, n, l - 1)
  BY <1>1, <1>3
<1> DEFINE g == [i \in 0 .. l |-> IF i = l THEN WalkStep(t, f[l - 1]) ELSE f[i]]
<1>5. \A i \in 0 .. l - 1 : f[i] = IF i = 0 THEN [at |-> n, names |-> <<>>] ELSE WalkStep(t, f[i - 1])
  BY <1>4 DEF IsClimb
<1>6. g = [i \in 0 .. l |-> IF i = 0 THEN [at |-> n, names |-> <<>>] ELSE WalkStep(t, g[i - 1])]
  BY <1>2, <1>3, <1>5
<1>7. IsClimb(g, t, n, l)
  <2> HIDE DEF g
  <2>1. QED BY <1>6 DEF IsClimb
<1>8. QED BY <1>1, <1>7

\* A path is a sequence of names.
LEMMA PathIsSequence ==
  ASSUME NEW t, TreeSound(t), NEW n, PathOf(t, n) # Nil
  PROVE  PathOf(t, n) \in Seq(AnyName)
<1> DEFINE L == Cardinality(DOMAIN t.edges)
           f == CHOOSE h : IsClimb(h, t, n, L)
           T == {k \in 0 .. L : f[k].names \notin Seq(AnyName)}
<1>1. L \in Nat
  BY FS_CardinalityType DEF TreeSound
<1>2. PathOf(t, n) = IF f[L].at = ROOT THEN f[L].names ELSE Nil
  BY DEF PathOf, IsClimb, WalkStep
<1>3. PathOf(t, n) = f[L].names
  BY <1>2
<1> HIDE DEF L
<1>4. IsClimb(f, t, n, L)
  BY <1>1, ClimbExists
<1> HIDE DEF f
<1>5. \A i \in 0 .. L : f[i] = IF i = 0 THEN [at |-> n, names |-> <<>>] ELSE WalkStep(t, f[i - 1])
  BY <1>4 DEF IsClimb
<1>6. ASSUME T # {} PROVE FALSE
  <2>1. PICK k \in T : \A j \in T : k <= j
    <3>1. T \in SUBSET Nat
      BY <1>1
    <3> HIDE DEF T
    <3>2. QED BY <1>6, <3>1, LeastNat
  <2>2. k # 0
    <3>1. 0 \in 0 .. L
      BY <1>1
    <3>2. f[0] = [at |-> n, names |-> <<>>]
      BY <1>5, <3>1
    <3>3. f[0].names \in Seq(AnyName)
      BY <3>2
    <3>4. QED BY <2>1, <3>3
  <2>3. k - 1 \in 0 .. L /\ k \in 0 .. L /\ ~(k <= k - 1)
    BY <1>1, <2>1, <2>2
  <2> DEFINE w == f[k - 1]
  <2>4. w.names \in Seq(AnyName)
    BY <2>1, <2>3
  <2>5. f[k] = WalkStep(t, w)
    BY <1>5, <2>2, <2>3
  <2> HIDE DEF w
  <2>6. f[k].names \in Seq(AnyName)
    <3>1. CASE w.at # ROOT /\ w.at \in DOMAIN t.edges
      <4>1. t.edges[w.at].name \in AnyName
        BY <3>1 DEF TreeSound
      <4>2. f[k].names = <<t.edges[w.at].name>> \o w.names
        BY <2>5, <3>1 DEF WalkStep
      <4>3. QED BY <2>4, <4>1, <4>2
    <3>2. CASE ~(w.at # ROOT /\ w.at \in DOMAIN t.edges)
      BY <2>4, <2>5, <3>2 DEF WalkStep
    <3>3. QED BY <3>1, <3>2
  <2>7. QED BY <2>1, <2>6
<1>7. L \in 0 .. L
  BY <1>1
<1>8. QED BY <1>3, <1>6, <1>7

\* One step of resolve(): the child of `dir' that the next name leads to.
Hits(t, dir, name) == {d \in Readdir(t, dir) : d.name = name}

Hit(t, dir, name) ==
    IF Hits(t, dir, name) = {} THEN Nil
    ELSE (CHOOSE d \in Hits(t, dir, name) : \A h \in Hits(t, dir, name) :
              Len(t.edges[d.child].name) <= Len(t.edges[h.child].name)).child

LEMMA HitIsNode ==
  ASSUME NEW t, TreeSound(t), NEW dir, NEW name
  PROVE  Hit(t, dir, name) \in DOMAIN t.edges \cup {Nil}
<1> DEFINE S == Hits(t, dir, name)
           bare(d) == Len(t.edges[d.child].name)
           lengths == {bare(d) : d \in S}
<1>1. CASE S = {}
  BY <1>1 DEF Hit
<1>2. CASE S # {}
  <2>1. \A d \in S : d.child \in DOMAIN t.edges
    BY ListedAreNodes DEF Hits, NodesListed
  <2>2. \A d \in S : bare(d) \in Nat
    <3>1. \A d \in S : t.edges[d.child].name \in Seq(Nat)
      BY <2>1, NamesAreSequences DEF TreeSound
    <3>2. QED BY <3>1
  <2>3. PICK m \in lengths : \A l \in lengths : m <= l
    <3>1. lengths \in SUBSET Nat /\ lengths # {}
      BY <1>2, <2>2
    <3> HIDE DEF lengths
    <3>2. QED BY <3>1, LeastNat
  <2>4. \E d \in S : \A h \in S : bare(d) <= bare(h)
    BY <2>3
  <2>5. (CHOOSE d \in S : \A h \in S : bare(d) <= bare(h)) \in S
    <3> HIDE DEF S
    <3>1. QED BY <2>4
  <2>6. Hit(t, dir, name) = (CHOOSE d \in S : \A h \in S : bare(d) <= bare(h)).child
    BY <1>2 DEF Hit
  <2>7. QED BY <2>1, <2>5, <2>6
<1>3. QED BY <1>1, <1>2

IsResolution(f, t, path, k) ==
    f = [i \in 0 .. k |-> IF i = 0 THEN ROOT ELSE Hit(t, f[i - 1], path[i])]

LEMMA ResolutionExists ==
  ASSUME NEW t, NEW path, NEW k \in Nat
  PROVE  \E f : IsResolution(f, t, path, k)
<1> DEFINE T == {l \in Nat : ~ \E f : IsResolution(f, t, path, l)}
<1> SUFFICES ASSUME T # {} PROVE FALSE
  OBVIOUS
<1>1. PICK l \in T : \A j \in T : l <= j
  BY LeastNat
<1>2. l # 0
  <2>1. IsResolution([i \in 0 .. 0 |-> ROOT], t, path, 0)
    BY DEF IsResolution
  <2>2. QED BY <2>1
<1>3. l \in Nat /\ l - 1 \in Nat /\ 0 .. l - 1 \subseteq 0 .. l /\ ~(l <= l - 1)
  BY <1>2
<1>4. PICK f : IsResolution(f, t, path, l - 1)
  BY <1>1, <1>3
<1> DEFINE g == [i \in 0 .. l |-> IF i = l THEN Hit(t, f[l - 1], path[l]) ELSE f[i]]
<1>5. \A i \in 0 .. l - 1 : f[i] = IF i = 0 THEN ROOT ELSE Hit(t, f[i - 1], path[i])
  BY <1>4 DEF IsResolution
<1>6. g = [i \in 0 .. l |-> IF i = 0 THEN ROOT ELSE Hit(t, g[i - 1], path[i])]
  BY <1>2, <1>3, <1>5
<1>7. IsResolution(g, t, path, l)
  <2> HIDE DEF g
  <2>1. QED BY <1>6 DEF IsResolution
<1>8. QED BY <1>1, <1>7

\* What resolve() finds is the root or a node.
LEMMA ResolveIsNode ==
  ASSUME NEW t, TreeSound(t), NEW path, Len(path) \in Nat, Resolve(t, path) \notin {Nil, ROOT}
  PROVE  Resolve(t, path) \in DOMAIN t.edges
<1> DEFINE L == Len(path)
           f == CHOOSE h : IsResolution(h, t, path, L)
<1>1. Resolve(t, path) = f[L]
  BY DEF Resolve, IsResolution, Hit, Hits
<1> HIDE DEF L
<1>2. IsResolution(f, t, path, L)
  BY ResolutionExists DEF L
<1> HIDE DEF f
<1>3. f[L] = IF L = 0 THEN ROOT ELSE Hit(t, f[L - 1], path[L])
  <2>1. L \in 0 .. L
    BY DEF L
  <2>2. QED BY <1>2, <2>1 DEF IsResolution
<1>4. QED BY <1>1, <1>3, HitIsNode


-----------------------------------------------------------------------------
(* What commands make of the drive of a mount *)

\* A drive that goes on from d.
Continued(d, e) == MountedDrive(e) /\ Prolongs(e, d)

LEMMA LogLength ==
  ASSUME NEW d, DriveOk(d)
  PROVE  Len(d.contents) \in Nat /\ d.contents \in Seq(Range(d.contents))
BY LogFacts DEF DriveOk, ContentLog, InOrder

LEMMA ContinuedOn ==
  ASSUME NEW c, NEW d, NEW e, DriveOk(c), DriveOk(d), Prolongs(d, c), Continued(d, e)
  PROVE  Continued(c, e)
<1>1. Len(c.contents) \in Nat /\ Len(d.contents) \in Nat /\ Len(e.contents) \in Nat
  BY LogLength DEF Continued, MountedDrive
<1>2. 1 .. Len(c.contents) \subseteq 1 .. Len(d.contents) /\ Len(c.contents) <= Len(e.contents)
  BY <1>1 DEF Prolongs, Continued
<1>3. QED BY <1>2 DEF Prolongs, Continued

LEMMA MovedMounted ==
  ASSUME NEW d, MountedDrive(d), NEW n \in DOMAIN d.tree.edges, NEW parent \in Place,
         NEW name \in AnyName
  PROVE  Continued(d, EmitMove(d, Me, n, parent, name, KindOf(d, n)))
<1> DEFINE k == KindOf(d, n)
           e == EmitMove(d, Me, n, parent, name, k)
<1>1. DriveOk(d) /\ Logged(d) /\ FilesIn(d, DOMAIN d.content)
  BY DEF MountedDrive
<1>2. k \in Kind /\ n \in Item
  BY <1>1, DriveTree, KindOfIsKind DEF TreeSound
<1>3. k = "file" => n \in DOMAIN d.content
  BY FileHasContent
<1> HIDE DEF k
<1>4. /\ DriveOk(e) /\ Prolongs(e, d)
      /\ e.contents = d.contents /\ e.content = d.content
      /\ \A S : FilesIn(d, S) /\ (k = "file" => n \in S) => FilesIn(e, S)
  BY <1>1, <1>2, MoveFacts
<1> HIDE DEF e
<1>5. Logged(e)
  BY <1>1, <1>4 DEF Logged
<1>6. Continued(d, e)
  BY <1>1, <1>3, <1>4, <1>5 DEF MountedDrive, Continued
<1>7. QED BY <1>6 DEF e, k

LEMMA MadeMounted ==
  ASSUME NEW d, MountedDrive(d), NEW id \in NodeId, NEW parent \in Place, NEW name \in AnyName
  PROVE  Continued(d, EmitMove(d, Me, id, parent, name, "dir"))
<1> DEFINE e == EmitMove(d, Me, id, parent, name, "dir")
<1>1. DriveOk(d) /\ Logged(d) /\ FilesIn(d, DOMAIN d.content)
  BY DEF MountedDrive
<1>2. "dir" \in Kind /\ id \in Item /\ "dir" # "file"
  BY DEF Kind, Item
<1>3. /\ DriveOk(e) /\ Prolongs(e, d)
      /\ e.contents = d.contents /\ e.content = d.content
      /\ FilesIn(e, DOMAIN d.content)
  BY <1>1, <1>2, MoveFacts
<1> HIDE DEF e
<1>4. Logged(e)
  BY <1>1, <1>3 DEF Logged
<1>5. Continued(d, e)
  BY <1>1, <1>3, <1>4 DEF MountedDrive, Continued
<1>6. QED BY <1>5 DEF e

\* What a save of any replica, and the creation of a file, add to the log.
Longer(d, e, n, cid) ==
    /\ Continued(d, e) /\ n \in DOMAIN e.content
    /\ Len(e.contents) = Len(d.contents) + 1
    /\ e.contents[Len(d.contents) + 1].op.id = n
    /\ e.contents[Len(d.contents) + 1].op.cid = cid

LEMMA SavedMounted ==
  ASSUME NEW d, MountedDrive(d), NEW r \in Nat, NEW n, NEW cid \in Object, NEW at
  PROVE  Longer(d, EmitContent(d, r, SetOp(n, cid, at)), n, cid)
<1> DEFINE op == SetOp(n, cid, at)
           e == EmitContent(d, r, op)
<1>1. DriveOk(d) /\ Logged(d) /\ FilesIn(d, DOMAIN d.content)
  BY DEF MountedDrive
<1>2. op.id = n /\ op.cid = cid
  BY DEF SetOp
<1>3. /\ DriveOk(e) /\ Logged(e) /\ Prolongs(e, d) /\ e.moves = d.moves
      /\ DOMAIN e.content = DOMAIN d.content \cup {n}
      /\ Len(e.contents) = Len(d.contents) + 1
      /\ e.contents[Len(d.contents) + 1].op = op
  BY <1>1, SaveFacts
<1> HIDE DEF e, op
<1>4. FilesIn(e, DOMAIN e.content)
  BY <1>1, <1>3 DEF FilesIn
<1>5. Longer(d, e, n, cid)
  BY <1>2, <1>3, <1>4 DEF MountedDrive, Continued, Longer
<1>6. QED BY <1>5 DEF e, op

SaveGrows(d, e, n, op) ==
    /\ DriveOk(e) /\ Logged(e) /\ Prolongs(e, d) /\ e.moves = d.moves
    /\ DOMAIN e.content = DOMAIN d.content \cup {n}
    /\ Len(e.contents) = Len(d.contents) + 1
    /\ e.contents[Len(d.contents) + 1].op = op

LEMMA SavesGrow ==
  ASSUME NEW d, DriveOk(d), Logged(d), NEW r \in Nat, NEW n, NEW cid \in Object, NEW at
  PROVE  SaveGrows(d, EmitContent(d, r, SetOp(n, cid, at)), n, SetOp(n, cid, at))
BY SaveFacts DEF SaveGrows

LEMMA AddedMounted ==
  ASSUME NEW d, MountedDrive(d), NEW id \in NodeId, NEW parent \in Place, NEW name \in AnyName,
         NEW cid \in Object, NEW at
  PROVE  Longer(d, EmitContent(EmitMove(d, Me, id, parent, name, "file"), Me,
                               SetOp(id, cid, at)), id, cid)
<1> DEFINE op == SetOp(id, cid, at)
           moved == EmitMove(d, Me, id, parent, name, "file")
           e == EmitContent(moved, Me, op)
           S == DOMAIN d.content \cup {id}
<1>1. DriveOk(d) /\ Logged(d) /\ FilesIn(d, DOMAIN d.content)
  BY DEF MountedDrive
<1>2. "file" \in Kind /\ id \in Item /\ op.id = id /\ op.cid = cid
  BY DEF Kind, Item, SetOp
<1>3. FilesIn(d, S)
  BY <1>1 DEF FilesIn
<1> HIDE DEF S
<1>4. /\ DriveOk(moved) /\ Prolongs(moved, d)
      /\ moved.contents = d.contents /\ moved.content = d.content
      /\ FilesIn(moved, S)
  <2>1. id \in S
    BY DEF S
  <2>2. QED BY <1>1, <1>2, <1>3, <2>1, MoveFacts
<1> HIDE DEF moved
<1>5. Logged(moved)
  BY <1>1, <1>4 DEF Logged
<1>6. /\ DriveOk(e) /\ Logged(e) /\ Prolongs(e, moved) /\ e.moves = moved.moves
      /\ DOMAIN e.content = DOMAIN moved.content \cup {id}
      /\ Len(e.contents) = Len(moved.contents) + 1
      /\ e.contents[Len(moved.contents) + 1].op = op
  <2>1. Me \in Nat /\ DriveOk(moved)
    BY <1>4, WriterIsReplica
  <2>2. SaveGrows(moved, EmitContent(moved, Me, SetOp(id, cid, at)), id, SetOp(id, cid, at))
    BY <1>5, <2>1, SavesGrow, Zenon
  <2>3. QED BY <2>2 DEF SaveGrows
<1> HIDE DEF e, op
<1>7. FilesIn(e, DOMAIN e.content)
  BY <1>4, <1>6 DEF FilesIn, S
<1>8. Continued(moved, e)
  BY <1>6, <1>7 DEF MountedDrive, Continued
<1>9. Continued(d, e)
  BY <1>1, <1>4, <1>8, ContinuedOn
<1>10. Longer(d, e, id, cid)
  BY <1>2, <1>4, <1>6, <1>9 DEF Longer
<1>11. QED BY <1>10 DEF e, moved, op

LEMMA NewDriveMounted == MountedDrive(NewDrive)
<1>1. Logged(NewDrive) /\ \A S : FilesIn(NewDrive, S)
  BY DEF Logged, FilesIn, NewDrive, NoContent
<1>2. QED BY <1>1, NewDriveOk DEF MountedDrive

IsFilling(f, cid, at, k) ==
    f = [i \in 0 .. k |-> IF i = 0 THEN NewDrive ELSE WithFile(f[i - 1], Mounted[i], cid, at)]

LEMMA FillingExists ==
  ASSUME NEW cid, NEW at, NEW k \in Nat
  PROVE  \E f : IsFilling(f, cid, at, k)
<1> DEFINE T == {l \in Nat : ~ \E f : IsFilling(f, cid, at, l)}
<1> SUFFICES ASSUME T # {} PROVE FALSE
  OBVIOUS
<1>1. PICK l \in T : \A j \in T : l <= j
  BY LeastNat
<1>2. l # 0
  <2>1. IsFilling([i \in 0 .. 0 |-> NewDrive], cid, at, 0)
    BY DEF IsFilling
  <2>2. QED BY <2>1
<1>3. l \in Nat /\ l - 1 \in Nat /\ 0 .. l - 1 \subseteq 0 .. l /\ ~(l <= l - 1)
  BY <1>2
<1>4. PICK f : IsFilling(f, cid, at, l - 1)
  BY <1>1, <1>3
<1> DEFINE g == [i \in 0 .. l |-> IF i = l THEN WithFile(f[l - 1], Mounted[l], cid, at) ELSE f[i]]
<1>5. \A i \in 0 .. l - 1 :
         f[i] = IF i = 0 THEN NewDrive ELSE WithFile(f[i - 1], Mounted[i], cid, at)
  BY <1>4 DEF IsFilling
<1>6. g = [i \in 0 .. l |-> IF i = 0 THEN NewDrive ELSE WithFile(g[i - 1], Mounted[i], cid, at)]
  BY <1>2, <1>3, <1>5
<1>7. IsFilling(g, cid, at, l)
  <2> HIDE DEF g
  <2>1. QED BY <1>6 DEF IsFilling
<1>8. QED BY <1>1, <1>7

LEMMA WithFileMounted ==
  ASSUME NEW d, MountedDrive(d), NEW name \in AnyName, NEW cid \in Object, NEW at
  PROVE  MountedDrive(WithFile(d, name, cid, at))
<1> DEFINE id == <<d.lamport + 1, 0>>
           e == EmitContent(EmitMove(d, Me, id, ROOT, name, "file"), Me, SetOp(id, cid, at))
<1>1. d.lamport \in Nat
  BY DEF MountedDrive, DriveOk
<1>2. id \in NodeId /\ ROOT \in Place
  BY <1>1 DEF NodeId, OwnId, Place
<1>3. WithFile(d, name, cid, at) = e
  BY DEF WithFile
<1> HIDE DEF id
<1>4. Longer(d, e, id, cid)
  BY <1>2, AddedMounted
<1> HIDE DEF e
<1>5. QED BY <1>3, <1>4 DEF Longer, Continued

LEMMA WithFilesMounted ==
  ASSUME NEW cid \in Object, NEW at
  PROVE  MountedDrive(WithFiles(cid, at))
<1> DEFINE L == Len(Mounted)
           f == CHOOSE h : IsFilling(h, cid, at, L)
           T == {k \in 0 .. L : ~MountedDrive(f[k])}
<1>1. L \in Nat /\ \A i \in 1 .. L : Mounted[i] \in AnyName
  BY WriterAssumption
<1>2. WithFiles(cid, at) = f[L]
  BY DEF WithFiles, IsFilling
<1> HIDE DEF L
<1>3. IsFilling(f, cid, at, L)
  BY <1>1, FillingExists
<1> HIDE DEF f
<1>4. \A i \in 0 .. L : f[i] = IF i = 0 THEN NewDrive ELSE WithFile(f[i - 1], Mounted[i], cid, at)
  BY <1>3 DEF IsFilling
<1>5. ASSUME T # {} PROVE FALSE
  <2>1. PICK k \in T : \A j \in T : k <= j
    <3>1. T \in SUBSET Nat
      BY <1>1
    <3> HIDE DEF T
    <3>2. QED BY <1>5, <3>1, LeastNat
  <2>2. k # 0
    <3>1. 0 \in 0 .. L
      BY <1>1
    <3>2. f[0] = NewDrive
      BY <1>4, <3>1
    <3>3. QED BY <2>1, <3>2, NewDriveMounted
  <2>3. k - 1 \in 0 .. L /\ k \in 0 .. L /\ ~(k <= k - 1) /\ Mounted[k] \in AnyName
    BY <1>1, <2>1, <2>2
  <2>4. MountedDrive(f[k - 1])
    BY <2>1, <2>3
  <2>5. f[k] = WithFile(f[k - 1], Mounted[k], cid, at)
    BY <1>4, <2>2, <2>3
  <2>6. QED BY <2>1, <2>3, <2>4, <2>5, WithFileMounted
<1>6. L \in 0 .. L
  BY <1>1
<1>7. QED BY <1>2, <1>5, <1>6

\* The positions of the log that both have give the same bytes.
LEMMA BytesStay ==
  ASSUME NEW d, DriveOk(d), NEW e, Prolongs(e, d), NEW n, NEW j \in 0 .. Len(d.contents)
  PROVE  BytesAt(e.contents, j, n) = BytesAt(d.contents, j, n)
<1>1. \A i \in 1 .. j : e.contents[i] = d.contents[i]
  BY LogLength DEF Prolongs
<1>2. SubSeq(e.contents, 1, j) = SubSeq(d.contents, 1, j)
  <2>1. j \in Nat
    BY LogLength
  <2>2. \A s : SubSeq(s, 1, j) = [i \in 1 .. j |-> s[i]]
    BY <2>1
  <2>3. QED BY <1>1, <2>2
<1>3. QED BY <1>2 DEF BytesAt

\* The whole log gives the current bytes.
LEMMA BytesNow ==
  ASSUME NEW d, DriveOk(d), NEW n
  PROVE  BytesAt(d.contents, Len(d.contents), n)
            = IF n \in DOMAIN d.content THEN Bytes(d.content[n].cid) ELSE {}
<1>1. SubSeq(d.contents, 1, Len(d.contents)) = d.contents
  BY LogLength
<1>2. d.content = FoldContent(d.contents)
  BY DEF DriveOk
<1>3. QED BY <1>1, <1>2 DEF BytesAt


-----------------------------------------------------------------------------
(* What stays true of handles and calls while the log grows *)

LEMMA ContinuedSelf ==
  ASSUME NEW d, MountedDrive(d)
  PROVE  Continued(d, d)
<1>1. Len(d.contents) \in Nat
  BY LogLength DEF MountedDrive
<1>2. QED BY <1>1 DEF Continued, Prolongs

LEMMA BytesOfObjects ==
  /\ \A cid \in Object : Bytes(cid) \in SUBSET Edit
  /\ \A bytes \in SUBSET Edit : CidOf(bytes) \in Object /\ Bytes(CidOf(bytes)) = bytes
<1>1. ASSUME NEW bytes \in SUBSET Edit
      PROVE  CidOf(bytes) \in Object /\ Bytes(CidOf(bytes)) = bytes
  <2>1. CidOf(bytes) # NoCid /\ \A b \in SUBSET Edit : CidOf(b) = CidOf(bytes) => b = bytes
    BY ObjectAssumption
  <2> DEFINE c == CidOf(bytes)
  <2>2. Bytes(c) = CHOOSE b \in SUBSET Edit : CidOf(b) = c
    BY <2>1 DEF Bytes
  <2>3. \E b \in SUBSET Edit : CidOf(b) = c
    OBVIOUS
  <2>4. \A b \in SUBSET Edit : CidOf(b) = c => b = bytes
    BY <2>1
  <2>5. (CHOOSE b \in SUBSET Edit : CidOf(b) = c) = bytes
    <3> HIDE DEF c
    <3>1. QED BY <2>3, <2>4
  <2>6. QED BY <2>2, <2>5 DEF Object
<1>2. Bytes(NoCid) \in SUBSET Edit
  BY DEF Bytes
<1>3. QED BY <1>1, <1>2 DEF Object

LEMMA VersionStays ==
  ASSUME NEW d, MountedDrive(d), NEW e, Continued(d, e), NEW n, NEW bytes,
         IsVersion(d, n, bytes)
  PROVE  IsVersion(e, n, bytes)
<1>1. PICK i \in 1 .. Len(d.contents) :
         d.contents[i].op.id = n /\ Bytes(d.contents[i].op.cid) = bytes
  BY DEF IsVersion
<1>2. Len(d.contents) \in Nat /\ Len(e.contents) \in Nat /\ Len(d.contents) <= Len(e.contents)
  BY LogLength DEF MountedDrive, Continued, Prolongs
<1>3. i \in 1 .. Len(e.contents) /\ e.contents[i] = d.contents[i]
  BY <1>2 DEF Continued, Prolongs
<1>4. QED BY <1>1, <1>3 DEF IsVersion

\* What was current at a position of the log is still what was current there.
LEMMA PositionStays ==
  ASSUME NEW d, MountedDrive(d), NEW e, Continued(d, e), NEW n, NEW i \in Nat,
         NEW j \in i .. Len(d.contents)
  PROVE  j \in i .. Len(e.contents) /\ BytesAt(e.contents, j, n) = BytesAt(d.contents, j, n)
<1>1. /\ DriveOk(d) /\ Prolongs(e, d)
      /\ Len(d.contents) \in Nat /\ Len(e.contents) \in Nat /\ Len(d.contents) <= Len(e.contents)
  BY LogLength DEF MountedDrive, Continued, Prolongs
<1>2. j \in i .. Len(e.contents) /\ j \in 0 .. Len(d.contents)
  BY <1>1
<1>3. BytesAt(e.contents, j, n) = BytesAt(d.contents, j, n)
  BY <1>1, <1>2, BytesStay, Zenon
<1>4. QED BY <1>2, <1>3

LEMMA CurrentStays ==
  ASSUME NEW d, MountedDrive(d), NEW e, Continued(d, e), NEW n, NEW bytes, NEW i \in Nat,
         CurrentSince(d, n, bytes, i)
  PROVE  CurrentSince(e, n, bytes, i)
<1>1. PICK j \in i .. Len(d.contents) : bytes = BytesAt(d.contents, j, n)
  BY DEF CurrentSince
<1>2. /\ DriveOk(d) /\ Prolongs(e, d)
      /\ Len(d.contents) \in Nat /\ Len(e.contents) \in Nat /\ Len(d.contents) <= Len(e.contents)
  BY LogLength DEF MountedDrive, Continued, Prolongs
<1>3. j \in i .. Len(e.contents) /\ j \in 0 .. Len(d.contents)
  BY <1>2
<1>4. BytesAt(e.contents, j, n) = BytesAt(d.contents, j, n)
  BY <1>2, <1>3, BytesStay, Zenon
<1>5. QED BY <1>1, <1>3, <1>4 DEF CurrentSince

LEMMA HandleStays ==
  ASSUME NEW d, MountedDrive(d), NEW e, Continued(d, e), NEW h, HandleOk(h, d)
  PROVE  HandleOk(h, e)
<1>1. /\ Len(d.contents) \in Nat /\ Len(e.contents) \in Nat /\ Len(d.contents) <= Len(e.contents)
      /\ DOMAIN d.content \subseteq DOMAIN e.content
  BY LogLength DEF MountedDrive, Continued, Prolongs
<1>2. /\ h = [node |-> h.node, buf |-> h.buf, dirty |-> h.dirty, own |-> h.own,
              whole |-> h.whole, since |-> h.since, late |-> h.late]
      /\ h.dirty \in BOOLEAN /\ h.whole \in BOOLEAN /\ h.late \in BOOLEAN
      /\ h.buf \in (SUBSET Edit) \cup {Nil} /\ h.own \in SUBSET Edit
      /\ h.buf = Nil => ~h.dirty /\ ~h.whole /\ ~h.late /\ h.own = {}
  BY DEF HandleOk
<1>3. h.node \in DOMAIN e.content /\ h.since \in Nat /\ h.since <= Len(e.contents)
  BY <1>1 DEF HandleOk
<1>4. ASSUME h.buf # Nil
      PROVE  IF h.whole THEN h.buf = h.own
             ELSE \E i \in h.since .. Len(e.contents) :
                     h.buf = BytesAt(e.contents, i, h.node) \cup h.own
  <2>1. CASE h.whole
    BY <1>4, <2>1 DEF HandleOk
  <2>2. CASE ~h.whole
    <3>1. PICK i \in h.since .. Len(d.contents) : h.buf = BytesAt(d.contents, i, h.node) \cup h.own
      BY <1>4, <2>2 DEF HandleOk
    <3>2. i \in h.since .. Len(e.contents)
          /\ BytesAt(e.contents, i, h.node) = BytesAt(d.contents, i, h.node)
      BY <1>3, PositionStays
    <3>3. QED BY <2>2, <3>1, <3>2
  <2>3. QED BY <2>1, <2>2
<1>5. ASSUME h.buf # Nil PROVE h.dirty \/ h.late \/ IsVersion(e, h.node, h.buf)
  <2>1. h.dirty \/ h.late \/ IsVersion(d, h.node, h.buf)
    BY <1>5 DEF HandleOk
  <2>2. QED BY <2>1, VersionStays
<1>6. QED BY <1>2, <1>3, <1>4, <1>5 DEF HandleOk

\* A call that is under way finds its handle as it needs it, or closed.
Tame(c, hs, gs) ==
    c.fh \in DOMAIN gs =>
        /\ c.fh \in DOMAIN hs
        /\ gs[c.fh].node = hs[c.fh].node /\ gs[c.fh].since = hs[c.fh].since
        /\ hs[c.fh].buf # Nil => gs[c.fh].buf # Nil
        /\ hs[c.fh].late => gs[c.fh].late
        /\ c.pc = "upload" /\ hs[c.fh].buf # Nil =>
              gs[c.fh].late \/ gs[c.fh].buf = hs[c.fh].buf

LEMMA CallStays ==
  ASSUME NEW d, MountedDrive(d), NEW e, Continued(d, e), NEW hs, NEW gs, NEW c,
         NEW n \in Nat, NEW m \in Nat, n <= m, CallOk(c, hs, n, d),
         \A fh \in DOMAIN hs : hs[fh].since \in Nat,
         c # Returned => Tame(c, hs, gs)
  PROVE  CallOk(c, gs, m, e)
<1> SUFFICES ASSUME c # Returned
             PROVE  CallOk(c, gs, m, e)
  BY DEF CallOk
<1>1. /\ c.pc \in {"fetch", "apply", "upload", "close"} /\ c.fh \in 1 .. m
      /\ c.pc \in {"fetch", "apply"} => c.intent \in Intents
  BY DEF CallOk
<1>2. DOMAIN d.content \subseteq DOMAIN e.content
  BY DEF Continued, Prolongs
<1> DEFINE f == c.fh
<1>3. ASSUME c.pc = "fetch"
      PROVE  /\ Bytes(c.cid) \in SUBSET Edit
             /\ f \in DOMAIN gs =>
                   /\ CurrentSince(e, gs[f].node, Bytes(c.cid), gs[f].since)
                   /\ IsVersion(e, gs[f].node, Bytes(c.cid))
  <2>1. Bytes(c.cid) \in SUBSET Edit
    BY <1>3 DEF CallOk
  <2>2. ASSUME f \in DOMAIN gs
        PROVE  /\ CurrentSince(e, gs[f].node, Bytes(c.cid), gs[f].since)
               /\ IsVersion(e, gs[f].node, Bytes(c.cid))
    <3>1. f \in DOMAIN hs /\ gs[f].node = hs[f].node /\ gs[f].since = hs[f].since
      BY <2>2 DEF Tame
    <3>2. /\ CurrentSince(d, hs[f].node, Bytes(c.cid), hs[f].since)
          /\ IsVersion(d, hs[f].node, Bytes(c.cid))
      BY <1>3, <3>1 DEF CallOk
    <3>3. hs[f].since \in Nat
      BY <3>1
    <3>4. QED BY <3>1, <3>2, <3>3, CurrentStays, VersionStays
  <2>3. QED BY <2>1, <2>2
<1>4. c.pc = "apply" => c.intent.type # "read" /\ (f \in DOMAIN gs => gs[f].buf # Nil)
  BY DEF CallOk, Tame
<1>5. ASSUME c.pc = "upload"
      PROVE  /\ c.node \in DOMAIN e.content /\ c.bytes \in SUBSET Edit
             /\ f \in DOMAIN gs => c.node = gs[f].node /\ (c.bytes = gs[f].buf \/ gs[f].late)
  <2>1. c.node \in DOMAIN e.content /\ c.bytes \in SUBSET Edit
    BY <1>2, <1>5 DEF CallOk
  <2>2. ASSUME f \in DOMAIN gs
        PROVE  c.node = gs[f].node /\ (c.bytes = gs[f].buf \/ gs[f].late)
    <3>1. /\ f \in DOMAIN hs /\ gs[f].node = hs[f].node
          /\ hs[f].late => gs[f].late
          /\ hs[f].buf # Nil => gs[f].late \/ gs[f].buf = hs[f].buf
      BY <1>5, <2>2 DEF Tame
    <3>2. c.node = hs[f].node /\ (c.bytes = hs[f].buf \/ hs[f].late)
      BY <1>5, <3>1 DEF CallOk
    <3>3. c.bytes # Nil
      BY <2>1, ObjectAssumption
    <3>4. QED BY <3>1, <3>2, <3>3
  <2>3. QED BY <2>1, <2>2
<1>6. QED BY <1>1, <1>3, <1>4, <1>5 DEF CallOk


-----------------------------------------------------------------------------
(* The steps of the engine *)

\* The drive goes on, or stays.
DriveGoesOn ==
    /\ drive' = [r \in Replica |-> drive'[r]] /\ Continued(drive[Me], drive'[Me])
    /\ fresh' \in [Replica -> Nat]

\* What a step of the engine keeps: all but the answers to the kernel.
EngineInv == DriveInv /\ HandlesInv /\ CallsInv /\ FuseInv

\* A step that begins a request finds none under way in a fuse mount.
Begins == os = "fuse" => NoRequest

LEMMA DriveStays ==
  ASSUME DriveInv, drive' = drive, fresh' = fresh
  PROVE  DriveGoesOn
BY ContinuedSelf DEF DriveInv, DriveGoesOn

LEMMA DriveInvNext ==
  ASSUME DriveGoesOn
  PROVE  DriveInv'
BY DEF DriveGoesOn, DriveInv, Continued

LEMMA HandlesFacts ==
  ASSUME EngineInv, DriveGoesOn
  PROVE  /\ MountedDrive(drive[Me]) /\ Continued(drive[Me], drive'[Me]) /\ opened \in Nat
         /\ \A fh \in DOMAIN handles :
               /\ HandleOk(handles[fh], drive[Me]) /\ HandleOk(handles[fh], drive'[Me])
               /\ handles[fh].since \in Nat /\ fh \in 1 .. opened
<1>1. MountedDrive(drive[Me]) /\ Continued(drive[Me], drive'[Me]) /\ opened \in Nat
  BY DEF EngineInv, DriveInv, HandlesInv, DriveGoesOn
<1>2. \A fh \in DOMAIN handles : HandleOk(handles[fh], drive[Me]) /\ fh \in 1 .. opened
  BY DEF EngineInv, HandlesInv
<1>3. \A fh \in DOMAIN handles : handles[fh].since \in Nat
  BY <1>2 DEF HandleOk
<1>4. QED BY <1>1, <1>2, <1>3, HandleStays

\* The calls that a step leaves alone.
LEMMA OthersStay ==
  ASSUME EngineInv, DriveGoesOn, opened' \in Nat, opened <= opened', NEW k \in Call,
         call[k] # Returned => Tame(call[k], handles, handles')
  PROVE  CallOk(call[k], handles', opened', drive'[Me])
<1>1. CallOk(call[k], handles, opened, drive[Me])
  BY DEF EngineInv, CallsInv
<1>2. QED BY <1>1, HandlesFacts, CallStays

LEMMA SameHandlesTame ==
  ASSUME NEW c, NEW hs
  PROVE  Tame(c, hs, hs)
BY DEF Tame

\* A step that only moves the drive.
LEMMA DriveStepKeeps ==
  ASSUME EngineInv, DriveGoesOn, UNCHANGED <<handles, opened, call, os>>
  PROVE  EngineInv'
<1>1. DriveInv'
  BY DriveInvNext
<1>2. HandlesInv'
  BY HandlesFacts DEF EngineInv, HandlesInv
<1>3. CallsInv'
  <2>1. opened' \in Nat /\ opened <= opened'
    BY HandlesFacts
  <2>2. \A k \in Call : CallOk(call[k], handles', opened', drive'[Me])
    BY <2>1, SameHandlesTame, OthersStay
  <2>3. QED BY <2>2 DEF EngineInv, CallsInv
<1>4. FuseInv'
  BY DEF EngineInv, FuseInv, OneRequest
<1>5. QED BY <1>1, <1>2, <1>3, <1>4 DEF EngineInv

\* A handle that is opened.
LEMMA OpenedKeeps ==
  ASSUME EngineInv, DriveGoesOn, NEW h, HandleOk(h, drive'[Me]), ~h.late,
         handles' = WithHandle(h), opened' = opened + 1, UNCHANGED <<call, os>>
  PROVE  EngineInv'
<1>1. DriveInv'
  BY DriveInvNext
<1>2. opened \in Nat /\ DOMAIN handles \subseteq 1 .. opened
  BY DEF EngineInv, HandlesInv
<1>3. /\ opened' \in Nat /\ opened <= opened' /\ opened + 1 \notin 1 .. opened
      /\ 1 .. opened \subseteq 1 .. opened' /\ opened + 1 \in 1 .. opened'
  BY <1>2
<1>4. /\ handles' = [fh \in DOMAIN handles' |-> handles'[fh]]
      /\ DOMAIN handles' = DOMAIN handles \cup {opened + 1}
      /\ handles'[opened + 1] = h
      /\ \A fh \in DOMAIN handles : handles'[fh] = handles[fh]
  <2>1. \A fh \in DOMAIN handles : fh # opened + 1
    BY <1>2, <1>3
  <2>2. QED BY <2>1 DEF WithHandle
<1>5. HandlesInv'
  <2>1. \A fh \in DOMAIN handles' : HandleOk(handles'[fh], drive'[Me])
    BY <1>4, HandlesFacts
  <2>2. DOMAIN handles' \subseteq 1 .. opened'
    BY <1>2, <1>3, <1>4
  <2>3. QED BY <1>3, <1>4, <2>1, <2>2 DEF HandlesInv
<1>6. CallsInv'
  <2>1. ASSUME NEW k \in Call, call[k] # Returned PROVE Tame(call[k], handles, handles')
    <3>1. call[k].fh \in 1 .. opened
      BY <2>1 DEF EngineInv, CallsInv, CallOk
    <3>2. QED BY <1>3, <1>4, <3>1 DEF Tame
  <2>2. \A k \in Call : CallOk(call[k], handles', opened', drive'[Me])
    BY <1>3, <2>1, OthersStay
  <2>3. QED BY <2>2 DEF EngineInv, CallsInv
<1>7. FuseInv'
  BY <1>4 DEF EngineInv, FuseInv, OneRequest
<1>8. QED BY <1>1, <1>5, <1>6, <1>7 DEF EngineInv

\* One call goes on, and leaves the handles as they are or changes its own.
LEMMA CallStepKeeps ==
  ASSUME EngineInv, DriveGoesOn, NEW k \in Call, NEW c, call' = [call EXCEPT ![k] = c],
         UNCHANGED <<opened, os>>,
         handles' = [fh \in DOMAIN handles' |-> handles'[fh]],
         DOMAIN handles' \subseteq DOMAIN handles,
         \A fh \in DOMAIN handles' : HandleOk(handles'[fh], drive'[Me]),
         \A l \in Call \ {k} : call[l] # Returned => Tame(call[l], handles, handles'),
         CallOk(c, handles', opened, drive'[Me]),
         os = "fuse" => NoRequest \/ call[k].pc # "idle",
         os = "fuse" => \A fh \in DOMAIN handles' : ~handles'[fh].late
  PROVE  EngineInv'
<1>1. DriveInv'
  BY DriveInvNext
<1>2. opened \in Nat /\ DOMAIN handles \subseteq 1 .. opened
  BY DEF EngineInv, HandlesInv
<1>3. HandlesInv'
  BY <1>2 DEF HandlesInv
<1>4. /\ call' = [l \in Call |-> call'[l]] /\ call'[k] = c
      /\ \A l \in Call \ {k} : call'[l] = call[l]
  BY DEF EngineInv, CallsInv
<1>5. CallsInv'
  <2>1. opened' \in Nat /\ opened <= opened' /\ opened' = opened
    BY <1>2
  <2>2. \A l \in Call \ {k} : CallOk(call[l], handles', opened', drive'[Me])
    BY <2>1, OthersStay
  <2>3. \A l \in Call : CallOk(call'[l], handles', opened', drive'[Me])
    BY <1>4, <2>1, <2>2
  <2>4. QED BY <1>4, <2>3 DEF CallsInv
<1>6. FuseInv'
  <2> SUFFICES ASSUME os = "fuse"
               PROVE  OneRequest' /\ \A fh \in DOMAIN handles' : ~handles'[fh].late
    BY DEF FuseInv
  <2>1. \A l \in Call \ {k} : call[l].pc = "idle"
    BY DEF EngineInv, FuseInv, OneRequest, NoRequest
  <2>2. OneRequest'
    BY <1>4, <2>1 DEF OneRequest
  <2>3. QED BY <2>2
<1>7. QED BY <1>1, <1>3, <1>5, <1>6 DEF EngineInv


LEMMA HydratedOk ==
  ASSUME NEW fh \in 1 .. opened, NEW gs, NEW d, NEW intent \in Intents,
         fh \in DOMAIN gs => gs[fh].buf # Nil
  PROVE  CallOk(Hydrated(fh, intent), gs, opened, d)
<1>1. CASE intent.type = "read"
  BY <1>1 DEF Hydrated, CallOk
<1>2. CASE intent.type # "read"
  <2> DEFINE c == [pc |-> "apply", fh |-> fh, intent |-> intent]
  <2>1. Hydrated(fh, intent) = c
    BY <1>2 DEF Hydrated
  <2>2. c.pc = "apply" /\ c.fh = fh /\ c.intent = intent
    OBVIOUS
  <2> HIDE DEF c
  <2>3. CallOk(c, gs, opened, d)
    BY <1>2, <2>2 DEF CallOk
  <2>4. QED BY <2>1, <2>3
<1>3. QED BY <1>1, <1>2

LEMMA AccessKeeps ==
  ASSUME EngineInv, Begins, NEW k \in Call, NEW fh \in DOMAIN handles, NEW intent \in Intents,
         Access(k, fh, intent), UNCHANGED os
  PROVE  EngineInv'
<1> DEFINE d == drive[Me]
           n == handles[fh].node
           cid == d.content[n].cid
           fetch == [pc |-> "fetch", fh |-> fh, intent |-> intent, cid |-> cid]
           c == IF handles[fh].buf # Nil THEN Hydrated(fh, intent) ELSE fetch
<1>1. DriveGoesOn
  BY DriveStays DEF EngineInv, Access
<1>2. /\ MountedDrive(d) /\ HandleOk(handles[fh], d) /\ opened \in Nat /\ fh \in 1 .. opened
      /\ \A g \in DOMAIN handles : HandleOk(handles[g], d)
  BY <1>1, HandlesFacts
<1>3. n \in DOMAIN d.content /\ handles[fh].since \in Nat
      /\ handles[fh].since <= Len(d.contents)
  BY <1>2 DEF HandleOk
<1>4. /\ call' = [call EXCEPT ![k] = c] /\ handles' = handles /\ opened' = opened
      /\ drive' = drive /\ fresh' = fresh
  BY <1>3 DEF Access
<1>5. CallOk(fetch, handles, opened, d)
  <2>1. PICK i \in 1 .. Len(d.contents) : d.contents[i].op.id = n /\ d.contents[i].op.cid = cid
    BY <1>2, <1>3 DEF MountedDrive, Logged
  <2>2. IsVersion(d, n, Bytes(cid))
    BY <2>1 DEF IsVersion
  <2>3. Bytes(cid) \in SUBSET Edit
    BY <1>2, <2>1, BytesOfObjects DEF MountedDrive, Logged
  <2>4. CurrentSince(d, n, Bytes(cid), handles[fh].since)
    <3>1. DriveOk(d) /\ Len(d.contents) \in Nat
      BY <1>2, LogLength DEF MountedDrive
    <3>2. BytesAt(d.contents, Len(d.contents), n) = Bytes(cid)
      BY <1>3, <3>1, BytesNow
    <3>3. Len(d.contents) \in handles[fh].since .. Len(d.contents)
      BY <1>3, <3>1
    <3>4. QED BY <3>2, <3>3 DEF CurrentSince
  <2>5. /\ fetch.pc = "fetch" /\ fetch.fh = fh /\ fetch.intent = intent /\ fetch.cid = cid
    OBVIOUS
  <2> HIDE DEF fetch
  <2>6. QED BY <1>2, <2>2, <2>3, <2>4, <2>5 DEF CallOk
<1>6. CallOk(c, handles, opened, d)
  <2>1. CASE handles[fh].buf # Nil
    BY <1>2, <2>1, HydratedOk
  <2>2. CASE handles[fh].buf = Nil
    BY <1>5, <2>2
  <2>3. QED BY <2>1, <2>2
<1>7. os = "fuse" => NoRequest
  BY DEF Begins
<1>8. os = "fuse" => \A g \in DOMAIN handles : ~handles[g].late
  BY DEF EngineInv, FuseInv
<1>9. handles = [g \in DOMAIN handles |-> handles[g]]
  BY DEF EngineInv, HandlesInv
<1> HIDE DEF c
<1>10. QED BY <1>1, <1>2, <1>4, <1>6, <1>7, <1>8, <1>9, SameHandlesTame, CallStepKeeps

\* A call that ends, or goes on to close its handle.
LEMMA PassedKeeps ==
  ASSUME EngineInv, DriveGoesOn, NEW k \in Call, NEW c, call' = [call EXCEPT ![k] = c],
         c = Returned \/ (\E fh \in 1 .. opened : c = [pc |-> "close", fh |-> fh]),
         UNCHANGED <<handles, opened, os>>,
         os = "fuse" => NoRequest \/ call[k].pc # "idle"
  PROVE  EngineInv'
<1>1. CallOk(c, handles, opened, drive'[Me])
  BY DEF CallOk
<1>2. \A g \in DOMAIN handles : HandleOk(handles[g], drive'[Me])
  BY HandlesFacts
<1>3. os = "fuse" => \A g \in DOMAIN handles : ~handles[g].late
  BY DEF EngineInv, FuseInv
<1>4. handles = [g \in DOMAIN handles |-> handles[g]]
  BY DEF EngineInv, HandlesInv
<1>5. QED BY <1>1, <1>2, <1>3, <1>4, SameHandlesTame, CallStepKeeps

LEMMA CallEnds ==
  ASSUME EngineInv, NEW k \in Call, FetchFailed(k) \/ UploadFailed(k), UNCHANGED os
  PROVE  EngineInv'
<1>1. DriveGoesOn
  BY DriveStays DEF EngineInv, FetchFailed, UploadFailed
<1>2. call[k].pc # "idle" /\ UNCHANGED <<handles, opened>>
  BY DEF FetchFailed, UploadFailed
<1>3. call' = [call EXCEPT ![k] = Returned]
  BY DEF FetchFailed, UploadFailed, Returns
<1>4. QED BY <1>1, <1>2, <1>3, PassedKeeps

LEMMA FlushKeeps ==
  ASSUME EngineInv, Begins, NEW k \in Call, NEW fh \in DOMAIN handles, NEW closing, NEW at,
         Flush(k, fh, closing, at), UNCHANGED os
  PROVE  EngineInv'
<1> DEFINE d == drive[Me]
           h == handles[fh]
           upload == [pc |-> "upload", fh |-> fh, closing |-> closing, node |-> h.node,
                      bytes |-> h.buf, at |-> at]
<1>1. DriveGoesOn
  BY DriveStays DEF EngineInv, Flush
<1>2. /\ MountedDrive(d) /\ HandleOk(h, d) /\ opened \in Nat /\ fh \in 1 .. opened
      /\ \A g \in DOMAIN handles : HandleOk(handles[g], d)
  BY <1>1, HandlesFacts
<1>3. UNCHANGED <<handles, opened>> /\ drive' = drive
  BY DEF Flush
<1>4. os = "fuse" => NoRequest
  BY DEF Begins
<1>5. CASE ~h.dirty
  <2> DEFINE c == IF closing THEN [pc |-> "close", fh |-> fh] ELSE Returned
  <2>1. call' = [call EXCEPT ![k] = c]
    BY <1>5 DEF Flush
  <2>2. c = Returned \/ (\E g \in 1 .. opened : c = [pc |-> "close", fh |-> g])
    BY <1>2
  <2> HIDE DEF c
  <2>3. QED BY <1>1, <1>3, <1>4, <2>1, <2>2, PassedKeeps
<1>6. CASE h.dirty
  <2>1. call' = [call EXCEPT ![k] = upload]
    BY <1>6 DEF Flush
  <2>2. h.buf \in SUBSET Edit /\ h.node \in DOMAIN d.content
    <3> HIDE DEF h
    <3>1. h.buf \in (SUBSET Edit) \cup {Nil} /\ h.node \in DOMAIN d.content
      BY <1>2 DEF HandleOk
    <3>2. h.buf = Nil => ~h.dirty
      BY <1>2, Zenon DEF HandleOk
    <3>3. h.buf # Nil
      BY <1>6, <3>2, Zenon
    <3>4. QED BY <3>1, <3>3
  <2>3. /\ upload.pc = "upload" /\ upload.fh = fh /\ upload.node = h.node
        /\ upload.bytes = h.buf
    OBVIOUS
  <2> HIDE DEF upload, h
  <2>4. CallOk(upload, handles, opened, d)
    BY <1>2, <2>2, <2>3 DEF CallOk, h
  <2>5. os = "fuse" => \A g \in DOMAIN handles : ~handles[g].late
    BY DEF EngineInv, FuseInv
  <2>6. handles = [g \in DOMAIN handles |-> handles[g]]
    BY DEF EngineInv, HandlesInv
  <2>7. QED BY <1>1, <1>2, <1>3, <1>4, <2>1, <2>4, <2>5, <2>6, SameHandlesTame, CallStepKeeps
<1>7. QED BY <1>5, <1>6

LEMMA CloseKeeps ==
  ASSUME EngineInv, NEW k \in Call, Close(k), UNCHANGED os
  PROVE  EngineInv'
<1> DEFINE fh == call[k].fh
<1>1. DriveGoesOn
  BY DriveStays DEF EngineInv, Close
<1>2. call' = [call EXCEPT ![k] = Returned] /\ call[k].pc # "idle" /\ opened' = opened
  BY DEF Close, Returns
<1>3. handles' = [g \in DOMAIN handles \ {fh} |-> handles[g]]
  BY DEF Close
<1>4. /\ DOMAIN handles' \subseteq DOMAIN handles
      /\ \A g \in DOMAIN handles' : handles'[g] = handles[g]
      /\ handles' = [g \in DOMAIN handles' |-> handles'[g]]
  BY <1>3
<1>5. \A g \in DOMAIN handles' : HandleOk(handles'[g], drive'[Me])
  BY <1>1, <1>4, HandlesFacts
<1>6. \A l \in Call \ {k} : Tame(call[l], handles, handles')
  BY <1>4 DEF Tame
<1>7. os = "fuse" => \A g \in DOMAIN handles' : ~handles'[g].late
  BY <1>4 DEF EngineInv, FuseInv
<1>8. CallOk(Returned, handles', opened, drive'[Me])
  BY DEF CallOk
<1>9. QED BY <1>1, <1>2, <1>4, <1>5, <1>6, <1>7, <1>8, CallStepKeeps


\* The fields of a handle as its record.
HandleOf(n, b, d, o, w, s, l) ==
    [node |-> n, buf |-> b, dirty |-> d, own |-> o, whole |-> w, since |-> s, late |-> l]

\* A handle whose buffer is there.
LEMMA HandleMade ==
  ASSUME NEW d, NEW n \in DOMAIN d.content, NEW b \in SUBSET Edit, NEW dirty \in BOOLEAN,
         NEW o \in SUBSET Edit, NEW w \in BOOLEAN, NEW s \in Nat, s <= Len(d.contents),
         NEW l \in BOOLEAN,
         IF w THEN b = o ELSE \E i \in s .. Len(d.contents) : b = BytesAt(d.contents, i, n) \cup o,
         dirty \/ l \/ IsVersion(d, n, b)
  PROVE  HandleOk(HandleOf(n, b, dirty, o, w, s, l), d)
<1> DEFINE h == HandleOf(n, b, dirty, o, w, s, l)
<1>1. h = [node |-> n, buf |-> b, dirty |-> dirty, own |-> o, whole |-> w, since |-> s, late |-> l]
  BY DEF HandleOf
<1>2. /\ h.node = n /\ h.buf = b /\ h.dirty = dirty /\ h.own = o /\ h.whole = w
      /\ h.since = s /\ h.late = l
  BY <1>1
<1> HIDE DEF h
<1>3. h = [node |-> h.node, buf |-> h.buf, dirty |-> h.dirty, own |-> h.own,
           whole |-> h.whole, since |-> h.since, late |-> h.late]
  BY <1>1, <1>2
<1>4. b # Nil
  BY ObjectAssumption
<1>5. IF h.whole THEN h.buf = h.own
      ELSE \E i \in h.since .. Len(d.contents) : h.buf = BytesAt(d.contents, i, h.node) \cup h.own
  BY <1>2
<1>6. h.dirty \/ h.late \/ IsVersion(d, h.node, h.buf)
  BY <1>2
<1>7. /\ h.dirty \in BOOLEAN /\ h.whole \in BOOLEAN /\ h.late \in BOOLEAN
      /\ h.buf \in (SUBSET Edit) \cup {Nil} /\ h.own \in SUBSET Edit
      /\ h.node \in DOMAIN d.content
      /\ h.since \in Nat /\ h.since <= Len(d.contents) /\ h.buf # Nil
  BY <1>2, <1>4
<1>8. QED BY <1>3, <1>5, <1>6, <1>7 DEF HandleOk, h

LEMMA FetchedKeeps ==
  ASSUME EngineInv, NEW k \in Call, Fetched(k), UNCHANGED os
  PROVE  EngineInv'
<1> DEFINE d == drive[Me]
           fh == call[k].fh
           h == handles[fh]
           b == Bytes(call[k].cid)
           c == Hydrated(fh, call[k].intent)
           g == HandleOf(h.node, b, h.dirty, h.own, h.whole, h.since, h.late)
<1>1. DriveGoesOn
  BY DriveStays DEF EngineInv, Fetched
<1>2. /\ MountedDrive(d) /\ opened \in Nat
      /\ \A f \in DOMAIN handles : HandleOk(handles[f], d)
  BY <1>1, HandlesFacts
<1>3. call[k].pc = "fetch" /\ call[k] # Returned
  BY DEF Fetched, Returned
<1>4. /\ fh \in 1 .. opened /\ call[k].intent \in Intents /\ b \in SUBSET Edit
      /\ fh \in DOMAIN handles => CurrentSince(d, h.node, b, h.since) /\ IsVersion(d, h.node, b)
  BY <1>3 DEF EngineInv, CallsInv, CallOk
<1>5. /\ call' = [call EXCEPT ![k] = c] /\ opened' = opened /\ drive' = drive
      /\ handles' = IF fh \in DOMAIN handles /\ h.buf = Nil
                    THEN [handles EXCEPT ![fh].buf = b] ELSE handles
  BY DEF Fetched
<1>6. os = "fuse" => \A f \in DOMAIN handles : ~handles[f].late
  BY DEF EngineInv, FuseInv
<1>7. handles = [f \in DOMAIN handles |-> handles[f]]
  BY DEF EngineInv, HandlesInv
<1>8. CASE fh \in DOMAIN handles /\ h.buf = Nil
  <2>1. handles' = [handles EXCEPT ![fh] = g]
    <3>1. h = [node |-> h.node, buf |-> h.buf, dirty |-> h.dirty, own |-> h.own,
               whole |-> h.whole, since |-> h.since, late |-> h.late]
      BY <1>2, <1>8 DEF HandleOk
    <3>2. handles' = [handles EXCEPT ![fh] = [h EXCEPT !.buf = b]]
      BY <1>5, <1>8
    <3> HIDE DEF h, b
    <3>3. [h EXCEPT !.buf = b] = HandleOf(h.node, b, h.dirty, h.own, h.whole, h.since, h.late)
      BY <3>1 DEF HandleOf
    <3>4. QED BY <3>2, <3>3
  <2>2. HandleOk(g, d) /\ g.late = h.late /\ g.buf # Nil /\ g.node = h.node /\ g.since = h.since
    <3> HIDE DEF h
    <3>1. /\ h.dirty \in BOOLEAN /\ h.whole \in BOOLEAN /\ h.late \in BOOLEAN
          /\ h.node \in DOMAIN d.content
          /\ h.since \in Nat /\ h.since <= Len(d.contents)
      BY <1>2, <1>8 DEF HandleOk, h
    <3>2. ~h.whole /\ h.own = {}
      BY <1>2, <1>8, Zenon DEF HandleOk, h
    <3>3. PICK i \in h.since .. Len(d.contents) : b = BytesAt(d.contents, i, h.node)
      BY <1>4, <1>8 DEF CurrentSince, h
    <3>4. IsVersion(d, h.node, b)
      BY <1>4, <1>8 DEF h
    <3>5. \E j \in h.since .. Len(d.contents) : b = BytesAt(d.contents, j, h.node) \cup h.own
      BY <3>2, <3>3
    <3>6. h.own \in SUBSET Edit
      BY <3>2
    <3>7. HandleOk(g, d)
      <4> HIDE DEF b
      <4>1. b \in SUBSET Edit
        BY <1>4 DEF b
      <4>2. QED BY <3>1, <3>2, <3>4, <3>5, <3>6, <4>1, HandleMade
    <3>8. g.late = h.late /\ g.node = h.node /\ g.since = h.since /\ g.buf = b
      BY DEF HandleOf
    <3>9. b # Nil
      BY <1>4, ObjectAssumption
    <3>10. QED BY <3>7, <3>8, <3>9
  <2> HIDE DEF g
  <2>3. /\ handles' = [f \in DOMAIN handles' |-> handles'[f]] /\ DOMAIN handles' = DOMAIN handles
        /\ handles'[fh] = g /\ \A f \in DOMAIN handles : f # fh => handles'[f] = handles[f]
    BY <1>7, <1>8, <2>1
  <2>4. \A f \in DOMAIN handles' : HandleOk(handles'[f], drive'[Me])
    BY <1>2, <1>5, <2>2, <2>3
  <2>5. os = "fuse" => \A f \in DOMAIN handles' : ~handles'[f].late
    BY <1>6, <1>8, <2>2, <2>3
  <2>6. \A l \in Call \ {k} : Tame(call[l], handles, handles')
    BY <1>8, <2>2, <2>3 DEF Tame
  <2>7. CallOk(c, handles', opened, drive'[Me])
    BY <1>4, <2>2, <2>3, HydratedOk
  <2> HIDE DEF c
  <2>8. QED BY <1>1, <1>3, <1>5, <2>3, <2>4, <2>5, <2>6, <2>7, CallStepKeeps
<1>9. CASE ~(fh \in DOMAIN handles /\ h.buf = Nil)
  <2>1. handles' = handles
    BY <1>5, <1>9
  <2>2. CallOk(c, handles', opened, drive'[Me])
    BY <1>4, <1>9, <2>1, HydratedOk
  <2> HIDE DEF c
  <2>3. QED BY <1>1, <1>2, <1>3, <1>5, <1>6, <1>7, <2>1, <2>2, SameHandlesTame, CallStepKeeps
<1>10. QED BY <1>8, <1>9


\* A call changes the handle it works on.
LEMMA OwnHandleKeeps ==
  ASSUME EngineInv, DriveGoesOn, NEW k \in Call, NEW c, call' = [call EXCEPT ![k] = c],
         UNCHANGED <<opened, os>>, call[k].pc # "idle",
         NEW fh \in DOMAIN handles, NEW g, handles' = [handles EXCEPT ![fh] = g],
         HandleOk(g, drive'[Me]), g.node = handles[fh].node, g.since = handles[fh].since,
         g.buf # Nil, handles[fh].late => g.late,
         \A l \in Call \ {k} :
            call[l].pc = "upload" /\ call[l].fh = fh => g.late \/ g.buf = handles[fh].buf,
         os = "fuse" => ~g.late,
         CallOk(c, handles', opened, drive'[Me])
  PROVE  EngineInv'
<1>1. /\ handles' = [f \in DOMAIN handles' |-> handles'[f]] /\ DOMAIN handles' = DOMAIN handles
      /\ handles'[fh] = g /\ \A f \in DOMAIN handles : f # fh => handles'[f] = handles[f]
  BY DEF EngineInv, HandlesInv
<1>2. \A f \in DOMAIN handles' : HandleOk(handles'[f], drive'[Me])
  BY <1>1, HandlesFacts
<1>3. os = "fuse" => \A f \in DOMAIN handles' : ~handles'[f].late
  BY <1>1 DEF EngineInv, FuseInv
<1>4. \A l \in Call \ {k} : Tame(call[l], handles, handles')
  BY <1>1 DEF Tame
<1>5. QED BY <1>1, <1>2, <1>3, <1>4, CallStepKeeps

LEMMA ApplyKeeps ==
  ASSUME EngineInv, NEW k \in Call, Apply(k), UNCHANGED os
  PROVE  EngineInv'
<1> DEFINE d == drive[Me]
           fh == call[k].fh
           h == handles[fh]
           writes == call[k].intent.type = "write"
           edits == call[k].intent.edits
           b == IF writes THEN h.buf \cup edits ELSE {}
           o == IF writes THEN h.own \cup edits ELSE {}
           w == h.whole \/ ~writes
           l == h.late \/ Uploading(fh)
           g == HandleOf(h.node, b, TRUE, o, w, h.since, l)
<1>1. DriveGoesOn
  BY DriveStays DEF EngineInv, Apply
<1>2. /\ MountedDrive(d) /\ opened \in Nat
      /\ \A f \in DOMAIN handles : HandleOk(handles[f], d)
  BY <1>1, HandlesFacts
<1>3. call[k].pc = "apply" /\ call[k] # Returned
  BY DEF Apply, Returned
<1>4. /\ fh \in 1 .. opened /\ call[k].intent \in Intents /\ call[k].intent.type # "read"
      /\ fh \in DOMAIN handles => h.buf # Nil
  BY <1>3 DEF EngineInv, CallsInv, CallOk
<1>5. edits \in SUBSET Edit /\ (call[k].intent.type = "truncate" <=> ~writes)
  BY <1>4 DEF Intents
<1>6. /\ call' = [call EXCEPT ![k] = Returned] /\ opened' = opened /\ drive' = drive
      /\ fh \notin DOMAIN handles => handles' = handles
  BY DEF Apply, Returns
<1>7. CallOk(Returned, handles', opened, drive'[Me])
  BY DEF CallOk
<1>8. CASE fh \in DOMAIN handles
  <2>1. handles' = [handles EXCEPT ![fh] = Written(h, call[k].intent, Uploading(fh))]
    BY <1>8, Zenon DEF Apply
  <2>2. h = [node |-> h.node, buf |-> h.buf, dirty |-> h.dirty, own |-> h.own,
             whole |-> h.whole, since |-> h.since, late |-> h.late]
    BY <1>2, <1>8 DEF HandleOk
  <2>3. /\ h.node \in DOMAIN d.content /\ h.since \in Nat /\ h.since <= Len(d.contents)
        /\ h.buf \in SUBSET Edit /\ h.own \in SUBSET Edit
    BY <1>2, <1>4, <1>8 DEF HandleOk
  <2>4. h.whole \in BOOLEAN /\ h.late \in BOOLEAN
    BY <1>2, <1>8 DEF HandleOk
  <2>5. IF h.whole THEN h.buf = h.own
        ELSE \E i \in h.since .. Len(d.contents) : h.buf = BytesAt(d.contents, i, h.node) \cup h.own
    BY <1>2, <1>4, <1>8 DEF HandleOk
  <2>6. b \in SUBSET Edit /\ o \in SUBSET Edit
    BY <1>5, <2>3
  <2>7. w \in BOOLEAN /\ l \in BOOLEAN
    BY <2>4, Zenon DEF Uploading
  <2>8. IF w THEN b = o
        ELSE \E i \in h.since .. Len(d.contents) : b = BytesAt(d.contents, i, h.node) \cup o
    <3>1. CASE ~writes
      BY <1>5, <3>1
    <3>2. CASE writes /\ h.whole
      BY <2>5, <3>2
    <3>3. CASE writes /\ ~h.whole
      <4>1. PICK i \in h.since .. Len(d.contents) : h.buf = BytesAt(d.contents, i, h.node) \cup h.own
        BY <2>5, <3>3
      <4>2. b = BytesAt(d.contents, i, h.node) \cup o
        BY <3>3, <4>1
      <4>3. QED BY <1>5, <3>3, <4>1, <4>2
    <3>4. QED BY <3>1, <3>2, <3>3
  <2>9. handles' = [handles EXCEPT ![fh] = g]
    <3> HIDE DEF h, b, o, w, l
    <3>1. Written(h, call[k].intent, Uploading(fh)) = g
      <4> DEFINE t == TRUE
                 x == Written(h, call[k].intent, Uploading(fh))
      <4>1. x = [h EXCEPT !.buf = b, !.dirty = t, !.own = o, !.whole = w, !.late = l]
        BY Zenon DEF Written, b, o, w, l
      <4>2. g = HandleOf(h.node, b, t, o, w, h.since, l)
        OBVIOUS
      <4> HIDE DEF g, t, x
      <4>3. x = [node |-> h.node, buf |-> b, dirty |-> t, own |-> o, whole |-> w,
                 since |-> h.since, late |-> l]
        BY <2>2, <4>1
      <4>4. x = g
        BY <4>2, <4>3 DEF HandleOf
      <4>5. QED BY <4>4 DEF x
    <3>2. QED BY <2>1, <3>1
  <2>10. HandleOk(g, d)
    <3> HIDE DEF b, o, w, l
    <3>1. QED BY <2>3, <2>6, <2>7, <2>8, HandleMade
  <2>11. /\ g.node = h.node /\ g.since = h.since /\ g.buf = b
         /\ b # Nil
    BY <2>6, ObjectAssumption DEF HandleOf
  <2>12. g.late = l
    BY DEF HandleOf
  <2>13. /\ h.late => g.late
         /\ \A m \in Call \ {k} : call[m].pc = "upload" /\ call[m].fh = fh => g.late
    <3>1. l <=> h.late \/ Uploading(fh)
      OBVIOUS
    <3> HIDE DEF g, l
    <3>2. h.late => g.late
      BY <2>12, <3>1, Zenon
    <3>3. Uploading(fh) => g.late
      BY <2>12, <3>1, Zenon
    <3>4. QED BY <3>2, <3>3 DEF Uploading
  <2>14. ASSUME os = "fuse" PROVE ~g.late
    <3>1. ~h.late /\ OneRequest
      BY <1>8, <2>14 DEF EngineInv, FuseInv
    <3>2. ~Uploading(fh)
      BY <1>3, <3>1 DEF OneRequest, Uploading
    <3>3. QED BY <2>12, <3>1, <3>2
  <2> HIDE DEF g, b, l
  <2>15. HandleOk(g, drive'[Me]) /\ g.buf # Nil /\ call[k].pc # "idle" /\ UNCHANGED <<opened, os>>
    BY <1>3, <1>6, <2>10, <2>11
  <2>16. \A m \in Call \ {k} :
            call[m].pc = "upload" /\ call[m].fh = fh => g.late \/ g.buf = h.buf
    BY <2>13
  <2>17. /\ call' = [call EXCEPT ![k] = Returned] /\ call[k].pc # "idle"
         /\ UNCHANGED <<opened, os>> /\ HandleOk(g, drive'[Me]) /\ g.buf # Nil
         /\ g.node = handles[fh].node /\ g.since = handles[fh].since
         /\ handles[fh].late => g.late
    BY <1>6, <2>11, <2>13, <2>15
  <2>18. \A m \in Call \ {k} :
            call[m].pc = "upload" /\ call[m].fh = fh => g.late \/ g.buf = handles[fh].buf
    BY <2>16
  <2> HIDE DEF fh, d
  <2>19. QED BY <1>1, <1>7, <1>8, <2>9, <2>14, <2>17, <2>18, OwnHandleKeeps
<1>9. CASE fh \notin DOMAIN handles
  <2>1. os = "fuse" => \A f \in DOMAIN handles : ~handles[f].late
    BY DEF EngineInv, FuseInv
  <2>2. handles = [f \in DOMAIN handles |-> handles[f]]
    BY DEF EngineInv, HandlesInv
  <2>3. call[k].pc # "idle"
    BY <1>3
  <2>4. QED BY <1>1, <1>2, <1>6, <1>7, <1>9, <2>1, <2>2, <2>3, SameHandlesTame, CallStepKeeps
<1>10. QED BY <1>8, <1>9


\* The bytes that the last operation of the log saves are a version.
LEMMA LastIsVersion ==
  ASSUME NEW d, MountedDrive(d), NEW e, NEW n, NEW bytes \in SUBSET Edit,
         Longer(d, e, n, CidOf(bytes))
  PROVE  IsVersion(e, n, bytes)
<1>1. /\ Len(d.contents) \in Nat /\ Len(e.contents) = Len(d.contents) + 1
      /\ e.contents[Len(d.contents) + 1].op.id = n
      /\ e.contents[Len(d.contents) + 1].op.cid = CidOf(bytes)
  BY LogLength DEF MountedDrive, Longer
<1>2. Len(d.contents) + 1 \in 1 .. Len(e.contents)
  BY <1>1
<1>3. QED BY <1>1, <1>2, BytesOfObjects DEF IsVersion

LEMMA UploadedKeeps ==
  ASSUME EngineInv, NEW k \in Call, Uploaded(k), UNCHANGED os
  PROVE  EngineInv' /\ Continued(drive[Me], drive'[Me])
         /\ IsVersion(drive'[Me], call[k].node, call[k].bytes)
<1> DEFINE d == drive[Me]
           fh == call[k].fh
           h == handles[fh]
           n == call[k].node
           bytes == call[k].bytes
           e == EmitContent(d, Me, SetOp(n, CidOf(bytes), call[k].at))
           c == IF call[k].closing THEN [pc |-> "close", fh |-> fh] ELSE Returned
           g == HandleOf(h.node, h.buf, FALSE, h.own, h.whole, h.since, h.late)
<1>1. /\ drive = [r \in Replica |-> drive[r]] /\ MountedDrive(d) /\ fresh \in [Replica -> Nat]
      /\ opened \in Nat /\ handles = [f \in DOMAIN handles |-> handles[f]]
  BY DEF EngineInv, DriveInv, HandlesInv
<1>2. call[k].pc = "upload" /\ call[k] # Returned
  BY DEF Uploaded, Returned
<1>3. /\ fh \in 1 .. opened /\ n \in DOMAIN d.content /\ bytes \in SUBSET Edit
      /\ fh \in DOMAIN handles => n = h.node /\ (bytes = h.buf \/ h.late)
  BY <1>2 DEF EngineInv, CallsInv, CallOk
<1>4. /\ drive' = [drive EXCEPT ![Me] = e] /\ fresh' = fresh /\ opened' = opened
      /\ call' = [call EXCEPT ![k] = c]
      /\ handles' = IF fh \in DOMAIN handles
                    THEN [handles EXCEPT ![fh].dirty = FALSE] ELSE handles
  BY Zenon DEF Uploaded, AfterUpload
<1>5. Longer(d, e, n, CidOf(bytes))
  BY <1>1, <1>3, WriterIsReplica, BytesOfObjects, SavedMounted
<1> HIDE DEF e
<1>6. drive'[Me] = e /\ drive' = [r \in Replica |-> drive'[r]]
  BY <1>1, <1>4, WriterIsReplica
<1>7. Continued(d, e) /\ IsVersion(e, n, bytes)
  BY <1>1, <1>3, <1>5, LastIsVersion DEF Longer
<1>8. DriveGoesOn
  BY <1>1, <1>4, <1>6, <1>7 DEF DriveGoesOn
<1>9. \A gs : CallOk(c, gs, opened, e)
  <2>1. CASE call[k].closing
    <3> DEFINE x == [pc |-> "close", fh |-> fh]
    <3>1. x.pc = "close" /\ x.fh = fh
      OBVIOUS
    <3> HIDE DEF x
    <3>2. \A gs : CallOk(x, gs, opened, e)
      BY <1>3, <3>1 DEF CallOk
    <3>3. QED BY <2>1, <3>2 DEF x
  <2>2. CASE ~call[k].closing
    BY <2>2 DEF CallOk
  <2>3. QED BY <2>1, <2>2
<1> HIDE DEF c
<1>10. CASE fh \in DOMAIN handles
  <2>1. HandleOk(h, e) /\ HandleOk(h, d)
    BY <1>6, <1>8, <1>10, HandlesFacts
  <2>2. h.buf \in SUBSET Edit
    <3>1. CASE h.late
      <4>1. h.buf # Nil
        BY <2>1, <3>1, Zenon DEF HandleOk
      <4>2. QED BY <2>1, <4>1 DEF HandleOk
    <3>2. CASE ~h.late
      BY <1>3, <1>10, <3>2
    <3>3. QED BY <3>1, <3>2
  <2>3. h.buf # Nil
    BY <2>2, ObjectAssumption
  <2>4. handles' = [handles EXCEPT ![fh] = g]
    <3> DEFINE t == FALSE
               x == [h EXCEPT !.dirty = t]
    <3>1. handles' = [handles EXCEPT ![fh] = x]
      BY <1>4, <1>10
    <3>2. h = [node |-> h.node, buf |-> h.buf, dirty |-> h.dirty, own |-> h.own,
               whole |-> h.whole, since |-> h.since, late |-> h.late]
      BY <2>1 DEF HandleOk
    <3>3. g = HandleOf(h.node, h.buf, t, h.own, h.whole, h.since, h.late)
      OBVIOUS
    <3>4. x = [h EXCEPT !.dirty = t]
      OBVIOUS
    <3> HIDE DEF g, h, t, x
    <3>5. x = g
      BY <3>2, <3>3, <3>4 DEF HandleOf
    <3>6. QED BY <3>1, <3>5
  <2>5. HandleOk(g, e)
    <3>1. /\ h.node \in DOMAIN e.content /\ h.own \in SUBSET Edit
          /\ h.whole \in BOOLEAN /\ h.late \in BOOLEAN
          /\ h.since \in Nat /\ h.since <= Len(e.contents)
          /\ IF h.whole THEN h.buf = h.own
             ELSE \E i \in h.since .. Len(e.contents) :
                     h.buf = BytesAt(e.contents, i, h.node) \cup h.own
      BY <2>1, <2>3 DEF HandleOk
    <3>2. h.late \/ IsVersion(e, h.node, h.buf)
      BY <1>3, <1>7, <1>10
    <3> HIDE DEF h
    <3>3. QED BY <2>2, <3>1, <3>2, HandleMade
  <2>6. g.node = h.node /\ g.since = h.since /\ g.buf = h.buf /\ g.late = h.late
    BY DEF HandleOf
  <2>7. os = "fuse" => ~g.late
    BY <1>10, <2>6 DEF EngineInv, FuseInv
  <2> HIDE DEF g
  <2>8. EngineInv'
    <3>1. HandleOk(g, drive'[Me]) /\ g.buf # Nil /\ call[k].pc # "idle" /\ UNCHANGED <<opened, os>>
      BY <1>2, <1>4, <1>6, <2>3, <2>5, <2>6
    <3>2. h.late => g.late
      BY <2>6, Zenon
    <3>3. CallOk(c, handles', opened, drive'[Me])
      BY <1>6, <1>9
    <3>4. g.node = h.node /\ g.since = h.since /\ g.buf = h.buf
      BY <2>6
    <3>5. call' = [call EXCEPT ![k] = c]
      BY <1>4
    <3>6. \A m \in Call \ {k} :
             call[m].pc = "upload" /\ call[m].fh = fh => g.late \/ g.buf = handles[fh].buf
      BY <3>4
    <3>7. /\ handles[fh].late => g.late
          /\ g.node = handles[fh].node /\ g.since = handles[fh].since
      BY <3>2, <3>4
    <3> HIDE DEF g, h, fh
    <3>8. QED BY <1>8, <1>10, <2>4, <2>7, <3>1, <3>3, <3>5, <3>6, <3>7, OwnHandleKeeps
  <2>9. QED BY <1>6, <1>7, <2>8
<1>11. CASE fh \notin DOMAIN handles
  <2>1. os = "fuse" => \A f \in DOMAIN handles : ~handles[f].late
    BY DEF EngineInv, FuseInv
  <2>2. /\ \A f \in DOMAIN handles : HandleOk(handles[f], e)
        /\ handles' = handles /\ call[k].pc # "idle" /\ CallOk(c, handles', opened, e)
    BY <1>2, <1>4, <1>6, <1>8, <1>9, <1>11, HandlesFacts
  <2>3. /\ handles' = [f \in DOMAIN handles' |-> handles'[f]] /\ DOMAIN handles' \subseteq DOMAIN handles
        /\ \A f \in DOMAIN handles' : HandleOk(handles'[f], drive'[Me])
        /\ \A l \in Call \ {k} : Tame(call[l], handles, handles')
        /\ CallOk(c, handles', opened, drive'[Me])
        /\ os = "fuse" => \A f \in DOMAIN handles' : ~handles'[f].late
    BY <1>1, <1>6, <2>1, <2>2, SameHandlesTame
  <2>4. call' = [call EXCEPT ![k] = c] /\ UNCHANGED <<opened, os>>
    BY <1>4
  <2>5. EngineInv'
    BY <1>8, <2>2, <2>3, <2>4, CallStepKeeps
  <2>6. QED BY <1>6, <1>7, <2>5
<1>12. QED BY <1>10, <1>11


-----------------------------------------------------------------------------
(* Opening, creating and the structure of the drive *)

LEMMA DriveFacts ==
  ASSUME EngineInv
  PROVE  /\ MountedDrive(drive[Me]) /\ DriveOk(drive[Me]) /\ TreeSound(drive[Me].tree)
         /\ Dirs(drive[Me]) \subseteq Place
         /\ Resolvable(drive[Me].tree) \ {ROOT} \subseteq DOMAIN drive[Me].tree.edges
         /\ \A n \in DOMAIN drive[Me].tree.edges : drive[Me].tree.edges[n].name \in AnyName
         /\ FreshId(drive[Me], Me) \in NodeId
         /\ fresh \in [Replica -> Nat] /\ drive = [r \in Replica |-> drive[r]]
<1>1. /\ MountedDrive(drive[Me]) /\ DriveOk(drive[Me]) /\ drive = [r \in Replica |-> drive[r]]
      /\ fresh \in [Replica -> Nat]
  BY DEF EngineInv, DriveInv, MountedDrive
<1>2. IInv
  <2>1. TypeOK
    BY <1>1, WriterAssumption DEF TypeOK
  <2>2. Originals
    BY WriterAssumption DEF Originals
  <2>3. QED BY <2>1, <2>2 DEF IInv
<1>3. QED BY <1>1, <1>2, Arguments, WriterIsReplica

\* The node counter after a creation.
LEMMA FreshCounted ==
  ASSUME EngineInv, fresh' = [fresh EXCEPT ![Me] = @ + 1]
  PROVE  fresh' \in [Replica -> Nat]
<1>1. fresh \in [Replica -> Nat]
  BY DEF EngineInv, DriveInv
<1>2. fresh[Me] + 1 \in Nat
  BY <1>1, WriterIsReplica
<1>3. QED BY <1>1, <1>2

LEMMA ContinuedGoesOn ==
  ASSUME EngineInv, NEW e, Continued(drive[Me], e), drive' = [drive EXCEPT ![Me] = e],
         fresh' \in [Replica -> Nat]
  PROVE  DriveGoesOn /\ drive'[Me] = e
<1>1. drive'[Me] = e /\ drive' = [r \in Replica |-> drive'[r]]
  BY DriveFacts, WriterIsReplica
<1>2. QED BY <1>1 DEF DriveGoesOn

LEMMA OpenKeeps ==
  ASSUME EngineInv, NEW n, Open(n), UNCHANGED os
  PROVE  EngineInv'
<1> DEFINE d == drive[Me]
           h == Handle(n, Nil, FALSE, Len(d.contents))
<1>1. DriveGoesOn
  BY DriveStays DEF EngineInv, Open
<1>2. MountedDrive(d) /\ Len(d.contents) \in Nat /\ n \in DOMAIN d.content
  BY DriveFacts, LogLength, FileHasContent DEF Open
<1>3. /\ h.node = n /\ h.buf = Nil /\ h.dirty = FALSE /\ h.own = {} /\ h.whole = FALSE
      /\ h.since = Len(d.contents) /\ h.late = FALSE
      /\ h = [node |-> n, buf |-> Nil, dirty |-> FALSE, own |-> {}, whole |-> FALSE,
              since |-> Len(d.contents), late |-> FALSE]
  BY DEF Handle
<1> HIDE DEF h
<1>4. HandleOk(h, d)
  BY <1>2, <1>3 DEF HandleOk
<1>5. drive' = drive /\ handles' = WithHandle(h) /\ opened' = opened + 1 /\ UNCHANGED <<call, os>>
  BY DEF Open, h
<1>6. QED BY <1>1, <1>3, <1>4, <1>5, OpenedKeeps

LEMMA CreateKeeps ==
  ASSUME EngineInv, NEW dir, NEW name \in Name, NEW at, Create(dir, name, at), UNCHANGED os
  PROVE  EngineInv' /\ Continued(drive[Me], drive'[Me])
<1> DEFINE d == drive[Me]
           parent == DirAt(d.tree, dir)
           id == IF Namesakes(d, parent, name) = {} THEN FreshId(d, Me)
                 ELSE ChildNamed(d, parent, name)
           added == EmitContent(EmitMove(d, Me, id, parent, name, "file"), Me,
                                SetOp(id, NoCid, at))
           edited == EmitContent(d, Me, SetOp(id, NoCid, at))
           h == Handle(id, {}, TRUE, Len(d.contents) + 1)
<1>1. MountedDrive(d) /\ Len(d.contents) \in Nat /\ NoCid \in Object /\ name \in AnyName
  BY DriveFacts, LogLength, NameAssumption DEF Object
<1>2. PICK e : /\ Longer(d, e, id, NoCid) /\ drive' = [drive EXCEPT ![Me] = e]
               /\ fresh' \in [Replica -> Nat]
  <2>1. CASE AddFile(Me, parent, name, NoCid, at)
    <3>1. id \in NodeId /\ parent \in Place /\ id = FreshId(d, Me)
      BY <2>1, DriveFacts DEF AddFile
    <3>2. drive' = [drive EXCEPT ![Me] = added]
      BY <2>1, <3>1, Zenon DEF AddFile
    <3>3. fresh' \in [Replica -> Nat]
      <4>1. fresh' = [fresh EXCEPT ![Me] = @ + 1]
        BY <2>1, Zenon DEF AddFile
      <4>2. QED BY <4>1, FreshCounted
    <3> HIDE DEF id, parent, d
    <3>4. Longer(d, added, id, NoCid)
      BY <1>1, <3>1, AddedMounted
    <3>5. QED BY <3>2, <3>3, <3>4
  <2>2. CASE AddVersion(Me, parent, name, NoCid, at)
    <3>1. id = ChildNamed(d, parent, name)
      BY <2>2 DEF AddVersion
    <3>2. drive' = [drive EXCEPT ![Me] = edited]
      BY <2>2, <3>1, Zenon DEF AddVersion
    <3>3. fresh' \in [Replica -> Nat]
      BY <2>2, DriveFacts DEF AddVersion
    <3> HIDE DEF id, parent, d
    <3>4. Longer(d, edited, id, NoCid)
      BY <1>1, WriterIsReplica, SavedMounted
    <3>5. QED BY <3>2, <3>3, <3>4
  <2>3. QED BY <2>1, <2>2 DEF Create
<1>3. handles' = WithHandle(h) /\ opened' = opened + 1 /\ UNCHANGED <<call, os>>
  BY Zenon DEF Create
<1> HIDE DEF id, d
<1>4. Continued(d, e) /\ id \in DOMAIN e.content /\ Len(e.contents) = Len(d.contents) + 1
  BY <1>2 DEF Longer
<1>5. DriveGoesOn /\ drive'[Me] = e
  BY <1>2, <1>4, ContinuedGoesOn DEF d
<1>6. HandleOk(h, e) /\ ~h.late
  <2> DEFINE t == TRUE
             s == Len(d.contents) + 1
  <2>1. h = HandleOf(id, {}, t, {}, t, s, FALSE)
    BY DEF HandleOf, Handle
  <2>2. h.late = FALSE
    BY DEF Handle
  <2>3. s \in Nat /\ s <= Len(e.contents)
    BY <1>1, <1>4
  <2> HIDE DEF h, s
  <2>4. HandleOk(HandleOf(id, {}, t, {}, t, s, FALSE), e)
    BY <1>4, <2>3, HandleMade
  <2>5. QED BY <2>1, <2>2, <2>4
<1> HIDE DEF h
<1>7. EngineInv'
  BY <1>3, <1>5, <1>6, OpenedKeeps
<1>8. QED BY <1>4, <1>5, <1>7 DEF d

\* A structural call, and what a peer saves.
LEMMA StructureKeeps ==
  ASSUME EngineInv, NEW e, Continued(drive[Me], e), drive' = [drive EXCEPT ![Me] = e],
         fresh' \in [Replica -> Nat], UNCHANGED <<handles, opened, call, os>>
  PROVE  EngineInv' /\ Continued(drive[Me], drive'[Me])
BY ContinuedGoesOn, DriveStepKeeps DEF DriveGoesOn

LEMMA MakeDirKeeps ==
  ASSUME EngineInv, NEW dir, NEW name \in Name, MakeDir(dir, name), UNCHANGED os
  PROVE  EngineInv' /\ Continued(drive[Me], drive'[Me])
<1> DEFINE d == drive[Me]
           parent == DirAt(d.tree, dir)
           id == FreshId(d, Me)
           e == EmitMove(d, Me, id, parent, name, "dir")
<1>1. MountedDrive(d) /\ id \in NodeId /\ parent \in Place /\ name \in AnyName
  BY DriveFacts, NameAssumption DEF MakeDir, Mkdir
<1>2. drive' = [drive EXCEPT ![Me] = e] /\ UNCHANGED <<handles, opened, call>>
  BY Zenon DEF MakeDir, Mkdir
<1>3. fresh' \in [Replica -> Nat]
  <2>1. fresh' = [fresh EXCEPT ![Me] = @ + 1]
    BY Zenon DEF MakeDir, Mkdir
  <2>2. QED BY <2>1, FreshCounted
<1>4. Continued(d, e)
  <2> HIDE DEF d, id, parent
  <2>1. QED BY <1>1, MadeMounted
<1> HIDE DEF e
<1>5. QED BY <1>2, <1>3, <1>4, StructureKeeps

LEMMA UnlinkKeeps ==
  ASSUME EngineInv, NEW dir, NEW name, Unlink(dir, name), UNCHANGED os
  PROVE  EngineInv' /\ Continued(drive[Me], drive'[Me])
<1> DEFINE d == drive[Me]
           n == At(d.tree, dir, name)
           bare == d.tree.edges[n].name
           e == EmitMove(d, Me, n, TRASH, bare, KindOf(d, n))
<1>1. MountedDrive(d) /\ n \in DOMAIN d.tree.edges /\ bare \in AnyName /\ TRASH \in Place
  BY DriveFacts DEF Unlink, Rm, Place
<1>2. drive' = [drive EXCEPT ![Me] = e] /\ UNCHANGED <<handles, opened, call>>
  BY Zenon DEF Unlink, Rm
<1>3. fresh' \in [Replica -> Nat]
  BY DriveFacts DEF Unlink, Rm
<1>4. Continued(d, e)
  <2> HIDE DEF d, n, bare
  <2>1. QED BY <1>1, MovedMounted
<1> HIDE DEF e
<1>5. QED BY <1>2, <1>3, <1>4, StructureKeeps

LEMMA RenamedContinued ==
  ASSUME NEW d, MountedDrive(d), NEW n \in DOMAIN d.tree.edges, NEW dir, NEW name \in AnyName,
         DirAt(d.tree, dir) \in Place, NEW old, old # Nil => PathOf(d.tree, dir) # Nil
  PROVE  Continued(d, Renamed(d, n, dir, name, old))
<1> DEFINE parent == DirAt(d.tree, dir)
           moved == EmitMove(d, Me, n, parent, name, KindOf(d, n))
           path == IF PathOf(moved.tree, old) = Nil
                   THEN Append(PathOf(d.tree, dir), name) ELSE PathOf(moved.tree, old)
           gone == Resolve(moved.tree, path)
           bare == moved.tree.edges[gone].name
           e == EmitMove(moved, Me, gone, TRASH, bare, KindOf(moved, gone))
<1>1. Continued(d, moved)
  <2> HIDE DEF parent
  <2>1. QED BY MovedMounted DEF parent
<1>2. Renamed(d, n, dir, name, old) = IF old = Nil \/ gone \in {Nil, ROOT} THEN moved ELSE e
  BY Zenon DEF Renamed
<1> HIDE DEF moved
<1>3. CASE old = Nil \/ gone \in {Nil, ROOT}
  BY <1>1, <1>2, <1>3
<1>4. CASE ~(old = Nil \/ gone \in {Nil, ROOT})
  <2>1. MountedDrive(moved) /\ DriveOk(d) /\ DriveOk(moved) /\ Prolongs(moved, d)
    BY <1>1 DEF Continued, MountedDrive
  <2>2. TreeSound(d.tree) /\ TreeSound(moved.tree)
    BY <2>1, DriveTree
  <2>3. Len(path) \in Nat
    <3>1. path \in Seq(AnyName)
      BY <1>4, <2>2, PathIsSequence
    <3> HIDE DEF path
    <3>2. QED BY <3>1
  <2> HIDE DEF path
  <2>4. gone \in DOMAIN moved.tree.edges
    BY <1>4, <2>2, <2>3, ResolveIsNode
  <2>5. bare \in AnyName /\ TRASH \in Place
    BY <2>2, <2>4 DEF TreeSound, Place
  <2> HIDE DEF gone, bare
  <2>6. Continued(moved, e)
    BY <2>1, <2>4, <2>5, MovedMounted
  <2> HIDE DEF e
  <2>7. Continued(d, e)
    BY <2>1, <2>6, ContinuedOn
  <2>8. QED BY <1>2, <1>4, <2>7 DEF gone
<1>5. QED BY <1>3, <1>4

LEMMA RenameKeeps ==
  ASSUME EngineInv, NEW dir, NEW name, NEW newDir, NEW newName \in Name,
         Rename(dir, name, newDir, newName), UNCHANGED os
  PROVE  EngineInv' /\ Continued(drive[Me], drive'[Me])
<1> DEFINE d == drive[Me]
           n == At(d.tree, dir, name)
           old == Displaced(d.tree, n, newDir, newName)
           e == Renamed(d, n, newDir, newName, old)
<1>1. /\ MountedDrive(d) /\ n \in DOMAIN d.tree.edges /\ newName \in AnyName
      /\ DirAt(d.tree, newDir) \in Place
  BY DriveFacts, NameAssumption DEF Rename
<1>2. old # Nil => PathOf(d.tree, newDir) # Nil
  BY DEF Displaced, At
<1>3. drive' = [drive EXCEPT ![Me] = e] /\ UNCHANGED <<handles, opened, call>>
  BY Zenon DEF Rename
<1>4. fresh' \in [Replica -> Nat]
  BY DriveFacts DEF Rename
<1>5. Continued(d, e)
  <2> HIDE DEF d, n, old
  <2>1. QED BY <1>1, <1>2, RenamedContinued
<1> HIDE DEF e
<1>6. QED BY <1>3, <1>4, <1>5, StructureKeeps

LEMMA RevalidateKeeps ==
  ASSUME EngineInv, NEW n, NEW cid \in Cid, NEW at, Revalidate(n, cid, at), UNCHANGED os
  PROVE  EngineInv' /\ Continued(drive[Me], drive'[Me])
<1> DEFINE d == drive[Me]
           e == EmitContent(d, Peer, SetOp(n, cid, at))
<1>1. MountedDrive(d) /\ cid \in Object /\ Peer \in Nat
  BY DriveFacts, ObjectAssumption, WriterAssumption DEF Object
<1>2. drive' = [drive EXCEPT ![Me] = FromState(e)] /\ UNCHANGED <<handles, opened, call>>
  BY Zenon DEF Revalidate
<1>3. fresh' \in [Replica -> Nat]
  BY DriveFacts DEF Revalidate
<1>4. Continued(d, e)
  BY <1>1, SavedMounted DEF Longer
<1> HIDE DEF e
<1>5. FromState(e) = e
  BY <1>4, FromStateSame DEF Continued, MountedDrive
<1>6. drive' = [drive EXCEPT ![Me] = e]
  BY <1>2, <1>5
<1>7. QED BY <1>2, <1>3, <1>4, <1>6, StructureKeeps


-----------------------------------------------------------------------------
(* The kernel's handles and the answers it was given *)

\* A step that lets one call go on and opens or closes nothing.
LEMMA KernelGoesOn ==
  ASSUME EngineInv, KernelInv, NEW k \in Call, NEW c, call' = [call EXCEPT ![k] = c],
         DOMAIN handles' = DOMAIN handles, fds' \subseteq fds, UNCHANGED os,
         Closing(c) => c.fh \notin fds'
  PROVE  KernelInv'
<1>1. call'[k] = c /\ \A l \in Call \ {k} : call'[l] = call[l]
  BY DEF EngineInv, CallsInv
<1>2. QED BY <1>1 DEF KernelInv

LEMMA KernelOpens ==
  ASSUME EngineInv, KernelInv, NEW h, handles' = WithHandle(h), opened' = opened + 1,
         fds' = fds \cup {opened'}, UNCHANGED <<call, os>>, os # "engine"
  PROVE  KernelInv'
<1>1. opened \in Nat
  BY DEF EngineInv, HandlesInv
<1>2. DOMAIN handles' = DOMAIN handles \cup {opened + 1}
  BY DEF WithHandle
<1>3. ASSUME NEW k \in Call, Closing(call[k]) PROVE call[k].fh \notin fds'
  <2>1. call[k] # Returned
    BY <1>3 DEF Closing, Returned
  <2>2. call[k].fh \in 1 .. opened
    BY <2>1 DEF EngineInv, CallsInv, CallOk
  <2>3. QED BY <1>1, <1>3, <2>2 DEF KernelInv
<1>4. QED BY <1>2, <1>3 DEF KernelInv

LEMMA KernelRests ==
  ASSUME KernelInv, UNCHANGED <<handles, call, os, fds>>
  PROVE  KernelInv'
BY DEF KernelInv

\* A step that only answers with what is a version by then.
LEMMA AnswersHold ==
  ASSUME EngineInv, AckedInv, Continued(drive[Me], drive'[Me]),
         \A a \in acked' : \/ a \in acked
                           \/ /\ a[1] \in DOMAIN drive'[Me].content
                              /\ IsVersion(drive'[Me], a[1], a[2])
  PROVE  AckedInv'
<1> SUFFICES ASSUME NEW a \in acked'
             PROVE  a[1] \in DOMAIN drive'[Me].content /\ IsVersion(drive'[Me], a[1], a[2])
  BY DEF AckedInv
<1>1. CASE a \in acked
  <2>1. /\ MountedDrive(drive[Me]) /\ DOMAIN drive[Me].content \subseteq DOMAIN drive'[Me].content
        /\ a[1] \in DOMAIN drive[Me].content /\ IsVersion(drive[Me], a[1], a[2])
    BY <1>1, DriveFacts DEF AckedInv, Continued, Prolongs
  <2>2. QED BY <2>1, VersionStays
<1>2. QED BY <1>1

LEMMA AnswersStay ==
  ASSUME EngineInv, AckedInv, Continued(drive[Me], drive'[Me]), UNCHANGED acked
  PROVE  AckedInv'
BY AnswersHold

LEMMA SameDriveContinued ==
  ASSUME EngineInv, UNCHANGED drive
  PROVE  Continued(drive[Me], drive'[Me])
BY DriveFacts, ContinuedSelf

\* A clean handle promises what is a version of its file.
LEMMA PromiseIsVersion ==
  ASSUME EngineInv, NEW fh \in DOMAIN handles, NEW a \in Promised(fh)
  PROVE  a[1] \in DOMAIN drive[Me].content /\ IsVersion(drive[Me], a[1], a[2])
<1> DEFINE h == handles[fh]
<1>1. HandleOk(h, drive[Me])
  BY DEF EngineInv, HandlesInv
<1>2. h.buf # Nil /\ a = <<h.node, h.buf>>
  BY DEF Promised
<1>3. ~h.dirty /\ ~h.late
  BY Zenon DEF Promised
<1>4. h.node \in DOMAIN drive[Me].content /\ IsVersion(drive[Me], h.node, h.buf)
  <2>1. h.dirty \/ h.late \/ IsVersion(drive[Me], h.node, h.buf)
    BY <1>1, <1>2, Zenon DEF HandleOk
  <2>2. h.node \in DOMAIN drive[Me].content
    BY <1>1 DEF HandleOk
  <2>3. QED BY <1>3, <2>1, <2>2
<1>5. QED BY <1>2, <1>4

-----------------------------------------------------------------------------
(* The callbacks *)

\* All but the saved state.
ServedInv == EngineInv /\ KernelInv /\ AckedInv

LEMMA OpenServed ==
  ASSUME ServedInv, NEW n, Open(n), fds' = fds \cup {opened'}, UNCHANGED <<os, acked>>,
         os # "engine"
  PROVE  ServedInv'
<1>1. EngineInv /\ KernelInv /\ AckedInv
  BY DEF ServedInv
<1>2. EngineInv' /\ drive' = drive
  BY <1>1, OpenKeeps DEF Open
<1>3. KernelInv'
  <2>1. PICK h : handles' = WithHandle(h)
    BY DEF Open
  <2>2. opened' = opened + 1 /\ call' = call
    BY DEF Open
  <2>3. QED BY <1>1, <2>1, <2>2, KernelOpens
<1>4. AckedInv'
  BY <1>1, <1>2, SameDriveContinued, AnswersStay
<1>5. QED BY <1>2, <1>3, <1>4 DEF ServedInv

LEMMA CreateServed ==
  ASSUME ServedInv, NEW dir, NEW name \in Name, NEW at, Create(dir, name, at),
         fds' = fds \cup {opened'}, UNCHANGED <<os, acked>>, os # "engine"
  PROVE  ServedInv'
<1>1. EngineInv /\ KernelInv /\ AckedInv
  BY DEF ServedInv
<1>2. EngineInv' /\ Continued(drive[Me], drive'[Me])
  BY <1>1, CreateKeeps
<1>3. KernelInv'
  <2>1. PICK h : handles' = WithHandle(h)
    BY Zenon DEF Create
  <2>2. opened' = opened + 1 /\ call' = call
    BY Zenon DEF Create
  <2>3. QED BY <1>1, <2>1, <2>2, KernelOpens
<1>4. AckedInv'
  BY <1>1, <1>2, AnswersStay
<1>5. QED BY <1>2, <1>3, <1>4 DEF ServedInv

LEMMA AccessServed ==
  ASSUME ServedInv, Begins, NEW k \in Call, NEW fh \in fds, NEW intent \in Intents,
         Access(k, fh, intent), UNCHANGED <<os, fds, acked>>
  PROVE  ServedInv'
<1>1. EngineInv /\ KernelInv /\ AckedInv /\ fh \in DOMAIN handles
  BY DEF ServedInv, KernelInv
<1>2. EngineInv' /\ drive' = drive
  BY <1>1, AccessKeeps DEF Access
<1>3. KernelInv'
  <2> DEFINE m == drive[Me].content  n == handles[fh].node
             c == IF handles[fh].buf # Nil THEN Hydrated(fh, intent)
                  ELSE [pc |-> "fetch", fh |-> fh, intent |-> intent,
                        cid |-> IF n \in DOMAIN m THEN m[n].cid ELSE NoCid]
  <2>1. call' = [call EXCEPT ![k] = c] /\ handles' = handles
    BY Zenon DEF Access
  <2>2. ~Closing(c)
    BY DEF Closing, Hydrated, Returned
  <2> HIDE DEF c
  <2>3. QED BY <1>1, <2>1, <2>2, KernelGoesOn
<1>4. AckedInv'
  BY <1>1, <1>2, SameDriveContinued, AnswersStay
<1>5. QED BY <1>2, <1>3, <1>4 DEF ServedInv

\* flush, and the flush of a release, after which the kernel has forgotten the handle.
LEMMA FlushServed ==
  ASSUME ServedInv, Begins, NEW k \in Call, NEW fh \in fds, NEW closing, NEW at,
         Flush(k, fh, closing, at), fds' = fds \/ fds' = fds \ {fh}, closing => fds' = fds \ {fh},
         acked' = acked \/ acked' = acked \cup Promised(fh), UNCHANGED os
  PROVE  ServedInv'
<1>1. EngineInv /\ KernelInv /\ AckedInv /\ fh \in DOMAIN handles
  BY DEF ServedInv, KernelInv
<1>2. EngineInv' /\ drive' = drive
  BY <1>1, FlushKeeps DEF Flush
<1>3. KernelInv'
  <2> DEFINE u == [pc |-> "upload", fh |-> fh, closing |-> closing,
                   node |-> handles[fh].node, bytes |-> handles[fh].buf, at |-> at]
             x == [pc |-> "close", fh |-> fh]
             c == IF handles[fh].dirty THEN u ELSE IF closing THEN x ELSE Returned
  <2>1. call' = [call EXCEPT ![k] = c] /\ handles' = handles
    BY Zenon DEF Flush
  <2>2. Closing(c) => c.fh \notin fds'
    <3>1. u.fh = fh /\ x.fh = fh /\ ~Closing(Returned) /\ u.pc = "upload"
      BY DEF Closing, Returned
    <3>2. Closing(u) => closing
      <4>1. u.closing <=> closing
        BY Zenon
      <4> HIDE DEF u
      <4>2. QED BY <3>1, <4>1 DEF Closing
    <3> HIDE DEF u, x
    <3>3. QED BY <3>1, <3>2
  <2> HIDE DEF c
  <2>3. QED BY <1>1, <2>1, <2>2, KernelGoesOn
<1>4. AckedInv'
  <2>1. \A a \in Promised(fh) : a[1] \in DOMAIN drive'[Me].content /\ IsVersion(drive'[Me], a[1], a[2])
    BY <1>1, <1>2, PromiseIsVersion
  <2>2. QED BY <1>1, <1>2, <2>1, SameDriveContinued, AnswersHold
<1>5. QED BY <1>2, <1>3, <1>4 DEF ServedInv

\* mkdir, unlink, rmdir, rename.
LEMMA StructureServed ==
  ASSUME ServedInv, EngineInv', Continued(drive[Me], drive'[Me]),
         UNCHANGED <<handles, call, os, fds, acked>>
  PROVE  ServedInv'
BY KernelRests, AnswersStay DEF ServedInv


LEMMA ProceedServed ==
  ASSUME ServedInv, NEW k \in Call, Proceed(k), UNCHANGED os
  PROVE  ServedInv'
<1>1. EngineInv /\ KernelInv /\ AckedInv /\ fds' = fds
  BY DEF ServedInv, Proceed, kernelVars
<1>2. ASSUME NEW c, call' = [call EXCEPT ![k] = c], ~Closing(c),
             DOMAIN handles' = DOMAIN handles
      PROVE  KernelInv'
  BY <1>1, <1>2, KernelGoesOn
<1>3. ~Closing(Returned)
  BY DEF Closing, Returned
<1>4. ASSUME drive' = drive, acked' = acked PROVE AckedInv'
  BY <1>1, <1>4, SameDriveContinued, AnswersStay
<1>5. CASE Fetched(k) /\ acked' = acked
  <2> DEFINE c == Hydrated(call[k].fh, call[k].intent)
  <2>1. call' = [call EXCEPT ![k] = c] /\ DOMAIN handles' = DOMAIN handles /\ drive' = drive
    BY <1>5 DEF Fetched
  <2>2. ~Closing(c)
    BY DEF Closing, Hydrated, Returned
  <2> HIDE DEF c
  <2>3. QED BY <1>1, <1>2, <1>4, <1>5, <2>1, <2>2, FetchedKeeps DEF ServedInv
<1>6. CASE (FetchFailed(k) \/ UploadFailed(k)) /\ acked' = acked
  <2>1. call' = [call EXCEPT ![k] = Returned] /\ handles' = handles /\ drive' = drive
    BY <1>6 DEF FetchFailed, UploadFailed, Returns
  <2>2. QED BY <1>1, <1>2, <1>3, <1>4, <1>6, <2>1, CallEnds DEF ServedInv
<1>7. CASE Apply(k) /\ acked' = acked
  <2>1. call' = [call EXCEPT ![k] = Returned] /\ drive' = drive
    BY <1>7 DEF Apply, Returns
  <2>2. DOMAIN handles' = DOMAIN handles
    BY <1>7 DEF Apply
  <2>3. QED BY <1>1, <1>2, <1>3, <1>4, <1>7, <2>1, <2>2, ApplyKeeps DEF ServedInv
<1>8. CASE Close(k) /\ acked' = acked
  <2>1. /\ call' = [call EXCEPT ![k] = Returned] /\ drive' = drive
        /\ DOMAIN handles' = DOMAIN handles \ {call[k].fh} /\ call[k].pc = "close"
    BY <1>8 DEF Close, Returns
  <2>2. KernelInv'
    <3>1. call'[k] = Returned /\ \A l \in Call \ {k} : call'[l] = call[l]
      BY <1>1, <2>1 DEF EngineInv, CallsInv
    <3>2. call[k].fh \notin fds
      BY <1>1, <2>1 DEF KernelInv, Closing
    <3>3. QED BY <1>1, <1>3, <2>1, <3>1, <3>2 DEF KernelInv
  <2>3. QED BY <1>1, <1>4, <1>8, <2>1, <2>2, CloseKeeps DEF ServedInv
<1>9. CASE Uploaded(k) /\ acked' = acked \cup {<<call[k].node, call[k].bytes>>}
  <2>1. /\ EngineInv' /\ Continued(drive[Me], drive'[Me])
        /\ IsVersion(drive'[Me], call[k].node, call[k].bytes)
    BY <1>1, <1>9, UploadedKeeps
  <2>2. call[k].pc = "upload" /\ call[k] # Returned
    BY <1>9 DEF Uploaded, Returned
  <2>3. KernelInv'
    <3> DEFINE x == [pc |-> "close", fh |-> call[k].fh]
               c == IF call[k].closing THEN x ELSE Returned
    <3>1. call' = [call EXCEPT ![k] = c]
      BY <1>9, Zenon DEF Uploaded, AfterUpload
    <3>2. DOMAIN handles' = DOMAIN handles
      BY <1>9 DEF Uploaded
    <3>3. Closing(c) => c.fh \notin fds'
      <4>1. CASE call[k].closing
        BY <1>1, <2>2, <4>1 DEF KernelInv, Closing
      <4>2. CASE ~call[k].closing
        BY <1>3, <4>2
      <4>3. QED BY <4>1, <4>2
    <3> HIDE DEF c
    <3>4. QED BY <1>1, <3>1, <3>2, <3>3, KernelGoesOn
  <2>4. AckedInv'
    <3>1. call[k].node \in DOMAIN drive[Me].content
      BY <1>1, <2>2 DEF EngineInv, CallsInv, CallOk
    <3>2. call[k].node \in DOMAIN drive'[Me].content
      BY <2>1, <3>1 DEF Continued, Prolongs
    <3>3. QED BY <1>1, <1>9, <2>1, <3>2, AnswersHold
  <2>5. QED BY <2>1, <2>3, <2>4 DEF ServedInv
<1>10. QED BY <1>5, <1>6, <1>7, <1>8, <1>9 DEF Proceed, kernelVars

LEMMA IntentsMade ==
  /\ [type |-> "read", edits |-> {}] \in Intents
  /\ \A e \in Edit : [type |-> "write", edits |-> {e}] \in Intents
BY DEF Intents

LEMMA FuseServed ==
  ASSUME ServedInv, os = "fuse", Fuse, UNCHANGED os
  PROVE  ServedInv'
<1> USE DEF kernelVars, Begins
<1>1. ASSUME NEW n \in Nodes(Me), FuseOpen(n) PROVE ServedInv'
  BY <1>1, OpenServed DEF FuseOpen
<1>2. ASSUME NEW k \in Call, NEW fh \in fds, FuseRead(k, fh) PROVE ServedInv'
  BY <1>2, IntentsMade, AccessServed DEF FuseRead
<1>3. ASSUME NEW k \in Call, NEW fh \in fds, NEW e \in Edit, FuseWrite(k, fh, e)
      PROVE  ServedInv'
  BY <1>3, IntentsMade, AccessServed DEF FuseWrite
<1>4. ASSUME NEW k \in Call, NEW fh \in fds, NEW at \in Time,
             FuseFlush(k, fh, at) \/ FuseRelease(k, fh, at)
      PROVE  ServedInv'
  BY <1>4, FlushServed DEF FuseFlush, FuseRelease
<1>5. ASSUME NEW dir, NEW name \in Name, FuseMkdir(dir, name) PROVE ServedInv'
  BY <1>5, MakeDirKeeps, StructureServed DEF FuseMkdir, ServedInv, MakeDir
<1>6. ASSUME NEW dir, NEW name \in Name, NEW at \in Time, FuseCreate(dir, name, at)
      PROVE  ServedInv'
  BY <1>6, CreateServed DEF FuseCreate
<1>7. ASSUME NEW dir, NEW name, FuseRemove(dir, name) PROVE ServedInv'
  BY <1>7, UnlinkKeeps, StructureServed DEF FuseRemove, ServedInv, Unlink
<1>8. ASSUME NEW dir, NEW name, NEW newDir, NEW newName \in Name,
             FuseRename(dir, name, newDir, newName)
      PROVE  ServedInv'
  BY <1>8, RenameKeeps, StructureServed DEF FuseRename, ServedInv, Rename
<1>9. QED BY <1>1, <1>2, <1>3, <1>4, <1>5, <1>6, <1>7, <1>8 DEF Fuse

LEMMA WinFspServed ==
  ASSUME ServedInv, os = "winfsp", WinFsp, UNCHANGED os
  PROVE  ServedInv'
<1> USE DEF kernelVars, Begins
<1>1. ASSUME NEW n \in Nodes(Me), WinOpen(n) PROVE ServedInv'
  BY <1>1, OpenServed DEF WinOpen
<1>2. ASSUME NEW k \in Call, NEW fh \in fds, WinRead(k, fh) PROVE ServedInv'
  BY <1>2, IntentsMade, AccessServed DEF WinRead
<1>3. ASSUME NEW k \in Call, NEW fh \in fds, NEW e \in Edit, WinWrite(k, fh, e)
      PROVE  ServedInv'
  BY <1>3, IntentsMade, AccessServed DEF WinWrite
<1>4. ASSUME NEW k \in Call, NEW fh \in fds, NEW at \in Time,
             WinFlush(k, fh, at) \/ WinClose(k, fh, at)
      PROVE  ServedInv'
  BY <1>4, FlushServed DEF WinFlush, WinClose
<1>5. QED BY <1>1, <1>2, <1>3, <1>4 DEF WinFsp

\* The engine as a library: no kernel has a handle.
LEMMA EngineServed ==
  ASSUME ServedInv, os = "engine", VfsNext, UNCHANGED <<os, kernelVars>>
  PROVE  ServedInv'
<1> USE DEF Begins
<1>1. EngineInv /\ AckedInv /\ UNCHANGED <<fds, acked>> /\ fds = {}
  BY DEF ServedInv, kernelVars, KernelInv
<1>2. KernelInv'
  BY <1>1 DEF KernelInv
<1>3. ASSUME drive' = drive, EngineInv' PROVE ServedInv'
  BY <1>1, <1>2, <1>3, SameDriveContinued, AnswersStay DEF ServedInv
<1>4. ASSUME EngineInv', Continued(drive[Me], drive'[Me]) PROVE ServedInv'
  BY <1>1, <1>2, <1>4, AnswersStay DEF ServedInv
<1>5. ASSUME NEW k \in Call, NEW fh \in DOMAIN handles, NEW intent \in Intents,
             Access(k, fh, intent)
      PROVE  ServedInv'
  BY <1>1, <1>3, <1>5, AccessKeeps DEF Access
<1>6. ASSUME NEW k \in Call, NEW fh \in DOMAIN handles, NEW closing \in BOOLEAN,
             NEW at \in Time, Flush(k, fh, closing, at)
      PROVE  ServedInv'
  BY <1>1, <1>3, <1>6, FlushKeeps DEF Flush
<1>7. ASSUME NEW k \in Call, Fetched(k) \/ FetchFailed(k) \/ Apply(k) \/ UploadFailed(k) \/ Close(k)
      PROVE  ServedInv'
  <2>1. drive' = drive
    BY <1>7 DEF Fetched, FetchFailed, Apply, UploadFailed, Close
  <2>2. EngineInv'
    BY <1>1, <1>7, FetchedKeeps, CallEnds, ApplyKeeps, CloseKeeps
  <2>3. QED BY <1>3, <2>1, <2>2
<1>8. ASSUME NEW k \in Call, Uploaded(k) PROVE ServedInv'
  BY <1>1, <1>4, <1>8, UploadedKeeps
<1>9. ASSUME NEW n, Open(n) PROVE ServedInv'
  BY <1>1, <1>3, <1>9, OpenKeeps DEF Open
<1>10. ASSUME NEW n, NEW cid \in Cid, NEW at, Revalidate(n, cid, at) PROVE ServedInv'
  BY <1>1, <1>4, <1>10, RevalidateKeeps
<1>11. ASSUME NEW dir, NEW name \in Name, MakeDir(dir, name) PROVE ServedInv'
  BY <1>1, <1>4, <1>11, MakeDirKeeps
<1>12. ASSUME NEW dir, NEW name \in Name, NEW at, Create(dir, name, at) PROVE ServedInv'
  BY <1>1, <1>4, <1>12, CreateKeeps
<1>13. ASSUME NEW dir, NEW name, Unlink(dir, name) PROVE ServedInv'
  BY <1>1, <1>4, <1>13, UnlinkKeeps
<1>14. ASSUME NEW dir, NEW name, NEW newDir, NEW newName \in Name,
              Rename(dir, name, newDir, newName)
       PROVE  ServedInv'
  BY <1>1, <1>4, <1>14, RenameKeeps
<1>15. QED BY <1>5, <1>6, <1>7, <1>8, <1>9, <1>10, <1>11, <1>12, <1>13, <1>14
           DEF VfsNext, Handling, Structuring

-----------------------------------------------------------------------------
(* The mount *)

LEMMA MountNextKeeps ==
  ASSUME MountInv, [MountNext]_mountVars
  PROVE  MountInv'
<1>1. ServedInv
  BY DEF MountInv, ServedInv, EngineInv
<1>2. ASSUME ServedInv', saved' = Nil PROVE MountInv'
  BY <1>2 DEF MountInv, ServedInv, EngineInv
<1>3. CASE os = "engine" /\ VfsNext /\ UNCHANGED kernelVars /\ UNCHANGED <<os, saved>> /\ saved = Nil
  BY <1>1, <1>2, <1>3, EngineServed
<1>4. CASE os = "fuse" /\ Fuse /\ UNCHANGED <<os, saved>> /\ saved = Nil
  BY <1>1, <1>2, <1>4, FuseServed
<1>5. CASE os = "winfsp" /\ WinFsp /\ UNCHANGED <<os, saved>> /\ saved = Nil
  BY <1>1, <1>2, <1>5, WinFspServed
<1>6. ASSUME NEW k \in Call, Proceed(k), UNCHANGED <<os, saved>>, saved = Nil PROVE MountInv'
  BY <1>1, <1>2, <1>6, ProceedServed
<1>7. CASE Unmount
  BY <1>7 DEF Unmount, vfsVars, kernelVars, MountInv, DriveInv, HandlesInv, CallsInv, FuseInv,
              OneRequest, KernelInv, AckedInv
<1>8. CASE UNCHANGED mountVars
  BY <1>8 DEF mountVars, vfsVars, MountInv, DriveInv, HandlesInv, CallsInv, FuseInv,
              OneRequest, KernelInv, AckedInv
<1>9. QED BY <1>3, <1>4, <1>5, <1>6, <1>7, <1>8 DEF MountNext

LEMMA MountInitHolds ==
  ASSUME MountInit
  PROVE  MountInv
<1>1. /\ VfsInit /\ os \in Os /\ fds = {} /\ acked = {} /\ saved = Nil
  BY DEF MountInit
<1>2. PICK cid \in Cid, at \in Time : drive = [r \in Replica |-> WithFiles(cid, at)]
  BY <1>1 DEF VfsInit
<1>3. fresh = [r \in Replica |-> 0] /\ handles = <<>> /\ opened = 0
      /\ call = [k \in Call |-> Returned]
  BY <1>1 DEF VfsInit
<1>4. DriveInv
  <2>1. cid \in Object
    BY ObjectAssumption DEF Object
  <2>2. MountedDrive(WithFiles(cid, at))
    BY <2>1, WithFilesMounted
  <2>3. drive[Me] = WithFiles(cid, at) /\ drive = [r \in Replica |-> drive[r]]
    BY <1>2, WriterIsReplica
  <2>4. fresh \in [Replica -> Nat]
    BY <1>3
  <2>5. QED BY <2>2, <2>3, <2>4 DEF DriveInv
<1>5. HandlesInv
  BY <1>3 DEF HandlesInv
<1>6. CallsInv /\ OneRequest /\ \A k \in Call : ~Closing(call[k])
  BY <1>3 DEF CallsInv, CallOk, OneRequest, Closing, Returned
<1>7. FuseInv /\ KernelInv /\ AckedInv
  BY <1>1, <1>3, <1>6 DEF FuseInv, KernelInv, AckedInv
<1>8. QED BY <1>1, <1>4, <1>5, <1>6, <1>7 DEF MountInv

\* However the engine is called, by one request of the kernel at a time, by many, or
\* as a library: the content log only grows, and every handle, call and answer stays
\* in step with it (Vfs of vfs.rs with the callbacks of linux_fuser.rs and windows.rs).
THEOREM MountInductive == MountSpec => []MountInv
<1>1. MountInit => MountInv
  BY MountInitHolds
<1>2. MountInv /\ [MountNext]_mountVars => MountInv'
  BY MountNextKeeps
<1>3. QED BY <1>1, <1>2, PTL DEF MountSpec


\* An open handle holds a version of its file that was current when it was opened or
\* later, with all that was written through it since (open, hydrate, read and write of
\* vfs.rs), whatever downloads and uploads overlap.
THEOREM HandlesHoldTheirFiles == MountSpec => []HandleHoldsItsFile
<1>1. ASSUME MountInv PROVE HandleHoldsItsFile
  <2>1. \A fh \in DOMAIN handles : HandleOk(handles[fh], drive[Me])
    BY <1>1 DEF MountInv, HandlesInv
  <2>2. \A fh \in DOMAIN handles :
           handles[fh].buf # Nil =>
              IF handles[fh].whole THEN handles[fh].buf = handles[fh].own
              ELSE \E i \in handles[fh].since .. Len(drive[Me].contents) :
                      handles[fh].buf = BytesAt(drive[Me].contents, i, handles[fh].node)
                                           \cup handles[fh].own
    BY <2>1 DEF HandleOk
  <2>3. QED BY <2>2 DEF HandleHoldsItsFile, BytesAt
<1>2. QED BY <1>1, MountInductive, PTL

LEMMA VersionsAreEdits ==
  ASSUME DriveInv, NEW n, NEW bytes, IsVersion(drive[Me], n, bytes)
  PROVE  \E o \in EditsOf(n) : Bytes(o.op.cid) = bytes
<1> DEFINE log == drive[Me].contents
<1>1. InOrder(log)
  BY DEF DriveInv, MountedDrive, DriveOk, ContentLog
<1>2. DOMAIN log = 1 .. Len(log)
  BY <1>1, LogFacts
<1>3. PICK i \in 1 .. Len(log) : log[i].op.id = n /\ Bytes(log[i].op.cid) = bytes
  BY DEF IsVersion
<1>4. log[i] \in EditsOf(n)
  BY <1>2, <1>3 DEF EditsOf, Range
<1>5. QED BY <1>3, <1>4

\* A clean handle holds a version of its file, or was written to during an upload,
\* which a fuse mount does not let happen: a failed upload leaves the handle dirty
\* (flush of vfs.rs).
THEOREM CleanHandlesAreSaved == MountSpec => []UnsavedIsDirty
<1>1. ASSUME MountInv, NEW fh \in DOMAIN handles, handles[fh].buf # Nil,
             handles[fh].late => os = "fuse"
      PROVE  handles[fh].dirty \/ Recorded(handles[fh].node, handles[fh].buf)
  <2> DEFINE h == handles[fh]
  <2>1. HandleOk(h, drive[Me]) /\ DriveInv
    BY <1>1 DEF MountInv, HandlesInv
  <2>2. ~h.late
    BY <1>1 DEF MountInv, FuseInv
  <2>3. h.dirty \/ h.late \/ IsVersion(drive[Me], h.node, h.buf)
    BY <1>1, <2>1, Zenon DEF HandleOk
  <2>4. ASSUME IsVersion(drive[Me], h.node, h.buf) PROVE Recorded(h.node, h.buf)
    BY <2>1, <2>4, VersionsAreEdits DEF Recorded
  <2>5. QED BY <2>2, <2>3, <2>4
<1>2. MountInv => UnsavedIsDirty
  BY <1>1 DEF UnsavedIsDirty
<1>3. QED BY <1>2, MountInductive, PTL

\* The operations on a node as a set are as many as their positions in the log.
LEMMA EditsCounted ==
  ASSUME DriveInv, NEW n
  PROVE  LET log == drive[Me].contents  S == {i \in DOMAIN log : log[i].op.id = n} IN
         /\ IsFiniteSet(S) /\ Cardinality(EditsOf(n)) = Cardinality(S)
         /\ \A o \in EditsOf(n) : \E i \in S : o = log[i]
<1> DEFINE log == drive[Me].contents
           S == {i \in DOMAIN log : log[i].op.id = n}
           f == [i \in S |-> log[i]]
<1>1. InOrder(log)
  BY DEF DriveInv, MountedDrive, DriveOk, ContentLog
<1>2. /\ DOMAIN log = 1 .. Len(log) /\ Len(log) \in Nat
      /\ \A i, j \in 1 .. Len(log) : i < j => log[i].ts # log[j].ts
  BY <1>1, LogFacts
<1>3. IsFiniteSet(S)
  <2>1. S \in SUBSET (1 .. Len(log)) /\ IsFiniteSet(1 .. Len(log))
    BY <1>2, FS_Interval
  <2>2. QED BY <2>1, FS_Subset
<1>4. \A o \in EditsOf(n) : \E i \in S : o = log[i]
  BY DEF EditsOf, Range
<1>5. f \in Bijection(S, EditsOf(n))
  <2>1. f \in [S -> EditsOf(n)]
    BY DEF EditsOf, Range
  <2>2. \A i, j \in S : f[i] = f[j] => i = j
    <3>1. ASSUME NEW i \in S, NEW j \in S, log[i] = log[j] PROVE i = j
      <4>1. i \in 1 .. Len(log) /\ j \in 1 .. Len(log)
        BY <1>2
      <4>2. ~(i < j) /\ ~(j < i)
        BY <1>2, <3>1, <4>1
      <4>3. QED BY <1>2, <4>1, <4>2
    <3>2. QED BY <3>1
  <2>3. \A o \in EditsOf(n) : \E i \in S : f[i] = o
    BY <1>4
  <2> HIDE DEF f, S
  <2>4. QED BY <2>1, <2>2, <2>3 DEF Bijection, Injection, Surjection, IsInjective
<1>6. Cardinality(EditsOf(n)) = Cardinality(S)
  BY <1>3, <1>5, FS_Bijection DEF ExistsBijection
<1>7. QED BY <1>3, <1>4, <1>6

LEMMA EditsKept ==
  ASSUME DriveInv, NEW n \in DOMAIN drive[Me].content,
         Cardinality(EditsOf(n)) <= MaxVersions + 1
  PROVE  {o.op.cid : o \in EditsOf(n)} \subseteq CidsOf(drive[Me].content[n])
<1> DEFINE log == drive[Me].contents
           S == {i \in DOMAIN log : log[i].op.id = n}
<1>1. /\ InOrder(log) /\ drive[Me].content = FoldContent(log)
      /\ \A i \in 1 .. Len(log) : log[i].op.type = "set"
  BY DEF DriveInv, MountedDrive, DriveOk, ContentLog, Logged
<1>2. DOMAIN log = 1 .. Len(log)
  BY <1>1, LogFacts
<1>3. SinceRemoval(log, n) = S
  BY <1>1, <1>2 DEF SinceRemoval
<1>4. Cardinality(EditsOf(n)) = Cardinality(S) /\ \A o \in EditsOf(n) : \E i \in S : o = log[i]
  BY EditsCounted
<1>5. SavedSince(log, n) \subseteq CidsOf(drive[Me].content[n])
  BY <1>1, <1>3, <1>4, FoldKeepsSaves
<1>6. {o.op.cid : o \in EditsOf(n)} \subseteq SavedSince(log, n)
  BY <1>1, <1>2, <1>3, <1>4 DEF SavedSince
<1>7. QED BY <1>5, <1>6

\* Every upload that succeeded is a version of its file, current or prior, in whatever
\* order uploads end (set_content of drive.rs as flush of vfs.rs calls it).
THEOREM UploadsAreKept == MountSpec => []UploadsKept
<1>1. MountInv => UploadsKept
  BY EditsKept DEF MountInv, UploadsKept
<1>2. QED BY <1>1, MountInductive, PTL

\* What a flush, fsync or release was answered with success for is a version in the
\* state that is saved when the mount ends (on_unmount of linux_fuser.rs and
\* windows.rs).
THEOREM FlushesAreHandedOver == MountSpec => []FlushedIsHandedOver
<1>1. ASSUME MountInv, saved # Nil, NEW a \in acked,
             Cardinality(EditsOf(a[1])) <= MaxVersions + 1
      PROVE  \E cid \in CidsOf(saved.content[a[1]]) : Bytes(cid) = a[2]
  <2>1. /\ DriveInv /\ saved = drive[Me]
        /\ a[1] \in DOMAIN drive[Me].content /\ IsVersion(drive[Me], a[1], a[2])
    BY <1>1 DEF MountInv, AckedInv
  <2>2. PICK o \in EditsOf(a[1]) : Bytes(o.op.cid) = a[2]
    BY <2>1, VersionsAreEdits
  <2>3. o.op.cid \in CidsOf(drive[Me].content[a[1]])
    BY <1>1, <2>1, EditsKept
  <2>4. QED BY <2>1, <2>2, <2>3
<1>2. MountInv => FlushedIsHandedOver
  BY <1>1 DEF FlushedIsHandedOver
<1>3. QED BY <1>2, MountInductive, PTL

=============================================================================
