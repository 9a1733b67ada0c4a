---------------------------- MODULE ClientProofs ----------------------------
(***************************************************************************)
(* Theorems about two clients of a drive, each while commands run on it.   *)
(*                                                                         *)
(* The folder mirror (Folder), for any files and chunks, any edits of the  *)
(* folder and any number of runs: what is recorded in the drive, or about  *)
(* to be, can be fetched.                                                  *)
(*                                                                         *)
(* The client that polls the change feed (DriveFeed) of a drive with one   *)
(* writer that is not compacted: it misses nothing, is told everything in  *)
(* order and once, and the creation of a node first.                       *)
(***************************************************************************)
EXTENDS Folder, DriveFeed, DriveProofs

-----------------------------------------------------------------------------
(* The folder mirror *)

\* The paths that a folder can have: sequences of names, not empty.
Path == Seq(AnyName) \ {<<>>}

\* Every file that a content map refers to is in the store: its manifest and chunks.
Stored(m) == \A cid \in AllCids(m) : {cid} \cup ChunksOf[cid] \subseteq blobs

\* What materialize has still to write has paths.
TodoOk(todo) ==
    /\ todo \in Seq(Range(todo))
    /\ \A i \in 1 .. Len(todo) : todo[i].path \in Path

MatWith(d, todo, touched) ==
    [op |-> "materialize", d |-> d, touched |-> touched, todo |-> todo]

MatOk ==
    /\ job = MatWith(job.d, job.todo, job.touched)
    /\ TodoOk(job.todo)

\* A chunk of the file that is being put is stored or still to be sent.
PutOk ==
    /\ job.put = [path |-> job.put.path, cid |-> job.put.cid, mtime |-> job.put.mtime,
                  missing |-> job.put.missing]
    /\ job.put.path \in Path
    /\ ChunksOf[job.put.cid] \subseteq blobs \cup job.put.missing

PushWith(d, todo, put, count, changed) ==
    [op |-> "push", d |-> d, todo |-> todo, touched |-> job.touched,
     listed |-> job.listed, put |-> put, made |-> count, watch |-> job.watch,
     changed |-> changed, from |-> job.from, mirrored |-> job.mirrored]

PushOk ==
    /\ job = PushWith(job.d, job.todo, job.put, job.made, job.changed)
    /\ job.made \in Nat
    /\ job.put = Nil \/ PutOk

AsleepOk ==
    /\ job = [op |-> "asleep", d |-> job.d, made |-> job.made, touched |-> job.touched]
    /\ job.made \in Nat

\* A run that is under way: its drive is in order and refers to stored files.
Running ==
    /\ MatOk \/ PushOk \/ AsleepOk
    /\ DriveOk(job.d) /\ Stored(job.d.content)

FInv ==
    /\ IInv
    /\ DOMAIN disk \subseteq Path
    /\ Stored(drive[Me].content)
    /\ job = NoJob \/ Running

-----------------------------------------------------------------------------
(* What one more save makes a content map refer to *)

LEMMA PushVersionCids ==
  ASSUME NEW q, IsSequence(q), NEW v
  PROVE  VersionCids(PushVersion(q, v)) \subseteq VersionCids(q) \cup {v.cid}
<1> DEFINE L == Len(q)
<1>1. PICK S : q \in Seq(S)
  BY DEF IsSequence
<1> DEFINE W == S \cup {v}
<1>2. q \in Seq(W) /\ v \in W /\ L \in Nat /\ DOMAIN q = 1 .. L
  BY <1>1
<1> HIDE DEF W
<1>3. ASSUME NEW p \in Seq(W), VersionCids(p) \subseteq VersionCids(q)
      PROVE  VersionCids(Append(p, v)) \subseteq VersionCids(q) \cup {v.cid}
  <2> DEFINE M == Len(p)
             more == Append(p, v)
  <2>1. /\ M \in Nat /\ DOMAIN p = 1 .. M /\ DOMAIN more = 1 .. M + 1
        /\ more[M + 1] = v /\ \A i \in 1 .. M : more[i] = p[i]
    BY <1>2
  <2> HIDE DEF M, more
  <2>2. VersionCids(more) \subseteq VersionCids(p) \cup {v.cid}
    <3> SUFFICES ASSUME NEW i \in DOMAIN more
                 PROVE  more[i].cid \in VersionCids(p) \cup {v.cid}
      BY DEF VersionCids
    <3>1. i = M + 1 \/ i \in 1 .. M
      BY <2>1
    <3>2. QED BY <2>1, <3>1 DEF VersionCids
  <2>3. QED BY <1>3, <2>2 DEF more
<1>4. CASE q # <<>> /\ Last(q).cid = v.cid
  BY <1>4 DEF PushVersion
<1>5. CASE ~(q # <<>> /\ Last(q).cid = v.cid) /\ L = MaxVersions
  <2>1. PushVersion(q, v) = Append(Tail(q), v) /\ q # <<>>
    BY <1>2, <1>5, MaxVersionsAssumption DEF PushVersion
  <2> DEFINE p == Tail(q)
  <2>2. p \in Seq(W) /\ DOMAIN p = 1 .. L - 1 /\ \A i \in 1 .. L - 1 : p[i] = q[i + 1]
    BY <1>2, <2>1
  <2> HIDE DEF p
  <2>3. \A i \in 1 .. L - 1 : i + 1 \in 1 .. L
    BY <1>2
  <2>4. VersionCids(p) \subseteq VersionCids(q)
    BY <1>2, <2>2, <2>3 DEF VersionCids
  <2>5. VersionCids(Append(p, v)) \subseteq VersionCids(q) \cup {v.cid}
    BY <1>3, <2>2, <2>4
  <2>6. QED BY <2>1, <2>5 DEF p
<1>6. CASE ~(q # <<>> /\ Last(q).cid = v.cid) /\ L # MaxVersions
  <2>1. PushVersion(q, v) = Append(q, v)
    BY <1>6 DEF PushVersion
  <2>2. QED BY <1>2, <1>3, <2>1
<1>7. QED BY <1>4, <1>5, <1>6

\* A record refers to the cid it is given, and to nothing else that is new.
LEMMA RecordCids ==
  ASSUME NEW c, HasHistory(c), NEW cid, NEW at
  PROVE  CidsOf(Record(c, cid, at)) \subseteq CidsOf(c) \cup {cid}
<1> SUFFICES ASSUME NEW d, d = Record(c, cid, at)
             PROVE  CidsOf(d) \subseteq CidsOf(c) \cup {cid}
  OBVIOUS
<1> DEFINE q == c.versions
<1>1. CidsOf(c) = {c.cid} \cup VersionCids(q)
  BY DEF CidsOf, VersionCids
<1>2. \A v : VersionCids(PushVersion(q, v)) \subseteq VersionCids(q) \cup {v.cid}
  BY PushVersionCids DEF HasHistory
<1>3. \/ d = c /\ (d = Record(c, cid, at) => cid = c.cid)
      \/ \E v : /\ d = [cid |-> cid, mtime |-> at, versions |-> PushVersion(c.versions, v)]
                /\ v.cid = c.cid
      \/ \E v : /\ d = [c EXCEPT !.versions = PushVersion(c.versions, v)]
                /\ v.cid = cid
  BY RecordForms
<1>4. CASE d = c
  BY <1>4
<1>5. ASSUME NEW v, d = [cid |-> cid, mtime |-> at, versions |-> PushVersion(q, v)],
             v.cid = c.cid
      PROVE  CidsOf(d) \subseteq CidsOf(c) \cup {cid}
  <2>1. CidsOf(d) = {cid} \cup VersionCids(PushVersion(q, v))
    BY <1>5 DEF CidsOf, VersionCids
  <2>2. QED BY <1>1, <1>2, <1>5, <2>1
<1>6. ASSUME NEW v, d = [c EXCEPT !.versions = PushVersion(q, v)], v.cid = cid
      PROVE  CidsOf(d) \subseteq CidsOf(c) \cup {cid}
  <2>1. d = [cid |-> c.cid, mtime |-> c.mtime, versions |-> PushVersion(q, v)]
    BY <1>6 DEF HasHistory
  <2>2. CidsOf(d) = {c.cid} \cup VersionCids(PushVersion(q, v))
    BY <2>1 DEF CidsOf, VersionCids
  <2>3. QED BY <1>1, <1>2, <1>6, <2>2
<1>7. QED BY <1>3, <1>4, <1>5, <1>6

LEMMA SetCids ==
  ASSUME NEW m, Histories(m), NEW n, NEW cid, NEW at
  PROVE  AllCids(ApplyContent(m, SetOp(n, cid, at))) \subseteq AllCids(m) \cup {cid}
<1> DEFINE op == SetOp(n, cid, at)
           c == Effect(m, op)
<1>1. op.type = "set" /\ op.id = n /\ op.cid = cid /\ op.at = at
  BY DEF SetOp
<1> HIDE DEF op
<1>2. ApplyContent(m, op) = WithRecord(m, n, c)
  BY <1>1, ApplyIs DEF Keeps
<1>3. CidsOf(c) \subseteq AllCids(m) \cup {cid}
  <2>1. CASE n \in DOMAIN m
    <3>1. c = Record(m[n], cid, at)
      BY <1>1, <2>1 DEF Effect
    <3>2. CidsOf(Record(m[n], cid, at)) \subseteq CidsOf(m[n]) \cup {cid}
      BY <2>1, RecordCids DEF Histories
    <3>3. CidsOf(m[n]) \subseteq AllCids(m)
      BY <2>1 DEF AllCids
    <3>4. QED BY <3>1, <3>2, <3>3
  <2>2. CASE n \notin DOMAIN m
    <3>1. c = [cid |-> cid, mtime |-> at, versions |-> <<>>]
      BY <1>1, <2>2 DEF Effect
    <3>2. CidsOf(c) = {cid}
      BY <3>1 DEF CidsOf
    <3>3. QED BY <3>2
  <2>3. QED BY <2>1, <2>2
<1> HIDE DEF c
<1>4. AllCids(WithRecord(m, n, c)) \subseteq AllCids(m) \cup CidsOf(c)
  BY DEF AllCids, WithRecord
<1>5. QED BY <1>2, <1>3, <1>4 DEF op

LEMMA SetAddsOne ==
  ASSUME NEW d, DriveOk(d), NEW r, NEW n, NEW cid, NEW at
  PROVE  AllCids(EmitContent(d, r, SetOp(n, cid, at)).content) \subseteq AllCids(d.content) \cup {cid}
<1>1. Histories(d.content)
  BY FoldHistories DEF DriveOk, ContentLog
<1> DEFINE op == SetOp(n, cid, at)
           e == EmitContent(d, r, op)
<1>2. e = [d EXCEPT !.lamport  = @ + 1, !.content  = ApplyContent(@, op),
                    !.contents = Append(@, [ts |-> NextTs(d, r), op |-> op])]
  BY Zenon DEF EmitContent
<1>3. d = [lamport |-> d.lamport, moves |-> d.moves, contents |-> d.contents,
           tree |-> d.tree, content |-> d.content]
  BY DEF DriveOk
<1> DEFINE applied == ApplyContent(d.content, op)
           more == Append(d.contents, [ts |-> NextTs(d, r), op |-> op])
<1>4. e = [lamport |-> d.lamport + 1, moves |-> d.moves, contents |-> more,
           tree |-> d.tree, content |-> applied]
  <2> HIDE DEF op
  <2>1. QED BY <1>2, <1>3
<1>5. e.content = applied
  <2> HIDE DEF applied, more
  <2>1. QED BY <1>4
<1>6. AllCids(applied) \subseteq AllCids(d.content) \cup {cid}
  BY <1>1, SetCids
<1> HIDE DEF applied, more
<1>7. AllCids(e.content) \subseteq AllCids(d.content) \cup {cid}
  BY <1>5, <1>6
<1>8. QED BY <1>7

LEMMA MoveAddsNone ==
  ASSUME NEW d, DriveOk(d), NEW r, NEW n, NEW parent, NEW name, NEW kind
  PROVE  EmitMove(d, r, n, parent, name, kind).content = d.content
<1> DEFINE op == [ts |-> NextTs(d, r), child |-> n, new_parent |-> parent,
                  new_name |-> name, kind |-> kind]
           e == EmitMove(d, r, n, parent, name, kind)
<1>1. e = [d EXCEPT !.lamport = @ + 1, !.tree = Integrate(@, op), !.moves = Append(@, op)]
  BY Zenon DEF EmitMove
<1>2. d = [lamport |-> d.lamport, moves |-> d.moves, contents |-> d.contents,
           tree |-> d.tree, content |-> d.content]
  BY DEF DriveOk
<1> HIDE DEF op, e
<1>3. e = [lamport |-> d.lamport + 1, moves |-> Append(d.moves, op), contents |-> d.contents,
           tree |-> Integrate(d.tree, op), content |-> d.content]
  BY <1>1, <1>2
<1>4. e.content = d.content
  BY <1>3
<1>5. QED BY <1>4 DEF e

-----------------------------------------------------------------------------
(* Runs *)

LEMMA MeAlone == Me \in Replica /\ Me \in Nat /\ \A r \in Replica : r = Me
<1>1. PICK r \in Replica : Replica = {r}
  BY FolderAssumption
<1>2. QED BY <1>1, ReplicaAssumption DEF Me

LEMMA StoredGrows ==
  ASSUME NEW m, Stored(m), blobs \subseteq blobs'
  PROVE  \A cid \in AllCids(m) : {cid} \cup ChunksOf[cid] \subseteq blobs'
BY DEF Stored

\* A step that leaves the saved drive alone.
LEMMA FrameKeeps ==
  ASSUME FInv, UNCHANGED <<drive, fresh>>, DOMAIN disk' \subseteq Path, blobs \subseteq blobs',
         job' = NoJob \/ Running'
  PROVE  FInv'
<1>1. IInv'
  BY DEF FInv, IInv, TypeOK, Originals
<1>2. Stored(drive[Me].content)'
  BY StoredGrows DEF FInv, Stored
<1>3. QED BY <1>1, <1>2 DEF FInv

\* Which run it is.
LEMMA RunKinds ==
  ASSUME FInv
  PROVE  /\ job.op = "materialize" => Running /\ MatOk
         /\ job.op = "push" => Running /\ PushOk
         /\ job.op = "asleep" => Running /\ AsleepOk
         /\ job # NoJob => Running
<1>1. job = NoJob => job.op = "idle"
  BY DEF NoJob
<1>2. MatOk => job.op = "materialize"
  BY DEF MatOk, MatWith
<1>3. PushOk => job.op = "push"
  BY DEF PushOk, PushWith
<1>4. AsleepOk => job.op = "asleep"
  BY DEF AsleepOk
<1>5. QED BY <1>1, <1>2, <1>3, <1>4 DEF FInv, Running

LEMMA PathFacts ==
  /\ \A p \in Path : Last(p) \in AnyName /\ p \in Seq(AnyName)
  /\ \A p \in Seq(AnyName) : \A name \in AnyName : Append(p, name) \in Path
<1>1. ASSUME NEW p \in Path PROVE Last(p) \in AnyName /\ p \in Seq(AnyName)
  <2>1. p \in Seq(AnyName) /\ p # <<>>
    BY DEF Path
  <2>2. Len(p) \in 1 .. Len(p)
    BY <2>1
  <2>3. p[Len(p)] \in AnyName
    BY <2>1, <2>2
  <2>4. QED BY <2>1, <2>3 DEF Last
<1>2. ASSUME NEW p \in Seq(AnyName), NEW name \in AnyName PROVE Append(p, name) \in Path
  <2> DEFINE q == Append(p, name)
  <2>1. q \in Seq(AnyName) /\ Len(q) = Len(p) + 1 /\ Len(p) \in Nat
    OBVIOUS
  <2> HIDE DEF q
  <2>2. q # <<>>
    BY <2>1
  <2>3. q \in Path
    BY <2>1, <2>2 DEF Path
  <2>4. QED BY <2>3 DEF q
<1>3. QED BY <1>1, <1>2

LEMMA DriveFacts ==
  ASSUME NEW d, DriveOk(d)
  PROVE  /\ TreeSound(d.tree) /\ d.lamport \in Nat
         /\ Dirs(d) \subseteq Place /\ \A n : KindOf(d, n) \in Kind
         /\ \A n \in DOMAIN d.tree.edges : n \in Item /\ d.tree.edges[n].name \in AnyName
<1>1. TreeSound(d.tree) /\ d.lamport \in Nat
  BY DriveTree DEF DriveOk
<1>2. \A n \in DOMAIN d.tree.edges : n \in Item /\ d.tree.edges[n].name \in AnyName
  BY <1>1 DEF TreeSound
<1>3. \A n : KindOf(d, n) \in Kind
  BY <1>1, KindOfIsKind
<1>4. Dirs(d) \subseteq Place
  BY <1>2 DEF Dirs, Resolvable, Item, Place
<1>5. QED BY <1>1, <1>2, <1>3, <1>4

LEMMA PushFacts ==
  ASSUME FInv, job.op = "push"
  PROVE  /\ PushOk /\ Running /\ DriveOk(job.d) /\ Stored(job.d.content) /\ job.made \in Nat
         /\ Me \in Replica /\ Dirs(job.d) \subseteq Place /\ JobId \in Item
         /\ \A p \in Path : Last(p) \in AnyName
<1>1. PushOk /\ Running
  BY RunKinds
<1>2. DriveOk(job.d) /\ Stored(job.d.content) /\ job.made \in Nat
  BY <1>1 DEF Running, PushOk
<1>3. job.d.lamport + 1 \in Nat
  BY <1>2, DriveFacts
<1>4. JobId \in Item
  BY <1>2, <1>3 DEF JobId, Item, NodeId, OwnId
<1>5. QED BY <1>1, <1>2, <1>4, MeAlone, PathFacts, DriveFacts

LEMMA PushFields ==
  ASSUME NEW d, NEW todo, NEW put, NEW count, NEW yes, NEW e
  PROVE  [PushWith(d, todo, put, count, yes) EXCEPT !.d = e] = PushWith(e, todo, put, count, yes)
BY DEF PushWith

\* A push goes on with nothing to put and with a drive in order, all of it stored.
LEMMA PushGoesOn ==
  ASSUME FInv, PushOk, UNCHANGED <<drive, fresh, disk>>, blobs \subseteq blobs',
         NEW e, DriveOk(e),
         \A cid \in AllCids(e.content) : {cid} \cup ChunksOf[cid] \subseteq blobs',
         NEW todo, NEW count \in Nat, NEW yes,
         job' = PushWith(e, todo, Nil, count, yes)
  PROVE  FInv'
<1>1. /\ job'.d = e /\ job'.todo = todo /\ job'.put = Nil /\ job'.made = count
      /\ job'.changed = yes
      /\ job'.touched = job.touched /\ job'.listed = job.listed /\ job'.watch = job.watch
      /\ job'.from = job.from /\ job'.mirrored = job.mirrored
  BY DEF PushWith
<1>2. PushOk'
  BY <1>1 DEF PushOk, PushWith
<1>3. DriveOk(job'.d) /\ Stored(job.d.content)'
  BY <1>1 DEF Stored
<1>4. DOMAIN disk' \subseteq Path
  BY DEF FInv
<1>5. QED BY <1>2, <1>3, <1>4, FrameKeeps DEF Running

LEMMA BegunRuns ==
  ASSUME NEW d, DriveOk(d), Stored(d.content), NEW count \in Nat, NEW watch, UNCHANGED blobs,
         job' = BeginPush(d, count, watch)
  PROVE  Running'
<1> DEFINE todo == Entries(<<>>)
           files == FilesOnDisk
           same == Mirrors(d)
<1>1. job' = [op |-> "push", d |-> d, todo |-> todo, touched |-> {},
              listed |-> files, put |-> Nil, made |-> count, watch |-> watch,
              changed |-> FALSE, from |-> d, mirrored |-> same]
  BY DEF BeginPush
<1> HIDE DEF todo, files, same
<1>2. PushOk'
  BY <1>1 DEF PushOk, PushWith
<1>3. job'.d = d
  BY <1>1
<1>4. DriveOk(job'.d) /\ Stored(job.d.content)'
  BY <1>3 DEF Stored
<1>5. QED BY <1>2, <1>4 DEF Running

-----------------------------------------------------------------------------
(* The steps of a push *)

LEMMA VisitDirKeeps ==
  ASSUME FInv, VisitDir
  PROVE  FInv'
<1> DEFINE p == Head(job.todo)
           dir == Resolve(job.d.tree, Parent(p))
           todo == Entries(p) \o Tail(job.todo)
           count == job.made + 1
           e == EmitMove(job.d, Me, JobId, dir, Last(p), "dir")
<1>1. /\ job.op = "push" /\ job.put = Nil /\ p \in DOMAIN disk
      /\ UNCHANGED <<drive, fresh, disk, blobs>>
      /\ \/ job' = [job EXCEPT !.todo = todo]
         \/ /\ dir \in Dirs(job.d)
            /\ job' = [job EXCEPT !.todo = todo, !.made = count, !.d = e]
  BY DEF VisitDir, Visiting
<1>2. /\ PushOk /\ Running /\ DriveOk(job.d) /\ Stored(job.d.content) /\ job.made \in Nat
      /\ Me \in Replica /\ Dirs(job.d) \subseteq Place /\ JobId \in Item
      /\ \A q \in Path : Last(q) \in AnyName
  BY <1>1, PushFacts
<1>3. blobs \subseteq blobs' /\ UNCHANGED <<drive, fresh, disk>> /\ count \in Nat
      /\ \A cid \in AllCids(job.d.content) : {cid} \cup ChunksOf[cid] \subseteq blobs'
  BY <1>1, <1>2, StoredGrows
<1>4. Last(p) \in AnyName
  BY <1>1, <1>2 DEF FInv
<1>5. job = PushWith(job.d, job.todo, Nil, job.made, job.changed)
  BY <1>1, <1>2 DEF PushOk
<1>6. CASE job' = [job EXCEPT !.todo = todo]
  <2> HIDE DEF todo
  <2>1. job' = PushWith(job.d, todo, Nil, job.made, job.changed)
    BY <1>5, <1>6 DEF PushWith
  <2>2. QED BY <1>2, <1>3, <2>1, PushGoesOn
<1>7. CASE dir \in Dirs(job.d) /\ job' = [job EXCEPT !.todo = todo, !.made = count, !.d = e]
  <2>1. dir \in Place /\ "dir" \in Kind
    BY <1>2, <1>7 DEF Kind
  <2>2. DriveOk(e) /\ e.content = job.d.content
    <3> HIDE DEF p, dir
    <3>1. QED BY <1>2, <1>4, <2>1, EmitMoveGrows, MoveAddsNone
  <2> HIDE DEF e, todo, count
  <2>3. job' = [[[job EXCEPT !.todo = todo] EXCEPT !.made = count] EXCEPT !.d = e]
    BY <1>7, Zenon
  <2>4. [job EXCEPT !.todo = todo] = PushWith(job.d, todo, Nil, job.made, job.changed)
    BY <1>5 DEF PushWith
  <2>5. [PushWith(job.d, todo, Nil, job.made, job.changed) EXCEPT !.made = count]
          = PushWith(job.d, todo, Nil, count, job.changed)
    BY DEF PushWith
  <2>6. [PushWith(job.d, todo, Nil, count, job.changed) EXCEPT !.d = e]
          = PushWith(e, todo, Nil, count, job.changed)
    BY PushFields
  <2>7. job' = PushWith(e, todo, Nil, count, job.changed)
    BY <2>3, <2>4, <2>5, <2>6
  <2>8. \A cid \in AllCids(e.content) : {cid} \cup ChunksOf[cid] \subseteq blobs'
    BY <1>3, <2>2
  <2>9. QED BY <1>2, <1>3, <2>2, <2>7, <2>8, PushGoesOn
<1>8. QED BY <1>1, <1>6, <1>7

LEMMA VisitFileKeeps ==
  ASSUME FInv, VisitFile
  PROVE  FInv'
<1> DEFINE p == Head(job.todo)
           todo == Tail(job.todo)
           put == [path |-> p, cid |-> disk[p].cid, mtime |-> disk[p].mtime,
                   missing |-> MissingChunks(disk[p].cid)]
<1>1. /\ job.op = "push" /\ p \in DOMAIN disk /\ UNCHANGED <<drive, fresh, disk, blobs>>
      /\ job' = [job EXCEPT !.todo = todo, !.put = put]
  BY DEF VisitFile, Visiting
<1>2. PushOk /\ Running /\ DriveOk(job.d) /\ Stored(job.d.content)
  BY <1>1, PushFacts
<1>3. /\ put = [path |-> put.path, cid |-> put.cid, mtime |-> put.mtime, missing |-> put.missing]
      /\ put.path \in Path /\ ChunksOf[put.cid] \subseteq blobs \cup put.missing
  BY <1>1 DEF FInv, MissingChunks
<1> HIDE DEF p, todo, put
<1>4. job' = PushWith(job.d, todo, put, job.made, job.changed)
  BY <1>1, <1>2 DEF PushOk, PushWith
<1>5. /\ job'.d = job.d /\ job'.todo = todo /\ job'.put = put /\ job'.made = job.made
      /\ job'.changed = job.changed
      /\ job'.touched = job.touched /\ job'.listed = job.listed /\ job'.watch = job.watch
      /\ job'.from = job.from /\ job'.mirrored = job.mirrored
  BY <1>4 DEF PushWith
<1>6. PutOk'
  BY <1>1, <1>3, <1>5 DEF PutOk
<1>7. PushOk'
  BY <1>2, <1>4, <1>5, <1>6 DEF PushOk, PushWith
<1>8. DriveOk(job'.d) /\ Stored(job.d.content)' /\ DOMAIN disk' \subseteq Path /\ blobs \subseteq blobs'
  BY <1>1, <1>2, <1>5 DEF Stored, FInv
<1>9. QED BY <1>1, <1>7, <1>8, FrameKeeps DEF Running

LEMMA UploadKeeps ==
  ASSUME FInv, UploadChunk
  PROVE  FInv'
<1>1. PICK c \in job.put.missing :
        /\ job.op = "push" /\ job.put # Nil /\ UNCHANGED <<drive, fresh, disk>>
        /\ blobs' = blobs \cup {c}
        /\ job' = [job EXCEPT !.put.missing = @ \ {c}]
  BY DEF UploadChunk, Putting
<1>2. PushOk /\ Running /\ PutOk /\ DOMAIN disk \subseteq Path /\ DriveOk(job.d)
      /\ Stored(job.d.content)
  BY <1>1, PushFacts DEF PushOk, FInv
<1> DEFINE put == [path |-> job.put.path, cid |-> job.put.cid, mtime |-> job.put.mtime,
                   missing |-> job.put.missing \ {c}]
<1>3. job' = [job EXCEPT !.put = put]
  <2>1. [job.put EXCEPT !.missing = @ \ {c}] = put
    BY <1>2 DEF PutOk
  <2>2. job' = [job EXCEPT !.put = [job.put EXCEPT !.missing = @ \ {c}]]
    BY <1>1
  <2>3. QED BY <2>1, <2>2
<1>4. put.path = job.put.path /\ put.cid = job.put.cid /\ put.missing = job.put.missing \ {c}
      /\ put = [path |-> put.path, cid |-> put.cid, mtime |-> put.mtime, missing |-> put.missing]
  OBVIOUS
<1> HIDE DEF put
<1>5. job' = PushWith(job.d, job.todo, put, job.made, job.changed)
  BY <1>2, <1>3 DEF PushOk, PushWith
<1>6. job'.put = put /\ job'.made = job.made /\ job'.d = job.d
  BY <1>5 DEF PushWith
<1>7. PutOk'
  BY <1>1, <1>2, <1>4, <1>6 DEF PutOk
<1>8. PushOk'
  BY <1>2, <1>5, <1>6, <1>7 DEF PushOk, PushWith
<1>9. DriveOk(job'.d) /\ Stored(job.d.content)' /\ DOMAIN disk' \subseteq Path
      /\ blobs \subseteq blobs'
  BY <1>1, <1>2, <1>6, StoredGrows DEF Stored
<1>10. QED BY <1>1, <1>8, <1>9, FrameKeeps DEF Running

\* The jobs that RecordFile makes.
AfterRecord(e, count, yes) == [job EXCEPT !.put = Nil, !.changed = yes, !.made = count, !.d = e]

LEMMA RecordedFields ==
  ASSUME PushOk, NEW e, NEW yes
  PROVE  /\ [job EXCEPT !.put = Nil] = PushWith(job.d, job.todo, Nil, job.made, job.changed)
         /\ [job EXCEPT !.put = Nil, !.changed = yes, !.d = e]
              = PushWith(e, job.todo, Nil, job.made, yes)
<1>1. job = PushWith(job.d, job.todo, job.put, job.made, job.changed)
  BY DEF PushOk
<1>2. [job EXCEPT !.put = Nil] = PushWith(job.d, job.todo, Nil, job.made, job.changed)
  BY <1>1 DEF PushWith
<1>3. [PushWith(job.d, job.todo, Nil, job.made, job.changed) EXCEPT !.changed = yes]
        = PushWith(job.d, job.todo, Nil, job.made, yes)
  BY DEF PushWith
<1>4. [PushWith(job.d, job.todo, Nil, job.made, yes) EXCEPT !.d = e]
        = PushWith(e, job.todo, Nil, job.made, yes)
  BY PushFields
<1>5. [job EXCEPT !.put = Nil, !.changed = yes, !.d = e]
        = [[[job EXCEPT !.put = Nil] EXCEPT !.changed = yes] EXCEPT !.d = e]
  BY Zenon
<1>6. QED BY <1>2, <1>3, <1>4, <1>5

LEMMA RecordedAnewFields ==
  ASSUME PushOk
  PROVE  \A count, e, yes : AfterRecord(e, count, yes) = PushWith(e, job.todo, Nil, count, yes)
<1> SUFFICES ASSUME NEW count, NEW e, NEW yes
             PROVE  AfterRecord(e, count, yes) = PushWith(e, job.todo, Nil, count, yes)
  OBVIOUS
<1>1. [PushWith(job.d, job.todo, Nil, job.made, yes) EXCEPT !.made = count]
        = PushWith(job.d, job.todo, Nil, count, yes)
  BY DEF PushWith
<1>2. [PushWith(job.d, job.todo, Nil, count, yes) EXCEPT !.d = e]
        = PushWith(e, job.todo, Nil, count, yes)
  BY PushFields
<1>3. AfterRecord(e, count, yes)
        = [[[[job EXCEPT !.put = Nil] EXCEPT !.changed = yes] EXCEPT !.made = count] EXCEPT !.d = e]
  BY Zenon DEF AfterRecord
<1>4. [job EXCEPT !.put = Nil] = PushWith(job.d, job.todo, Nil, job.made, job.changed)
  BY RecordedFields
<1>5. [PushWith(job.d, job.todo, Nil, job.made, job.changed) EXCEPT !.changed = yes]
        = PushWith(job.d, job.todo, Nil, job.made, yes)
  BY DEF PushWith
<1>6. QED BY <1>1, <1>2, <1>3, <1>4, <1>5

\* The drive in memory after a file is recorded refers to one content more, which is
\* stored by then.
LEMMA RecordFileKeeps ==
  ASSUME FInv, RecordFile
  PROVE  FInv'
<1> DEFINE file == job.put
           dir == Resolve(job.d.tree, Parent(file.path))
           name == Last(file.path)
           moved == EmitMove(job.d, Me, JobId, dir, name, "file")
           anew == EmitContent(moved, Me, SetOp(JobId, file.cid, file.mtime))
           again == EmitContent(job.d, Me, SetOp(ChildNamed(job.d, dir, name), file.cid, file.mtime))
           count == job.made + 1
<1>1. /\ job.op = "push" /\ file # Nil /\ file.missing = {}
      /\ UNCHANGED <<drive, fresh, disk>> /\ blobs' = blobs \cup {file.cid}
      /\ \/ job' = [job EXCEPT !.put = Nil]
         \/ dir \in Dirs(job.d) /\ job' = Recorded(dir, file)
  BY DEF RecordFile, Putting
<1>2. /\ PushOk /\ Running /\ DriveOk(job.d) /\ Stored(job.d.content) /\ job.made \in Nat
      /\ Me \in Replica /\ Dirs(job.d) \subseteq Place /\ JobId \in Item
      /\ \A p \in Path : Last(p) \in AnyName
  BY <1>1, PushFacts
<1>3. PutOk
  BY <1>1, <1>2 DEF PushOk
<1>4. name \in AnyName /\ blobs \subseteq blobs' /\ {file.cid} \cup ChunksOf[file.cid] \subseteq blobs'
  BY <1>1, <1>2, <1>3 DEF PutOk
<1>5. \A cid \in AllCids(job.d.content) : {cid} \cup ChunksOf[cid] \subseteq blobs'
  BY <1>2, <1>4, StoredGrows
<1>6. UNCHANGED <<drive, fresh, disk>> /\ count \in Nat
  BY <1>1, <1>2
<1>7. CASE job' = [job EXCEPT !.put = Nil]
  <2>1. job' = PushWith(job.d, job.todo, Nil, job.made, job.changed)
    BY <1>2, <1>7, RecordedFields
  <2>2. QED BY <1>2, <1>4, <1>5, <1>6, <2>1, PushGoesOn
<1>8. CASE dir \in Dirs(job.d) /\ job' = RecordedAnew(dir, file)
  <2>1. job' = AfterRecord(anew, count, TRUE)
    BY <1>8, Zenon DEF RecordedAnew, AfterRecord
  <2>2. dir \in Place /\ "file" \in Kind
    BY <1>2, <1>8 DEF Kind
  <2>3. DriveOk(moved) /\ moved.content = job.d.content
    <3> HIDE DEF dir, name
    <3>1. QED BY <1>2, <1>4, <2>2, EmitMoveGrows, MoveAddsNone
  <2>4. DriveOk(anew)
    <3> DEFINE op == SetOp(JobId, file.cid, file.mtime)
    <3>1. op.type \in {"set", "restore", "remove"}
      BY DEF SetOp
    <3>2. Me \in Nat
      BY <1>2, ReplicaAssumption
    <3> HIDE DEF op, moved
    <3>3. DriveOk(EmitContent(moved, Me, op))
      BY <2>3, <3>1, <3>2, EmitContentGrows
    <3>4. QED BY <3>3 DEF op
  <2>5. AllCids(anew.content) \subseteq AllCids(job.d.content) \cup {file.cid}
    <3> HIDE DEF moved
    <3>1. QED BY <2>3, SetAddsOne
  <2> HIDE DEF anew
  <2>6. \A cid \in AllCids(anew.content) : {cid} \cup ChunksOf[cid] \subseteq blobs'
    BY <1>4, <1>5, <2>5
  <2> HIDE DEF count
  <2>7. job' = PushWith(anew, job.todo, Nil, count, TRUE)
    <3>1. PushOk
      BY <1>2
    <3>2. AfterRecord(anew, count, TRUE) = PushWith(anew, job.todo, Nil, count, TRUE)
      BY <3>1, RecordedAnewFields, Zenon
    <3>3. QED BY <2>1, <3>2, Zenon
  <2> HIDE DEF file
  <2>8. QED BY <1>2, <1>4, <1>6, <2>4, <2>6, <2>7, PushGoesOn
<1>9. CASE job' = [job EXCEPT !.put = Nil, !.changed = TRUE, !.d = again]
  <2>1. DriveOk(again)
    <3> DEFINE op == SetOp(ChildNamed(job.d, dir, name), file.cid, file.mtime)
    <3>1. op.type \in {"set", "restore", "remove"}
      BY DEF SetOp
    <3>2. Me \in Nat
      BY <1>2, ReplicaAssumption
    <3> HIDE DEF op
    <3>3. DriveOk(EmitContent(job.d, Me, op))
      BY <1>2, <3>1, <3>2, EmitContentGrows
    <3>4. QED BY <3>3 DEF op
  <2>2. AllCids(again.content) \subseteq AllCids(job.d.content) \cup {file.cid}
    BY <1>2, SetAddsOne
  <2> HIDE DEF again
  <2>3. \A cid \in AllCids(again.content) : {cid} \cup ChunksOf[cid] \subseteq blobs'
    BY <1>4, <1>5, <2>2
  <2>4. job' = PushWith(again, job.todo, Nil, job.made, TRUE)
    BY <1>2, <1>9, RecordedFields, Zenon
  <2> HIDE DEF file
  <2>5. QED BY <1>2, <1>4, <1>6, <2>1, <2>3, <2>4, PushGoesOn
<1>10. Recorded(dir, file) = RecordedAnew(dir, file)
       \/ Recorded(dir, file) = [job EXCEPT !.put = Nil, !.changed = TRUE, !.d = again]
  BY DEF Recorded
<1>11. QED BY <1>1, <1>7, <1>8, <1>9, <1>10

-----------------------------------------------------------------------------
(* The end of a push *)

IsSweep(f, d, q, n) ==
    f = [i \in 0 .. n |-> IF i = 0 THEN d
                          ELSE IF f[i - 1] = Nil THEN Nil ELSE Trashed(f[i - 1], q[i].path)]

LEMMA SweepExists ==
  ASSUME NEW d, NEW q, NEW n \in Nat
  PROVE  \E f : IsSweep(f, d, q, n)
<1> DEFINE T == {l \in Nat : ~ \E f : IsSweep(f, d, q, l)}
<1> SUFFICES ASSUME T # {} PROVE FALSE
  OBVIOUS
<1>1. PICK l \in T : \A k \in T : l <= k
  BY LeastNat
<1>2. l # 0
  <2>1. IsSweep([i \in 0 .. 0 |-> d], d, q, 0)
    BY DEF IsSweep
  <2>2. QED BY <2>1
<1>3. l \in Nat /\ l - 1 \in Nat /\ 0 .. l - 1 \subseteq 0 .. l /\ ~(l <= l - 1)
  BY <1>2
<1>4. PICK f : IsSweep(f, d, q, l - 1)
  BY <1>1, <1>3
<1> DEFINE g == [i \in 0 .. l |->
                   IF i = l THEN IF f[l - 1] = Nil THEN Nil ELSE Trashed(f[l - 1], q[l].path)
                   ELSE f[i]]
<1>5. \A i \in 0 .. l - 1 :
         f[i] = IF i = 0 THEN d ELSE IF f[i - 1] = Nil THEN Nil ELSE Trashed(f[i - 1], q[i].path)
  BY <1>4 DEF IsSweep
<1>6. g = [i \in 0 .. l |->
             IF i = 0 THEN d ELSE IF g[i - 1] = Nil THEN Nil ELSE Trashed(g[i - 1], q[i].path)]
  BY <1>2, <1>3, <1>5
<1>7. IsSweep(g, d, q, l)
  <2> HIDE DEF g
  <2>1. QED BY <1>6 DEF IsSweep
<1>8. QED BY <1>1, <1>7

\* Trashing a file is a move.
LEMMA TrashedOk ==
  ASSUME NEW d, DriveOk(d), NEW p
  PROVE  Trashed(d, p) = Nil \/ (DriveOk(Trashed(d, p)) /\ Trashed(d, p).content = d.content)
<1> DEFINE n == Resolve(d.tree, p)
           name == d.tree.edges[n].name
           kind == KindOf(d, n)
<1> SUFFICES ASSUME n \in DOMAIN d.tree.edges
             PROVE  DriveOk(Trashed(d, p)) /\ Trashed(d, p).content = d.content
  BY DEF Trashed
<1>1. Trashed(d, p) = EmitMove(d, Me, n, TRASH, name, kind)
  BY DEF Trashed
<1>2. /\ Me \in Replica /\ n \in Item /\ TRASH \in Place /\ name \in AnyName /\ kind \in Kind
  BY MeAlone, DriveFacts DEF Place
<1> HIDE DEF n, name, kind
<1>3. QED BY <1>1, <1>2, EmitMoveGrows, MoveAddsNone

\* A directory has finitely many entries.
LEMMA ReaddirFinite ==
  ASSUME NEW t, TreeSound(t), NEW dir
  PROVE  IsFiniteSet(Readdir(t, dir))
<1> DEFINE entry(n) == <<t.edges[n].parent, t.edges[n].name, n>>
           f == [n \in DOMAIN t.edges |-> entry(n)]
           row(c) == [name |-> Rendered(t, c), child |-> c[3], kind |-> t.edges[c[3]].kind]
           S == Shown(t, dir)
           g == [c \in S |-> row(c)]
<1>1. IsFiniteSet({f[n] : n \in DOMAIN t.edges})
  BY ImageFinite DEF TreeSound
<1>2. t.children = {f[n] : n \in DOMAIN t.edges}
  BY DEF TreeSound, IndexOf
<1>3. S \subseteq t.children
  BY DEF Shown, ChildrenOf
<1> HIDE DEF f
<1>4. IsFiniteSet(S)
  BY <1>1, <1>2, <1>3, FS_Subset
<1>5. Readdir(t, dir) = {row(c) : c \in S}
  BY DEF Readdir
<1>6. {row(c) : c \in S} = {g[c] : c \in S}
  <2> HIDE DEF row, S
  <2>1. \A c \in S : g[c] = row(c)
    OBVIOUS
  <2> HIDE DEF g
  <2>2. QED BY <2>1
<1> HIDE DEF g, S, row
<1>7. IsFiniteSet({g[c] : c \in S})
  BY <1>4, ImageFinite
<1> HIDE DEF f
<1>8. QED BY <1>5, <1>6, <1>7

\* drive_file_paths comes by finitely many entries of each.
LEMMA EntriesFinite ==
  ASSUME NEW d, DriveOk(d)
  PROVE  IsFiniteSet(EntriesAtTop(d)) /\ \A e : IsFiniteSet(Inside(d, e))
<1>1. TreeSound(d.tree)
  BY DriveFacts
<1>2. IsFiniteSet(EntriesAtTop(d))
  <2> DEFINE R == Readdir(d.tree, ROOT)
             row(f) == [path |-> <<f.name>>, via |-> <<f.child>>]
             g == [f \in R |-> row(f)]
  <2>1. IsFiniteSet(R)
    BY <1>1, ReaddirFinite
  <2>2. EntriesAtTop(d) = {row(f) : f \in R}
    BY DEF EntriesAtTop
  <2> HIDE DEF R, row
  <2>3. {row(f) : f \in R} = {g[f] : f \in R}
    OBVIOUS
  <2> HIDE DEF g
  <2>4. QED BY <2>1, <2>2, <2>3, ImageFinite
<1>3. ASSUME NEW e PROVE IsFiniteSet(Inside(d, e))
  <2> DEFINE dir == Resolve(d.tree, e.path)
             R == Readdir(d.tree, dir)
             row(f) == [path |-> Append(e.path, f.name), via |-> Append(e.via, f.child)]
             g == [f \in R |-> row(f)]
  <2>1. IsFiniteSet(R)
    BY <1>1, ReaddirFinite
  <2>2. Inside(d, e) = {} \/ Inside(d, e) = {row(f) : f \in R}
    BY DEF Inside
  <2> HIDE DEF R, row
  <2>3. {row(f) : f \in R} = {g[f] : f \in R}
    OBVIOUS
  <2> HIDE DEF g
  <2>4. IsFiniteSet({g[f] : f \in R})
    BY <2>1, ImageFinite
  <2>5. QED BY <2>2, <2>3, <2>4, FS_EmptySet
<1>4. QED BY <1>2, <1>3

\* f has the levels of the walk of drive_file_paths, down to the n-th.
IsDescent(f, d, n) ==
    f = [k \in 1 .. n |-> IF k = 1 THEN EntriesAtTop(d)
                          ELSE UNION {Inside(d, e) : e \in f[k - 1]}]

LEMMA LevelsExist ==
  ASSUME NEW d, NEW n \in Nat
  PROVE  \E f : IsDescent(f, d, n)
<1> DEFINE T == {l \in Nat : ~ \E f : IsDescent(f, d, l)}
<1> SUFFICES ASSUME T # {} PROVE FALSE
  OBVIOUS
<1>1. PICK l \in T : \A k \in T : l <= k
  BY LeastNat
<1>2. l # 0
  <2>1. IsDescent([k \in 1 .. 0 |-> {}], d, 0)
    BY DEF IsDescent
  <2>2. QED BY <2>1
<1>3. l \in Nat /\ l - 1 \in Nat /\ 1 .. l - 1 \subseteq 1 .. l /\ ~(l <= l - 1)
  BY <1>2
<1>4. PICK f : IsDescent(f, d, l - 1)
  BY <1>1, <1>3
<1> DEFINE last == IF l = 1 THEN EntriesAtTop(d) ELSE UNION {Inside(d, e) : e \in f[l - 1]}
           g == [k \in 1 .. l |-> IF k = l THEN last ELSE f[k]]
<1>5. \A k \in 1 .. l - 1 :
         f[k] = IF k = 1 THEN EntriesAtTop(d) ELSE UNION {Inside(d, e) : e \in f[k - 1]}
  BY <1>4 DEF IsDescent
<1>6. \A k \in 1 .. l :
         g[k] = IF k = 1 THEN EntriesAtTop(d) ELSE UNION {Inside(d, e) : e \in g[k - 1]}
  <2> SUFFICES ASSUME NEW k \in 1 .. l
               PROVE  g[k] = IF k = 1 THEN EntriesAtTop(d)
                             ELSE UNION {Inside(d, e) : e \in g[k - 1]}
    OBVIOUS
  <2>1. k # 1 => k - 1 \in 1 .. l - 1 /\ g[k - 1] = f[k - 1]
    BY <1>3
  <2>2. CASE k = l
    BY <2>1, <2>2
  <2>3. CASE k # l
    <3>1. k \in 1 .. l - 1 /\ g[k] = f[k]
      BY <2>3
    <3> HIDE DEF g
    <3>2. QED BY <1>5, <2>1, <3>1
  <2>4. QED BY <2>2, <2>3
<1>7. g = [k \in 1 .. l |-> g[k]]
  OBVIOUS
<1> HIDE DEF g
<1>8. IsDescent(g, d, l)
  BY <1>6, <1>7 DEF IsDescent
<1>9. QED BY <1>1, <1>8

LEMMA AllEntriesFinite ==
  ASSUME NEW d, DriveOk(d)
  PROVE  IsFiniteSet(AllEntries(d))
<1> DEFINE n == Cardinality(DOMAIN d.tree.edges)
           level == CHOOSE f : IsDescent(f, d, n)
           T == {k \in 1 .. n : ~IsFiniteSet(level[k])}
<1>1. n \in Nat
  BY DriveFacts, FS_CardinalityType DEF TreeSound
<1>2. AllEntries(d) = UNION {level[k] : k \in 1 .. n}
  BY DEF AllEntries, IsDescent
<1> HIDE DEF n
<1>3. IsDescent(level, d, n)
  BY <1>1, LevelsExist
<1> HIDE DEF level
<1>4. \A k \in 1 .. n :
         level[k] = IF k = 1 THEN EntriesAtTop(d) ELSE UNION {Inside(d, e) : e \in level[k - 1]}
  BY <1>3 DEF IsDescent
<1>5. ASSUME T # {} PROVE FALSE
  <2>1. PICK k \in T : \A j \in T : k <= j
    <3>1. T \in SUBSET Nat
      BY <1>1
    <3> HIDE DEF T
    <3>2. QED BY <1>5, <3>1, LeastNat
  <2>2. k \in 1 .. n /\ ~IsFiniteSet(level[k])
    BY <2>1
  <2>3. k # 1
    BY <1>4, <2>2, EntriesFinite
  <2>4. k - 1 \in 1 .. n /\ ~(k <= k - 1)
    BY <1>1, <2>2, <2>3
  <2>5. IsFiniteSet(level[k - 1])
    BY <2>1, <2>4
  <2> DEFINE L == level[k - 1]
             f == [e \in L |-> Inside(d, e)]
  <2>6. level[k] = UNION {Inside(d, e) : e \in L}
    BY <1>4, <2>2, <2>3
  <2> HIDE DEF L
  <2>7. \A e \in L : f[e] = Inside(d, e)
    OBVIOUS
  <2> HIDE DEF f
  <2>8. \A e \in L : IsFiniteSet(f[e])
    BY <2>7, EntriesFinite
  <2>9. IsFiniteSet(L)
    BY <2>5 DEF L
  <2>10. IsFiniteSet(UNION {f[e] : e \in L})
    BY <2>8, <2>9, UnionFinite
  <2>11. {Inside(d, e) : e \in L} = {f[e] : e \in L}
    BY <2>7
  <2>12. QED BY <2>2, <2>6, <2>10, <2>11
<1>6. \A k \in 1 .. n : IsFiniteSet(level[k])
  BY <1>5
<1>7. IsFiniteSet(1 .. n)
  BY <1>1, FS_Interval
<1> DEFINE K == 1 .. n
<1> HIDE DEF K
<1>8. IsFiniteSet(K) /\ \A k \in K : IsFiniteSet(level[k])
  BY <1>6, <1>7 DEF K
<1>9. IsFiniteSet(UNION {level[k] : k \in K})
  BY <1>8, UnionFinite
<1>10. QED BY <1>2, <1>9 DEF K

\* The files to trash are finitely many.
LEMMA GoneIsFinite ==
  ASSUME DriveOk(job.d)
  PROVE  Len(Gone) \in Nat
<1> DEFINE gone == {e \in AllEntries(job.d) :
                       KindOf(job.d, Last(e.via)) = "file" /\ e.path \notin job.listed}
           N == Cardinality(gone)
           before == {p \in gone \X gone :
                         \/ PathLess(p[1].path, p[2].path)
                         \/ p[1].path = p[2].path /\ PathLess(p[1].via, p[2].via)}
<1>1. N \in Nat
  BY AllEntriesFinite, FS_Subset, FS_CardinalityType
<1>2. Gone = InRank(gone, before)
  BY DEF Gone, InListingOrder
<1> HIDE DEF gone, before, N
<1>3. Len(InRank(gone, before)) = N
  <2> DEFINE Item1(k) == CHOOSE x \in gone : Cardinality({y \in gone : <<y, x>> \in before}) = k - 1
  <2>1. InRank(gone, before) = [k \in 1 .. N |-> Item1(k)]
    BY DEF InRank, N
  <2> HIDE DEF Item1
  <2>2. QED BY <1>1, <2>1
<1>4. QED BY <1>1, <1>2, <1>3

\* What a push saves is in order and refers to what the drive in memory refers to.
LEMMA SweptOk ==
  ASSUME DriveOk(job.d), Stored(job.d.content), NEW gone, Len(gone) \in Nat, Swept(gone) # Nil
  PROVE  DriveOk(Swept(gone)) /\ Stored(Swept(gone).content)
<1> DEFINE L == Len(gone)
           f == CHOOSE g : IsSweep(g, job.d, gone, L)
           T == {k \in 0 .. L : f[k] # Nil /\ ~(DriveOk(f[k]) /\ f[k].content = job.d.content)}
<1>1. L \in Nat
  OBVIOUS
<1>2. Swept(gone) = f[L]
  BY DEF Swept, IsSweep
<1> HIDE DEF L
<1>3. IsSweep(f, job.d, gone, L)
  BY <1>1, SweepExists
<1> HIDE DEF f
<1>4. \A i \in 0 .. L : f[i] = IF i = 0 THEN job.d
                               ELSE IF f[i - 1] = Nil THEN Nil ELSE Trashed(f[i - 1], gone[i].path)
  BY <1>3 DEF IsSweep
<1>5. ASSUME T # {} PROVE FALSE
  <2>1. PICK k \in T : \A j \in T : k <= j
    <3>1. T \in SUBSET Nat
      BY <1>1
    <3> HIDE DEF T
    <3>2. QED BY <1>5, <3>1, LeastNat
  <2>2. k # 0
    BY <1>1, <1>4, <2>1
  <2>3. k - 1 \in 0 .. L /\ k \in 0 .. L /\ ~(k <= k - 1)
    BY <1>1, <2>1, <2>2
  <2>4. f[k - 1] # Nil /\ f[k] = Trashed(f[k - 1], gone[k].path)
    BY <1>4, <2>1, <2>2, <2>3
  <2>5. DriveOk(f[k - 1]) /\ f[k - 1].content = job.d.content
    BY <2>1, <2>3, <2>4
  <2>6. f[k] = Nil \/ (DriveOk(f[k]) /\ f[k].content = job.d.content)
    BY <2>4, <2>5, TrashedOk
  <2>7. QED BY <2>1, <2>6
<1>6. DriveOk(f[L]) /\ f[L].content = job.d.content
  BY <1>1, <1>2, <1>5
<1>7. QED BY <1>2, <1>6 DEF Stored

\* The only process that is under way may save any drive that is in order.
LEMMA SavedKeeps ==
  ASSUME IInv, UNCHANGED fresh, NEW d, DriveOk(d), drive' = [drive EXCEPT ![Me] = d]
  PROVE  IInv' /\ drive'[Me] = d
<1>1. /\ Me \in Replica /\ \A r \in Replica : r = Me
      /\ drive = [r \in Replica |-> drive[r]]
  BY MeAlone DEF IInv, TypeOK
<1>2. drive' = [r \in Replica |-> drive'[r]] /\ \A r \in Replica : drive'[r] = d
  BY <1>1
<1>3. TypeOK'
  BY <1>2 DEF IInv, TypeOK
<1>4. Originals'
  BY <1>2 DEF Originals
<1>5. QED BY <1>1, <1>2, <1>3, <1>4 DEF IInv

LEMMA EndPushKeeps ==
  ASSUME FInv, EndPush
  PROVE  FInv'
<1> DEFINE left == Swept(Gone)
<1>1. /\ job.op = "push" /\ left # Nil /\ UNCHANGED <<fresh, disk, blobs>>
      /\ \/ /\ job' = [op |-> "asleep", d |-> left, made |-> job.made, touched |-> {}]
            /\ UNCHANGED drive \/ drive' = [drive EXCEPT ![Me] = left]
         \/ job' = NoJob /\ drive' = [drive EXCEPT ![Me] = left]
  BY DEF EndPush
<1>2. PushOk /\ Running /\ DriveOk(job.d) /\ Stored(job.d.content) /\ job.made \in Nat
  BY <1>1, PushFacts
<1>3. DriveOk(left) /\ Stored(left.content)
  BY <1>1, <1>2, GoneIsFinite, SweptOk
<1> HIDE DEF left
<1>4. job' = NoJob \/ Running'
  <2> SUFFICES ASSUME job' = [op |-> "asleep", d |-> left, made |-> job.made, touched |-> {}]
               PROVE  Running'
    BY <1>1
  <2> DEFINE d == left
  <2>1. DriveOk(d) /\ Stored(d.content)
    BY <1>3
  <2>2. job' = [op |-> "asleep", d |-> d, made |-> job.made, touched |-> {}]
    OBVIOUS
  <2> HIDE DEF d
  <2>3. AsleepOk'
    BY <1>2, <2>2 DEF AsleepOk
  <2>4. job'.d = d
    BY <2>2
  <2>5. DriveOk(job'.d) /\ Stored(job.d.content)'
    BY <1>1, <2>1, <2>4 DEF Stored
  <2>6. QED BY <2>3, <2>5 DEF Running
<1>5. DOMAIN disk' \subseteq Path
  BY <1>1 DEF FInv
<1>6. CASE UNCHANGED drive
  BY <1>1, <1>4, <1>5, <1>6, FrameKeeps
<1>7. CASE drive' = [drive EXCEPT ![Me] = left]
  <2>1. IInv' /\ drive'[Me] = left
    BY <1>1, <1>3, <1>7, SavedKeeps DEF FInv
  <2>2. Stored(drive[Me].content)'
    BY <1>1, <1>3, <2>1 DEF Stored
  <2>3. QED BY <1>4, <1>5, <2>1, <2>2 DEF FInv
<1>8. QED BY <1>1, <1>6, <1>7

LEMMA PushingKeeps ==
  ASSUME FInv, Pushing
  PROVE  FInv'
<1>1. DOMAIN disk \subseteq Path /\ DriveOk(drive[Me]) /\ Stored(drive[Me].content)
  BY MeAlone DEF FInv, IInv, TypeOK
<1>2. ASSUME NEW watch \in BOOLEAN, StartPush(watch) PROVE FInv'
  <2>1. UNCHANGED <<drive, fresh, disk, blobs>> /\ job' = BeginPush(drive[Me], 0, watch)
    BY <1>2 DEF StartPush
  <2>2. Running'
    BY <1>1, <2>1, BegunRuns
  <2>3. QED BY <1>1, <2>1, <2>2, FrameKeeps
<1>3. CASE WakeUp
  <2>1. /\ job.op = "asleep" /\ UNCHANGED <<drive, fresh, disk, blobs>>
        /\ job' = BeginPush(job.d, job.made, TRUE)
    BY <1>3 DEF WakeUp
  <2>2. DriveOk(job.d) /\ Stored(job.d.content) /\ job.made \in Nat
    BY <2>1, RunKinds DEF AsleepOk, Running
  <2>3. Running'
    BY <2>1, <2>2, BegunRuns
  <2>4. QED BY <1>1, <2>1, <2>3, FrameKeeps
<1>4. QED BY <1>2, <1>3, VisitDirKeeps, VisitFileKeeps, UploadKeeps, RecordFileKeeps,
             EndPushKeeps DEF Pushing

-----------------------------------------------------------------------------
(* materialize, the user and the other commands *)

\* A listing is of paths.
LEMMA ListingOk ==
  ASSUME NEW d, DriveOk(d), NEW dir, NEW path \in Seq(AnyName)
  PROVE  TodoOk(Listing(d, dir, path))
<1> DEFINE t == d.tree
           kept == {e \in Readdir(t, dir) : e.kind = "dir" \/ e.child \in DOMAIN d.content}
           ids == {e.child : e \in kept}
           todo == ByShownName(t, dir, ids)
           shown(n) == Rendered(t, <<dir, t.edges[n].name, n>>)
           L == Len(todo)
<1>1. TreeSound(t) /\ \A n \in DOMAIN t.edges : t.edges[n].name \in Seq(Nat)
  BY DriveFacts DEF AnyName
<1>2. ids \subseteq NodesListed(t, dir)
  BY DEF NodesListed
<1>3. todo \in Seq(ids)
  <2> HIDE DEF ids
  <2>1. QED BY <1>1, <1>2, ListedIsSequence
<1>4. ids \subseteq DOMAIN t.edges
  BY <1>1, <1>2, ListedAreNodes
<1>5. \A n \in ids : shown(n) \in AnyName
  <2> SUFFICES ASSUME NEW n \in ids PROVE shown(n) \in AnyName
    OBVIOUS
  <2> DEFINE c == <<dir, t.edges[n].name, n>>
  <2>1. c[2] \in Seq(Nat)
    BY <1>1, <1>4
  <2> HIDE DEF c
  <2>2. Rendered(t, c) \in Seq(Nat)
    BY <1>1, <2>1, RenderedIsSequence
  <2>3. QED BY <2>2 DEF c, AnyName
<1>6. L \in Nat /\ DOMAIN todo = 1 .. L /\ \A i \in 1 .. L : todo[i] \in ids
  <2> HIDE DEF todo, ids
  <2>1. QED BY <1>3
<1> DEFINE out == [i \in DOMAIN todo |-> [path |-> Append(path, shown(todo[i])), child |-> todo[i]]]
<1>7. Listing(d, dir, path) = out
  BY DEF Listing
<1> HIDE DEF shown, todo, L, ids
<1>8. \A i \in 1 .. L : out[i].path \in Path
  BY <1>5, <1>6, PathFacts
<1>9. Len(out) = L /\ out \in Seq(Range(out))
  <2>1. DOMAIN out = 1 .. L
    BY <1>6
  <2>2. \A i \in 1 .. L : out[i] \in Range(out)
    BY <2>1 DEF Range
  <2>3. out = [i \in 1 .. L |-> out[i]]
    BY <2>1
  <2> HIDE DEF out
  <2>4. QED BY <1>6, <2>2, <2>3
<1> HIDE DEF out
<1>10. TodoOk(out)
  BY <1>8, <1>9 DEF TodoOk
<1>11. QED BY <1>7, <1>10

LEMMA TodoSteps ==
  ASSUME NEW todo, TodoOk(todo), todo # <<>>, NEW more, TodoOk(more)
  PROVE  /\ Head(todo).path \in Path /\ TodoOk(Tail(todo))
         /\ TodoOk(more \o Tail(todo))
<1> DEFINE W == Range(todo) \cup Range(more)
           P == {e \in W : e.path \in Path}
<1>1. todo \in Seq(W) /\ more \in Seq(W)
  BY DEF TodoOk
<1>2. todo \in Seq(P) /\ more \in Seq(P)
  <2> HIDE DEF W
  <2>1. \A i \in 1 .. Len(todo) : todo[i] \in P
    BY <1>1 DEF TodoOk
  <2>2. \A i \in 1 .. Len(more) : more[i] \in P
    BY <1>1 DEF TodoOk
  <2> HIDE DEF P
  <2>3. QED BY <1>1, <2>1, <2>2
<1>3. \A e \in P : e.path \in Path
  OBVIOUS
<1> HIDE DEF P
<1>4. Head(todo) \in P /\ Tail(todo) \in Seq(P)
  BY <1>2
<1>5. more \o Tail(todo) \in Seq(P)
  BY <1>2, <1>4
<1>6. ASSUME NEW q \in Seq(P) PROVE TodoOk(q)
  <2>1. q \in Seq(Range(q)) /\ \A i \in 1 .. Len(q) : q[i] \in P
    BY DEF Range
  <2>2. QED BY <1>3, <2>1 DEF TodoOk
<1>7. QED BY <1>3, <1>4, <1>5, <1>6

LEMMA WriteDirKeeps ==
  ASSUME FInv, WriteDir
  PROVE  FInv'
<1> DEFINE e == Head(job.todo)
           dir == Resolve(job.d.tree, e.path)
           todo == Listing(job.d, dir, e.path) \o Tail(job.todo)
<1>1. /\ job.op = "materialize" /\ job.todo # <<>> /\ UNCHANGED <<drive, fresh, blobs>>
      /\ disk' = [q \in DOMAIN disk \cup {e.path} |-> IF q = e.path THEN Nil ELSE disk[q]]
      /\ job' = [job EXCEPT !.todo = todo] \/ job' = NoJob
  BY DEF WriteDir
<1>2. MatOk /\ DriveOk(job.d) /\ Stored(job.d.content) /\ TodoOk(job.todo)
      /\ DOMAIN disk \subseteq Path
  BY <1>1, RunKinds DEF Running, MatOk, FInv
<1>3. e.path \in Path
  BY <1>1, <1>2, TodoSteps
<1>4. e.path \in Seq(AnyName)
  BY <1>3, PathFacts
<1>5. TodoOk(todo)
  <2> HIDE DEF e, dir
  <2>1. TodoOk(Listing(job.d, dir, e.path))
    BY <1>2, <1>4, ListingOk
  <2>2. QED BY <1>1, <1>2, <2>1, TodoSteps
<1>6. DOMAIN disk' \subseteq Path
  BY <1>1, <1>2, <1>3
<1> HIDE DEF e, dir, todo
<1>7. CASE job' = [job EXCEPT !.todo = todo]
  <2>1. job' = MatWith(job.d, todo, job.touched)
    BY <1>2, <1>7 DEF MatOk, MatWith
  <2>2. job'.d = job.d /\ job'.todo = todo /\ job'.touched = job.touched
    BY <2>1 DEF MatWith
  <2>3. MatOk' /\ DriveOk(job'.d) /\ Stored(job.d.content)'
    BY <1>1, <1>2, <1>5, <2>1, <2>2 DEF MatOk, MatWith, TodoOk, Stored
  <2>4. QED BY <1>1, <1>6, <2>3, FrameKeeps DEF Running
<1>8. QED BY <1>1, <1>6, <1>7, FrameKeeps

LEMMA WriteFileKeeps ==
  ASSUME FInv, WriteFile
  PROVE  FInv'
<1> DEFINE e == Head(job.todo)
           todo == Tail(job.todo)
<1>1. /\ job.op = "materialize" /\ job.todo # <<>> /\ UNCHANGED <<drive, fresh, blobs>>
      /\ DOMAIN disk' = DOMAIN disk \cup {e.path}
      /\ job' = [job EXCEPT !.todo = todo] \/ job' = NoJob
  BY DEF WriteFile, Put
<1>2. MatOk /\ DriveOk(job.d) /\ Stored(job.d.content) /\ TodoOk(job.todo)
      /\ DOMAIN disk \subseteq Path
  BY <1>1, RunKinds DEF Running, MatOk, FInv
<1>3. e.path \in Path /\ TodoOk(todo)
  BY <1>1, <1>2, TodoSteps
<1>4. DOMAIN disk' \subseteq Path
  BY <1>1, <1>2, <1>3
<1> HIDE DEF e, todo
<1>5. CASE job' = NoJob
  BY <1>1, <1>4, <1>5, FrameKeeps
<1>6. CASE job' = [job EXCEPT !.todo = todo]
  <2>1. job' = MatWith(job.d, todo, job.touched)
    BY <1>2, <1>6 DEF MatOk, MatWith
  <2>2. job'.d = job.d /\ job'.todo = todo /\ job'.touched = job.touched
    BY <2>1 DEF MatWith
  <2>3. MatOk' /\ DriveOk(job'.d) /\ Stored(job.d.content)'
    BY <1>1, <1>2, <1>3, <2>1, <2>2 DEF MatOk, MatWith, TodoOk, Stored
  <2>4. QED BY <1>1, <1>4, <2>3, FrameKeeps DEF Running
<1>7. QED BY <1>1, <1>5, <1>6

LEMMA MaterializingKeeps ==
  ASSUME FInv, Materializing
  PROVE  FInv'
<1>1. CASE StartMaterialize
  <2> DEFINE d == drive[Me]
             todo == Listing(d, ROOT, <<>>)
  <2>1. UNCHANGED <<drive, fresh, disk, blobs>> /\ job' = MatWith(d, todo, {})
    BY <1>1 DEF StartMaterialize, MatWith
  <2>2. DriveOk(d) /\ Stored(d.content) /\ DOMAIN disk' \subseteq Path
    BY <2>1, MeAlone DEF FInv, IInv, TypeOK
  <2>3. TodoOk(todo)
    <3> HIDE DEF d
    <3>1. <<>> \in Seq(AnyName)
      OBVIOUS
    <3>2. QED BY <2>2, <3>1, ListingOk
  <2> HIDE DEF todo, d
  <2>4. job'.d = d /\ job'.todo = todo /\ job'.touched = {}
    BY <2>1 DEF MatWith
  <2>5. MatOk' /\ DriveOk(job'.d) /\ Stored(job.d.content)'
    BY <2>1, <2>2, <2>3, <2>4 DEF MatOk, MatWith, TodoOk, Stored
  <2>6. QED BY <2>1, <2>2, <2>5, FrameKeeps DEF Running
<1>2. CASE EndMaterialize
  <2>1. UNCHANGED <<drive, fresh, disk, blobs>> /\ job' = NoJob
    BY <1>2 DEF EndMaterialize
  <2>2. QED BY <2>1, FrameKeeps DEF FInv
<1>3. QED BY <1>1, <1>2, WriteDirKeeps, WriteFileKeeps DEF Materializing

\* What the user touches is noted by the run, which goes on as it is.
LEMMA TouchKeeps ==
  ASSUME FInv, NEW ps, Touch(ps), DOMAIN disk' \subseteq Path
  PROVE  FInv'
<1>1. UNCHANGED <<drive, fresh, blobs>>
      /\ job' = IF job = NoJob THEN job ELSE [job EXCEPT !.touched = @ \cup ps]
  BY DEF Touch
<1>2. CASE job = NoJob
  BY <1>1, <1>2, FrameKeeps
<1>3. CASE job # NoJob
  <2> DEFINE touched == job.touched \cup ps
  <2>1. job' = [job EXCEPT !.touched = touched] /\ Running
    BY <1>1, <1>3, RunKinds
  <2> HIDE DEF touched
  <2>2. MatOk => MatOk' /\ job'.d = job.d
    <3> SUFFICES ASSUME MatOk PROVE MatOk' /\ job'.d = job.d
      OBVIOUS
    <3>1. job' = MatWith(job.d, job.todo, touched)
      BY <2>1 DEF MatOk, MatWith
    <3>2. job'.d = job.d /\ job'.todo = job.todo /\ job'.touched = touched
      BY <3>1 DEF MatWith
    <3>3. QED BY <3>1, <3>2 DEF MatOk, MatWith, TodoOk
  <2>3. AsleepOk => AsleepOk' /\ job'.d = job.d
    <3> SUFFICES ASSUME AsleepOk PROVE AsleepOk' /\ job'.d = job.d
      OBVIOUS
    <3>1. job' = [op |-> "asleep", d |-> job.d, made |-> job.made, touched |-> touched]
      BY <2>1 DEF AsleepOk
    <3>2. QED BY <3>1 DEF AsleepOk
  <2>4. PushOk => PushOk' /\ job'.d = job.d
    <3> SUFFICES ASSUME PushOk PROVE PushOk' /\ job'.d = job.d
      OBVIOUS
    <3>1. job' = [op |-> "push", d |-> job.d, todo |-> job.todo, touched |-> touched,
                  listed |-> job.listed, put |-> job.put, made |-> job.made,
                  watch |-> job.watch, changed |-> job.changed, from |-> job.from,
                  mirrored |-> job.mirrored]
      BY <2>1 DEF PushOk, PushWith
    <3>2. /\ job'.d = job.d /\ job'.put = job.put /\ job'.made = job.made
      BY <3>1
    <3>3. job' = PushWith(job.d, job.todo, job.put, job.made, job.changed)'
      BY <3>1 DEF PushWith
    <3>4. PutOk => PutOk'
      BY <1>1, <3>2 DEF PutOk
    <3>5. QED BY <3>2, <3>3, <3>4 DEF PushOk
  <2>5. Running'
    BY <1>1, <2>1, <2>2, <2>3, <2>4 DEF Running, Stored
  <2>6. QED BY <1>1, <2>5, FrameKeeps
<1>4. QED BY <1>2, <1>3

LEMMA UserEditsKeep ==
  ASSUME FInv, UserEdits
  PROVE  FInv'
<1>1. PICK p \in EditPath \cup DOMAIN disk :
          \/ \E cid \in Cid, at \in Time : EditFile(p, cid, at)
          \/ MakeFolder(p)
          \/ Delete(p)
  BY DEF UserEdits
<1>2. p \in Path /\ DOMAIN disk \subseteq Path
  BY FolderAssumption DEF Path, FInv
<1>3. ASSUME NEW cid \in Cid, NEW at \in Time, EditFile(p, cid, at) PROVE FInv'
  BY <1>2, <1>3, TouchKeeps DEF EditFile
<1>4. CASE MakeFolder(p)
  BY <1>2, <1>4, TouchKeeps DEF MakeFolder
<1>5. CASE Delete(p)
  BY <1>2, <1>5, TouchKeeps DEF Delete
<1>6. QED BY <1>1, <1>3, <1>4, <1>5

LEMMA OtherCommandKeeps ==
  ASSUME FInv, OtherCommand
  PROVE  FInv'
<1> DEFINE known == AllCids(drive'[Me].content)
<1>1. /\ Structural(Me) \/ Editing(Me) \/ Deleting(Me) \/ Reload(Me)
      /\ blobs' = blobs \cup known \cup UNION {ChunksOf[c] : c \in known}
      /\ UNCHANGED <<disk, job>>
  BY DEF OtherCommand
<1>2. IInv /\ Me \in Replica
  BY MeAlone DEF FInv
<1>3. IInv'
  BY <1>1, <1>2, StructuralKeeps, EditingKeeps, DeletingKeeps, ReloadKeeps
<1>4. Stored(drive[Me].content)'
  <2>1. \A cid \in known : {cid} \cup ChunksOf[cid] \subseteq blobs'
    BY <1>1
  <2>2. QED BY <2>1 DEF Stored
<1>5. job' = NoJob \/ Running'
  <2> SUFFICES ASSUME job # NoJob PROVE Running'
    BY <1>1
  <2>1. Running /\ blobs \subseteq blobs'
    BY <1>1, RunKinds
  <2>2. Stored(job.d.content)'
    BY <1>1, <2>1, StoredGrows DEF Running, Stored
  <2>3. (MatOk => MatOk') /\ (AsleepOk => AsleepOk')
    BY <1>1 DEF MatOk, AsleepOk, TodoOk, MatWith
  <2>4. PushOk => PushOk'
    BY <1>1, <2>1 DEF PushOk, PutOk, PushWith
  <2>5. QED BY <1>1, <2>1, <2>2, <2>3, <2>4 DEF Running
<1>6. QED BY <1>1, <1>3, <1>4, <1>5 DEF FInv

LEMMA AddedOk ==
  ASSUME NEW d, DriveOk(d), NEW name \in AnyName, NEW cid
  PROVE  DriveOk(Added(d, name, cid))
<1> DEFINE id == <<d.lamport + 1, 0>>
           e == EmitMove(d, Me, id, ROOT, name, "file")
<1>1. d.lamport + 1 \in Nat
  BY DriveFacts
<1>2. id \in Item /\ ROOT \in Place /\ "file" \in Kind
  BY <1>1 DEF Item, NodeId, OwnId, Place, Kind
<1>3. Added(d, name, cid) = EmitContent(e, Me, SetOp(id, cid, 0))
  BY DEF Added
<1> HIDE DEF id
<1>4. DriveOk(e)
  BY <1>2, MeAlone, EmitMoveGrows
<1> HIDE DEF e
<1>5. SetOp(id, cid, 0).type = "set"
  BY DEF SetOp
<1>6. QED BY <1>3, <1>4, <1>5, MeAlone, EmitContentGrows

\* The drives that the runs begin with are in order.
LEMMA SavedOk ==
  ASSUME NEW d \in Saved
  PROVE  DriveOk(d)
<1>1. ASSUME NEW name \in Name, NEW cid \in Cid, NEW won \in {1, 3}
      PROVE  DriveOk(Collided(name, cid, won))
  <2> DEFINE other == Append(name, 0)
             a == IF won = 1 THEN other ELSE name
             b == IF won = 1 THEN name ELSE other
             one == Added(NewDrive, a, cid)
             two == Added(one, b, Hollow)
  <2>1. name \in AnyName /\ other \in AnyName
    BY NameAssumption DEF AnyName
  <2>2. a \in AnyName /\ b \in AnyName
    BY <2>1
  <2> HIDE DEF a, b
  <2>3. DriveOk(one)
    BY <2>2, AddedOk, NewDriveOk
  <2> HIDE DEF one
  <2>4. DriveOk(two)
    BY <2>2, <2>3, AddedOk
  <2>5. Collided(name, cid, won) = EmitMove(two, Me, <<won, 0>>, ROOT, name, "file")
    BY DEF Collided, a, b, one
  <2> HIDE DEF two
  <2>6. <<won, 0>> \in Item /\ ROOT \in Place /\ "file" \in Kind
    BY DEF Item, NodeId, OwnId, Place, Kind
  <2>7. QED BY <2>1, <2>4, <2>5, <2>6, MeAlone, EmitMoveGrows
<1>2. ASSUME NEW name \in Name, NEW cid \in Cid
      PROVE  DriveOk(Copied(name, cid))
  <2> DEFINE e == Collided(name, cid, 3)
             c == <<ROOT, name, <<1, 0>>>>
  <2>1. DriveOk(e)
    BY <1>1
  <2> HIDE DEF e
  <2>2. TreeSound(e.tree)
    BY <2>1, DriveFacts
  <2>3. c[2] \in Seq(Nat)
    BY NameAssumption DEF AnyName
  <2> HIDE DEF c
  <2>4. Rendered(e.tree, c) \in AnyName
    BY <2>2, <2>3, RenderedIsSequence DEF AnyName
  <2>5. Copied(name, cid) = Added(e, Rendered(e.tree, c), Hollow)
    BY DEF Copied, e, c
  <2>6. QED BY <2>1, <2>4, <2>5, AddedOk
<1>3. QED BY <1>1, <1>2, NewDriveOk DEF Saved

LEMMA FolderInitHolds == FolderInit => FInv
<1> SUFFICES ASSUME FolderInit PROVE FInv
  OBVIOUS
<1>1. DOMAIN disk \subseteq Path /\ job = NoJob
  BY DEF FolderInit
<1>2. drive \in [Replica -> Saved] /\ fresh = [r \in Replica |-> 0]
  BY DEF FolderInit
<1>3. TypeOK
  BY <1>2, SavedOk DEF TypeOK
<1>4. Originals
  BY MeAlone DEF Originals
<1>5. Stored(drive[Me].content)
  BY DEF FolderInit, Stored
<1>6. QED BY <1>1, <1>3, <1>4, <1>5 DEF FInv, IInv

LEMMA FolderNextKeeps == FInv /\ [FolderNext]_folderVars => FInv'
<1> SUFFICES ASSUME FInv, [FolderNext]_folderVars PROVE FInv'
  OBVIOUS
<1>1. CASE UNCHANGED folderVars
  BY <1>1 DEF folderVars, FInv, IInv, TypeOK, Originals, Running, MatOk, MatWith, PushOk, PutOk,
              PushWith, AsleepOk, TodoOk, Stored
<1>2. CASE Abandon
  <2>1. UNCHANGED <<drive, fresh, disk, blobs>> /\ job' = NoJob
    BY <1>2 DEF Abandon
  <2>2. QED BY <2>1, FrameKeeps DEF FInv
<1>3. QED BY <1>1, <1>2, UserEditsKeep, OtherCommandKeeps, MaterializingKeeps, PushingKeeps
          DEF FolderNext

\* FInv is an invariant of the folder, its runs and the saved drive.
THEOREM FolderInductive == FolderSpec => []FInv
<1>1. QED BY FolderInitHolds, FolderNextKeeps, PTL DEF FolderSpec

\* Whatever is recorded, in the saved drive or by the push under way, can be fetched:
\* no failed upload, no kill and no edit meanwhile leaves a record whose manifest or
\* one of whose chunks is not in the store (put_bytes before add_file, missing_chunks).
THEOREM RecordedFilesAreStored == FolderSpec => []RecordedIsStored
<1>1. FInv => RecordedIsStored
  <2> SUFFICES ASSUME FInv PROVE RecordedIsStored
    OBVIOUS
  <2>1. Stored(drive[Me].content) /\ (job # NoJob => Stored(job.d.content))
    BY RunKinds DEF FInv, Running
  <2>2. QED BY <2>1 DEF RecordedIsStored, Stored
<1>2. QED BY <1>1, FolderInductive, PTL

\* The move that gave a node its place is in the log, under the timestamp that the
\* conflict-rename ranks the node by.
LEMMA RankedByItsMove ==
  ASSUME NEW d, DriveOk(d), NEW n \in DOMAIN d.tree.edges
  PROVE  \E i \in 1 .. Len(d.tree.log) : /\ d.tree.log[i].op.child = n
                                         /\ DefiningTs(d.tree, n) = d.tree.log[i].op.ts
<1> DEFINE t == d.tree
           own == {i \in 1 .. Len(t.log) : t.log[i].op.child = n}
           last == CHOOSE i \in own : \A j \in own : j <= i
<1>1. Replayed(t, MoveOp) /\ TreeSound(t)
  BY DriveTree
<1>2. own # {}
  BY <1>1, EdgesOfMoves DEF Replayed
<1>3. own \in SUBSET Nat /\ IsFiniteSet(own)
  <2>1. Len(t.log) \in Nat
    BY <1>1 DEF TreeSound
  <2>2. IsFiniteSet(1 .. Len(t.log))
    BY <2>1, FS_Interval
  <2>3. own \in SUBSET (1 .. Len(t.log))
    OBVIOUS
  <2>4. own \in SUBSET Nat
    BY <2>1, <2>3
  <2> HIDE DEF own
  <2>5. IsFiniteSet(own)
    BY <2>2, <2>3, FS_Subset
  <2>6. QED BY <2>4, <2>5
<1>4. \E i \in own : \A j \in own : j <= i
  <2> HIDE DEF own
  <2>1. \E i \in own : \A j \in own : i >= j
    BY <1>2, <1>3, GreatestNat
  <2>2. QED BY <1>3, <2>1
<1>5. last \in own
  <2> HIDE DEF own
  <2>1. QED BY <1>4
<1>6. DefiningTs(t, n) = t.log[last].op.ts
  BY <1>2 DEF DefiningTs
<1> HIDE DEF last
<1>7. QED BY <1>5, <1>6

\* Nodes of one name in one directory are ranked by different timestamps.
LEMMA RanksDiffer ==
  ASSUME NEW d, DriveOk(d), NEW m \in DOMAIN d.tree.edges, NEW n \in DOMAIN d.tree.edges,
         m # n
  PROVE  /\ DefiningTs(d.tree, m) \in Stamp /\ DefiningTs(d.tree, n) \in Stamp
         /\ DefiningTs(d.tree, m) # DefiningTs(d.tree, n)
<1> DEFINE t == d.tree
<1>1. Replayed(t, MoveOp) /\ TreeSound(t)
  BY DriveTree
<1>2. Sorted(t.log) /\ Len(t.log) \in Nat
      /\ \A i \in 1 .. Len(t.log) : t.log[i].op.ts \in Stamp
  BY <1>1 DEF Replayed, TreeSound
<1>3. PICK i \in 1 .. Len(t.log) : t.log[i].op.child = m /\ DefiningTs(t, m) = t.log[i].op.ts
  BY RankedByItsMove
<1>4. PICK j \in 1 .. Len(t.log) : t.log[j].op.child = n /\ DefiningTs(t, n) = t.log[j].op.ts
  BY RankedByItsMove
<1> HIDE DEF t
<1>5. i < j \/ j < i
  BY <1>2, <1>3, <1>4
<1>6. t.log[i].op.ts # t.log[j].op.ts
  <2>1. TsLess(t.log[i].op.ts, t.log[j].op.ts) \/ TsLess(t.log[j].op.ts, t.log[i].op.ts)
    BY <1>2, <1>5 DEF Sorted
  <2>2. QED BY <1>2, <2>1, StampOrder
<1>7. QED BY <1>2, <1>3, <1>4, <1>6 DEF t

\* A name with two numbers appended is another name and ends in these.
LEMMA AppendedNames ==
  ASSUME NEW q \in Seq(Nat), NEW a \in Nat, NEW b \in Nat
  PROVE  /\ q \o <<a, b>> # q
         /\ (q \o <<a, b>>)[Len(q) + 1] = a /\ (q \o <<a, b>>)[Len(q) + 2] = b
<1>1. Len(q) \in Nat /\ Len(q \o <<a, b>>) = Len(q) + 2
  OBVIOUS
<1>2. /\ (q \o <<a, b>>)[Len(q) + 1] = a /\ (q \o <<a, b>>)[Len(q) + 2] = b
  OBVIOUS
<1>3. QED BY <1>1, <1>2

LEMMA RivalsApart ==
  ASSUME NEW d, DriveOk(d), NEW dir
  PROVE  ListedApart(d.tree, dir)
<1> DEFINE t == d.tree
<1>1. TreeSound(t)
  BY DriveTree
<1> SUFFICES ASSUME NEW x \in Readdir(t, dir), NEW y \in Readdir(t, dir),
                    x.name = y.name, x.child # y.child,
                    t.edges[x.child].name = t.edges[y.child].name
             PROVE  FALSE
  BY DEF ListedApart
<1>2. PICK c \in Shown(t, dir) : x.name = Rendered(t, c) /\ x.child = c[3]
  BY DEF Readdir
<1>3. PICK e \in Shown(t, dir) : y.name = Rendered(t, e) /\ y.child = e[3]
  BY DEF Readdir
<1> DEFINE q == t.edges[c[3]].name
<1>4. /\ c[3] \in DOMAIN t.edges /\ c = <<dir, q, c[3]>>
      /\ e[3] \in DOMAIN t.edges /\ e = <<dir, t.edges[e[3]].name, e[3]>>
  <2>1. c \in ChildrenOf(t, dir) /\ e \in ChildrenOf(t, dir)
    BY DEF Shown
  <2>2. QED BY <1>1, <2>1, ChildIsEdge
<1>5. c[1] = dir /\ e[1] = dir /\ c[2] = q /\ e[2] = q /\ c # e /\ c[3] # e[3]
  BY <1>2, <1>3, <1>4
<1>6. q \in Seq(Nat)
  BY <1>1, <1>4, NamesAreSequences DEF TreeSound
<1> DEFINE s == DefiningTs(t, c[3])
           u == DefiningTs(t, e[3])
<1>7. s \in Stamp /\ u \in Stamp /\ s # u
  BY <1>4, <1>5, RanksDiffer
<1>8. /\ s.replica \in Nat /\ s.lamport \in Nat /\ u.replica \in Nat /\ u.lamport \in Nat
      /\ s.replica # u.replica \/ s.lamport # u.lamport
  <2> HIDE DEF s, u
  <2>1. QED BY <1>7 DEF Stamp
<1>9. ~(KeepsName(t, c) /\ KeepsName(t, e))
  <2>1. e \in Shown(t, c[1]) \ {c} /\ c \in Shown(t, e[1]) \ {e} /\ e[2] = c[2]
    BY <1>5
  <2>2. KeepsName(t, c) => TsLess(u, s)
    BY <2>1 DEF KeepsName
  <2>3. KeepsName(t, e) => TsLess(s, u)
    BY <2>1 DEF KeepsName
  <2> HIDE DEF s, u
  <2>4. QED BY <1>7, <2>2, <2>3, StampOrder
<1>10. /\ Rendered(t, c) = IF KeepsName(t, c) THEN q ELSE q \o <<s.replica, s.lamport>>
       /\ Rendered(t, e) = IF KeepsName(t, e) THEN q ELSE q \o <<u.replica, u.lamport>>
  BY <1>5 DEF Rendered
<1>11. Rendered(t, c) = Rendered(t, e)
  BY <1>2, <1>3
<1> DEFINE a == s.replica
           b == s.lamport
           v == u.replica
           w == u.lamport
<1>12. q \in Seq(Nat) /\ a \in Nat /\ b \in Nat /\ v \in Nat /\ w \in Nat
  BY <1>6, <1>8
<1>13. /\ Rendered(t, c) = IF KeepsName(t, c) THEN q ELSE q \o <<a, b>>
       /\ Rendered(t, e) = IF KeepsName(t, e) THEN q ELSE q \o <<v, w>>
       /\ a # v \/ b # w
  BY <1>8, <1>10
<1> HIDE DEF q, a, b, v, w
<1>14. q \o <<a, b>> # q /\ q \o <<v, w>> # q
  BY <1>12, AppendedNames
<1>15. q \o <<a, b>> = q \o <<v, w>> => a = v /\ b = w
  <2> SUFFICES ASSUME q \o <<a, b>> = q \o <<v, w>> PROVE a = v /\ b = w
    OBVIOUS
  <2>1. /\ (q \o <<a, b>>)[Len(q) + 1] = a /\ (q \o <<a, b>>)[Len(q) + 2] = b
        /\ (q \o <<v, w>>)[Len(q) + 1] = v /\ (q \o <<v, w>>)[Len(q) + 2] = w
    BY <1>12, AppendedNames
  <2>2. QED BY <2>1
<1>16. QED BY <1>9, <1>11, <1>13, <1>14, <1>15

\* The conflict-rename of readdir tells the nodes of one name in a directory apart, in
\* the saved drive and in the one of the run under way (tree.rs:268-304).
THEOREM RivalsAreToldApart == FolderSpec => []RivalsListedApart
<1>1. FInv => RivalsListedApart
  <2> SUFFICES ASSUME FInv PROVE RivalsListedApart
    OBVIOUS
  <2>1. DriveOk(drive[Me]) /\ (job # NoJob => DriveOk(job.d))
    BY RunKinds, MeAlone DEF FInv, Running, IInv, TypeOK
  <2>2. QED BY <2>1, RivalsApart DEF RivalsListedApart
<1>2. QED BY <1>1, FolderInductive, PTL

-----------------------------------------------------------------------------
(* Changes in timestamp order *)

\* A sequence of changes, or of operations, each with a timestamp of its own.
Timed(log) ==
    /\ log \in Seq(Range(log))
    /\ \A i \in 1 .. Len(log) : log[i].ts \in Stamp
    /\ \A i, j \in 1 .. Len(log) : log[i].ts = log[j].ts => i = j

\* What the stable sort makes of it: all of it, in ascending order.
LEMMA SortedByTs ==
  ASSUME NEW log, Timed(log)
  PROVE  /\ ByTs(log) \in Seq(Range(log)) /\ Len(ByTs(log)) = Len(log)
         /\ Range(ByTs(log)) = Range(log)
         /\ Ascending(ByTs(log))
<1> DEFINE L == Len(log)
           P == 1 .. L
           before == {p \in P \X P : TsLess(log[p[1]].ts, log[p[2]].ts)}
           at == [k \in P |-> CHOOSE i \in P : RankIn(P, before, i) = k - 1]
<1>1. /\ L \in Nat /\ DOMAIN log = P /\ \A i \in P : log[i] \in Range(log) /\ log[i].ts \in Stamp
      /\ \A i, j \in P : log[i].ts = log[j].ts => i = j
      /\ Range(log) = {log[i] : i \in P}
  BY DEF Timed, Range
<1>2. IsFiniteSet(P) /\ Cardinality(P) = L
  <2>1. 1 \in Int /\ L \in Int
    BY <1>1
  <2>2. /\ IsFiniteSet(1 .. L)
        /\ Cardinality(1 .. L) = IF 1 > L THEN 0 ELSE L - 1 + 1
    BY <2>1, FS_Interval
  <2>3. (IF 1 > L THEN 0 ELSE L - 1 + 1) = L
    <3>1. L \in Nat
      BY <1>1
    <3> HIDE DEF L
    <3>2. QED BY <3>1
  <2>4. QED BY <2>2, <2>3
<1>3. \A i, j \in P : <<i, j>> \in before <=> TsLess(log[i].ts, log[j].ts)
  OBVIOUS
<1> HIDE DEF before
<1>4. Orders(before, P)
  <2>1. \A i \in P : <<i, i>> \notin before
    BY <1>1, <1>3, StampOrder
  <2>2. \A i, j \in P : <<i, j>> \in before \/ i = j \/ <<j, i>> \in before
    BY <1>1, <1>3, StampOrder
  <2>3. ASSUME NEW i \in P, NEW j \in P, NEW k \in P, <<i, j>> \in before, <<j, k>> \in before
        PROVE  <<i, k>> \in before
    <3>1. log[i].ts \in Stamp /\ log[j].ts \in Stamp /\ log[k].ts \in Stamp
      BY <1>1
    <3>2. TsLess(log[i].ts, log[j].ts) /\ TsLess(log[j].ts, log[k].ts)
      BY <1>3, <2>3
    <3>3. TsLess(log[i].ts, log[k].ts)
      BY <3>1, <3>2, StampOrder
    <3>4. QED BY <1>3, <3>3
  <2>4. QED BY <2>1, <2>2, <2>3 DEF Orders
<1>5. /\ \A i \in P : RankIn(P, before, i) \in 0 .. L - 1
      /\ \A i, j \in P : <<i, j>> \in before => RankIn(P, before, i) < RankIn(P, before, j)
      /\ \A k \in P : \E i \in P : RankIn(P, before, i) = k - 1
  BY <1>2, <1>4, RankFacts
<1>6. ByTs(log) = [k \in P |-> log[at[k]]]
  <2> DEFINE Earlier(i) == {j \in DOMAIN log : TsLess(log[j].ts, log[i].ts)
                                                 \/ (log[j].ts = log[i].ts /\ j < i)}
  <2>1. ASSUME NEW i \in P PROVE Cardinality(Earlier(i)) = RankIn(P, before, i)
    <3>1. \A j \in P : log[j].ts = log[i].ts => ~(j < i)
      BY <1>1
    <3>2. Earlier(i) = {j \in P : <<j, i>> \in before}
      BY <1>1, <1>3, <3>1
    <3>3. QED BY <3>2 DEF RankIn
  <2>2. ByTs(log) = [k \in DOMAIN log |->
                        log[CHOOSE i \in DOMAIN log : Cardinality(Earlier(i)) = k - 1]]
    BY DEF ByTs
  <2> HIDE DEF Earlier
  <2> DEFINE pos(k) == CHOOSE i \in P : Cardinality(Earlier(i)) = k - 1
  <2>3. \A k \in P : pos(k) = at[k]
    BY <2>1
  <2>4. ByTs(log) = [k \in P |-> log[pos(k)]]
    BY <1>1, <2>2
  <2> HIDE DEF at, pos
  <2>5. QED BY <2>3, <2>4
<1>7. \A k \in P : at[k] \in P /\ RankIn(P, before, at[k]) = k - 1
  BY <1>5
<1> HIDE DEF at
<1>8. ASSUME NEW i \in P, NEW j \in P, RankIn(P, before, i) = RankIn(P, before, j)
      PROVE  i = j
  <2> DEFINE a == RankIn(P, before, i)
             b == RankIn(P, before, j)
  <2>1. a \in 0 .. L - 1 /\ a = b /\ (<<i, j>> \in before => a < b) /\ (<<j, i>> \in before => b < a)
    BY <1>5, <1>8
  <2> HIDE DEF a, b
  <2>2. <<i, j>> \notin before /\ <<j, i>> \notin before
    <3>1. a \in Int /\ ~(a < b) /\ ~(b < a)
      BY <1>1, <2>1
    <3>2. QED BY <2>1, <3>1
  <2>3. QED BY <1>4, <2>2 DEF Orders
<1>9. \A i \in P : \E k \in P : at[k] = i
  <2> SUFFICES ASSUME NEW i \in P PROVE \E k \in P : at[k] = i
    OBVIOUS
  <2> DEFINE k == RankIn(P, before, i) + 1
  <2>1. k \in P /\ k - 1 = RankIn(P, before, i)
    <3>1. RankIn(P, before, i) \in 0 .. L - 1
      BY <1>5
    <3>2. QED BY <1>1, <3>1
  <2> HIDE DEF k
  <2>2. at[k] = i
    BY <1>7, <1>8, <2>1
  <2>3. QED BY <2>1, <2>2
<1> DEFINE q == ByTs(log)
<1>10. /\ q \in Seq(Range(log)) /\ Len(q) = L /\ DOMAIN q = P
       /\ \A k \in P : q[k] = log[at[k]]
  <2>1. q = [k \in P |-> log[at[k]]] /\ \A k \in P : log[at[k]] \in Range(log)
    BY <1>1, <1>6, <1>7
  <2> HIDE DEF q
  <2>2. QED BY <1>1, <2>1
<1> HIDE DEF q
<1>11. Range(q) = Range(log)
  <2>1. Range(q) = {q[k] : k \in P} /\ Range(log) = {log[i] : i \in P}
    BY <1>1, <1>10 DEF Range
  <2> HIDE DEF P
  <2>2. \A k \in P : \E i \in P : q[k] = log[i]
    BY <1>7, <1>10
  <2>3. \A i \in P : \E k \in P : q[k] = log[i]
    BY <1>9, <1>10
  <2>4. QED BY <2>1, <2>2, <2>3
<1>12. Ascending(q)
  <2> SUFFICES ASSUME NEW k \in P, NEW l \in P, k < l PROVE TsLess(q[k].ts, q[l].ts)
    BY <1>10 DEF Ascending
  <2> DEFINE i == at[k]
             j == at[l]
  <2>1. /\ i \in P /\ j \in P /\ q[k] = log[i] /\ q[l] = log[j]
        /\ RankIn(P, before, i) = k - 1 /\ RankIn(P, before, j) = l - 1
    BY <1>7, <1>10
  <2> HIDE DEF i, j
  <2>2. i # j /\ <<j, i>> \notin before
    <3>1. k \in Nat /\ l \in Nat
      BY <1>1
    <3>2. ~(k - 1 = l - 1) /\ ~(l - 1 < k - 1)
      BY <3>1
    <3>3. i # j
      BY <2>1, <3>2
    <3>4. <<j, i>> \in before => l - 1 < k - 1
      BY <1>5, <2>1
    <3>5. QED BY <3>2, <3>3, <3>4
  <2>3. <<i, j>> \in before
    BY <1>4, <2>1, <2>2 DEF Orders
  <2>4. QED BY <1>3, <2>1, <2>3
<1>13. QED BY <1>10, <1>11, <1>12 DEF q

-----------------------------------------------------------------------------
(* The changes after a cursor *)

\* What the loop over a log has kept after each of its rounds.
IsAdmission(f, log, c, n) ==
    f = [i \in 0 .. n |->
            IF i = 0 THEN <<>>
            ELSE IF Admits(c, log[i].ts) THEN Append(f[i - 1], log[i]) ELSE f[i - 1]]

LEMMA AdmissionExists ==
  ASSUME NEW log, NEW c, NEW n \in Nat
  PROVE  \E f : IsAdmission(f, log, c, n)
<1> DEFINE T == {l \in Nat : ~ \E f : IsAdmission(f, log, c, l)}
           Step(x, i) == IF Admits(c, log[i].ts) THEN Append(x, log[i]) ELSE x
<1> SUFFICES ASSUME T # {} PROVE FALSE
  OBVIOUS
<1>1. PICK l \in T : \A k \in T : l <= k
  BY LeastNat
<1>2. l # 0
  <2>1. IsAdmission([i \in 0 .. 0 |-> <<>>], log, c, 0)
    BY DEF IsAdmission
  <2>2. QED BY <2>1
<1>3. l \in Nat /\ l - 1 \in Nat /\ 0 .. l - 1 \subseteq 0 .. l /\ ~(l <= l - 1)
  BY <1>2
<1>4. PICK f : IsAdmission(f, log, c, l - 1)
  BY <1>1, <1>3
<1> DEFINE g == [i \in 0 .. l |-> IF i = l THEN Step(f[l - 1], l) ELSE f[i]]
<1>5. \A i \in 0 .. l - 1 : f[i] = IF i = 0 THEN <<>> ELSE Step(f[i - 1], i)
  BY <1>4 DEF IsAdmission
<1>6. g = [i \in 0 .. l |-> IF i = 0 THEN <<>> ELSE Step(g[i - 1], i)]
  <2> HIDE DEF Step
  <2>1. QED BY <1>2, <1>3, <1>5
<1>7. IsAdmission(g, log, c, l)
  <2> HIDE DEF g
  <2>1. QED BY <1>6 DEF IsAdmission
<1>8. QED BY <1>1, <1>7

\* Of the first k changes, those that the cursor admits.
Selects(kept, log, c, k) ==
    /\ kept \in Seq(Range(log))
    /\ \A a \in 1 .. Len(kept) : \E i \in 1 .. k : kept[a] = log[i] /\ Admits(c, log[i].ts)
    /\ \A i \in 1 .. k : Admits(c, log[i].ts) => \E a \in 1 .. Len(kept) : kept[a] = log[i]
    /\ \A a, b \in 1 .. Len(kept) : kept[a].ts = kept[b].ts => a = b

LEMMA KeepsOneMore ==
  ASSUME NEW log, Timed(log), NEW c, NEW k \in 1 .. Len(log), NEW kept,
         Selects(kept, log, c, k - 1)
  PROVE  Selects(IF Admits(c, log[k].ts) THEN Append(kept, log[k]) ELSE kept, log, c, k)
<1> DEFINE n == Len(kept)
           more == Append(kept, log[k])
<1>1. /\ Len(log) \in Nat /\ \A i \in 1 .. Len(log) : log[i] \in Range(log)
      /\ \A i, j \in 1 .. Len(log) : log[i].ts = log[j].ts => i = j
  BY DEF Timed, Range
<1>2. \A i : i \in 1 .. k <=> i \in 1 .. k - 1 \/ i = k
  BY <1>1
<1>3. CASE ~Admits(c, log[k].ts)
  <2>1. Selects(kept, log, c, k)
    BY <1>2, <1>3 DEF Selects
  <2>2. QED BY <1>3, <2>1
<1>4. CASE Admits(c, log[k].ts)
  <2>1. /\ n \in Nat /\ more \in Seq(Range(log)) /\ Len(more) = n + 1 /\ more[n + 1] = log[k]
        /\ \A a \in 1 .. n : more[a] = kept[a]
    BY <1>1 DEF Selects
  <2>2. \A a : a \in 1 .. n + 1 <=> a \in 1 .. n \/ a = n + 1
    BY <2>1
  <2>3. /\ \A a \in 1 .. n : \E i \in 1 .. k - 1 : kept[a] = log[i] /\ Admits(c, log[i].ts)
        /\ \A i \in 1 .. k - 1 : Admits(c, log[i].ts) => \E a \in 1 .. n : kept[a] = log[i]
        /\ \A a, b \in 1 .. n : kept[a].ts = kept[b].ts => a = b
    BY DEF Selects
  <2> HIDE DEF n, more
  <2>4. \A a \in 1 .. n : kept[a].ts # log[k].ts
    <3> SUFFICES ASSUME NEW a \in 1 .. n PROVE kept[a].ts # log[k].ts
      OBVIOUS
    <3>1. PICK i \in 1 .. k - 1 : kept[a] = log[i]
      BY <2>3
    <3>2. i \in 1 .. Len(log) /\ i # k
      BY <1>1
    <3>3. QED BY <1>1, <3>1, <3>2
  <2>5. ASSUME NEW a \in 1 .. n + 1
        PROVE  \E i \in 1 .. k : more[a] = log[i] /\ Admits(c, log[i].ts)
    <3>1. CASE a = n + 1
      BY <1>2, <1>4, <2>1, <3>1
    <3>2. CASE a \in 1 .. n
      <4>1. PICK i \in 1 .. k - 1 : kept[a] = log[i] /\ Admits(c, log[i].ts)
        BY <2>3, <3>2
      <4>2. QED BY <1>2, <2>1, <3>2, <4>1
    <3>3. QED BY <2>2, <3>1, <3>2
  <2>6. ASSUME NEW i \in 1 .. k, Admits(c, log[i].ts)
        PROVE  \E a \in 1 .. n + 1 : more[a] = log[i]
    <3>1. CASE i = k
      <4>1. n + 1 \in 1 .. n + 1
        BY <2>2
      <4>2. QED BY <2>1, <3>1, <4>1
    <3>2. CASE i \in 1 .. k - 1
      <4>1. PICK a \in 1 .. n : kept[a] = log[i]
        BY <2>3, <2>6, <3>2
      <4>2. QED BY <2>1, <2>2, <4>1
    <3>3. QED BY <1>2, <3>1, <3>2
  <2>7. \A a, b \in 1 .. n + 1 : more[a].ts = more[b].ts => a = b
    BY <2>1, <2>2, <2>3, <2>4
  <2>8. Selects(more, log, c, k)
    BY <2>1, <2>5, <2>6, <2>7 DEF Selects
  <2>9. QED BY <1>4, <2>8 DEF more
<1>5. QED BY <1>3, <1>4

LEMMA AdmittedFacts ==
  ASSUME NEW log, Timed(log), NEW c
  PROVE  /\ Timed(Admitted(log, c))
         /\ Range(Admitted(log, c)) = {x \in Range(log) : Admits(c, x.ts)}
<1> DEFINE L == Len(log)
           f == CHOOSE h : IsAdmission(h, log, c, L)
           T == {k \in 0 .. L : ~Selects(f[k], log, c, k)}
<1>1. L \in Nat
  BY DEF Timed
<1>2. Admitted(log, c) = f[L]
  BY DEF Admitted, IsAdmission
<1> HIDE DEF L
<1>3. IsAdmission(f, log, c, L)
  BY <1>1, AdmissionExists
<1> HIDE DEF f
<1>4. \A i \in 0 .. L : f[i] = IF i = 0 THEN <<>>
                               ELSE IF Admits(c, log[i].ts) THEN Append(f[i - 1], log[i])
                               ELSE f[i - 1]
  BY <1>3 DEF IsAdmission
<1>5. ASSUME T # {} PROVE FALSE
  <2>1. PICK k \in T : \A j \in T : k <= j
    <3>1. T \in SUBSET Nat
      BY <1>1
    <3> HIDE DEF T
    <3>2. QED BY <1>5, <3>1, LeastNat
  <2>2. k # 0
    <3>1. f[0] = <<>>
      BY <1>1, <1>4
    <3>2. Selects(<<>>, log, c, 0)
      BY DEF Selects
    <3>3. QED BY <2>1, <3>1, <3>2
  <2>3. k \in 1 .. L /\ k - 1 \in 0 .. L /\ k \in 0 .. L /\ ~(k <= k - 1)
    BY <1>1, <2>1, <2>2
  <2>4. Selects(f[k - 1], log, c, k - 1)
    BY <2>1, <2>3
  <2>5. Selects(f[k], log, c, k)
    <3>1. k \in 1 .. Len(log)
      BY <2>3 DEF L
    <3>2. f[k] = IF Admits(c, log[k].ts) THEN Append(f[k - 1], log[k]) ELSE f[k - 1]
      BY <1>4, <2>2, <2>3
    <3>3. QED BY <2>4, <3>1, <3>2, KeepsOneMore
  <2>6. QED BY <2>1, <2>5
<1> DEFINE kept == Admitted(log, c)
           n == Len(kept)
<1>6. Selects(kept, log, c, L)
  <2>1. L \in 0 .. L
    BY <1>1
  <2>2. QED BY <1>2, <1>5, <2>1
<1> HIDE DEF kept
<1>7. /\ DOMAIN log = 1 .. L /\ \A i \in 1 .. L : log[i].ts \in Stamp
      /\ Range(log) = {log[i] : i \in 1 .. L}
  BY DEF Timed, L, Range
<1>8. /\ n \in Nat /\ DOMAIN kept = 1 .. n /\ Range(kept) = {kept[a] : a \in 1 .. n}
      /\ kept \in Seq(Range(kept))
  <2>1. kept \in Seq(Range(log))
    BY <1>6 DEF Selects
  <2>2. n \in Nat /\ DOMAIN kept = 1 .. n /\ kept = [a \in 1 .. n |-> kept[a]]
    BY <2>1
  <2>3. Range(kept) = {kept[a] : a \in 1 .. n}
    BY <2>2 DEF Range
  <2>4. kept \in Seq(Range(kept))
    <3>1. \A a \in 1 .. n : kept[a] \in Range(kept)
      BY <2>3
    <3> HIDE DEF n
    <3>2. QED BY <2>2, <3>1
  <2>5. QED BY <2>2, <2>3, <2>4
<1>9. Timed(kept)
  <2>1. \A a \in 1 .. n : kept[a].ts \in Stamp
    BY <1>6, <1>7 DEF Selects
  <2>2. QED BY <1>6, <1>8, <2>1 DEF Timed, Selects
<1>10. Range(kept) = {x \in Range(log) : Admits(c, x.ts)}
  <2> HIDE DEF n
  <2>1. ASSUME NEW x \in Range(kept) PROVE x \in Range(log) /\ Admits(c, x.ts)
    <3>1. PICK a \in 1 .. n : x = kept[a]
      BY <1>8
    <3>2. PICK i \in 1 .. L : kept[a] = log[i] /\ Admits(c, log[i].ts)
      BY <1>6, <3>1 DEF Selects, n
    <3>3. QED BY <1>7, <3>1, <3>2
  <2>2. ASSUME NEW x \in Range(log), Admits(c, x.ts) PROVE x \in Range(kept)
    <3>1. PICK i \in 1 .. L : x = log[i]
      BY <1>7
    <3>2. PICK a \in 1 .. n : kept[a] = log[i]
      BY <1>6, <2>2, <3>1 DEF Selects, n
    <3>3. QED BY <1>8, <3>1, <3>2
  <2>3. QED BY <2>1, <2>2
<1>11. QED BY <1>9, <1>10 DEF kept

-----------------------------------------------------------------------------
(* The changes of a drive *)

MoveChange(d, i) ==
    [ts |-> d.moves[i].ts, node |-> d.moves[i].child, kind |-> MoveKind(d.moves, i)]
EditChange(d, i) ==
    [ts |-> d.contents[i].ts, node |-> d.contents[i].op.id,
     kind |-> ContentKind(d.contents[i].op)]

\* All that a client can be told of a drive.
Feed(d) ==
    {MoveChange(d, i) : i \in 1 .. Len(d.moves)}
        \cup {EditChange(d, i) : i \in 1 .. Len(d.contents)}

\* A drive with one writer: its own log is in the order of its stamps.
SoleWriter(d) == DriveOk(d) /\ Ascending(d.moves) /\ LogsApart(d)

LEMMA StampsOfLogs ==
  ASSUME NEW d, SoleWriter(d)
  PROVE  /\ Len(d.moves) \in Nat /\ DOMAIN d.moves = 1 .. Len(d.moves)
         /\ Len(d.contents) \in Nat /\ DOMAIN d.contents = 1 .. Len(d.contents)
         /\ d.lamport \in Nat
         /\ \A i \in 1 .. Len(d.moves) :
               d.moves[i].ts \in Stamp /\ d.moves[i].ts.lamport <= d.lamport
         /\ \A i \in 1 .. Len(d.contents) :
               d.contents[i].ts \in Stamp /\ d.contents[i].ts.lamport <= d.lamport
         /\ \A i, j \in 1 .. Len(d.moves) : d.moves[i].ts = d.moves[j].ts => i = j
         /\ \A i, j \in 1 .. Len(d.contents) : d.contents[i].ts = d.contents[j].ts => i = j
         /\ \A i \in 1 .. Len(d.moves), j \in 1 .. Len(d.contents) :
               d.moves[i].ts # d.contents[j].ts
<1>1. /\ d.lamport \in Nat /\ d.moves \in Seq(MoveOp)
      /\ \A i \in 1 .. Len(d.moves) : d.moves[i].ts.lamport <= d.lamport
      /\ InOrder(d.contents)
      /\ \A i \in 1 .. Len(d.contents) : d.contents[i].ts.lamport <= d.lamport
      /\ Ascending(d.moves) /\ LogsApart(d)
  BY DEF SoleWriter, DriveOk, MovesLog, ContentLog
<1>2. /\ Len(d.moves) \in Nat /\ DOMAIN d.moves = 1 .. Len(d.moves)
      /\ \A i \in 1 .. Len(d.moves) : d.moves[i].ts \in Stamp
  <2>1. \A i \in 1 .. Len(d.moves) : d.moves[i] \in MoveOp
    BY <1>1
  <2>2. QED BY <1>1, <2>1 DEF MoveOp
<1>3. /\ Len(d.contents) \in Nat /\ DOMAIN d.contents = 1 .. Len(d.contents)
      /\ \A i \in 1 .. Len(d.contents) : d.contents[i].ts \in Stamp
  BY <1>1, LogFacts DEF InOrder, StampedOk
<1>4. ASSUME NEW i \in 1 .. Len(d.moves), NEW j \in 1 .. Len(d.moves),
             d.moves[i].ts = d.moves[j].ts
      PROVE  i = j
  <2>1. ~TsLess(d.moves[i].ts, d.moves[j].ts) /\ ~TsLess(d.moves[j].ts, d.moves[i].ts)
    BY <1>2, <1>4, StampOrder
  <2>2. ~(i < j) /\ ~(j < i)
    BY <1>1, <2>1 DEF Ascending
  <2>3. QED BY <1>2, <2>2
<1>5. ASSUME NEW i \in 1 .. Len(d.contents), NEW j \in 1 .. Len(d.contents),
             d.contents[i].ts = d.contents[j].ts
      PROVE  i = j
  <2>1. ~(i < j) /\ ~(j < i)
    BY <1>1, <1>5, LogFacts
  <2>2. QED BY <1>3, <2>1
<1>6. ASSUME NEW i \in 1 .. Len(d.moves), NEW j \in 1 .. Len(d.contents)
      PROVE  d.moves[i].ts # d.contents[j].ts
  <2>1. d.moves[i] \in Range(d.moves) /\ d.contents[j] \in Range(d.contents)
    BY <1>2, <1>3 DEF Range
  <2>2. QED BY <1>1, <2>1 DEF LogsApart
<1>7. QED BY <1>1, <1>2, <1>3, <1>4, <1>5, <1>6

LEMMA TimedConcat ==
  ASSUME NEW p, NEW q, Timed(p), Timed(q),
         \A i \in 1 .. Len(p), j \in 1 .. Len(q) : p[i].ts # q[j].ts
  PROVE  Timed(p \o q) /\ Range(p \o q) = Range(p) \cup Range(q)
<1> DEFINE m == Len(p)
           n == Len(q)
           w == p \o q
           S == Range(p) \cup Range(q)
<1>1. /\ m \in Nat /\ n \in Nat /\ DOMAIN p = 1 .. m /\ DOMAIN q = 1 .. n
      /\ p \in Seq(S) /\ q \in Seq(S)
  <2>1. p \in Seq(Range(p)) /\ q \in Seq(Range(q))
    BY DEF Timed
  <2>2. \A i \in 1 .. m : p[i] \in S
    BY <2>1
  <2>3. \A i \in 1 .. n : q[i] \in S
    BY <2>1
  <2> HIDE DEF S
  <2>4. QED BY <2>1, <2>2, <2>3
<1>2. /\ w \in Seq(S) /\ Len(w) = m + n /\ DOMAIN w = 1 .. m + n
      /\ \A i \in 1 .. m : w[i] = p[i]
      /\ \A i \in 1 .. n : w[m + i] = q[i]
  <2> HIDE DEF S
  <2>1. QED BY <1>1
<1> HIDE DEF w
<1>3. ASSUME NEW k \in 1 .. m + n
      PROVE  \/ k \in 1 .. m /\ w[k] = p[k]
             \/ k - m \in 1 .. n /\ w[k] = q[k - m] /\ k > m
  <2>1. k \in 1 .. m \/ (k - m \in 1 .. n /\ k = m + (k - m) /\ k > m)
    BY <1>1
  <2>2. QED BY <1>2, <2>1
<1>4. Range(w) = S
  <2>1. ASSUME NEW x \in Range(w) PROVE x \in S
    BY <1>2, <2>1 DEF Range
  <2>2. ASSUME NEW x \in Range(p) PROVE x \in Range(w)
    <3>1. PICK i \in 1 .. m : x = p[i]
      BY <1>1 DEF Range
    <3>2. i \in 1 .. m + n
      BY <1>1
    <3>3. QED BY <1>2, <3>1, <3>2 DEF Range
  <2>3. ASSUME NEW x \in Range(q) PROVE x \in Range(w)
    <3>1. PICK i \in 1 .. n : x = q[i]
      BY <1>1 DEF Range
    <3>2. m + i \in 1 .. m + n
      BY <1>1
    <3>3. QED BY <1>2, <3>1, <3>2 DEF Range
  <2>4. QED BY <2>1, <2>2, <2>3
<1>5. /\ \A i \in 1 .. m : p[i].ts \in Stamp
      /\ \A i \in 1 .. n : q[i].ts \in Stamp
      /\ \A i, j \in 1 .. m : p[i].ts = p[j].ts => i = j
      /\ \A i, j \in 1 .. n : q[i].ts = q[j].ts => i = j
      /\ \A i \in 1 .. m, j \in 1 .. n : p[i].ts # q[j].ts
  BY DEF Timed
<1> HIDE DEF m, n
<1>6. \A k \in 1 .. m + n : w[k].ts \in Stamp
  BY <1>3, <1>5
<1>7. ASSUME NEW k \in 1 .. m + n, NEW l \in 1 .. m + n, w[k].ts = w[l].ts
      PROVE  k = l
  <2>1. CASE k \in 1 .. m /\ w[k] = p[k]
    <3>1. l \in 1 .. m /\ w[l] = p[l]
      BY <1>3, <1>5, <1>7, <2>1
    <3>2. QED BY <1>5, <1>7, <2>1, <3>1
  <2>2. CASE k - m \in 1 .. n /\ w[k] = q[k - m] /\ k > m
    <3>1. l - m \in 1 .. n /\ w[l] = q[l - m]
      BY <1>3, <1>5, <1>7, <2>2
    <3>2. k - m = l - m
      BY <1>5, <1>7, <2>2, <3>1
    <3>3. QED BY <1>1, <3>2
  <2>3. QED BY <1>3, <2>1, <2>2
<1>8. w \in Seq(Range(w))
  BY <1>2, <1>4
<1>9. QED BY <1>2, <1>4, <1>6, <1>7, <1>8 DEF Timed, w

\* changes_since returns the changes that the cursor admits, all of them, in order.
LEMMA ChangesFacts ==
  ASSUME NEW d, SoleWriter(d), NEW c
  PROVE  /\ Changes(d, c) \in Seq(Feed(d))
         /\ Range(Changes(d, c)) = {x \in Feed(d) : Admits(c, x.ts)}
         /\ Ascending(Changes(d, c))
<1> DEFINE moves    == [i \in DOMAIN d.moves |-> MoveChange(d, i)]
           contents == [i \in DOMAIN d.contents |-> EditChange(d, i)]
           some     == Admitted(moves \o contents, c)
<1>1. Timed(moves) /\ Len(moves) = Len(d.moves)
      /\ Range(moves) = {MoveChange(d, i) : i \in 1 .. Len(d.moves)}
      /\ \A i \in 1 .. Len(d.moves) : moves[i].ts = d.moves[i].ts
  <2> DEFINE L == Len(d.moves)
  <2>1. L \in Nat /\ DOMAIN d.moves = 1 .. L /\ moves = [i \in 1 .. L |-> MoveChange(d, i)]
    BY StampsOfLogs
  <2>2. \A i \in 1 .. L : MoveChange(d, i).ts = d.moves[i].ts
    BY DEF MoveChange
  <2> HIDE DEF moves
  <2>3. Len(moves) = L /\ Range(moves) = {MoveChange(d, i) : i \in 1 .. L}
        /\ moves \in Seq(Range(moves))
    BY <2>1 DEF Range
  <2>4. \A i \in 1 .. L : moves[i].ts = d.moves[i].ts
    BY <2>1, <2>2
  <2>5. /\ \A i \in 1 .. L : d.moves[i].ts \in Stamp
        /\ \A i, j \in 1 .. L : d.moves[i].ts = d.moves[j].ts => i = j
    BY StampsOfLogs
  <2> HIDE DEF L
  <2>6. Timed(moves)
    BY <2>3, <2>4, <2>5 DEF Timed
  <2>7. QED BY <2>3, <2>4, <2>6 DEF L
<1>2. Timed(contents) /\ Len(contents) = Len(d.contents)
      /\ Range(contents) = {EditChange(d, i) : i \in 1 .. Len(d.contents)}
      /\ \A i \in 1 .. Len(d.contents) : contents[i].ts = d.contents[i].ts
  <2> DEFINE L == Len(d.contents)
  <2>1. /\ L \in Nat /\ DOMAIN d.contents = 1 .. L
        /\ contents = [i \in 1 .. L |-> EditChange(d, i)]
    BY StampsOfLogs
  <2>2. \A i \in 1 .. L : EditChange(d, i).ts = d.contents[i].ts
    BY DEF EditChange
  <2> HIDE DEF contents
  <2>3. Len(contents) = L /\ Range(contents) = {EditChange(d, i) : i \in 1 .. L}
        /\ contents \in Seq(Range(contents))
    BY <2>1 DEF Range
  <2>4. \A i \in 1 .. L : contents[i].ts = d.contents[i].ts
    BY <2>1, <2>2
  <2>5. /\ \A i \in 1 .. L : d.contents[i].ts \in Stamp
        /\ \A i, j \in 1 .. L : d.contents[i].ts = d.contents[j].ts => i = j
    BY StampsOfLogs
  <2> HIDE DEF L
  <2>6. Timed(contents)
    BY <2>3, <2>4, <2>5 DEF Timed
  <2>7. QED BY <2>3, <2>4, <2>6 DEF L
<1>3. Changes(d, c) = ByTs(some)
  BY DEF Changes, MoveChange, EditChange
<1> HIDE DEF moves, contents
<1>4. Timed(moves \o contents) /\ Range(moves \o contents) = Feed(d)
  <2>1. \A i \in 1 .. Len(moves), j \in 1 .. Len(contents) : moves[i].ts # contents[j].ts
    BY <1>1, <1>2, StampsOfLogs
  <2>2. Range(moves \o contents) = Range(moves) \cup Range(contents)
    BY <1>1, <1>2, <2>1, TimedConcat
  <2>3. QED BY <1>1, <1>2, <2>1, <2>2, TimedConcat DEF Feed
<1>5. Timed(some) /\ Range(some) = {x \in Feed(d) : Admits(c, x.ts)}
  BY <1>4, AdmittedFacts
<1> HIDE DEF some
<1>6. /\ ByTs(some) \in Seq(Range(some)) /\ Range(ByTs(some)) = Range(some)
      /\ Ascending(ByTs(some))
  BY <1>5, SortedByTs
<1>7. ByTs(some) \in Seq(Feed(d))
  <2>1. Range(some) \subseteq Feed(d)
    BY <1>5
  <2>2. QED BY <1>6, <2>1
<1>8. QED BY <1>3, <1>5, <1>6, <1>7

-----------------------------------------------------------------------------
(* What a command does to the feed *)

\* A node is in the tree when it is moved to the trash.
Introduces(d, e) ==
    \A o \in Range(e.moves) :
        \/ o \in Range(d.moves)
        \/ o.new_parent # TRASH
        \/ o.child \in DOMAIN d.tree.edges

LEMMA MoveIntroduces ==
  ASSUME NEW d, DriveOk(d), NEW r, NEW child, NEW parent, NEW name, NEW kind,
         parent # TRASH \/ child \in DOMAIN d.tree.edges
  PROVE  Introduces(d, EmitMove(d, r, child, parent, name, kind))
<1> DEFINE op == [ts |-> NextTs(d, r), child |-> child, new_parent |-> parent,
                  new_name |-> name, kind |-> kind]
           e == EmitMove(d, r, child, parent, name, kind)
<1>1. e.moves = Append(d.moves, op)
  <2>1. d = [lamport |-> d.lamport, moves |-> d.moves, contents |-> d.contents,
             tree |-> d.tree, content |-> d.content]
    BY DEF DriveOk
  <2>2. e = [d EXCEPT !.lamport = @ + 1, !.tree = Integrate(@, op), !.moves = Append(@, op)]
    BY Zenon DEF EmitMove
  <2> HIDE DEF e, op
  <2>3. QED BY <2>1, <2>2
<1>2. op.child = child /\ op.new_parent = parent
  OBVIOUS
<1> HIDE DEF e, op
<1>3. Range(e.moves) = Range(d.moves) \cup {op}
  BY <1>1, RangeAppend DEF DriveOk, MovesLog
<1>4. Introduces(d, e)
  BY <1>2, <1>3 DEF Introduces
<1>5. QED BY <1>4 DEF e

\* Nothing is put under the trash but what a user deletes.
LEMMA TrashIsNoDir ==
  ASSUME NEW d, DriveOk(d)
  PROVE  TRASH \notin Resolvable(d.tree)
<1> DEFINE e == d.tree.edges
<1>1. IsFiniteSet(DOMAIN e)
  BY DriveTree DEF TreeSound
<1> HIDE DEF e
<1>2. PICK at, len : /\ len \in Nat /\ at[0] = TRASH
                     /\ AncestorsOrSelf(e, TRASH) = {at[i] : i \in 0 .. len}
  BY <1>1, AncestorsAreWalk
<1>3. 0 \in 0 .. len
  BY <1>2
<1>4. IsTrashed(e, TRASH)
  BY <1>2, <1>3 DEF IsTrashed, IsAncestor
<1>5. QED BY <1>4 DEF Resolvable, e

LEMMA CommandsIntroduce ==
  ASSUME IInv, NEW r \in Replica, Structural(r) \/ Editing(r) \/ Deleting(r)
  PROVE  Introduces(drive[r], drive'[r])
<1> DEFINE d == drive[r]
           e == drive'[r]
<1>1. /\ DriveOk(d) /\ TreeSound(d.tree)
      /\ Resolvable(d.tree) \ {ROOT} \subseteq DOMAIN d.tree.edges
  BY Arguments
<1>2. \A x : drive' = [drive EXCEPT ![r] = x] => e = x
  BY CommandFacts
<1>3. ASSUME NEW parent \in Dirs(d), NEW n, NEW name, NEW kind
      PROVE  /\ Introduces(d, EmitMove(d, r, n, parent, name, kind))
             /\ parent # TRASH
  <2>1. parent # TRASH
    BY <1>1, TrashIsNoDir DEF Dirs
  <2> HIDE DEF d
  <2>2. QED BY <1>1, <2>1, MoveIntroduces
<1>4. ASSUME NEW x, NEW op, DriveOk(x), Introduces(d, x) PROVE Introduces(d, EmitContent(x, r, op))
  <2>1. EmitContent(x, r, op).moves = x.moves
    BY <1>4, EmitContentContinues
  <2>2. QED BY <1>4, <2>1 DEF Introduces
<1>5. Introduces(d, d)
  BY DEF Introduces
<1>6. CASE Structural(r)
  <2>1. PICK parent \in Nodes(r), name \in Name :
          \/ Mkdir(r, parent, name)
          \/ \E cid \in Cid, at \in Time : AddFile(r, parent, name, cid, at)
          \/ \E n \in Nodes(r) : Mv(r, n, parent, name)
          \/ \E n \in Restorable(r) : Restore(r, n, parent, name)
    BY <1>6 DEF Structural
  <2>2. CASE Mkdir(r, parent, name)
    <3>1. e = EmitMove(d, r, FreshId(d, r), parent, name, "dir") /\ parent \in Dirs(d)
      BY <1>2, <2>2 DEF Mkdir
    <3>2. QED BY <1>3, <3>1
  <2>3. ASSUME NEW cid \in Cid, NEW at \in Time, AddFile(r, parent, name, cid, at)
        PROVE  Introduces(d, e)
    <3> DEFINE id == FreshId(d, r)
               x == EmitMove(d, r, id, parent, name, "file")
    <3>1. e = EmitContent(x, r, SetOp(id, cid, at)) /\ parent \in Dirs(d)
      BY <1>2, <2>3 DEF AddFile
    <3>2. DriveOk(x)
      <4>1. id \in Item /\ parent \in Place /\ name \in AnyName /\ "file" \in Kind
        BY <3>1, Arguments, NameAssumption DEF Item, Kind
      <4> HIDE DEF d, id
      <4>2. QED BY <1>1, <4>1, EmitMoveGrows
    <3>3. Introduces(d, x)
      BY <1>3, <3>1
    <3> HIDE DEF x, id, d, e
    <3>4. QED BY <1>4, <3>1, <3>2, <3>3
  <2>4. ASSUME NEW n \in Nodes(r), Mv(r, n, parent, name) PROVE Introduces(d, e)
    <3>1. e = EmitMove(d, r, n, parent, name, KindOf(d, n)) /\ parent \in Dirs(d)
      BY <1>2, <2>4 DEF Mv
    <3>2. QED BY <1>3, <3>1
  <2>5. ASSUME NEW n \in Restorable(r), Restore(r, n, parent, name) PROVE Introduces(d, e)
    <3>1. e = EmitMove(d, r, n, parent, name, KindOf(d, n)) /\ parent \in Dirs(d)
      BY <1>2, <2>5 DEF Restore
    <3>2. QED BY <1>3, <3>1
  <2>6. QED BY <2>1, <2>2, <2>3, <2>4, <2>5
<1>7. CASE Editing(r)
  <2>1. \E op : e = EmitContent(d, r, op)
    BY <1>2, <1>7 DEF Editing, AddVersion, SetContent, RestoreVersion
  <2>2. QED BY <1>1, <1>4, <1>5, <2>1
<1>8. CASE Deleting(r)
  <2>1. ASSUME NEW n \in Nodes(r), Rm(r, n) PROVE Introduces(d, e)
    <3> DEFINE name == d.tree.edges[n].name
    <3>1. e = EmitMove(d, r, n, TRASH, name, KindOf(d, n)) /\ n \in DOMAIN d.tree.edges
      BY <1>1, <1>2, <2>1 DEF Rm
    <3> HIDE DEF d, e, name
    <3>2. QED BY <1>1, <3>1, MoveIntroduces
  <2>2. ASSUME NEW ids \in SUBSET Trash(d), e = HardDelete(d, r, TrashListing(d, ids))
        PROVE  Introduces(d, e)
    <3> DEFINE list == TrashListing(d, ids)
               S == Trash(d) \cup {LIMBO}
    <3>1. list \in Seq(ids) /\ Trash(d) \subseteq NodeId
      BY <1>1, TrashListingIsSequence, TrashIsNodes
    <3>2. list \in Seq(NodeId \cap S)
      <4>1. ids \subseteq NodeId \cap S
        BY <3>1
      <4> HIDE DEF list, S
      <4>2. QED BY <3>1, <4>1
    <3>3. Continues(d, e, S)
      <4> HIDE DEF d, e, list
      <4>1. QED BY <1>1, <2>2, <3>2, HardDeleteContinues DEF list
    <3>4. TRASH \notin S
      BY <3>1, ReservedAssumption
    <3>5. QED BY <3>3, <3>4 DEF Continues, Introduces
  <2>3. CASE EmptyTrash(r)
    <3>1. e = HardDelete(d, r, TrashListing(d, Trash(d)))
      BY <1>2, <2>3 DEF EmptyTrash
    <3>2. Trash(d) \in SUBSET Trash(d)
      OBVIOUS
    <3>3. QED BY <2>2, <3>1, <3>2
  <2>4. ASSUME NEW cutoff \in Time, GcTrash(r, cutoff) PROVE Introduces(d, e)
    <3> DEFINE ids == {n \in Trash(d) : n \in DOMAIN d.content => d.content[n].mtime <= cutoff}
    <3>1. e = HardDelete(d, r, TrashListing(d, ids))
      BY <1>2, <2>4 DEF GcTrash
    <3>2. ids \in SUBSET Trash(d)
      OBVIOUS
    <3> HIDE DEF ids
    <3>3. QED BY <2>2, <3>1, <3>2
  <2>5. QED BY <1>8, <2>1, <2>3, <2>4 DEF Deleting
<1>9. QED BY <1>6, <1>7, <1>8

-----------------------------------------------------------------------------
(* The feed and its client *)

\* A node was there before it was moved to the trash.
Introduced(d) ==
    \A i \in 1 .. Len(d.moves) :
        d.moves[i].new_parent = TRASH =>
            \E j \in 1 .. i - 1 : d.moves[j].child = d.moves[i].child

\* The client was told changes of the drive, each once and in order, and its cursor is
\* at the last of them: whatever it was not told is later.
ToldOk(d) ==
    /\ told \in Seq(Feed(d))
    /\ Ascending(told)
    /\ cursor = IF told = <<>> THEN Nil ELSE told[Len(told)].ts
    /\ \A x \in Feed(d) : Admits(cursor, x.ts) \/ x \in Range(told)

FeedInv ==
    /\ IInv
    /\ \A r \in Replica : /\ SoleWriter(drive[r]) /\ Introduced(drive[r])
                          /\ ToldOk(drive[r])

\* A node with an edge was moved.
LEMMA EdgeWasMoved ==
  ASSUME NEW d, DriveOk(d), NEW n \in DOMAIN d.tree.edges
  PROVE  \E j \in 1 .. Len(d.moves) : d.moves[j].child = n
<1> DEFINE t == d.tree
<1>1. Built(t, LogEntries(MoveOp)) /\ LogOps(t) = Range(d.moves)
  BY DriveTree DEF Replayed
<1>2. PICK i \in 1 .. Len(t.log) : t.log[i].op.child = n
  BY <1>1, EdgesOfMoves
<1>3. t.log[i].op \in Range(d.moves)
  BY <1>1, <1>2 DEF LogOps
<1>4. DOMAIN d.moves = 1 .. Len(d.moves)
  BY DEF DriveOk, MovesLog
<1>5. PICK j \in 1 .. Len(d.moves) : d.moves[j] = t.log[i].op
  BY <1>3, <1>4 DEF Range
<1>6. QED BY <1>2, <1>5

\* A log that goes on keeps the moves that it has and adds later ones.
LEMMA StillIntroduced ==
  ASSUME NEW d, NEW e, DriveOk(d), DriveOk(e), GoesOn(d, e), Introduces(d, e), Introduced(d)
  PROVE  Introduced(e)
<1> DEFINE m == Len(d.moves)
           n == Len(e.moves)
<1>1. /\ m \in Nat /\ n \in Nat /\ m <= n
      /\ \A i \in 1 .. m : e.moves[i] = d.moves[i]
      /\ \A i \in 1 .. n : i <= m \/ e.moves[i].ts.lamport > d.lamport
  BY DEF GoesOn, Appends
<1>2. SUFFICES ASSUME NEW i \in 1 .. n, e.moves[i].new_parent = TRASH
               PROVE  \E j \in 1 .. i - 1 : e.moves[j].child = e.moves[i].child
  BY DEF Introduced
<1>3. CASE i <= m
  <2>1. i \in 1 .. m /\ \A j \in 1 .. i - 1 : j \in 1 .. m
    BY <1>1, <1>3
  <2>2. PICK j \in 1 .. i - 1 : d.moves[j].child = d.moves[i].child
    BY <1>1, <1>2, <2>1 DEF Introduced
  <2>3. QED BY <1>1, <2>1, <2>2
<1>4. CASE ~(i <= m)
  <2>1. e.moves[i] \in Range(e.moves)
    BY <1>2 DEF DriveOk, MovesLog, Range
  <2>2. e.moves[i] \notin Range(d.moves)
    <3>1. \A o \in Range(d.moves) : o.ts.lamport \in Nat /\ o.ts.lamport <= d.lamport
      BY TicksAreNumbers
    <3>2. e.moves[i].ts.lamport > d.lamport /\ d.lamport \in Nat
      BY <1>1, <1>4 DEF GoesOn
    <3>3. QED BY <3>1, <3>2
  <2>3. e.moves[i].child \in DOMAIN d.tree.edges
    BY <1>2, <2>1, <2>2 DEF Introduces
  <2>4. PICK j \in 1 .. m : d.moves[j].child = e.moves[i].child
    BY <2>3, EdgeWasMoved
  <2>5. j \in 1 .. i - 1
    BY <1>1, <1>4
  <2>6. QED BY <1>1, <2>4, <2>5
<1>5. QED BY <1>3, <1>4

LEMMA FeedGoesOn ==
  ASSUME NEW d, NEW e, SoleWriter(d), SoleWriter(e), GoesOn(d, e)
  PROVE  /\ Feed(d) \subseteq Feed(e)
         /\ \A x \in Feed(e) : \/ x \in Feed(d)
                               \/ x.ts \in Stamp /\ x.ts.lamport > d.lamport
<1> DEFINE m == Len(d.moves)
           n == Len(d.contents)
<1>1. /\ m \in Nat /\ Len(e.moves) \in Nat /\ m <= Len(e.moves)
      /\ \A i \in 1 .. m : e.moves[i] = d.moves[i]
      /\ \A i \in 1 .. Len(e.moves) : i <= m \/ e.moves[i].ts.lamport > d.lamport
  BY DEF GoesOn, Appends
<1>2. /\ n \in Nat /\ Len(e.contents) \in Nat /\ n <= Len(e.contents)
      /\ \A i \in 1 .. n : e.contents[i] = d.contents[i]
      /\ \A i \in 1 .. Len(e.contents) : i <= n \/ e.contents[i].ts.lamport > d.lamport
  BY DEF GoesOn, Appends
<1>3. ASSUME NEW i \in 1 .. m PROVE MoveChange(e, i) = MoveChange(d, i)
  <2>1. \A j \in 1 .. i - 1 : e.moves[j] = d.moves[j]
    BY <1>1
  <2>2. e.moves[i] = d.moves[i]
    BY <1>1
  <2>3. MoveKind(e.moves, i) = MoveKind(d.moves, i)
    BY <2>1, <2>2 DEF MoveKind
  <2>4. QED BY <2>2, <2>3 DEF MoveChange
<1>4. \A i \in 1 .. n : EditChange(e, i) = EditChange(d, i)
  BY <1>2 DEF EditChange
<1>5. 1 .. m \subseteq 1 .. Len(e.moves) /\ 1 .. n \subseteq 1 .. Len(e.contents)
  BY <1>1, <1>2
<1>6. ASSUME NEW x \in Feed(d) PROVE x \in Feed(e)
  <2>1. CASE \E i \in 1 .. m : x = MoveChange(d, i)
    BY <1>3, <1>5, <2>1 DEF Feed
  <2>2. CASE \E i \in 1 .. n : x = EditChange(d, i)
    BY <1>4, <1>5, <2>2 DEF Feed
  <2>3. QED BY <2>1, <2>2 DEF Feed
<1>7. ASSUME NEW x \in Feed(e), x \notin Feed(d) PROVE x.ts \in Stamp /\ x.ts.lamport > d.lamport
  <2>1. ASSUME NEW i \in 1 .. Len(e.moves), x = MoveChange(e, i)
        PROVE  x.ts \in Stamp /\ x.ts.lamport > d.lamport
    <3>1. ~(i <= m)
      <4>1. i <= m => i \in 1 .. m
        BY <1>1
      <4>2. QED BY <1>3, <1>7, <2>1, <4>1 DEF Feed
    <3>2. x.ts = e.moves[i].ts
      BY <2>1 DEF MoveChange
    <3>3. QED BY <1>1, <3>1, <3>2, StampsOfLogs
  <2>2. ASSUME NEW i \in 1 .. Len(e.contents), x = EditChange(e, i)
        PROVE  x.ts \in Stamp /\ x.ts.lamport > d.lamport
    <3>1. ~(i <= n)
      <4>1. i <= n => i \in 1 .. n
        BY <1>2
      <4>2. QED BY <1>4, <1>7, <2>2, <4>1 DEF Feed
    <3>2. x.ts = e.contents[i].ts
      BY <2>2 DEF EditChange
    <3>3. QED BY <1>2, <3>1, <3>2, StampsOfLogs
  <2>3. QED BY <2>1, <2>2 DEF Feed
<1>8. QED BY <1>6, <1>7

\* What a client was told, and its cursor, are stamped by the clock of the drive.
LEMMA FeedStamps ==
  ASSUME NEW d, SoleWriter(d)
  PROVE  /\ \A x \in Feed(d) : x.ts \in Stamp /\ x.ts.lamport <= d.lamport
         /\ \A x, y \in Feed(d) : x.ts = y.ts => x = y
<1>1. \A i : MoveChange(d, i).ts = d.moves[i].ts /\ EditChange(d, i).ts = d.contents[i].ts
  BY DEF MoveChange, EditChange
<1>2. \A x \in Feed(d) : x.ts \in Stamp /\ x.ts.lamport <= d.lamport
  <2>1. ASSUME NEW i \in 1 .. Len(d.moves)
        PROVE  LET ts == MoveChange(d, i).ts IN ts \in Stamp /\ ts.lamport <= d.lamport
    BY <1>1, StampsOfLogs
  <2>2. ASSUME NEW i \in 1 .. Len(d.contents)
        PROVE  LET ts == EditChange(d, i).ts IN ts \in Stamp /\ ts.lamport <= d.lamport
    BY <1>1, StampsOfLogs
  <2>3. QED BY <2>1, <2>2 DEF Feed
<1>3. \A x, y \in Feed(d) : x.ts = y.ts => x = y
  <2> SUFFICES ASSUME NEW x \in Feed(d), NEW y \in Feed(d), x.ts = y.ts PROVE x = y
    OBVIOUS
  <2>1. CASE \E i, j \in 1 .. Len(d.moves) : x = MoveChange(d, i) /\ y = MoveChange(d, j)
    BY <1>1, <2>1, StampsOfLogs
  <2>2. CASE \E i, j \in 1 .. Len(d.contents) : x = EditChange(d, i) /\ y = EditChange(d, j)
    BY <1>1, <2>2, StampsOfLogs
  <2>3. CASE \E i \in 1 .. Len(d.moves), j \in 1 .. Len(d.contents) :
                \/ x = MoveChange(d, i) /\ y = EditChange(d, j)
                \/ y = MoveChange(d, i) /\ x = EditChange(d, j)
    BY <1>1, <2>3, StampsOfLogs
  <2>4. QED BY <2>1, <2>2, <2>3 DEF Feed
<1>4. QED BY <1>2, <1>3

LEMMA ToldFacts ==
  ASSUME NEW d, SoleWriter(d), ToldOk(d)
  PROVE  /\ Len(told) \in Nat /\ DOMAIN told = 1 .. Len(told)
         /\ \A i \in 1 .. Len(told) : /\ told[i] \in Feed(d) /\ told[i].ts \in Stamp
                                      /\ cursor # Nil /\ ~TsLess(cursor, told[i].ts)
         /\ cursor = Nil \/ (cursor \in Stamp /\ cursor.lamport <= d.lamport)
<1>1. /\ Len(told) \in Nat /\ DOMAIN told = 1 .. Len(told)
      /\ told # <<>> => Len(told) \in 1 .. Len(told)
      /\ \A i \in 1 .. Len(told) : told[i] \in Feed(d)
  BY DEF ToldOk
<1>2. \A i \in 1 .. Len(told) : told[i].ts \in Stamp /\ told[i].ts.lamport <= d.lamport
  BY <1>1, FeedStamps
<1>3. cursor = Nil \/ (cursor \in Stamp /\ cursor.lamport <= d.lamport)
  BY <1>1, <1>2 DEF ToldOk
<1>4. ASSUME NEW i \in 1 .. Len(told)
      PROVE  cursor # Nil /\ ~TsLess(cursor, told[i].ts)
  <2> DEFINE n == Len(told)
  <2>1. told # <<>> /\ n \in 1 .. n /\ cursor = told[n].ts /\ told[n].ts \in Stamp
    BY <1>1, <1>2 DEF ToldOk
  <2>2. cursor # Nil
    BY <2>1, CursorAssumption DEF Stamp
  <2>3. i = n \/ TsLess(told[i].ts, told[n].ts)
    <3>1. i = n \/ i < n
      <4>1. n \in Nat /\ i \in 1 .. n
        BY <1>1
      <4> HIDE DEF n
      <4>2. QED BY <4>1
    <3>2. ASSUME i < n PROVE TsLess(told[i].ts, told[n].ts)
      <4>1. i \in DOMAIN told /\ n \in DOMAIN told /\ Ascending(told)
        BY <1>1, <2>1 DEF ToldOk
      <4> HIDE DEF n
      <4>2. QED BY <3>2, <4>1 DEF Ascending
    <3>3. QED BY <3>1, <3>2
  <2>4. ~TsLess(told[n].ts, told[i].ts)
    BY <1>2, <2>1, <2>3, StampOrder
  <2>5. QED BY <2>1, <2>2, <2>4
<1>5. QED BY <1>1, <1>2, <1>3, <1>4

\* What a command adds is later than the cursor.
LEMMA StillTold ==
  ASSUME NEW d, NEW e, SoleWriter(d), SoleWriter(e), GoesOn(d, e), ToldOk(d)
  PROVE  ToldOk(e)
<1>1. Feed(d) \subseteq Feed(e)
  BY FeedGoesOn
<1>2. told \in Seq(Feed(e))
  BY <1>1 DEF ToldOk
<1>3. ASSUME NEW x \in Feed(e) PROVE Admits(cursor, x.ts) \/ x \in Range(told)
  <2>1. CASE x \in Feed(d)
    BY <2>1 DEF ToldOk
  <2>2. CASE x \notin Feed(d)
    <3>1. x.ts \in Stamp /\ x.ts.lamport > d.lamport /\ d.lamport \in Nat
      BY <2>2, FeedGoesOn DEF GoesOn
    <3>2. cursor = Nil \/ (cursor \in Stamp /\ cursor.lamport <= d.lamport)
      BY ToldFacts
    <3>3. cursor = Nil \/ TsLess(cursor, x.ts)
      <4>1. \A s \in Stamp : s.lamport \in Nat
        BY DEF Stamp
      <4>2. QED BY <3>1, <3>2, <4>1 DEF TsLess
    <3>4. QED BY <3>3 DEF Admits
  <2>3. QED BY <2>1, <2>2
<1>4. QED BY <1>2, <1>3 DEF ToldOk

\* What follows a prefix that has all the earlier ones: of an ascending sequence of
\* changes, the first n.
LEMMA PageFacts ==
  ASSUME NEW S, NEW all \in Seq(S), Ascending(all), NEW limit \in Nat, Page(all, limit) # <<>>
  PROVE  \E n \in 1 .. Len(all) :
            /\ Page(all, limit) \in Seq(S) /\ Len(Page(all, limit)) = n
            /\ \A i \in 1 .. n : Page(all, limit)[i] = all[i]
<1>1. Len(all) \in Nat /\ \A i \in 1 .. Len(all) : all[i] \in S
  OBVIOUS
<1>2. CASE limit # 0 /\ Len(all) > limit
  <2>1. Page(all, limit) = SubSeq(all, 1, limit) /\ limit \in 1 .. Len(all)
    BY <1>1, <1>2 DEF Page
  <2>2. /\ SubSeq(all, 1, limit) \in Seq(S) /\ Len(SubSeq(all, 1, limit)) = limit
        /\ \A i \in 1 .. limit : SubSeq(all, 1, limit)[i] = all[i]
    BY <1>1, <2>1
  <2>3. QED BY <2>1, <2>2
<1>3. CASE ~(limit # 0 /\ Len(all) > limit)
  <2>1. Page(all, limit) = all
    BY <1>3 DEF Page
  <2>2. Len(all) \in 1 .. Len(all)
    BY <1>1, <2>1
  <2>3. QED BY <2>1, <2>2
<1>4. QED BY <1>2, <1>3

\* The next page goes on where the client was: its changes are later than the cursor,
\* and the changes after them are later than the new cursor.
LEMMA PolledOk ==
  ASSUME NEW r \in Replica, NEW limit \in Nat, SoleWriter(drive[r]), ToldOk(drive[r]),
         Poll(r, limit)
  PROVE  ToldOk(drive[r])'
<1> DEFINE d    == drive[r]
           all  == Changes(d, cursor)
           page == Page(all, limit)
<1>1. /\ page # <<>> /\ told' = told \o page /\ cursor' = Last(page).ts
      /\ UNCHANGED drive
  BY DEF Poll
<1>2. /\ all \in Seq(Feed(d)) /\ Range(all) = {x \in Feed(d) : Admits(cursor, x.ts)}
      /\ Ascending(all)
  BY ChangesFacts
<1> HIDE DEF all
<1>3. PICK n \in 1 .. Len(all) :
            /\ page \in Seq(Feed(d)) /\ Len(page) = n
            /\ \A i \in 1 .. n : page[i] = all[i]
  BY <1>1, <1>2, PageFacts
<1> HIDE DEF page
<1> DEFINE m == Len(told)
<1>4. /\ m \in Nat /\ told \in Seq(Feed(d)) /\ Ascending(told)
      /\ \A i \in 1 .. m : told[i] \in Feed(d)
      /\ cursor = IF told = <<>> THEN Nil ELSE told[m].ts
      /\ \A i \in 1 .. m : cursor # Nil /\ told[i].ts \in Stamp /\ ~TsLess(cursor, told[i].ts)
      /\ cursor = Nil \/ cursor \in Stamp
  BY ToldFacts DEF ToldOk
<1>5. Len(all) \in Nat /\ n \in Nat /\ n >= 1 /\ n <= Len(all) /\ DOMAIN all = 1 .. Len(all)
  BY <1>2
<1>6. \A i \in 1 .. Len(all) : /\ all[i] \in Feed(d) /\ all[i].ts \in Stamp
                               /\ Admits(cursor, all[i].ts)
  <2>1. \A i \in 1 .. Len(all) : all[i] \in Range(all)
    BY <1>5 DEF Range
  <2>2. QED BY <1>2, <2>1, FeedStamps
<1> DEFINE new == told \o page
<1>7. /\ new \in Seq(Feed(d)) /\ Len(new) = m + n /\ new # <<>>
      /\ \A i \in 1 .. m : new[i] = told[i]
      /\ \A i \in 1 .. n : new[m + i] = all[i]
  <2>1. told \in Seq(Feed(d)) /\ page \in Seq(Feed(d))
    BY <1>3, <1>4
  <2>2. new \in Seq(Feed(d)) /\ Len(new) = m + Len(page)
    BY <2>1
  <2>3. \A i \in 1 .. m : new[i] = told[i]
    BY <2>1
  <2>4. \A i \in 1 .. Len(page) : new[m + i] = page[i]
    BY <2>1
  <2>5. Len(new) = m + n /\ new # <<>>
    <3> HIDE DEF new, m
    <3>1. Len(new) = m + n /\ Len(new) > 0
      BY <1>3, <1>4, <1>5, <2>2
    <3>2. QED BY <3>1
  <2>6. \A i \in 1 .. n : new[m + i] = all[i]
    BY <1>3, <2>4
  <2> HIDE DEF new, m
  <2>7. QED BY <2>2, <2>3, <2>5, <2>6
<1>8. Last(page) = all[n] /\ new[Len(new)] = all[n]
  BY <1>3, <1>5, <1>7 DEF Last
<1> HIDE DEF new, m
<1>9. Ascending(new)
  <2> SUFFICES ASSUME NEW i \in 1 .. m + n, NEW j \in 1 .. m + n, i < j
               PROVE  TsLess(new[i].ts, new[j].ts)
    BY <1>7 DEF Ascending
  <2>1. CASE j <= m
    <3>1. i \in 1 .. m /\ j \in 1 .. m
      BY <1>4, <1>5, <2>1
    <3>2. TsLess(told[i].ts, told[j].ts)
      BY <1>4, <3>1 DEF Ascending, m
    <3>3. QED BY <1>7, <3>1, <3>2
  <2>2. CASE i > m
    <3> DEFINE a == i - m
               b == j - m
    <3>1. a \in 1 .. Len(all) /\ b \in 1 .. Len(all) /\ a < b /\ a \in 1 .. n /\ b \in 1 .. n
          /\ i = m + a /\ j = m + b
      BY <1>4, <1>5, <2>2
    <3> HIDE DEF a, b
    <3>2. TsLess(all[a].ts, all[b].ts)
      BY <1>2, <3>1 DEF Ascending
    <3>3. QED BY <1>7, <3>1, <3>2
  <2>3. CASE i <= m /\ j > m
    <3> DEFINE b == j - m
    <3>1. i \in 1 .. m /\ b \in 1 .. n /\ b \in 1 .. Len(all) /\ j = m + b
      BY <1>4, <1>5, <2>3
    <3> HIDE DEF b
    <3>2. cursor \in Stamp /\ told[i].ts \in Stamp /\ ~TsLess(cursor, told[i].ts)
      BY <1>4, <3>1
    <3>3. all[b].ts \in Stamp /\ TsLess(cursor, all[b].ts)
      BY <1>4, <1>6, <3>1, CursorAssumption DEF Admits
    <3>4. TsLess(told[i].ts, all[b].ts)
      BY <3>2, <3>3, StampOrder
    <3>5. QED BY <1>7, <3>1, <3>4
  <2>4. QED BY <1>4, <1>5, <2>1, <2>2, <2>3
<1>10. ASSUME NEW x \in Feed(d)
       PROVE  Admits(all[n].ts, x.ts) \/ x \in Range(new)
  <2>1. CASE x \in Range(told)
    <3>1. PICK i \in 1 .. m : x = told[i]
      BY <1>4, <2>1 DEF Range, m
    <3>2. i \in DOMAIN new
      BY <1>4, <1>5, <1>7, <3>1
    <3>3. QED BY <1>7, <3>1, <3>2 DEF Range
  <2>2. CASE x \notin Range(told)
    <3>1. x \in Range(all)
      BY <1>2, <2>2 DEF ToldOk
    <3>2. PICK i \in 1 .. Len(all) : x = all[i]
      BY <1>5, <3>1 DEF Range
    <3>3. CASE i <= n
      <4>1. i \in 1 .. n /\ m + i \in DOMAIN new
        BY <1>4, <1>5, <1>7, <3>3
      <4>2. QED BY <1>7, <3>2, <4>1 DEF Range
    <3>4. CASE i > n
      <4>1. TsLess(all[n].ts, all[i].ts)
        BY <1>2, <1>5, <3>4 DEF Ascending
      <4>2. QED BY <3>2, <4>1 DEF Admits
    <3>5. QED BY <1>5, <3>3, <3>4
  <2>3. QED BY <2>1, <2>2
<1>11. told' = new /\ cursor' = new[Len(new)].ts /\ cursor' = all[n].ts /\ drive' = drive
  BY <1>1, <1>8 DEF new
<1>12. QED BY <1>7, <1>9, <1>10, <1>11 DEF ToldOk

\* With one writer nothing is merged, and no compaction runs.
LEMMA SoleSteps ==
  ASSUME IInv, Next, NEW r \in Replica, Replica = {r}, "compact" \notin Command
  PROVE  Structural(r) \/ Editing(r) \/ Deleting(r) \/ Reload(r)
<1>1. Others(r) = {}
  BY DEF Others
<1>2. ~Merging(r) /\ ~Compact(r)
  BY <1>1 DEF Merging, Compact
<1>3. QED BY <1>2 DEF Next

\* A command leaves the client with what it was told and with a cursor before all
\* that the command stamped.
LEMMA CommandKeepsFeed ==
  ASSUME IInv, NEW r \in Replica, Structural(r) \/ Editing(r) \/ Deleting(r),
         SoleWriter(drive[r]), Introduced(drive[r]), ToldOk(drive[r]),
         UNCHANGED <<cursor, told>>
  PROVE  SoleWriter(drive'[r]) /\ Introduced(drive'[r]) /\ ToldOk(drive[r])'
<1>1. Advances(r)
  BY StructuralAdvances, EditingAdvances, DeletingAdvances
<1>2. PICK e : Grown(drive[r], e, r) /\ drive' = [drive EXCEPT ![r] = e]
  BY <1>1 DEF Advances
<1>3. drive'[r] = e
  BY <1>2, CommandFacts
<1>4. DriveOk(drive[r]) /\ DriveOk(e) /\ GoesOn(drive[r], e) /\ SoleWriter(e)
  BY <1>2 DEF Grown, GoesOn, SoleWriter
<1>5. Introduces(drive[r], e)
  BY <1>3, CommandsIntroduce
<1>6. Introduced(e)
  BY <1>4, <1>5, StillIntroduced
<1>7. ToldOk(e)
  BY <1>4, StillTold
<1>8. ToldOk(drive[r])'
  BY <1>3, <1>7 DEF ToldOk
<1>9. QED BY <1>3, <1>4, <1>6, <1>8

LEMMA FeedNextKeeps ==
  ASSUME FeedInv, [FeedNext]_feedVars, NEW r \in Replica, Replica = {r},
         "compact" \notin Command
  PROVE  FeedInv'
<1>1. IInv /\ SoleWriter(drive[r]) /\ Introduced(drive[r]) /\ ToldOk(drive[r])
  BY DEF FeedInv
<1> SUFFICES IInv' /\ SoleWriter(drive'[r]) /\ Introduced(drive'[r]) /\ ToldOk(drive[r])'
  BY DEF FeedInv
<1>2. CASE Run
  <2>1. Next /\ UNCHANGED <<cursor, told>>
    BY <1>2 DEF Run
  <2>2. IInv'
    BY <1>1, <2>1, NextKeeps
  <2>3. CASE Structural(r) \/ Editing(r) \/ Deleting(r)
    BY <1>1, <2>1, <2>2, <2>3, CommandKeepsFeed
  <2>4. CASE Reload(r)
    <3>1. FromState(drive[r]) = drive[r]
      BY <1>1, FromStateSame DEF SoleWriter
    <3>2. drive'[r] = drive[r]
      BY <1>1, <2>4, <3>1, CommandFacts DEF Reload
    <3>3. ToldOk(drive[r])'
      BY <1>1, <2>1, <3>2 DEF ToldOk
    <3>4. QED BY <1>1, <2>2, <3>2, <3>3
  <2>5. QED BY <1>1, <2>1, <2>3, <2>4, SoleSteps
<1>3. CASE \E q \in Replica, limit \in Limit : Poll(q, limit)
  <2>1. PICK limit \in Limit : Poll(r, limit)
    BY <1>3
  <2>2. UNCHANGED vars /\ drive' = drive
    BY <2>1 DEF Poll, vars
  <2>3. IInv'
    BY <1>1, <2>2, NextKeeps
  <2>4. limit \in Nat
    BY <2>1, LimitAssumption
  <2>5. ToldOk(drive[r])'
    BY <1>1, <2>1, <2>4, PolledOk
  <2>6. QED BY <1>1, <2>2, <2>3, <2>5
<1>4. CASE UNCHANGED feedVars
  <2>1. UNCHANGED vars /\ drive' = drive /\ cursor' = cursor /\ told' = told
    BY <1>4 DEF feedVars, vars
  <2>2. IInv'
    BY <1>1, <2>1, NextKeeps
  <2>3. ToldOk(drive[r])'
    BY <1>1, <2>1 DEF ToldOk
  <2>4. QED BY <1>1, <2>1, <2>2, <2>3
<1>5. QED BY <1>2, <1>3, <1>4 DEF FeedNext

LEMMA FeedInitHolds ==
  ASSUME FeedInit
  PROVE  FeedInv
<1>1. IInv
  BY InitHolds DEF FeedInit
<1> SUFFICES ASSUME NEW r \in Replica
             PROVE  SoleWriter(drive[r]) /\ Introduced(drive[r]) /\ ToldOk(drive[r])
  BY <1>1 DEF FeedInv
<1>2. drive[r] = NewDrive /\ cursor = Nil /\ told = <<>>
  BY DEF FeedInit, Init
<1>3. /\ NewDrive.moves = <<>> /\ NewDrive.contents = <<>>
  BY DEF NewDrive
<1>4. DriveOk(drive[r])
  BY <1>1 DEF IInv, TypeOK
<1>5. SoleWriter(drive[r]) /\ Introduced(drive[r])
  BY <1>2, <1>3, <1>4 DEF SoleWriter, Introduced, Ascending, LogsApart, Range
<1>6. Feed(drive[r]) = {}
  BY <1>2, <1>3 DEF Feed
<1>7. ToldOk(drive[r])
  <2>1. told \in Seq(Feed(drive[r])) /\ Ascending(told)
    BY <1>2 DEF Ascending
  <2>2. QED BY <1>2, <1>6, <2>1 DEF ToldOk
<1>8. QED BY <1>5, <1>7

\* FeedInv is an invariant of the polled drive.
THEOREM FeedInductive ==
  ASSUME NEW r \in Replica, Replica = {r}, "compact" \notin Command
  PROVE  FeedSpec => []FeedInv
<1>1. FeedInv /\ [FeedNext]_feedVars => FeedInv'
  BY FeedNextKeeps
<1>2. QED BY <1>1, FeedInitHolds, PTL DEF FeedSpec

\* A client that polls with the cursor it was given misses nothing: each operation of
\* the logs was reported, or the cursor admits it still (changes_since).
THEOREM NothingIsMissed ==
  ASSUME NEW r \in Replica, Replica = {r}, "compact" \notin Command
  PROVE  FeedSpec => []FeedMissesNothing
<1>1. ASSUME FeedInv PROVE FeedMissesNothing
  <2> DEFINE d == drive[r]
  <2>1. SoleWriter(d) /\ ToldOk(d)
    BY <1>1 DEF FeedInv
  <2> SUFFICES ASSUME NEW op \in Ops(d)
               PROVE  \/ Admits(cursor, op.ts)
                      \/ \E i \in DOMAIN told : told[i].ts = op.ts /\ told[i].node = Target(op)
    BY DEF FeedMissesNothing
  <2>2. \E x \in Feed(d) : x.ts = op.ts /\ x.node = Target(op)
    <3>1. CASE op \in Range(d.moves)
      <4>1. PICK i \in 1 .. Len(d.moves) : op = d.moves[i]
        BY <2>1, <3>1, StampsOfLogs DEF Range
      <4>2. Target(op) = op.child
        <5>1. op \in MoveOp
          BY <2>1, <4>1 DEF SoleWriter, DriveOk, MovesLog
        <5>2. QED BY <5>1 DEF MoveOp, Target
      <4>3. /\ MoveChange(d, i) \in Feed(d)
            /\ MoveChange(d, i).ts = op.ts /\ MoveChange(d, i).node = op.child
        BY <4>1 DEF Feed, MoveChange
      <4>4. QED BY <4>2, <4>3
    <3>2. CASE op \in Range(d.contents)
      <4>1. PICK i \in 1 .. Len(d.contents) : op = d.contents[i]
        BY <2>1, <3>2, StampsOfLogs DEF Range
      <4>2. Target(op) = op.op.id
        <5>1. StampedOk(op)
          BY <2>1, <4>1 DEF SoleWriter, DriveOk, ContentLog, InOrder
        <5>2. "child" \notin DOMAIN op
          BY <5>1 DEF StampedOk
        <5>3. QED BY <5>2 DEF Target
      <4>3. /\ EditChange(d, i) \in Feed(d)
            /\ EditChange(d, i).ts = op.ts /\ EditChange(d, i).node = op.op.id
        BY <4>1 DEF Feed, EditChange
      <4>4. QED BY <4>2, <4>3
    <3>3. QED BY <3>1, <3>2 DEF Ops
  <2>3. PICK x \in Feed(d) : x.ts = op.ts /\ x.node = Target(op)
    BY <2>2
  <2>4. CASE x \in Range(told)
    BY <2>3, <2>4 DEF Range
  <2>5. CASE Admits(cursor, x.ts)
    BY <2>3, <2>5
  <2>6. QED BY <2>1, <2>4, <2>5 DEF ToldOk
<1>2. QED BY <1>1, FeedInductive, PTL

\* Whatever the pages and however the polls fall between the commands, changes are
\* reported in timestamp order and none twice.
THEOREM FeedIsOrdered ==
  ASSUME NEW r \in Replica, Replica = {r}, "compact" \notin Command
  PROVE  FeedSpec => []FeedInOrder
<1>1. ASSUME FeedInv PROVE FeedInOrder
  <2>1. Ascending(told) /\ DOMAIN told = 1 .. Len(told)
    BY <1>1, ToldFacts DEF FeedInv, ToldOk
  <2>2. QED BY <2>1 DEF FeedInOrder, Ascending
<1>2. QED BY <1>1, FeedInductive, PTL

\* A structural change that was told is of a move of the log.
LEMMA ToldMoves ==
  ASSUME NEW d, NEW x \in Feed(d), x.kind \in {"created", "moved", "trashed"}
  PROVE  \E k \in 1 .. Len(d.moves) : x = MoveChange(d, k)
BY DEF Feed, EditChange, ContentKind

\* Of two moves the later one in the log has the later stamp.
LEMMA MovesInStampOrder ==
  ASSUME NEW d, SoleWriter(d), NEW k \in 1 .. Len(d.moves), NEW l \in 1 .. Len(d.moves)
  PROVE  /\ MoveChange(d, k).ts = d.moves[k].ts /\ MoveChange(d, k).node = d.moves[k].child
         /\ MoveChange(d, k).kind = MoveKind(d.moves, k)
         /\ TsLess(d.moves[l].ts, d.moves[k].ts) <=> l < k
<1>1. Len(d.moves) \in Nat /\ d.moves[k].ts \in Stamp /\ d.moves[l].ts \in Stamp
  BY StampsOfLogs
<1>2. Ascending(d.moves)
  BY DEF SoleWriter
<1>3. l < k => TsLess(d.moves[l].ts, d.moves[k].ts)
  BY <1>2 DEF Ascending
<1>4. k < l => TsLess(d.moves[k].ts, d.moves[l].ts)
  BY <1>2 DEF Ascending
<1>5. TsLess(d.moves[l].ts, d.moves[k].ts) => ~(k < l) /\ k # l
  BY <1>1, <1>4, StampOrder
<1>6. l < k \/ k < l \/ k = l
  BY <1>1
<1>7. QED BY <1>3, <1>5, <1>6 DEF MoveChange

\* The first structural change that a client is told of a node is its creation, and of
\* no node a creation is told twice (the seen set that changes_since keeps over the
\* whole log, also for the moves before the cursor).
THEOREM CreationsToldOnce ==
  ASSUME NEW r \in Replica, Replica = {r}, "compact" \notin Command
  PROVE  FeedSpec => []CreatedOnce
<1>1. ASSUME FeedInv PROVE CreatedOnce
  <2> DEFINE d    == drive[r]
             kinds == {"created", "moved", "trashed"}
  <2>1. SoleWriter(d) /\ ToldOk(d) /\ Introduced(d)
    BY <1>1 DEF FeedInv
  <2>2. /\ Len(told) \in Nat /\ DOMAIN told = 1 .. Len(told) /\ Ascending(told)
        /\ \A i \in 1 .. Len(told) : /\ told[i] \in Feed(d) /\ told[i].ts \in Stamp
                                     /\ cursor # Nil /\ ~TsLess(cursor, told[i].ts)
        /\ cursor = Nil \/ cursor \in Stamp
    BY <2>1, ToldFacts DEF ToldOk
  <2>3. \A x \in Feed(d) : Admits(cursor, x.ts) \/ x \in Range(told)
    BY <2>1 DEF ToldOk
  <2> HIDE DEF d
  <2> SUFFICES ASSUME NEW i \in 1 .. Len(told), told[i].kind \in kinds
               PROVE  told[i].kind = "created" <=>
                        ~ \E j \in 1 .. i - 1 : /\ told[j].node = told[i].node
                                                /\ told[j].kind \in kinds
    BY <2>2 DEF CreatedOnce
  <2>4. PICK k \in 1 .. Len(d.moves) : told[i] = MoveChange(d, k)
    BY <2>2, ToldMoves
  <2>5. ASSUME NEW j \in 1 .. i - 1, told[j].node = told[i].node, told[j].kind \in kinds,
               told[i].kind = "created"
        PROVE  FALSE
    <3>1. j \in 1 .. Len(told) /\ j < i
      BY <2>2
    <3>2. PICK l \in 1 .. Len(d.moves) : told[j] = MoveChange(d, l)
      BY <2>2, <2>5, <3>1, ToldMoves
    <3>3. TsLess(told[j].ts, told[i].ts)
      BY <2>2, <3>1 DEF Ascending
    <3>4. l < k /\ d.moves[l].child = d.moves[k].child
      BY <2>1, <2>4, <2>5, <3>2, <3>3, MovesInStampOrder
    <3>5. l \in 1 .. k - 1
      BY <2>1, <3>4, StampsOfLogs
    <3>6. MoveKind(d.moves, k) # "created"
      BY <3>4, <3>5 DEF MoveKind
    <3>7. QED BY <2>1, <2>4, <2>5, <3>6, MovesInStampOrder
  <2>6. ASSUME told[i].kind # "created"
        PROVE  \E j \in 1 .. i - 1 : told[j].node = told[i].node /\ told[j].kind \in kinds
    <3>1. \E l \in 1 .. k - 1 : d.moves[l].child = d.moves[k].child
      <4>1. MoveKind(d.moves, k) # "created"
        BY <2>1, <2>4, <2>6, MovesInStampOrder
      <4>2. CASE d.moves[k].new_parent = TRASH
        BY <2>1, <4>2 DEF Introduced
      <4>3. CASE d.moves[k].new_parent # TRASH
        BY <4>1, <4>3 DEF MoveKind
      <4>4. QED BY <4>2, <4>3
    <3>2. PICK l \in 1 .. k - 1 : d.moves[l].child = d.moves[k].child
      BY <3>1
    <3>3. l \in 1 .. Len(d.moves) /\ l < k
      BY <2>1, StampsOfLogs
    <3> DEFINE x == MoveChange(d, l)
    <3>4. /\ x \in Feed(d) /\ x.ts \in Stamp /\ x.node = told[i].node
          /\ TsLess(x.ts, told[i].ts) /\ x.kind \in kinds
      <4>1. x \in Feed(d)
        BY <3>3 DEF Feed
      <4>2. x.ts \in Stamp
        BY <2>1, <4>1, FeedStamps
      <4>3. x.node = told[i].node /\ TsLess(x.ts, told[i].ts)
        BY <2>1, <2>4, <3>2, <3>3, MovesInStampOrder
      <4>4. x.kind \in kinds
        BY <2>1, <3>3, MovesInStampOrder DEF MoveKind
      <4>5. QED BY <4>1, <4>2, <4>3, <4>4
    <3> HIDE DEF x
    <3>5. ~Admits(cursor, x.ts)
      <4>1. cursor \in Stamp /\ told[i].ts \in Stamp /\ ~TsLess(cursor, told[i].ts)
            /\ cursor # Nil
        BY <2>2
      <4>2. ~TsLess(cursor, x.ts)
        BY <3>4, <4>1, StampOrder
      <4>3. QED BY <4>1, <4>2 DEF Admits
    <3>6. PICK j \in 1 .. Len(told) : told[j] = x
      BY <2>2, <2>3, <3>4, <3>5 DEF Range
    <3>7. ~(i < j) /\ i # j
      <4>1. told[i].ts \in Stamp
        BY <2>2
      <4>2. i < j => TsLess(told[i].ts, told[j].ts)
        BY <2>2 DEF Ascending
      <4>3. ~TsLess(told[i].ts, x.ts) /\ told[i].ts # x.ts
        BY <3>4, <4>1, StampOrder
      <4>4. QED BY <3>6, <4>2, <4>3
    <3>8. j \in 1 .. i - 1
      BY <2>2, <3>7
    <3>9. QED BY <3>4, <3>6, <3>8
  <2>7. QED BY <2>5, <2>6
<1>2. QED BY <1>1, FeedInductive, PTL

=============================================================================
