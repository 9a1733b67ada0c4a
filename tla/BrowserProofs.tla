--------------------------- MODULE BrowserProofs ----------------------------
(***************************************************************************)
(* Theorems about Browser, for any pages, devices, names, contents, calls  *)
(* and bounds: pages and devices that took in the same moves hold the same *)
(* tree, a page is told to keep every content it heard of that a history   *)
(* has room for, and no operation and no node is minted twice.             *)
(***************************************************************************)
EXTENDS Browser, DriveProofs

IsMove(op) == "child" \in DOMAIN op

\* A page in memory: its tree is built from its log in timestamp order, no stamp it
\* saw is past its clock, and its content map is what it heard of in order.
PageOk(p, h) ==
    /\ p = [lamport |-> p.lamport, ctr |-> p.ctr, tree |-> p.tree, content |-> p.content]
    /\ p.lamport \in Nat /\ p.ctr \in Nat
    /\ Replayed(p.tree, MoveOp)
    /\ \A o \in LogOps(p.tree) : o.ts.lamport <= p.lamport
    /\ IsSequence(h)
    /\ \A i \in 1 .. Len(h) : StampedOk(h[i]) /\ h[i].ts.lamport <= p.lamport
    /\ \A n : KeepsSaves(p.content, h, n, Len(h))

PagesOk ==
    /\ page = [b \in Page |-> page[b]] /\ heard = [b \in Page |-> heard[b]]
    /\ \A b \in Page : PageOk(page[b], heard[b])

\* What pages publish, and that a timestamp stands for one operation of a page.
Stamping(ops) ==
    /\ \A op \in ops : /\ op.ts.replica \in Page
                       /\ IF IsMove(op) THEN op \in MoveOp ELSE StampedOk(op)
    /\ Keyed(ops)

\* What a device has of the pages, it has from the mesh.
FromPages(d) ==
    \A o \in Range(d.moves) \cup Range(d.contents) :
        o.ts.replica \in Replica \/ o \in published

\* An id that a page minted is one that a published operation was stamped with.
Backed(x, ops) ==
    x \in Nat \X Nat \X Nat =>
        \E q \in ops : q.ts.lamport = x[1] /\ q.ts.replica = x[2]

BackedIds(moves, ops) == \A o \in moves : Backed(o.child, ops) /\ Backed(o.new_parent, ops)

IdsBacked ==
    /\ BackedIds(PublishedMoves, published)
    /\ \A b \in Page : BackedIds(LogOps(page[b].tree), published)
    /\ \A r \in Replica : BackedIds(Range(drive[r].moves), published)

BInv ==
    /\ IInv /\ PagesOk /\ Stamping(published) /\ IdsBacked
    /\ \A r \in Replica : FromPages(drive[r]) /\ LogsApart(drive[r])

-----------------------------------------------------------------------------
(* The content map of a page *)

\* What a save makes of a page's record is what it makes of the core's, up to the
\* mark of a conflict.
LEMMA SaveForms ==
  ASSUME NEW c, HasHistory(c), NEW op,
         NEW d, \/ op.type = "set" /\ d = RecordSave(c, op.cid, op.at)
                \/ op.type = "restore" /\ d = RestoreSave(c, op.cid, op.at)
  PROVE  RecordGains(c, d, op)
<1> DEFINE old == Saved(c.cid, c.mtime)
           new == Saved(op.cid, op.at)
<1>1. old.cid = c.cid /\ new.cid = op.cid
  BY DEF Saved
<1>2. \/ d = c /\ (op.type = "set" => op.cid = c.cid)
      \/ d = [cid |-> op.cid, mtime |-> op.at, versions |-> PushVersion(c.versions, old)]
      \/ d = [c EXCEPT !.versions = PushVersion(c.versions, new)]
  BY DEF RecordSave, RestoreSave
<1> HIDE DEF old, new
<1>3. CASE d = c /\ (op.type = "set" => op.cid = c.cid)
  BY <1>3 DEF RecordGains
<1>4. CASE d = [cid |-> op.cid, mtime |-> op.at, versions |-> PushVersion(c.versions, old)]
  BY <1>1, <1>4, Zenon DEF RecordGains
<1>5. CASE d = [c EXCEPT !.versions = PushVersion(c.versions, new)]
  <2> DEFINE q == PushVersion(c.versions, new)
  <2> HIDE DEF q
  <2>1. d = [c EXCEPT !.versions = q]
    BY <1>5 DEF q
  <2>2. d = [cid |-> c.cid, mtime |-> c.mtime, versions |-> q]
    BY <2>1 DEF HasHistory
  <2>3. QED BY <1>1, <2>2, Zenon DEF RecordGains, q
<1>6. QED BY <1>2, <1>3, <1>4, <1>5

\* ContentMap::apply of the page.
LEMMA SaveApplied ==
  ASSUME NEW op, op.type \in {"set", "restore", "remove"}, NEW m, Histories(m)
  PROVE  Applied(m, ApplySave(m, op), op)
<1>1. CASE op.type = "remove"
  BY <1>1 DEF ApplySave, Applied
<1>2. CASE op.type # "remove" /\ op.id \in DOMAIN m
  <2> DEFINE c == m[op.id]
             d == IF op.type = "set" THEN RecordSave(c, op.cid, op.at)
                  ELSE RestoreSave(c, op.cid, op.at)
  <2>1. HasHistory(c) /\ op.type \in {"set", "restore"}
    BY <1>2 DEF Histories
  <2>2. ApplySave(m, op) = WithRecord(m, op.id, d)
    BY <1>2, <2>1 DEF ApplySave
  <2>3. \/ op.type = "set" /\ d = RecordSave(c, op.cid, op.at)
        \/ op.type = "restore" /\ d = RestoreSave(c, op.cid, op.at)
    BY <2>1
  <2> HIDE DEF c, d
  <2>4. RecordGains(c, d, op)
    BY <2>1, <2>3, SaveForms
  <2>5. QED BY <1>2, <2>2, <2>4 DEF Applied, c
<1>3. CASE op.type # "remove" /\ op.id \notin DOMAIN m
  BY <1>3 DEF ApplySave, Applied
<1>4. QED BY <1>1, <1>2, <1>3

-----------------------------------------------------------------------------
(* What a page makes of one operation *)

\* The moves of a page's log, and the nodes of its tree.
LEMMA PageTree ==
  ASSUME NEW p, NEW h, PageOk(p, h)
  PROVE  /\ LogOps(p.tree) \subseteq MoveOp
         /\ \A o \in LogOps(p.tree) : o.ts.lamport \in Nat /\ o.ts.lamport <= p.lamport
         /\ \A n \in DOMAIN p.tree.edges :
               /\ n \in Item /\ \E o \in LogOps(p.tree) : o.child = n
               /\ p.tree.edges[n].name \in AnyName /\ p.tree.edges[n].kind \in Kind
<1> DEFINE t == p.tree
<1>1. Built(t, LogEntries(MoveOp)) /\ \A o \in LogOps(t) : o.ts.lamport <= p.lamport
  BY DEF PageOk, Replayed
<1> HIDE DEF t
<1>2. LogOps(t) \subseteq MoveOp
  BY <1>1, BuiltLog
<1>3. \A o \in MoveOp : /\ o.ts.lamport \in Nat /\ o.child \in Item
                        /\ o.new_name \in AnyName /\ o.kind \in Kind
  BY DEF MoveOp, Stamp
<1>4. ASSUME NEW n \in DOMAIN t.edges
      PROVE  /\ n \in Item /\ \E o \in LogOps(t) : o.child = n
             /\ t.edges[n].name \in AnyName /\ t.edges[n].kind \in Kind
  <2>1. PICK i \in 1 .. Len(t.log) : t.log[i].op.child = n /\ t.edges[n] = NewEdge(t.log[i].op)
    BY <1>1, EdgesOfMoves
  <2> DEFINE o == t.log[i].op
  <2>2. o \in LogOps(t) /\ o.child = n /\ t.edges[n] = NewEdge(o)
    BY <2>1 DEF LogOps
  <2> HIDE DEF o
  <2>3. t.edges[n].name = o.new_name /\ t.edges[n].kind = o.kind
    BY <2>2 DEF NewEdge
  <2>4. QED BY <1>2, <1>3, <2>2, <2>3
<1>5. \A o \in LogOps(t) : o.ts.lamport \in Nat /\ o.ts.lamport <= p.lamport
  BY <1>1, <1>2, <1>3
<1>6. QED BY <1>2, <1>4, <1>5 DEF t

\* A move, minted here or taken in.
LEMMA PageTakesMove ==
  ASSUME NEW p, NEW h, PageOk(p, h), NEW op \in MoveOp, NEW now \in Nat, NEW ctr \in Nat,
         p.lamport <= now, op.ts.lamport <= now,
         NEW q, q = [lamport |-> now, ctr |-> ctr, tree |-> ApplyMove(p.tree, op),
                     content |-> p.content]
  PROVE  PageOk(q, h) /\ LogOps(q.tree) \subseteq LogOps(p.tree) \cup {op}
<1> DEFINE t == p.tree
           u == ApplyMove(t, op)
<1>1. p.lamport \in Nat /\ Replayed(t, MoveOp)
  BY DEF PageOk
<1>2. Replayed(u, MoveOp) /\ LogOps(u) \subseteq LogOps(t) \cup {op}
  <2>1. Replayed(Integrate(t, op), MoveOp) /\ (Integrate(t, op) = t
           \/ LogOps(Integrate(t, op)) = LogOps(t) \cup {op})
    BY <1>1, MoveOpsOk, IntegrateReplayed
  <2>2. QED BY <2>1 DEF ApplyMove
<1> HIDE DEF u
<1>3. q = [lamport |-> now, ctr |-> ctr, tree |-> u, content |-> p.content]
  BY DEF u
<1>4. \A o \in LogOps(u) : o.ts.lamport <= now
  <2>1. \A o \in LogOps(t) : o.ts.lamport \in Nat /\ o.ts.lamport <= p.lamport
    BY PageTree
  <2>2. \A o \in LogOps(t) : o.ts.lamport <= now
    BY <1>1, <2>1
  <2>3. QED BY <1>2, <2>2
<1>5. \A i \in 1 .. Len(h) : StampedOk(h[i]) /\ h[i].ts.lamport <= now
  <2>1. \A i \in 1 .. Len(h) : StampedOk(h[i]) /\ h[i].ts.lamport <= p.lamport
    BY DEF PageOk
  <2>2. \A i \in 1 .. Len(h) : h[i].ts.lamport \in Nat
    BY <2>1 DEF StampedOk, Stamp
  <2>3. QED BY <1>1, <2>1, <2>2
<1>6. IsSequence(h) /\ \A n : KeepsSaves(p.content, h, n, Len(h))
  BY DEF PageOk
<1>7. /\ q.lamport = now /\ q.ctr = ctr /\ q.tree = u /\ q.content = p.content
      /\ q = [lamport |-> q.lamport, ctr |-> q.ctr, tree |-> q.tree, content |-> q.content]
  BY <1>3
<1>8. PageOk(q, h)
  BY <1>2, <1>4, <1>5, <1>6, <1>7 DEF PageOk
<1>9. QED BY <1>2, <1>7, <1>8

\* A content operation, minted here or taken in, for the first time or again.
LEMMA PageTakesContent ==
  ASSUME NEW p, NEW h, PageOk(p, h), NEW op, StampedOk(op), NEW now \in Nat, NEW ctr \in Nat,
         p.lamport <= now, op.ts.lamport <= now,
         NEW q, q = [lamport |-> now, ctr |-> ctr, tree |-> p.tree,
                     content |-> ApplySave(p.content, op.op)]
  PROVE  PageOk(q, Append(h, op)) /\ q.tree = p.tree
<1> DEFINE L == Len(h)
           more == Append(h, op)
           m == p.content
           w == ApplySave(m, op.op)
<1>1. p.lamport \in Nat /\ Replayed(p.tree, MoveOp) /\ IsSequence(h)
      /\ \A n : KeepsSaves(m, h, n, L)
  BY DEF PageOk
<1>2. PICK S : h \in Seq(S)
  BY <1>1 DEF IsSequence
<1>3. /\ L \in Nat /\ Len(more) = L + 1 /\ more[L + 1] = op
      /\ \A i \in 1 .. L : more[i] = h[i]
  BY <1>2
<1>4. IsSequence(more)
  <2>1. more \in Seq(S \cup {op})
    BY <1>2
  <2>2. QED BY <2>1 DEF IsSequence
<1> HIDE DEF L, more
<1>5. ASSUME NEW n PROVE KeepsSaves(w, more, n, L + 1)
  <2>1. KeepsSaves(m, more, n, L)
    BY <1>1, <1>3, LongerLogKeepsSaves
  <2>2. more[L + 1].op = op.op /\ op.op.type \in {"set", "restore", "remove"}
    BY <1>3 DEF StampedOk
  <2>3. Histories(m)
    BY <1>1 DEF Histories, KeepsSaves
  <2>4. Applied(m, w, op.op)
    BY <2>2, <2>3, SaveApplied
  <2> HIDE DEF m, w
  <2> DEFINE k == L + 1
  <2>5. k \in Nat /\ k # 0 /\ k - 1 = L
    BY <1>3
  <2>6. Applied(m, w, more[k].op) /\ more[k].op.type \in {"set", "restore", "remove"}
    BY <2>2, <2>4
  <2> HIDE DEF k
  <2>7. KeepsSaves(m, more, n, k - 1)
    BY <2>1, <2>5
  <2>8. KeepsSaves(w, more, n, k)
    BY <2>5, <2>6, <2>7, AppliedKeepsSaves
  <2>9. QED BY <2>8 DEF k
<1>6. \A i \in 1 .. Len(more) : StampedOk(more[i]) /\ more[i].ts.lamport <= now
  <2>1. \A i \in 1 .. L : StampedOk(h[i]) /\ h[i].ts.lamport <= p.lamport
    BY DEF PageOk, L
  <2>2. \A i \in 1 .. L : h[i].ts.lamport \in Nat
    BY <2>1 DEF StampedOk, Stamp
  <2>3. \A i \in 1 .. L : StampedOk(h[i]) /\ h[i].ts.lamport <= now
    BY <1>1, <2>1, <2>2
  <2>4. \A i \in 1 .. L + 1 : i \in 1 .. L \/ i = L + 1
    BY <1>3
  <2>5. QED BY <1>3, <2>3, <2>4
<1>7. \A o \in LogOps(p.tree) : o.ts.lamport <= now
  BY <1>1, PageTree
<1> HIDE DEF w
<1>8. q = [lamport |-> now, ctr |-> ctr, tree |-> p.tree, content |-> w]
  BY DEF w, m
<1>9. /\ q.lamport = now /\ q.ctr = ctr /\ q.tree = p.tree /\ q.content = w
      /\ q = [lamport |-> q.lamport, ctr |-> q.ctr, tree |-> q.tree, content |-> q.content]
  BY <1>8
<1>10. \A n : KeepsSaves(w, more, n, Len(more))
  BY <1>3, <1>5
<1>11. PageOk(q, more)
  BY <1>1, <1>4, <1>6, <1>7, <1>9, <1>10 DEF PageOk
<1>12. QED BY <1>9, <1>11 DEF more

\* The steps of DriveCrdt, as records.
AfterMove(p, op, now, ctr) ==
    [lamport |-> now, ctr |-> ctr, tree |-> ApplyMove(p.tree, op), content |-> p.content]
AfterSave(p, op, now) ==
    [lamport |-> now, ctr |-> p.ctr, tree |-> p.tree, content |-> ApplySave(p.content, op)]

LEMMA PageForms ==
  ASSUME NEW p, NEW h, PageOk(p, h), NEW op
  PROVE  /\ MintMove(p, op) = AfterMove(p, op, p.lamport + 1, p.ctr)
         /\ [MintMove(p, op) EXCEPT !.ctr = @ + 1]
                = AfterMove(p, op, p.lamport + 1, p.ctr + 1)
         /\ MintContent(p, op) = AfterSave(p, op, p.lamport + 1)
<1>1. p = [lamport |-> p.lamport, ctr |-> p.ctr, tree |-> p.tree, content |-> p.content]
  BY DEF PageOk
<1>2. MintMove(p, op) = AfterMove(p, op, p.lamport + 1, p.ctr)
  <2> DEFINE u == ApplyMove(p.tree, op)
  <2>1. MintMove(p, op) = [p EXCEPT !.lamport = @ + 1, !.tree = u]
    BY DEF MintMove
  <2> HIDE DEF u
  <2>2. MintMove(p, op) = [lamport |-> p.lamport + 1, ctr |-> p.ctr, tree |-> u,
                           content |-> p.content]
    BY <1>1, <2>1
  <2>3. QED BY <2>2 DEF AfterMove, u
<1>3. [MintMove(p, op) EXCEPT !.ctr = @ + 1] = AfterMove(p, op, p.lamport + 1, p.ctr + 1)
  <2> DEFINE u == ApplyMove(p.tree, op)
             m == MintMove(p, op)
             q == [m EXCEPT !.ctr = @ + 1]
  <2>1. m = [lamport |-> p.lamport + 1, ctr |-> p.ctr, tree |-> u, content |-> p.content]
    BY <1>2 DEF AfterMove
  <2>2. q = [m EXCEPT !.ctr = @ + 1]
    OBVIOUS
  <2> HIDE DEF u, m, q
  <2>3. q = [lamport |-> p.lamport + 1, ctr |-> p.ctr + 1, tree |-> u, content |-> p.content]
    BY <2>1, <2>2
  <2>4. QED BY <2>3 DEF AfterMove, u, m, q
<1>4. MintContent(p, op) = AfterSave(p, op, p.lamport + 1)
  <2> DEFINE w == ApplySave(p.content, op)
  <2>1. MintContent(p, op) = [p EXCEPT !.lamport = @ + 1, !.content = w]
    BY DEF MintContent
  <2> HIDE DEF w
  <2>2. MintContent(p, op) = [lamport |-> p.lamport + 1, ctr |-> p.ctr, tree |-> p.tree,
                              content |-> w]
    BY <1>1, <2>1
  <2>3. QED BY <2>2 DEF AfterSave, w
<1>5. QED BY <1>2, <1>3, <1>4, Zenon

LEMMA ObservedForms ==
  ASSUME NEW p, NEW h, PageOk(p, h), NEW op, NEW ts
  PROVE  /\ [ObserveTs(p, ts) EXCEPT !.tree = ApplyMove(@, op)]
                = AfterMove(p, op, MaxNat(p.lamport, ts.lamport), p.ctr)
         /\ [ObserveTs(p, ts) EXCEPT !.content = ApplySave(@, op)]
                = AfterSave(p, op, MaxNat(p.lamport, ts.lamport))
<1> DEFINE now == MaxNat(p.lamport, ts.lamport)
           seen == ObserveTs(p, ts)
           u == ApplyMove(p.tree, op)
           w == ApplySave(p.content, op)
           a == [seen EXCEPT !.tree = ApplyMove(@, op)]
           c == [seen EXCEPT !.content = ApplySave(@, op)]
<1>1. p = [lamport |-> p.lamport, ctr |-> p.ctr, tree |-> p.tree, content |-> p.content]
  BY DEF PageOk
<1>2. seen = [p EXCEPT !.lamport = now]
  BY DEF ObserveTs
<1> HIDE DEF now, seen
<1>3. seen = [lamport |-> now, ctr |-> p.ctr, tree |-> p.tree, content |-> p.content]
  BY <1>1, <1>2
<1>4. a = [seen EXCEPT !.tree = u] /\ c = [seen EXCEPT !.content = w]
  BY <1>3
<1> HIDE DEF u, w, a, c
<1>5. a = [lamport |-> now, ctr |-> p.ctr, tree |-> u, content |-> p.content]
  BY <1>3, <1>4
<1>6. c = [lamport |-> now, ctr |-> p.ctr, tree |-> p.tree, content |-> w]
  BY <1>3, <1>4
<1>7. QED BY <1>5, <1>6, Zenon DEF AfterMove, AfterSave, now, seen, u, w, a, c

\* DriveCrdt::new.
LEMMA NewPageOk == PageOk(NewPage, <<>>)
<1>1. NewPage = [lamport |-> 0, ctr |-> 0, tree |-> EmptyTree, content |-> NoContent]
  BY DEF NewPage
<1>2. Replayed(EmptyTree, MoveOp) /\ LogOps(EmptyTree) = {}
  BY EmptyTreeReplayed
<1>3. <<>> \in Seq({}) /\ Len(<<>>) = 0
  OBVIOUS
<1>4. \A n : KeepsSaves(NoContent, <<>>, n, 0)
  BY DEF KeepsSaves, NoContent, SavedIn, SinceIn
<1>5. QED BY <1>1, <1>2, <1>3, <1>4 DEF PageOk, IsSequence

-----------------------------------------------------------------------------
(* Operations that pages mint *)

\* A page that has replayed its own operations is past all of them.
LEMMA CaughtUpIsPast ==
  ASSUME BInv, NEW b \in Page, CaughtUp(b), NEW q \in published, q.ts.replica = b
  PROVE  q.ts.lamport \in Nat /\ q.ts.lamport <= page[b].lamport
<1> DEFINE p == page[b]
           h == heard[b]
<1>1. PageOk(p, h)
  BY DEF BInv, PagesOk
<1>2. IF IsMove(q) THEN HasTs(p.tree, q.ts) ELSE \E i \in DOMAIN h : h[i].ts = q.ts
  BY DEF CaughtUp, IsMove
<1> HIDE DEF p, h
<1>3. CASE IsMove(q)
  <2>1. PICK i \in 1 .. Len(p.tree.log) : p.tree.log[i].op.ts = q.ts
    BY <1>2, <1>3 DEF HasTs
  <2>2. p.tree.log[i].op \in LogOps(p.tree)
    BY DEF LogOps
  <2>3. QED BY <1>1, <2>1, <2>2, PageTree DEF p
<1>4. CASE ~IsMove(q)
  <2>1. PICK i \in DOMAIN h : h[i].ts = q.ts
    BY <1>2, <1>4
  <2>2. DOMAIN h = 1 .. Len(h)
    BY <1>1 DEF PageOk, IsSequence
  <2>3. StampedOk(h[i]) /\ h[i].ts.lamport <= p.lamport
    BY <1>1, <2>2 DEF PageOk
  <2>4. QED BY <2>1, <2>3 DEF StampedOk, Stamp, p
<1>5. QED BY <1>3, <1>4

\* What it mints is later, and so the timestamps of what is published stay unique.
LEMMA MintedStamping ==
  ASSUME BInv, NEW b \in Page, CaughtUp(b), NEW ops, Stamping(ops),
         \A op \in ops : op.ts.replica = b /\ op.ts.lamport \in Nat
                         /\ op.ts.lamport > page[b].lamport
  PROVE  Stamping(published \cup ops)
<1>1. page[b].lamport \in Nat
  BY DEF BInv, PagesOk, PageOk
<1>2. ASSUME NEW o \in ops, NEW q \in published, o.ts = q.ts PROVE FALSE
  <2>1. q.ts.lamport \in Nat /\ q.ts.lamport <= page[b].lamport
    BY <1>2, CaughtUpIsPast
  <2>2. o.ts.lamport \in Nat /\ o.ts.lamport > page[b].lamport /\ o.ts.lamport = q.ts.lamport
    BY <1>2
  <2>3. QED BY <1>1, <2>1, <2>2
<1>3. Keyed(published) /\ Keyed(ops)
  BY DEF BInv, Stamping
<1>4. Keyed(published \cup ops)
  BY <1>2, <1>3 DEF Keyed
<1>5. QED BY <1>4 DEF BInv, Stamping

LEMMA StillBacked ==
  ASSUME NEW ops, NEW more, ops \subseteq more
  PROVE  /\ \A x : Backed(x, ops) => Backed(x, more)
         /\ \A moves : BackedIds(moves, ops) => BackedIds(moves, more)
<1>1. \A x : Backed(x, ops) => Backed(x, more)
  BY DEF Backed
<1>2. QED BY <1>1 DEF BackedIds

\* A page goes on to p, having heard h, and publishes ops.
LEMMA PageGoesOn ==
  ASSUME BInv, NEW b \in Page, NEW p, NEW h, PageOk(p, h), NEW ops,
         Stamping(published \cup ops),
         BackedIds({o \in ops : IsMove(o)}, published \cup ops),
         BackedIds(LogOps(p.tree), published \cup ops),
         page' = [page EXCEPT ![b] = p], heard' = [heard EXCEPT ![b] = h],
         published' = published \cup ops, drive' = drive, fresh' = fresh
  PROVE  BInv'
<1>1. /\ page = [c \in Page |-> page[c]] /\ heard = [c \in Page |-> heard[c]]
      /\ \A c \in Page : PageOk(page[c], heard[c])
  BY DEF BInv, PagesOk
<1>2. /\ page' = [c \in Page |-> page'[c]] /\ heard' = [c \in Page |-> heard'[c]]
      /\ page'[b] = p /\ heard'[b] = h
      /\ \A c \in Page : c # b => page'[c] = page[c] /\ heard'[c] = heard[c]
  BY <1>1
<1>3. PagesOk'
  <2>1. \A c \in Page : PageOk(page'[c], heard'[c])
    BY <1>1, <1>2
  <2>2. QED BY <1>2, <2>1 DEF PagesOk
<1>4. IInv'
  BY DEF BInv, IInv, TypeOK, Originals
<1>5. Stamping(published)'
  BY DEF Stamping, Keyed
<1>6. IdsBacked'
  <2>1. BackedIds(PublishedMoves, published')
    BY StillBacked DEF BInv, IdsBacked
  <2>2. BackedIds(PublishedMoves', published')
    <3>1. PublishedMoves' = PublishedMoves \cup {o \in ops : IsMove(o)}
      BY DEF PublishedMoves, IsMove
    <3>2. QED BY <2>1, <3>1 DEF BackedIds
  <2>3. ASSUME NEW c \in Page PROVE BackedIds(LogOps(page'[c].tree), published')
    <3>1. BackedIds(LogOps(page[c].tree), published')
      BY StillBacked DEF BInv, IdsBacked
    <3>2. QED BY <1>2, <3>1
  <2>4. ASSUME NEW r \in Replica PROVE BackedIds(Range(drive'[r].moves), published')
    BY StillBacked DEF BInv, IdsBacked
  <2>5. QED BY <2>2, <2>3, <2>4 DEF IdsBacked
<1>7. \A r \in Replica : FromPages(drive[r])' /\ LogsApart(drive[r])'
  BY DEF BInv, FromPages, LogsApart
<1>8. QED BY <1>3, <1>4, <1>5, <1>6, <1>7 DEF BInv

\* The stamp a page mints with.
LEMMA PageStamp ==
  ASSUME NEW n \in Nat, NEW b \in Page, NEW ts, ts = [lamport |-> n, replica |-> b]
  PROVE  ts \in Stamp /\ ts.replica = b /\ ts.lamport = n
BY PageAssumption DEF Stamp

\* The reserved ids are no ids of pages.
LEMMA ReservedBacked ==
  ASSUME NEW ops
  PROVE  Backed(ROOT, ops) /\ Backed(TRASH, ops) /\ Backed(LIMBO, ops)
BY ReservedAssumption DEF Backed, NodeId

\* The nodes of a page's tree, and the directories it resolves.
LEMMA PageNodes ==
  ASSUME BInv, NEW b \in Page
  PROVE  /\ PageOk(page[b], heard[b])
         /\ \A n \in DOMAIN page[b].tree.edges :
               /\ n \in Item /\ Backed(n, published)
               /\ page[b].tree.edges[n].name \in AnyName
               /\ page[b].tree.edges[n].kind \in Kind
         /\ \A dir \in PageDirs(page[b]) : dir \in Place /\ Backed(dir, published)
         /\ \A n \in Resolvable(page[b].tree) \ {ROOT} : n \in DOMAIN page[b].tree.edges
         /\ heard' = heard => heard' = [heard EXCEPT ![b] = heard[b]]
<1> DEFINE t == page[b].tree
<1>1. PageOk(page[b], heard[b]) /\ heard = [c \in Page |-> heard[c]]
  BY DEF BInv, PagesOk
<1>2. \A o \in LogOps(t) : Backed(o.child, published)
  BY DEF BInv, IdsBacked, BackedIds
<1>3. \A n \in DOMAIN t.edges : /\ n \in Item /\ \E o \in LogOps(t) : o.child = n
                                /\ t.edges[n].name \in AnyName /\ t.edges[n].kind \in Kind
  BY <1>1, PageTree
<1>4. Resolvable(t) \subseteq DOMAIN t.edges \cup {ROOT}
  BY DEF Resolvable
<1>5. \A dir \in PageDirs(page[b]) : dir \in Place /\ Backed(dir, published)
  <2>1. \A dir \in PageDirs(page[b]) : dir \in DOMAIN t.edges \cup {ROOT}
    BY <1>4 DEF PageDirs
  <2>2. QED BY <1>2, <1>3, <2>1, ReservedBacked DEF Item, Place
<1>6. heard' = heard => heard' = [heard EXCEPT ![b] = heard[b]]
  BY <1>1
<1>7. QED BY <1>1, <1>2, <1>3, <1>4, <1>5, <1>6

\* A move that page b mints, of a node that it knows or that the move creates.
Mintable(b, op) ==
    \E child \in Item, dir \in Place, name \in AnyName, kind \in Kind :
        /\ op = MoveOf(page[b], b, child, dir, name, kind)
        /\ Backed(child, published \cup {op}) /\ Backed(dir, published)

\* What b is after it.
HasMinted(b, op, q) ==
    /\ PageOk(q, heard[b]) /\ Stamping({op}) /\ IsMove(op)
    /\ q.lamport = page[b].lamport + 1
    /\ op.ts.replica = b /\ op.ts.lamport = page[b].lamport + 1
    /\ BackedIds(LogOps(q.tree), published \cup {op})
    /\ BackedIds({op}, published \cup {op})

LEMMA PageMintsMove ==
  ASSUME BInv, NEW b \in Page, CaughtUp(b), NEW op, Mintable(b, op), NEW ctr \in Nat
  PROVE  HasMinted(b, op, AfterMove(page[b], op, page[b].lamport + 1, ctr))
<1>0. PICK child \in Item, dir \in Place, name \in AnyName, kind \in Kind :
        /\ op = MoveOf(page[b], b, child, dir, name, kind)
        /\ Backed(child, published \cup {op}) /\ Backed(dir, published)
  BY DEF Mintable
<1> DEFINE q == AfterMove(page[b], op, page[b].lamport + 1, ctr)
<1> DEFINE p == page[b]
           now == p.lamport + 1
<1>1. PageOk(p, heard[b]) /\ p.lamport \in Nat
  BY DEF BInv, PagesOk, PageOk
<1>2. op = [ts |-> [lamport |-> now, replica |-> b], child |-> child, new_parent |-> dir,
            new_name |-> name, kind |-> kind]
  BY <1>0 DEF MoveOf, PageTs
<1>3. /\ now \in Nat /\ p.lamport <= now /\ now > p.lamport /\ now <= now
  BY <1>1
<1> HIDE DEF now
<1>4. /\ op.ts \in Stamp /\ op.ts.replica = b /\ op.ts.lamport = now
      /\ op.child = child /\ op.new_parent = dir /\ op \in MoveOp /\ IsMove(op)
  <2>1. op.ts = [lamport |-> now, replica |-> b] /\ op.child = child /\ op.new_parent = dir
    BY <1>2
  <2>2. op.ts \in Stamp /\ op.ts.replica = b /\ op.ts.lamport = now
    BY <1>3, <2>1, PageStamp
  <2>3. op \in MoveOp
    BY <1>2, <2>1, <2>2 DEF MoveOp
  <2>4. IsMove(op)
    BY <1>2 DEF IsMove
  <2>5. QED BY <2>1, <2>2, <2>3, <2>4
<1>5. q = [lamport |-> now, ctr |-> ctr, tree |-> ApplyMove(p.tree, op), content |-> p.content]
  BY DEF AfterMove, now
<1> HIDE DEF q
<1>6. PageOk(q, heard[b]) /\ LogOps(q.tree) \subseteq LogOps(p.tree) \cup {op}
  <2> HIDE DEF p
  <2>1. op.ts.lamport <= now
    BY <1>3, <1>4
  <2>2. QED BY <1>1, <1>3, <1>4, <1>5, <2>1, PageTakesMove
<1>7. Stamping({op})
  BY <1>4 DEF Stamping, Keyed
<1>8. BackedIds({op}, published \cup {op})
  BY <1>0, <1>4, StillBacked DEF BackedIds
<1>9. BackedIds(LogOps(p.tree), published \cup {op})
  BY StillBacked DEF BInv, IdsBacked
<1>10. BackedIds(LogOps(q.tree), published \cup {op})
  BY <1>6, <1>8, <1>9 DEF BackedIds
<1>11. q.lamport = now
  BY <1>5
<1>12. QED BY <1>4, <1>6, <1>7, <1>8, <1>10, <1>11 DEF HasMinted, now, q

LEMMA MovePublished ==
  ASSUME BInv, NEW b \in Page, CaughtUp(b), NEW op, Mintable(b, op), NEW ctr \in Nat,
         page' = [page EXCEPT ![b] = AfterMove(page[b], op, page[b].lamport + 1, ctr)],
         published' = published \cup {op}, UNCHANGED <<drive, fresh, heard>>
  PROVE  BInv'
<1> DEFINE p == page[b]
           h == heard[b]
           q == AfterMove(p, op, p.lamport + 1, ctr)
<1>1. /\ PageOk(q, h) /\ Stamping({op}) /\ IsMove(op)
      /\ op.ts.replica = b /\ op.ts.lamport = p.lamport + 1
      /\ BackedIds(LogOps(q.tree), published \cup {op})
      /\ BackedIds({op}, published \cup {op})
  <2>1. HasMinted(b, op, q)
    BY PageMintsMove
  <2> HIDE DEF q
  <2>2. QED BY <2>1 DEF HasMinted
<1>2. p.lamport \in Nat
  BY DEF BInv, PagesOk, PageOk
<1>3. Stamping(published \cup {op})
  <2>1. \A o \in {op} : o.ts.replica = b /\ o.ts.lamport \in Nat /\ o.ts.lamport > p.lamport
    BY <1>1, <1>2
  <2>2. QED BY <1>1, <2>1, MintedStamping
<1>4. {o \in {op} : IsMove(o)} = {op}
  BY <1>1
<1>5. heard' = [heard EXCEPT ![b] = h]
  BY PageNodes
<1>6. page' = [page EXCEPT ![b] = q] /\ PageOk(q, h) /\ BackedIds(LogOps(q.tree), published \cup {op})
  BY <1>1
<1> DEFINE ops == {op}
<1>7. /\ Stamping(published \cup ops) /\ BackedIds({o \in ops : IsMove(o)}, published \cup ops)
      /\ BackedIds(LogOps(q.tree), published \cup ops)
      /\ published' = published \cup ops /\ drive' = drive /\ fresh' = fresh
  BY <1>1, <1>3, <1>4
<1> HIDE DEF p, h, q, ops
<1>8. QED BY <1>5, <1>6, <1>7, PageGoesOn

\* The id of a new node is backed by the move that creates it.
LEMMA NewIdBacked ==
  ASSUME BInv, NEW b \in Page, NEW op,
         op.ts.replica = b, op.ts.lamport = page[b].lamport + 1
  PROVE  /\ PageNodeId(page[b], b) \in Item /\ page[b].ctr + 1 \in Nat /\ page[b].ctr \in Nat
         /\ PageNodeId(page[b], b) \in Nat \X Nat \X Nat
         /\ PageNodeId(page[b], b)[1] = page[b].lamport + 1 /\ PageNodeId(page[b], b)[2] = b
         /\ \A ops : op \in ops => Backed(PageNodeId(page[b], b), ops)
<1> DEFINE id == PageNodeId(page[b], b)
           now == page[b].lamport + 1
           ctr == page[b].ctr
<1>1. now \in Nat /\ ctr \in Nat /\ ctr + 1 \in Nat /\ b \in Nat
  BY PageAssumption DEF BInv, PagesOk, PageOk
<1>2. id = <<now, b, ctr>>
  BY DEF PageNodeId
<1>3. op.ts.replica = b /\ op.ts.lamport = now
  OBVIOUS
<1> HIDE DEF id, now, ctr
<1>4. id \in Nat \X Nat \X Nat /\ id[1] = now /\ id[2] = b
  BY <1>1, <1>2
<1>5. id \in Item
  BY <1>4 DEF Item, NodeId
<1>6. \A ops : op \in ops => Backed(id, ops)
  BY <1>3, <1>4 DEF Backed
<1>7. QED BY <1>1, <1>4, <1>5, <1>6 DEF id, now, ctr

LEMMA PageMkdirKeeps ==
  ASSUME BInv, NEW b \in Page, NEW dir, NEW name \in Name, PageMkdir(b, dir, name)
  PROVE  BInv'
<1> DEFINE p == page[b]
           id == PageNodeId(p, b)
           op == MoveOf(p, b, id, dir, name, "dir")
<1>1. /\ CaughtUp(b) /\ dir \in PageDirs(p)
      /\ page' = [page EXCEPT ![b] = [MintMove(p, op) EXCEPT !.ctr = @ + 1]]
      /\ published' = published \cup {op}
      /\ UNCHANGED <<drive, fresh, heard>>
  BY DEF PageMkdir, MayMint
<1>2. PageOk(p, heard[b]) /\ dir \in Place /\ Backed(dir, published)
  BY <1>1, PageNodes
<1>3. op.ts.replica = b /\ op.ts.lamport = p.lamport + 1
  BY DEF MoveOf, PageTs
<1> HIDE DEF op
<1>4. id \in Item /\ p.ctr + 1 \in Nat /\ Backed(id, published \cup {op})
  BY <1>3, NewIdBacked
<1>5. page' = [page EXCEPT ![b] = AfterMove(p, op, p.lamport + 1, p.ctr + 1)]
  <2>1. [MintMove(p, op) EXCEPT !.ctr = @ + 1] = AfterMove(p, op, p.lamport + 1, p.ctr + 1)
    BY <1>2, PageForms
  <2>2. page' = [page EXCEPT ![b] = [MintMove(p, op) EXCEPT !.ctr = @ + 1]]
    BY <1>1, Zenon
  <2>3. QED BY <2>1, <2>2
<1>6. name \in AnyName /\ "dir" \in Kind
  BY NameAssumption DEF Kind
<1>7. op = MoveOf(p, b, id, dir, name, "dir")
  BY DEF op
<1>8. Mintable(b, op)
  BY <1>2, <1>4, <1>6, <1>7, Zenon DEF Mintable
<1> DEFINE ctr == p.ctr + 1
<1>9. ctr \in Nat /\ page' = [page EXCEPT ![b] = AfterMove(p, op, p.lamport + 1, ctr)]
  BY <1>4, <1>5
<1> HIDE DEF id, ctr
<1>10. QED BY <1>1, <1>8, <1>9, MovePublished

\* move and remove: a move of a node that the tree has.
LEMMA PageMovesNode ==
  ASSUME BInv, NEW b \in Page, CaughtUp(b), NEW n \in Resolvable(page[b].tree) \ {ROOT},
         NEW dir \in Place, Backed(dir, published), NEW name \in AnyName,
         MintsMove(b, MoveOf(page[b], b, n, dir, name, page[b].tree.edges[n].kind))
  PROVE  BInv'
<1> DEFINE p == page[b]
           kind == p.tree.edges[n].kind
           op == MoveOf(p, b, n, dir, name, kind)
<1>1. PageOk(p, heard[b]) /\ n \in Item /\ Backed(n, published) /\ kind \in Kind
  BY PageNodes
<1>2. MintsMove(b, op)
  OBVIOUS
<1>3. op = MoveOf(p, b, n, dir, name, kind)
  OBVIOUS
<1> HIDE DEF op, kind
<1>4. Backed(n, published \cup {op})
  BY <1>1, StillBacked
<1>5. page' = [page EXCEPT ![b] = AfterMove(p, op, p.lamport + 1, p.ctr)]
  <2>1. MintMove(p, op) = AfterMove(p, op, p.lamport + 1, p.ctr)
    BY <1>1, PageForms
  <2>2. page = [c \in Page |-> page[c]]
    BY DEF BInv, PagesOk
  <2>3. page' = [page EXCEPT ![b] = MintMove(p, op)]
    BY <1>2, <2>2 DEF MintsMove
  <2>4. QED BY <2>1, <2>3
<1>6. p.ctr \in Nat
  BY <1>1 DEF PageOk
<1>7. published' = published \cup {op} /\ UNCHANGED <<drive, fresh, heard>>
  BY <1>2 DEF MintsMove
<1>8. Mintable(b, op)
  BY <1>1, <1>3, <1>4, Zenon DEF Mintable
<1> DEFINE ctr == p.ctr
<1>9. ctr \in Nat /\ page' = [page EXCEPT ![b] = AfterMove(p, op, p.lamport + 1, ctr)]
  BY <1>5, <1>6
<1> HIDE DEF ctr
<1>10. QED BY <1>7, <1>8, <1>9, MovePublished

\* A save that a page mints.
LEMMA PageSaves ==
  ASSUME NEW p, NEW h, PageOk(p, h), NEW b \in Page, NEW n, NEW cid, NEW at,
         NEW set, set = [ts |-> PageTs(p, b), op |-> SetOp(n, cid, at)]
  PROVE  /\ PageOk(MintContent(p, set.op), Append(h, set))
         /\ MintContent(p, set.op).tree = p.tree
         /\ StampedOk(set) /\ ~IsMove(set)
         /\ set.ts.replica = b /\ set.ts.lamport = p.lamport + 1
<1> DEFINE now == p.lamport + 1
           op == SetOp(n, cid, at)
           q == MintContent(p, set.op)
<1>1. p.lamport \in Nat /\ p.ctr \in Nat /\ now \in Nat /\ p.lamport <= now /\ now <= now
  BY DEF PageOk
<1>2. op.type = "set"
  BY DEF SetOp
<1>3. set.ts = [lamport |-> now, replica |-> b]
  BY DEF PageTs
<1> HIDE DEF now, op, q
<1>4. set = [ts |-> PageTs(p, b), op |-> op] /\ set.op = op
  BY DEF op
<1>5. set.ts \in Stamp /\ set.ts.replica = b /\ set.ts.lamport = now
  BY <1>1, <1>3, PageStamp
<1>6. set = [ts |-> set.ts, op |-> set.op] /\ ~IsMove(set)
  BY <1>4 DEF IsMove
<1>7. StampedOk(set)
  BY <1>2, <1>4, <1>5, <1>6 DEF StampedOk
<1>8. q = [lamport |-> now, ctr |-> p.ctr, tree |-> p.tree,
           content |-> ApplySave(p.content, set.op)]
  <2>1. q = AfterSave(p, set.op, p.lamport + 1)
    BY PageForms DEF q
  <2>2. QED BY <2>1 DEF AfterSave, now
<1>9. PageOk(q, Append(h, set)) /\ q.tree = p.tree
  <2>1. set.ts.lamport <= now
    BY <1>1, <1>5
  <2> DEFINE ctr == p.ctr
  <2>2. ctr \in Nat /\ q = [lamport |-> now, ctr |-> ctr, tree |-> p.tree,
                            content |-> ApplySave(p.content, set.op)]
    BY <1>1, <1>8
  <2> HIDE DEF ctr
  <2>3. QED BY <1>1, <1>7, <2>1, <2>2, PageTakesContent
<1>10. QED BY <1>5, <1>6, <1>7, <1>9 DEF q, now

LEMMA SetPublished ==
  ASSUME BInv, NEW b \in Page, CaughtUp(b), NEW n, NEW cid, NEW at, MintsSet(b, n, cid, at)
  PROVE  BInv'
<1> DEFINE p == page[b]
           h == heard[b]
           set == [ts |-> PageTs(p, b), op |-> SetOp(n, cid, at)]
           q == MintContent(p, set.op)
           more == Append(h, set)
           ops == {set}
<1>1. PageOk(p, h) /\ p.lamport \in Nat
  BY DEF BInv, PagesOk, PageOk
<1>2. /\ PageOk(q, more) /\ q.tree = p.tree /\ StampedOk(set) /\ ~IsMove(set)
      /\ set.ts.replica = b /\ set.ts.lamport = p.lamport + 1
  <2>1. set = [ts |-> PageTs(p, b), op |-> SetOp(n, cid, at)]
    OBVIOUS
  <2> HIDE DEF set, p, h
  <2>2. QED BY <1>1, <2>1, PageSaves
<1>3. /\ page' = [page EXCEPT ![b] = q] /\ heard' = [heard EXCEPT ![b] = more]
      /\ published' = published \cup ops /\ drive' = drive /\ fresh' = fresh
  BY DEF MintsSet
<1> HIDE DEF q, more, set
<1>4. Stamping(published \cup ops)
  <2>1. \A o \in ops : o.ts.replica = b /\ o.ts.lamport \in Nat /\ o.ts.lamport > p.lamport
    BY <1>1, <1>2
  <2>2. Stamping(ops)
    BY <1>2 DEF Stamping, Keyed
  <2> HIDE DEF ops
  <2>3. QED BY <2>1, <2>2, MintedStamping
<1>5. BackedIds({o \in ops : IsMove(o)}, published \cup ops)
  <2>1. {o \in ops : IsMove(o)} = {}
    BY <1>2
  <2>2. QED BY <2>1 DEF BackedIds
<1>6. BackedIds(LogOps(q.tree), published \cup ops)
  <2>1. BackedIds(LogOps(p.tree), published)
    BY DEF BInv, IdsBacked
  <2> HIDE DEF ops
  <2>2. QED BY <1>2, <2>1, StillBacked
<1> HIDE DEF p, h, ops
<1>7. QED BY <1>2, <1>3, <1>4, <1>5, <1>6, PageGoesOn

\* addFile: the move of a new node, and its content at the next tick.
LEMMA PageAddFileKeeps ==
  ASSUME BInv, NEW b \in Page, NEW dir, NEW name \in Name, NEW cid, NEW at,
         PageAddFile(b, dir, name, cid, at)
  PROVE  BInv'
<1> DEFINE p == page[b]
           h == heard[b]
           id == PageNodeId(p, b)
           mv == MoveOf(p, b, id, dir, name, "file")
           moved == [MintMove(p, mv) EXCEPT !.ctr = @ + 1]
           set == [ts |-> PageTs(moved, b), op |-> SetOp(mv.child, cid, at)]
           q == MintContent(moved, set.op)
           more == Append(h, set)
           ops == {mv, set}
<1>1. /\ CaughtUp(b) /\ dir \in PageDirs(p)
      /\ page' = [page EXCEPT ![b] = q] /\ heard' = [heard EXCEPT ![b] = more]
      /\ published' = published \cup ops /\ drive' = drive /\ fresh' = fresh
  BY DEF PageAddFile, MayMint
<1>2. PageOk(p, h) /\ dir \in Place /\ Backed(dir, published) /\ p.lamport \in Nat
  BY <1>1, PageNodes DEF PageOk
<1>3. mv.ts.replica = b /\ mv.ts.lamport = p.lamport + 1
  BY DEF MoveOf, PageTs
<1>4. moved = AfterMove(p, mv, p.lamport + 1, p.ctr + 1)
  BY <1>2, PageForms
<1>5. set = [ts |-> PageTs(moved, b), op |-> SetOp(mv.child, cid, at)]
  OBVIOUS
<1>6. mv = MoveOf(p, b, id, dir, name, "file")
  OBVIOUS
<1> HIDE DEF q, more, set, moved, mv
<1>7. id \in Item /\ p.ctr + 1 \in Nat /\ Backed(id, published \cup {mv})
  BY <1>3, NewIdBacked
<1>8. /\ PageOk(moved, h) /\ Stamping({mv}) /\ IsMove(mv) /\ moved.lamport = p.lamport + 1
      /\ BackedIds(LogOps(moved.tree), published \cup {mv})
      /\ BackedIds({mv}, published \cup {mv})
  <2>1. name \in AnyName /\ "file" \in Kind
    BY NameAssumption DEF Kind
  <2>2. Mintable(b, mv)
    BY <1>2, <1>6, <1>7, <2>1, Zenon DEF Mintable
  <2> DEFINE ctr == p.ctr + 1
  <2>3. ctr \in Nat /\ moved = AfterMove(p, mv, p.lamport + 1, ctr)
    BY <1>4, <1>7
  <2> HIDE DEF ctr
  <2>4. HasMinted(b, mv, moved)
    BY <1>1, <2>2, <2>3, PageMintsMove
  <2>5. QED BY <2>4 DEF HasMinted
<1>9. /\ PageOk(q, more) /\ q.tree = moved.tree /\ StampedOk(set) /\ ~IsMove(set)
      /\ set.ts.replica = b /\ set.ts.lamport = moved.lamport + 1
  <2> DEFINE child == mv.child
  <2>1. set = [ts |-> PageTs(moved, b), op |-> SetOp(child, cid, at)]
    BY <1>5
  <2> HIDE DEF child, p, h
  <2>2. QED BY <1>8, <2>1, PageSaves DEF q, more
<1>10. Stamping(published \cup ops)
  <2>1. \A o \in ops : o.ts.replica = b /\ o.ts.lamport \in Nat /\ o.ts.lamport > p.lamport
    BY <1>2, <1>3, <1>8, <1>9
  <2>2. mv.ts # set.ts
    <3>1. mv.ts.lamport # set.ts.lamport
      BY <1>2, <1>3, <1>8, <1>9
    <3>2. QED BY <3>1
  <2>3. Stamping(ops)
    BY <1>8, <1>9, <2>2 DEF Stamping, Keyed
  <2> HIDE DEF ops
  <2>4. QED BY <1>1, <2>1, <2>3, MintedStamping
<1>11. published \cup {mv} \subseteq published \cup ops
  OBVIOUS
<1>12. BackedIds({o \in ops : IsMove(o)}, published \cup ops)
  <2>1. {o \in ops : IsMove(o)} = {mv}
    BY <1>8, <1>9
  <2> HIDE DEF ops
  <2>2. QED BY <1>8, <1>11, <2>1, StillBacked
<1> HIDE DEF ops
<1>13. BackedIds(LogOps(q.tree), published \cup ops)
  BY <1>8, <1>9, <1>11, StillBacked
<1> HIDE DEF p, h
<1>14. QED BY <1>1, <1>9, <1>10, <1>12, <1>13, PageGoesOn

LEMMA MintsKeeps ==
  ASSUME BInv, NEW b \in Page, Mints(b)
  PROVE  BInv'
<1>1. CASE \E dir \in DOMAIN page[b].tree.edges \cup {ROOT}, name \in Name :
               \/ PageMkdir(b, dir, name)
               \/ \E cid \in Cid, at \in Time : PageAddFile(b, dir, name, cid, at)
               \/ \E cid \in Cid, at \in Time : PageAddVersion(b, dir, name, cid, at)
               \/ \E n \in DOMAIN page[b].tree.edges : PageMove(b, n, dir, name)
  <2>1. PICK dir \in DOMAIN page[b].tree.edges \cup {ROOT}, name \in Name :
               \/ PageMkdir(b, dir, name)
               \/ \E cid \in Cid, at \in Time : PageAddFile(b, dir, name, cid, at)
               \/ \E cid \in Cid, at \in Time : PageAddVersion(b, dir, name, cid, at)
               \/ \E n \in DOMAIN page[b].tree.edges : PageMove(b, n, dir, name)
    BY <1>1
  <2>2. CASE PageMkdir(b, dir, name)
    BY <2>2, PageMkdirKeeps
  <2>3. ASSUME NEW cid \in Cid, NEW at \in Time, PageAddFile(b, dir, name, cid, at)
        PROVE  BInv'
    BY <2>3, PageAddFileKeeps
  <2>4. ASSUME NEW cid \in Cid, NEW at \in Time, PageAddVersion(b, dir, name, cid, at)
        PROVE  BInv'
    <3>1. CaughtUp(b) /\ \E n \in ChildrenNamed(page[b].tree, dir, name) :
                             MintsSet(b, n, cid, at)
      BY <2>4 DEF PageAddVersion, MayMint
    <3>2. QED BY <3>1, SetPublished
  <2>5. ASSUME NEW n \in DOMAIN page[b].tree.edges, PageMove(b, n, dir, name)
        PROVE  BInv'
    <3>1. /\ CaughtUp(b) /\ n \in Resolvable(page[b].tree) \ {ROOT} /\ dir \in PageDirs(page[b])
          /\ MintsMove(b, MoveOf(page[b], b, n, dir, name, page[b].tree.edges[n].kind))
      BY <2>5 DEF PageMove, MayMint
    <3>2. dir \in Place /\ Backed(dir, published) /\ name \in AnyName
      BY <3>1, PageNodes, NameAssumption
    <3>3. QED BY <3>1, <3>2, PageMovesNode
  <2>6. QED BY <2>1, <2>2, <2>3, <2>4, <2>5
<1>2. ASSUME NEW n \in DOMAIN page[b].tree.edges, PageRemove(b, n)
      PROVE  BInv'
  <2> DEFINE name == page[b].tree.edges[n].name
  <2>1. /\ CaughtUp(b) /\ n \in Resolvable(page[b].tree) \ {ROOT}
        /\ MintsMove(b, MoveOf(page[b], b, n, TRASH, name, page[b].tree.edges[n].kind))
    BY <1>2 DEF PageRemove, MayMint
  <2>2. TRASH \in Place /\ Backed(TRASH, published) /\ name \in AnyName
    BY PageNodes, ReservedBacked DEF Place
  <2> HIDE DEF name
  <2>3. QED BY <2>1, <2>2, PageMovesNode
<1>3. ASSUME NEW n \in DOMAIN page[b].tree.edges, NEW cid \in Cid, NEW at \in Time,
             PageSetContent(b, n, cid, at)
      PROVE  BInv'
  <2>1. CaughtUp(b) /\ MintsSet(b, n, cid, at)
    BY <1>3 DEF PageSetContent, MayMint
  <2>2. QED BY <2>1, SetPublished
<1>4. QED BY <1>1, <1>2, <1>3 DEF Mints

-----------------------------------------------------------------------------
(* Operations that pages take in, and the reload *)

\* What a page can take in.
LEMMA OnTheMesh ==
  ASSUME BInv
  PROVE  /\ \A op \in AllMoves : op \in MoveOp /\ BackedIds({op}, published)
         /\ \A op \in AllEdits : StampedOk(op)
         /\ \A op \in PublishedMoves : op.ts.replica \in Page
         /\ \A op \in PublishedEdits : op.ts.replica \in Page
<1>1. \A op \in PublishedMoves : op \in MoveOp /\ op.ts.replica \in Page
  BY DEF BInv, Stamping, PublishedMoves, IsMove
<1>2. \A op \in PublishedEdits : StampedOk(op) /\ op.ts.replica \in Page
  BY DEF BInv, Stamping, PublishedMoves, PublishedEdits, IsMove
<1>3. \A r \in Replica : DriveOk(drive[r])
  BY DEF BInv, IInv, TypeOK
<1>4. \A r \in Replica : \A op \in MovesFrom(r) : op \in MoveOp /\ op \in Range(drive[r].moves)
  BY <1>3, TicksAreNumbers DEF MovesFrom
<1>5. \A r \in Replica : \A op \in ContentsFrom(r) : StampedOk(op)
  BY <1>3, ContentTicks DEF ContentsFrom
<1>6. \A op \in AllMoves : op \in PublishedMoves \/ \E r \in Replica : op \in MovesFrom(r)
  BY DEF AllMoves
<1>7. \A op \in AllEdits : op \in PublishedEdits \/ \E r \in Replica : op \in ContentsFrom(r)
  BY DEF AllEdits
<1>8. \A op \in AllMoves : BackedIds({op}, published)
  BY <1>4, <1>6 DEF BInv, IdsBacked, BackedIds
<1>9. QED BY <1>1, <1>2, <1>4, <1>5, <1>6, <1>7, <1>8

LEMMA NothingPublished ==
  ASSUME BInv, NEW b \in Page, NEW p, NEW h, PageOk(p, h),
         BackedIds(LogOps(p.tree), published),
         page' = [page EXCEPT ![b] = p], heard' = [heard EXCEPT ![b] = h],
         UNCHANGED <<drive, fresh, published>>
  PROVE  BInv'
<1> DEFINE ops == {}
<1>1. published \cup ops = published /\ {o \in ops : IsMove(o)} = {}
  OBVIOUS
<1>2. Stamping(published \cup ops) /\ BackedIds({o \in ops : IsMove(o)}, published \cup ops)
  BY <1>1 DEF BInv, BackedIds
<1>3. BackedIds(LogOps(p.tree), published \cup ops) /\ published' = published \cup ops
      /\ drive' = drive /\ fresh' = fresh
  BY <1>1
<1> HIDE DEF ops
<1>4. QED BY <1>2, <1>3, PageGoesOn

\* observe: the clock does not fall behind a tick it has seen.
LEMMA ObservedTick ==
  ASSUME NEW m \in Nat, NEW n \in Nat
  PROVE  MaxNat(m, n) \in Nat /\ m <= MaxNat(m, n) /\ n <= MaxNat(m, n)
BY DEF MaxNat

LEMMA TakesKeeps ==
  ASSUME BInv, NEW b \in Page, Takes(b)
  PROVE  BInv'
<1> DEFINE p == page[b]
           h == heard[b]
<1>1. PageOk(p, h) /\ p.lamport \in Nat /\ p.ctr \in Nat
  BY DEF BInv, PagesOk, PageOk
<1>2. BackedIds(LogOps(p.tree), published)
  BY DEF BInv, IdsBacked
<1>3. ASSUME NEW op \in AllMoves, TakeMove(b, op) PROVE BInv'
  <2> DEFINE now == MaxNat(p.lamport, op.ts.lamport)
             ctr == p.ctr
             q == AfterMove(p, op, now, ctr)
  <2>1. op \in MoveOp /\ BackedIds({op}, published)
    BY OnTheMesh
  <2>2. now \in Nat /\ p.lamport <= now /\ op.ts.lamport <= now
    <3>1. op.ts.lamport \in Nat
      BY <2>1 DEF MoveOp, Stamp
    <3>2. QED BY <1>1, <3>1, ObservedTick
  <2>3. page' = [page EXCEPT ![b] = q]
    <3> DEFINE ts == op.ts
    <3>1. [ObserveTs(p, ts) EXCEPT !.tree = ApplyMove(@, op)]
             = AfterMove(p, op, MaxNat(p.lamport, ts.lamport), ctr)
      <4> HIDE DEF ts
      <4>1. QED BY <1>1, ObservedForms
    <3>2. QED BY <1>3, <3>1 DEF TakeMove
  <2>4. heard' = [heard EXCEPT ![b] = h] /\ UNCHANGED <<drive, fresh, published>>
    BY <1>3, PageNodes DEF TakeMove
  <2>5. ctr \in Nat
    BY <1>1
  <2>6. q = [lamport |-> now, ctr |-> ctr, tree |-> ApplyMove(p.tree, op),
             content |-> p.content]
    BY DEF AfterMove
  <2> HIDE DEF now, ctr, q, p, h
  <2>7. PageOk(q, h) /\ LogOps(q.tree) \subseteq LogOps(p.tree) \cup {op}
    BY <1>1, <2>1, <2>2, <2>5, <2>6, PageTakesMove
  <2>8. BackedIds(LogOps(q.tree), published)
    BY <1>2, <2>1, <2>7 DEF BackedIds
  <2>9. QED BY <2>3, <2>4, <2>7, <2>8, NothingPublished
<1>4. ASSUME NEW op \in AllEdits, TakeContent(b, op) PROVE BInv'
  <2> DEFINE now == MaxNat(p.lamport, op.ts.lamport)
             ctr == p.ctr
             q == AfterSave(p, op.op, now)
             more == Append(h, op)
  <2>1. StampedOk(op) /\ op.ts.lamport \in Nat
    BY OnTheMesh DEF StampedOk, Stamp
  <2>2. now \in Nat /\ p.lamport <= now /\ op.ts.lamport <= now
    BY <1>1, <2>1, ObservedTick
  <2>3. page' = [page EXCEPT ![b] = q]
    <3> DEFINE ts == op.ts
               o == op.op
    <3>1. [ObserveTs(p, ts) EXCEPT !.content = ApplySave(@, o)]
             = AfterSave(p, o, MaxNat(p.lamport, ts.lamport))
      <4> HIDE DEF ts, o
      <4>1. QED BY <1>1, ObservedForms
    <3>2. QED BY <1>4, <3>1 DEF TakeContent
  <2>4. heard' = [heard EXCEPT ![b] = more] /\ UNCHANGED <<drive, fresh, published>>
    BY <1>4 DEF TakeContent
  <2>5. ctr \in Nat
    BY <1>1
  <2>6. q = [lamport |-> now, ctr |-> ctr, tree |-> p.tree,
             content |-> ApplySave(p.content, op.op)]
    BY DEF AfterSave
  <2> HIDE DEF now, ctr, q, p, h
  <2>7. PageOk(q, more) /\ q.tree = p.tree
    BY <1>1, <2>1, <2>2, <2>5, <2>6, PageTakesContent
  <2> HIDE DEF more
  <2>8. BackedIds(LogOps(q.tree), published)
    BY <1>2, <2>7
  <2>9. QED BY <2>3, <2>4, <2>7, <2>8, NothingPublished
<1>5. QED BY <1>3, <1>4 DEF Takes

LEMMA ReloadPageKeeps ==
  ASSUME BInv, NEW b \in Page, ReloadPage(b)
  PROVE  BInv'
<1> DEFINE p == NewPage
           h == <<>>
<1>1. page' = [page EXCEPT ![b] = p] /\ heard' = [heard EXCEPT ![b] = h]
      /\ UNCHANGED <<drive, fresh, published>>
  BY DEF ReloadPage
<1>2. PageOk(p, h)
  BY NewPageOk
<1>3. BackedIds(LogOps(p.tree), published)
  <2>1. LogOps(p.tree) = {}
    BY EmptyTreeReplayed DEF NewPage
  <2>2. QED BY <2>1 DEF BackedIds
<1> HIDE DEF p, h
<1>4. QED BY <1>1, <1>2, <1>3, NothingPublished

-----------------------------------------------------------------------------
(* Devices *)

\* r's drive becomes e.
LEMMA DeviceGoesOn ==
  ASSUME BInv, IInv', NEW r \in Replica, NEW e, drive' = [drive EXCEPT ![r] = e],
         FromPages(e), LogsApart(e), BackedIds(Range(e.moves), published),
         UNCHANGED <<page, published, heard>>
  PROVE  BInv'
<1>1. drive = [q \in Replica |-> drive[q]]
  BY DEF BInv, IInv, TypeOK
<1>2. \A q \in Replica : drive'[q] = IF q = r THEN e ELSE drive[q]
  BY <1>1
<1>3. PagesOk' /\ Stamping(published)'
  BY DEF BInv, PagesOk, Stamping, Keyed
<1>4. IdsBacked'
  <2>1. BackedIds(PublishedMoves', published')
    BY DEF BInv, IdsBacked, PublishedMoves
  <2>2. \A b \in Page : BackedIds(LogOps(page'[b].tree), published')
    BY DEF BInv, IdsBacked
  <2>3. \A q \in Replica : BackedIds(Range(drive'[q].moves), published')
    BY <1>2 DEF BInv, IdsBacked
  <2>4. QED BY <2>1, <2>2, <2>3 DEF IdsBacked
<1>5. \A q \in Replica : FromPages(drive'[q]) /\ LogsApart(drive'[q])
  BY <1>2 DEF BInv
<1>6. \A q \in Replica : FromPages(drive[q])' /\ LogsApart(drive[q])'
  BY <1>5 DEF FromPages, LogsApart
<1>7. QED BY <1>3, <1>4, <1>6 DEF BInv

\* An id that a device mints is a pair.
LEMMA DeviceIdBacked ==
  ASSUME BInv, NEW r \in Replica
  PROVE  Backed(FreshId(drive[r], r), published)
<1> DEFINE x == FreshId(drive[r], r)
<1>1. x = <<drive[r].lamport + 1, fresh[r]>>
  BY DEF FreshId
<1>2. Len(x) = 2
  BY <1>1
<1>3. \A y \in Nat \X Nat \X Nat : Len(y) = 3
  OBVIOUS
<1> HIDE DEF x
<1>4. Backed(x, published)
  BY <1>2, <1>3 DEF Backed
<1>5. QED BY <1>4 DEF x

\* A command.
LEMMA DeviceCommands ==
  ASSUME BInv, NEW r \in Replica, Advances(r), UNCHANGED <<page, published, heard>>
  PROVE  BInv'
<1> DEFINE d == drive[r]
           S == KnownIds(d) \cup {FreshId(d, r)}
<1>1. PICK e : Grown(d, e, r) /\ Continues(d, e, S) /\ drive' = [drive EXCEPT ![r] = e]
  BY DEF Advances
<1>2. IInv'
  BY AdvancesKeeps DEF BInv
<1>3. FromPages(d) /\ LogsApart(d) /\ BackedIds(Range(d.moves), published)
  BY DEF BInv, IdsBacked
<1>4. FromPages(e) /\ LogsApart(e)
  BY <1>1, <1>3 DEF Grown, FromPages
<1>5. \A x \in S : Backed(x, published)
  <2>1. \A x \in MoveIds(d) : Backed(x, published)
    BY <1>3 DEF MoveIds, BackedIds
  <2>2. QED BY <2>1, ReservedBacked, DeviceIdBacked DEF KnownIds
<1> HIDE DEF d, S
<1>6. BackedIds(Range(e.moves), published)
  BY <1>1, <1>3, <1>5 DEF Continues, BackedIds
<1>7. QED BY <1>1, <1>2, <1>4, <1>6, DeviceGoesOn

\* What a device merges was published by a page, and is what its stamp stands for.
LEMMA DeviceMergesMove ==
  ASSUME BInv, NEW r \in Replica, NEW op \in PublishedMoves, RemoteMove(r, op),
         UNCHANGED <<page, published, heard>>
  PROVE  BInv'
<1> DEFINE d == drive[r]
           e == TookMove(d, op)
<1>1. IInv /\ DriveOk(d) /\ FromPages(d) /\ LogsApart(d)
      /\ BackedIds(Range(d.moves), published)
  BY DEF BInv, IInv, TypeOK, IdsBacked
<1>2. op \in published /\ op \in MoveOp /\ op.ts.replica \notin Replica /\ IsMove(op)
      /\ BackedIds({op}, published) /\ Keyed(published)
  <2>1. op \in AllMoves /\ op \in published /\ IsMove(op)
    BY DEF AllMoves, PublishedMoves, IsMove
  <2>2. QED BY <2>1, OnTheMesh, PageAssumption DEF BInv, Stamping
<1>3. drive' = [drive EXCEPT ![r] = e] /\ fresh' \in [Replica -> Nat]
  <2>1. drive' = [drive EXCEPT ![r] = e]
    BY Zenon DEF RemoteMove, TookMove
  <2>2. fresh' \in [Replica -> Nat]
    BY <1>1, Arguments DEF RemoteMove
  <2>3. QED BY <2>1, <2>2
<1> HIDE DEF d, e
<1>4. \A o \in Range(d.moves) \cup Range(d.contents) : o.ts = op.ts => o = op
  BY <1>1, <1>2 DEF FromPages, Keyed
<1>5. Keyed(Range(d.moves) \cup {op})
  <2>1. Keyed(Range(d.moves))
    BY <1>1 DEF DriveOk, MovesLog
  <2>2. QED BY <1>4, <2>1 DEF Keyed
<1>6. DriveOk(e) /\ Range(e.moves) = Range(d.moves) \cup {op} /\ e.contents = d.contents
  BY <1>1, <1>2, <1>5, TookMoveOk DEF e
<1>7. FromPages(e)
  BY <1>1, <1>2, <1>6 DEF FromPages
<1>8. LogsApart(e)
  <2>1. \A c \in Range(d.contents) : c # op
    <3>1. \A c \in Range(d.contents) : StampedOk(c)
      BY <1>1, ContentTicks
    <3>2. ASSUME NEW c, StampedOk(c) PROVE ~IsMove(c)
      BY <3>2 DEF StampedOk, IsMove
    <3>3. QED BY <1>2, <3>1, <3>2
  <2>2. \A c \in Range(d.contents) : c.ts # op.ts
    BY <1>4, <2>1
  <2>3. QED BY <1>1, <1>6, <2>2 DEF LogsApart
<1>9. BackedIds(Range(e.moves), published)
  BY <1>1, <1>2, <1>6 DEF BackedIds
<1>10. IInv'
  <2>1. Range(d.moves) \subseteq Range(e.moves)
    BY <1>6
  <2>2. \A o \in Range(e.moves) : o \in Range(d.moves) \/ o.ts.replica \notin Replica
    BY <1>2, <1>6
  <2>3. QED BY <1>1, <1>3, <1>6, <2>1, <2>2, StepKeeps DEF d
<1>11. QED BY <1>3, <1>7, <1>8, <1>9, <1>10, DeviceGoesOn

LEMMA DeviceMergesContent ==
  ASSUME BInv, NEW r \in Replica, NEW op \in PublishedEdits, RemoteContent(r, op),
         UNCHANGED <<page, published, heard>>
  PROVE  BInv'
<1> DEFINE d == drive[r]
           e == TookContent(d, op)
<1>1. IInv /\ DriveOk(d) /\ FromPages(d) /\ LogsApart(d)
      /\ BackedIds(Range(d.moves), published)
  BY DEF BInv, IInv, TypeOK, IdsBacked
<1>2. op \in published /\ StampedOk(op) /\ op.ts.replica \notin Replica /\ ~IsMove(op)
      /\ Keyed(published)
  <2>1. op \in AllEdits /\ op \in published /\ ~IsMove(op)
    BY DEF AllEdits, PublishedEdits, PublishedMoves, IsMove
  <2>2. QED BY <2>1, OnTheMesh, PageAssumption DEF BInv, Stamping
<1>3. drive' = [drive EXCEPT ![r] = e] /\ fresh' \in [Replica -> Nat]
  <2>1. drive' = [drive EXCEPT ![r] = e]
    BY Zenon DEF RemoteContent, TookContent, Before
  <2>2. fresh' \in [Replica -> Nat]
    BY <1>1, Arguments DEF RemoteContent
  <2>3. QED BY <2>1, <2>2
<1> HIDE DEF d, e
<1>4. /\ DriveOk(e) /\ e.moves = d.moves
      /\ Range(e.contents) \subseteq Range(d.contents) \cup {op}
  BY <1>1, <1>2, TookContentOk DEF e
<1>5. FromPages(e)
  BY <1>1, <1>2, <1>4 DEF FromPages
<1>6. LogsApart(e)
  <2>1. \A o \in Range(d.moves) : o \in MoveOp
    BY <1>1, TicksAreNumbers
  <2>2. \A o \in MoveOp : IsMove(o)
    BY DEF MoveOp, IsMove
  <2>3. \A o \in Range(d.moves) : o.ts # op.ts
    BY <1>1, <1>2, <2>1, <2>2 DEF FromPages, Keyed
  <2>4. QED BY <1>1, <1>4, <2>3 DEF LogsApart
<1>7. Range(e.moves) = Range(drive[r].moves) /\ BackedIds(Range(e.moves), published)
  BY <1>1, <1>4 DEF d
<1>8. IInv'
  BY <1>1, <1>3, <1>4, <1>7, StepKeeps
<1>9. QED BY <1>3, <1>5, <1>6, <1>7, <1>8, DeviceGoesOn

LEMMA DeviceStepKeeps ==
  ASSUME BInv, NEW r \in Replica, DeviceStep(r)
  PROVE  BInv'
<1>1. UNCHANGED <<page, published, heard>>
  BY DEF DeviceStep
<1>2. IInv
  BY DEF BInv
<1>3. CASE Structural(r) \/ Editing(r) \/ Deleting(r)
  <2>1. Advances(r)
    BY <1>2, <1>3, StructuralAdvances, EditingAdvances, DeletingAdvances
  <2>2. QED BY <1>1, <2>1, DeviceCommands
<1>4. CASE \E op \in PublishedMoves : RemoteMove(r, op)
  BY <1>1, <1>4, DeviceMergesMove
<1>5. CASE \E op \in PublishedEdits : RemoteContent(r, op)
  BY <1>1, <1>5, DeviceMergesContent
<1>6. QED BY <1>3, <1>4, <1>5 DEF DeviceStep

-----------------------------------------------------------------------------
(* Theorems *)

LEMMA BrowserNextKeeps ==
  ASSUME BInv, [BrowserNext]_browserVars
  PROVE  BInv'
<1>1. CASE BrowserNext
  BY <1>1, MintsKeeps, TakesKeeps, ReloadPageKeeps, DeviceStepKeeps DEF BrowserNext
<1>2. CASE UNCHANGED browserVars
  <2>1. drive' = drive /\ fresh' = fresh /\ page' = page /\ published' = published
        /\ heard' = heard
    BY <1>2 DEF browserVars
  <2>2. IInv'
    BY <2>1 DEF BInv, IInv, TypeOK, Originals
  <2>3. PagesOk' /\ Stamping(published)' /\ IdsBacked'
    BY <2>1 DEF BInv, PagesOk, Stamping, Keyed, IdsBacked, BackedIds, PublishedMoves
  <2>4. \A r \in Replica : FromPages(drive[r])' /\ LogsApart(drive[r])'
    BY <2>1 DEF BInv, FromPages, LogsApart
  <2>5. QED BY <2>2, <2>3, <2>4 DEF BInv
<1>3. QED BY <1>1, <1>2

LEMMA BrowserInitHolds == BrowserInit => BInv
<1> SUFFICES ASSUME BrowserInit PROVE BInv
  OBVIOUS
<1>1. /\ drive = [r \in Replica |-> NewDrive] /\ published = {}
      /\ page = [b \in Page |-> NewPage] /\ heard = [b \in Page |-> <<>>]
  BY DEF BrowserInit, Init
<1>2. IInv
  BY InitHolds DEF BrowserInit
<1>3. PagesOk
  BY <1>1, NewPageOk DEF PagesOk
<1>4. Stamping(published)
  BY <1>1 DEF Stamping, Keyed
<1>5. Range(NewDrive.moves) = {} /\ Range(NewDrive.contents) = {}
  <2>1. Range(<<>>) = {} /\ NewDrive.moves = <<>> /\ NewDrive.contents = <<>>
    BY DEF Range, NewDrive
  <2>2. QED BY <2>1
<1>6. IdsBacked
  <2>1. PublishedMoves = {}
    BY <1>1 DEF PublishedMoves
  <2>2. LogOps(NewPage.tree) = {}
    BY EmptyTreeReplayed DEF NewPage
  <2>3. QED BY <1>1, <1>5, <2>1, <2>2 DEF IdsBacked, BackedIds
<1>7. \A r \in Replica : FromPages(drive[r]) /\ LogsApart(drive[r])
  BY <1>1, <1>5 DEF FromPages, LogsApart
<1>8. QED BY <1>2, <1>3, <1>4, <1>6, <1>7 DEF BInv

\* Of the devices and the pages together: besides what holds of every device, a page's
\* tree is the replay of its log, its clock is past what it saw, what is published has
\* one operation to a timestamp, devices have what pages stamped from the mesh, and
\* the ids of pages are those of published operations.
THEOREM BrowserInductive == BrowserSpec => []BInv
<1>1. BrowserInit => BInv
  BY BrowserInitHolds
<1>2. BInv /\ [BrowserNext]_browserVars => BInv'
  BY BrowserNextKeeps
<1>3. QED BY <1>1, <1>2, PTL DEF BrowserSpec

\* A page and a device, or two pages, that took in the same moves hold the same tree:
\* apply in the browser's crdt.rs does what integrate of the core's does.
THEOREM PagesFollowDevices == BrowserSpec => []TreesAgree
<1>1. BInv => TreesAgree
  <2> SUFFICES ASSUME BInv PROVE TreesAgree
    OBVIOUS
  <2>1. \A b \in Page : Replayed(page[b].tree, MoveOp)
    BY DEF BInv, PagesOk, PageOk
  <2>2. \A r \in Replica : Replayed(drive[r].tree, MoveOp)
    BY DriveTree DEF BInv, IInv, TypeOK
  <2>3. ASSUME NEW b \in Page, NEW c \in Page, LogOps(page[b].tree) = LogOps(page[c].tree)
        PROVE  page[b].tree = page[c].tree
    BY <2>1, <2>3, MoveOpsOk, ReplayedAgree
  <2>4. ASSUME NEW b \in Page, NEW r \in Replica, LogOps(page[b].tree) = LogOps(drive[r].tree)
        PROVE  page[b].tree = drive[r].tree
    BY <2>1, <2>2, <2>4, MoveOpsOk, ReplayedAgree
  <2>5. QED BY <2>3, <2>4 DEF TreesAgree
<1>2. QED BY <1>1, BrowserInductive, PTL

\* In whatever order and however often the operations came, a page is told to keep
\* every content it heard of that a history has room for.
THEOREM HeardBlobsAreKept == BrowserSpec => []BlobsKept
<1>1. BInv => BlobsKept
  <2> SUFFICES ASSUME BInv, NEW b \in Page, NEW n \in DOMAIN page[b].content,
                      Cardinality(SinceRemoval(heard[b], n)) <= MaxVersions + 1
               PROVE  SavedSince(heard[b], n) \subseteq CidsKept(page[b].content)
    BY DEF BlobsKept
  <2> DEFINE m == page[b].content
             h == heard[b]
             L == Len(h)
  <2>1. KeepsSaves(m, h, n, L) /\ IsSequence(h)
    BY DEF BInv, PagesOk, PageOk
  <2>2. DOMAIN h = 1 .. L
    BY <2>1 DEF IsSequence
  <2>3. SinceRemoval(h, n) = SinceIn(h, n, L) /\ SavedSince(h, n) = SavedIn(h, n, L)
    BY <2>2 DEF SinceRemoval, SinceIn, SavedSince, SavedIn
  <2> HIDE DEF L, m, h
  <2>4. SavedIn(h, n, L) \subseteq CidsOf(m[n])
    BY <2>1, <2>3 DEF KeepsSaves, m, h
  <2>5. CidsOf(m[n]) \subseteq CidsKept(m)
    BY DEF CidsKept, AllCids, m
  <2>6. QED BY <2>3, <2>4, <2>5 DEF m, h
<1>2. QED BY <1>1, BrowserInductive, PTL

-----------------------------------------------------------------------------
(* What is minted is new *)

\* A timestamp stands for one operation on the mesh.
LEMMA OneOperationToAStamp ==
  ASSUME BInv
  PROVE  \A o, p \in AllMoves \cup AllEdits : o.ts = p.ts => o = p
<1> SUFFICES ASSUME NEW o \in AllMoves \cup AllEdits, NEW p \in AllMoves \cup AllEdits,
                    o.ts = p.ts
             PROVE  o = p
  OBVIOUS
<1> DEFINE Stampers(x) ==
        \/ x \in published /\ x.ts.replica \in Page
        \/ \E r \in Replica : /\ x.ts.replica = r
                              /\ x \in Range(drive[r].moves) \cup Range(drive[r].contents)
<1>1. \A x \in AllMoves \cup AllEdits : Stampers(x)
  BY OnTheMesh DEF AllMoves, AllEdits, MovesFrom, ContentsFrom, PublishedMoves, PublishedEdits
<1>2. Stampers(o) /\ Stampers(p)
  BY <1>1
<1>3. CASE o.ts.replica \in Page
  <2>1. o \in published /\ p \in published
    BY <1>2, <1>3, PageAssumption
  <2>2. QED BY <2>1 DEF BInv, Stamping, Keyed
<1>4. CASE o.ts.replica \notin Page
  <2>1. PICK r \in Replica : o \in Range(drive[r].moves) \cup Range(drive[r].contents)
                             /\ p \in Range(drive[r].moves) \cup Range(drive[r].contents)
    BY <1>2, <1>4
  <2> DEFINE d == drive[r]
             log == d.contents
  <2>2. DriveOk(d) /\ LogsApart(d)
    BY DEF BInv, IInv, TypeOK
  <2>3. Keyed(Range(d.moves)) /\ InOrder(log)
    BY <2>2 DEF DriveOk, MovesLog, ContentLog
  <2> HIDE DEF d, log
  <2>4. CASE o \in Range(d.moves) /\ p \in Range(d.moves)
    BY <2>3, <2>4 DEF Keyed
  <2>5. CASE o \in Range(log) /\ p \in Range(log)
    <3>1. PICK i \in 1 .. Len(log), j \in 1 .. Len(log) : log[i] = o /\ log[j] = p
      <4>1. DOMAIN log = 1 .. Len(log)
        BY <2>3, LogFacts
      <4>2. QED BY <2>5, <4>1 DEF Range
    <3>2. Len(log) \in Nat /\ o.ts.lamport \in Nat /\ o.ts.replica \in Nat
      BY <2>3, <3>1, LogFacts
    <3>3. ~TsLess(o.ts, p.ts) /\ ~TsLess(p.ts, o.ts)
      BY <3>2 DEF TsLess
    <3>4. i < j => TsLess(log[i].ts, log[j].ts)
      BY <2>3 DEF InOrder, Ascending
    <3>5. j < i => TsLess(log[j].ts, log[i].ts)
      BY <2>3 DEF InOrder, Ascending
    <3>6. i = j
      BY <3>1, <3>2, <3>3, <3>4, <3>5
    <3>7. QED BY <3>1, <3>6
  <2>6. QED BY <2>1, <2>2, <2>4, <2>5 DEF LogsApart, d, log
<1>5. QED BY <1>3, <1>4

\* The calls that count up are those that create a node, which is new.
NewNodes(b) ==
    page'[b].ctr > page[b].ctr =>
        \A op \in PublishedMoves' \ PublishedMoves :
            ~ \E old \in AllMoves : old.child = op.child

\* A page that has replayed what it published mints an id that is in no move.
LEMMA PageIdIsNew ==
  ASSUME BInv, NEW b \in Page, CaughtUp(b), NEW old \in AllMoves,
         old.child = PageNodeId(page[b], b)
  PROVE  FALSE
<1> DEFINE id == PageNodeId(page[b], b)
           op == [ts |-> PageTs(page[b], b)]
<1>1. op.ts.replica = b /\ op.ts.lamport = page[b].lamport + 1
  BY DEF PageTs
<1> HIDE DEF op
<1>2. id \in Nat \X Nat \X Nat /\ id[1] = page[b].lamport + 1 /\ id[2] = b
  BY <1>1, NewIdBacked
<1>3. Backed(old.child, published) /\ old.child = id
  BY OnTheMesh DEF BackedIds
<1> HIDE DEF id
<1>4. PICK q \in published : q.ts.lamport = page[b].lamport + 1 /\ q.ts.replica = b
  BY <1>2, <1>3 DEF Backed
<1>5. q.ts.lamport <= page[b].lamport
  BY <1>4, CaughtUpIsPast
<1>6. page[b].lamport \in Nat
  BY DEF BInv, PagesOk, PageOk
<1>7. QED BY <1>4, <1>5, <1>6

\* Of a call of b that publishes ops, of which the move op is the only one.
LEMMA CreatesNew ==
  ASSUME BInv, NEW b \in Page, CaughtUp(b), NEW ops, NEW op, op.child = PageNodeId(page[b], b),
         published' = published \cup ops, \A o \in ops : IsMove(o) => o = op
  PROVE  NewNodes(b)
<1>1. \A o \in PublishedMoves' \ PublishedMoves : o = op
  BY DEF PublishedMoves, IsMove
<1>2. QED BY <1>1, PageIdIsNew DEF NewNodes

\* Every other step leaves the counters alone, or starts one over.
LEMMA CountsNoNode ==
  ASSUME BInv, NEW b \in Page, NEW q, page' = [page EXCEPT ![b] = q],
         q.ctr = page[b].ctr \/ q.ctr = 0
  PROVE  \A c \in Page : NewNodes(c)
<1>1. page = [c \in Page |-> page[c]] /\ \A c \in Page : page[c].ctr \in Nat
  BY DEF BInv, PagesOk, PageOk
<1>2. \A c \in Page : page'[c] = IF c = b THEN q ELSE page[c]
  BY <1>1
<1>3. ASSUME NEW c \in Page PROVE ~(page'[c].ctr > page[c].ctr)
  <2>1. page'[c].ctr = page[c].ctr \/ page'[c].ctr = 0
    BY <1>2
  <2>2. page[c].ctr \in Nat
    BY <1>1
  <2>3. QED BY <2>1, <2>2
<1>4. QED BY <1>3 DEF NewNodes

LEMMA CountsForOne ==
  ASSUME BInv, NEW b \in Page, NEW q, page' = [page EXCEPT ![b] = q], NewNodes(b)
  PROVE  \A c \in Page : NewNodes(c)
<1>1. page = [c \in Page |-> page[c]] /\ \A c \in Page : page[c].ctr \in Nat
  BY DEF BInv, PagesOk, PageOk
<1>2. \A c \in Page : c # b => page'[c] = page[c]
  BY <1>1
<1>3. ASSUME NEW c \in Page, c # b PROVE ~(page'[c].ctr > page[c].ctr)
  BY <1>1, <1>2, <1>3
<1>4. QED BY <1>3 DEF NewNodes

\* Minting a move or a save without a new node.
LEMMA MintedCounts ==
  ASSUME BInv, NEW b \in Page, NEW op
  PROVE  MintMove(page[b], op).ctr = page[b].ctr /\ MintContent(page[b], op).ctr = page[b].ctr
<1>1. PageOk(page[b], heard[b])
  BY DEF BInv, PagesOk
<1> DEFINE p == page[b]
<1>2. /\ MintMove(p, op) = AfterMove(p, op, p.lamport + 1, p.ctr)
      /\ MintContent(p, op) = AfterSave(p, op, p.lamport + 1)
  <2> HIDE DEF p
  <2>1. QED BY <1>1, PageForms DEF p
<1>3. /\ AfterMove(p, op, p.lamport + 1, p.ctr).ctr = p.ctr
      /\ AfterSave(p, op, p.lamport + 1).ctr = p.ctr
  BY DEF AfterMove, AfterSave
<1>4. QED BY <1>2, <1>3

LEMMA MintsNew ==
  ASSUME BInv, NEW b \in Page, Mints(b)
  PROVE  \A c \in Page : NewNodes(c)
<1>1. ASSUME NEW dir, NEW name, PageMkdir(b, dir, name) PROVE \A c \in Page : NewNodes(c)
  <2> DEFINE op == MoveOf(page[b], b, PageNodeId(page[b], b), dir, name, "dir")
             q == [MintMove(page[b], op) EXCEPT !.ctr = @ + 1]
             ops == {op}
  <2>1. /\ CaughtUp(b) /\ page' = [page EXCEPT ![b] = q] /\ published' = published \cup ops
    BY <1>1 DEF PageMkdir, MayMint
  <2>2. op.child = PageNodeId(page[b], b)
    BY DEF MoveOf
  <2>3. \A o \in ops : IsMove(o) => o = op
    OBVIOUS
  <2> HIDE DEF op, q, ops
  <2>4. NewNodes(b)
    BY <2>1, <2>2, <2>3, CreatesNew
  <2>5. QED BY <2>1, <2>4, CountsForOne
<1>2. ASSUME NEW dir, NEW name, NEW cid, NEW at, PageAddFile(b, dir, name, cid, at)
      PROVE  \A c \in Page : NewNodes(c)
  <2> DEFINE mv == MoveOf(page[b], b, PageNodeId(page[b], b), dir, name, "file")
             moved == [MintMove(page[b], mv) EXCEPT !.ctr = @ + 1]
             set == [ts |-> PageTs(moved, b), op |-> SetOp(mv.child, cid, at)]
             q == MintContent(moved, set.op)
             ops == {mv, set}
  <2>1. /\ CaughtUp(b) /\ page' = [page EXCEPT ![b] = q] /\ published' = published \cup ops
    BY <1>2 DEF PageAddFile, MayMint
  <2>2. mv.child = PageNodeId(page[b], b)
    BY DEF MoveOf
  <2>3. ~IsMove(set)
    BY DEF IsMove
  <2> HIDE DEF mv, q, moved, set
  <2>4. \A o \in ops : IsMove(o) => o = mv
    BY <2>3
  <2> HIDE DEF ops
  <2>5. NewNodes(b)
    BY <2>1, <2>2, <2>4, CreatesNew
  <2>6. QED BY <2>1, <2>5, CountsForOne
<1>3. ASSUME NEW n, NEW cid, NEW at, MintsSet(b, n, cid, at) PROVE \A c \in Page : NewNodes(c)
  <2> DEFINE op == SetOp(n, cid, at)
             q == MintContent(page[b], op)
  <2>1. page' = [page EXCEPT ![b] = q]
    BY <1>3 DEF MintsSet
  <2>2. q.ctr = page[b].ctr
    BY MintedCounts
  <2> HIDE DEF q
  <2>3. QED BY <2>1, <2>2, CountsNoNode
<1>4. ASSUME NEW op, MintsMove(b, op) PROVE \A c \in Page : NewNodes(c)
  <2> DEFINE q == MintMove(page[b], op)
  <2>1. page' = [page EXCEPT ![b] = q]
    BY <1>4 DEF MintsMove
  <2>2. q.ctr = page[b].ctr
    BY MintedCounts
  <2> HIDE DEF q
  <2>3. QED BY <2>1, <2>2, CountsNoNode
<1>5. \/ \E dir, name : PageMkdir(b, dir, name)
      \/ \E dir, name, cid, at : PageAddFile(b, dir, name, cid, at)
      \/ \E n, cid, at : MintsSet(b, n, cid, at)
      \/ \E op : MintsMove(b, op)
  BY Zenon DEF Mints, PageAddVersion, PageSetContent, PageMove, PageRemove
<1>6. QED BY <1>1, <1>2, <1>3, <1>4, <1>5

LEMMA BrowserNextNew ==
  ASSUME BInv, [BrowserNext]_browserVars
  PROVE  \A c \in Page : NewNodes(c)
<1>1. \A b \in Page : PageOk(page[b], heard[b])
  BY DEF BInv, PagesOk
<1>2. ASSUME NEW b \in Page, Mints(b) PROVE \A c \in Page : NewNodes(c)
  BY <1>2, MintsNew
<1>3. ASSUME NEW b \in Page, NEW op, TakeMove(b, op) PROVE \A c \in Page : NewNodes(c)
  <2> DEFINE q == [ObserveTs(page[b], op.ts) EXCEPT !.tree = ApplyMove(@, op)]
  <2>1. page' = [page EXCEPT ![b] = q]
    BY <1>3 DEF TakeMove
  <2>2. q.ctr = page[b].ctr
    BY <1>1 DEF ObserveTs, PageOk
  <2> HIDE DEF q
  <2>3. QED BY <2>1, <2>2, CountsNoNode
<1>4. ASSUME NEW b \in Page, NEW op, TakeContent(b, op) PROVE \A c \in Page : NewNodes(c)
  <2> DEFINE q == [ObserveTs(page[b], op.ts) EXCEPT !.content = ApplySave(@, op.op)]
  <2>1. page' = [page EXCEPT ![b] = q]
    BY <1>4 DEF TakeContent
  <2>2. q.ctr = page[b].ctr
    BY <1>1 DEF ObserveTs, PageOk
  <2> HIDE DEF q
  <2>3. QED BY <2>1, <2>2, CountsNoNode
<1>5. ASSUME NEW b \in Page, ReloadPage(b) PROVE \A c \in Page : NewNodes(c)
  <2> DEFINE q == NewPage
  <2>1. page' = [page EXCEPT ![b] = q] /\ q.ctr = 0
    BY <1>5 DEF ReloadPage, NewPage
  <2> HIDE DEF q
  <2>2. QED BY <2>1, CountsNoNode
<1>6. ASSUME page' = page PROVE \A c \in Page : NewNodes(c)
  <2>1. \A c \in Page : page[c].ctr \in Nat
    BY <1>1 DEF PageOk
  <2>2. QED BY <1>6, <2>1 DEF NewNodes
<1>7. CASE BrowserNext
  BY <1>2, <1>3, <1>4, <1>5, <1>6, <1>7 DEF BrowserNext, Takes, DeviceStep
<1>8. CASE UNCHANGED browserVars
  BY <1>6, <1>8 DEF browserVars
<1>9. QED BY <1>7, <1>8

\* No timestamp and no id is minted twice, whoever mints it, as long as a page that was
\* loaded again replays what it published before it mints.
THEOREM MintedOnce == BrowserSpec => FreshEverywhere
<1> DEFINE Once == \A o, p \in AllMoves \cup AllEdits : o.ts = p.ts => o = p
           New == \A b \in Page : page'[b].ctr > page[b].ctr =>
                      \A op \in PublishedMoves' \ PublishedMoves :
                          ~ \E old \in AllMoves : old.child = op.child
<1>1. BInv => Once
  BY OneOperationToAStamp
<1>2. BInv /\ [BrowserNext]_browserVars => New
  BY BrowserNextNew DEF NewNodes
<1>3. QED BY <1>1, <1>2, BrowserInductive, PTL DEF BrowserSpec, FreshEverywhere
=============================================================================
