----------------------------- MODULE DriveFeed ------------------------------
(***************************************************************************)
(* The change feed of ce-drive-core/src/changes.rs over a changing drive:  *)
(* a client polls with the cursor the last poll returned, a page at a      *)
(* time, while commands run on the drive.                                  *)
(***************************************************************************)
EXTENDS Drive

CONSTANTS Limit  \* the page sizes a client asks for; 0 is unbounded

\* No timestamp is None, the cursor at the beginning.
ASSUME CursorAssumption == Nil \notin [lamport : Nat, replica : Nat]

ASSUME LimitAssumption == Limit \subseteq Nat

VARIABLES cursor, \* the client's cursor: the last timestamp it saw, or Nil
          told,   \* the changes the client was given, in order
          made    \* the operations of all commands so far (compaction writes none)

feedVars == <<drive, fresh, cursor, told, made>>

\* Wrong variant: the change at the cursor is reported again.
AdmitsSeen(c, ts) == c = Nil \/ ~TsLess(ts, c)

Admits(c, ts) == c = Nil \/ TsLess(c, ts)

\* A move is the node's creation when no move of the WHOLE log before it is of
\* the same node.
MoveKind(log, i) ==
    IF log[i].new_parent = TRASH THEN "trashed"
    ELSE IF \E j \in 1 .. i - 1 : log[j].child = log[i].child THEN "moved" ELSE "created"

ContentKind(op) == IF op.type = "remove" THEN "removed" ELSE "content"

\* Wrong variant: only the moves after the cursor count for what is a creation.
ChangesForgetful(d, c) ==
    LET recent   == SelectSeq(d.moves, LAMBDA o : Admits(c, o.ts))
        moves    == [i \in DOMAIN recent |->
                        [ts |-> recent[i].ts, node |-> recent[i].child,
                         kind |-> MoveKind(recent, i)]]
        contents == [i \in DOMAIN d.contents |->
                        [ts |-> d.contents[i].ts, node |-> d.contents[i].op.id,
                         kind |-> ContentKind(d.contents[i].op)]]
    IN  ByTs(moves \o SelectSeq(contents, LAMBDA x : Admits(c, x.ts)))

\* The loops over the logs, which skip what the cursor does not admit.
Admitted(changes, c) ==
    LET kept[i \in 0 .. Len(changes)] ==
            IF i = 0 THEN <<>>
            ELSE IF Admits(c, changes[i].ts) THEN Append(kept[i - 1], changes[i])
            ELSE kept[i - 1]
    IN  kept[Len(changes)]

\* changes_since: the changes of both logs after c, in timestamp order.
Changes(d, c) ==
    LET moves    == [i \in DOMAIN d.moves |->
                        [ts |-> d.moves[i].ts, node |-> d.moves[i].child,
                         kind |-> MoveKind(d.moves, i)]]
        contents == [i \in DOMAIN d.contents |->
                        [ts |-> d.contents[i].ts, node |-> d.contents[i].op.id,
                         kind |-> ContentKind(d.contents[i].op)]]
    IN  ByTs(Admitted(moves \o contents, c))

Page(changes, limit) ==
    IF limit # 0 /\ Len(changes) > limit THEN SubSeq(changes, 1, limit) ELSE changes

\* Wrong variant: the cursor goes to the head of the feed, not to the page's end.
PollToHead(r, limit) ==
    LET all == Changes(drive[r], cursor)
    IN  /\ all # <<>>
        /\ told' = told \o Page(all, limit)
        /\ cursor' = Last(all).ts
        /\ UNCHANGED <<drive, fresh, made>>

Poll(r, limit) ==
    LET page == Page(Changes(drive[r], cursor), limit)
    IN  /\ page # <<>>
        /\ told' = told \o page
        /\ cursor' = Last(page).ts
        /\ UNCHANGED <<drive, fresh, made>>

\* What the logs of a drive hold.
Ops(d) == Range(d.moves) \cup Range(d.contents)

\* A command other than compaction runs on the drive.
Run ==
    /\ Next
    /\ made' = made \cup UNION {IF Compact(r) THEN {} ELSE Ops(drive'[r]) \ Ops(drive[r]) :
                                    r \in Replica}
    /\ UNCHANGED <<cursor, told>>

FeedInit == Init /\ cursor = Nil /\ told = <<>> /\ made = {}

FeedNext == Run \/ \E r \in Replica, limit \in Limit : Poll(r, limit)

FeedSpec == FeedInit /\ [][FeedNext]_feedVars

-----------------------------------------------------------------------------
(* Properties *)

Target(op) == IF "child" \in DOMAIN op THEN op.child ELSE op.op.id

\* A client that keeps polling with the cursor it was given misses nothing: every
\* operation of a command that is still in the logs was reported or will be.
FeedMissesNothing ==
    \A r \in Replica : \A op \in made \cap Ops(drive[r]) :
        \/ Admits(cursor, op.ts)
        \/ \E i \in DOMAIN told : told[i].ts = op.ts /\ told[i].node = Target(op)

\* Changes are reported in timestamp order and no change twice, across pages.
FeedInOrder == \A i, j \in DOMAIN told : i < j => TsLess(told[i].ts, told[j].ts)

\* The first structural change a client is told of a node is its creation, and
\* no node is created twice, however the polls and the pages fall.
CreatedOnce ==
    \A i \in DOMAIN told : told[i].kind \in {"created", "moved", "trashed"} =>
        (told[i].kind = "created" <=>
            ~ \E j \in 1 .. i - 1 : /\ told[j].node = told[i].node
                                    /\ told[j].kind \in {"created", "moved", "trashed"})
=============================================================================
