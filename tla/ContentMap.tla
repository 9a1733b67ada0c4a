----------------------------- MODULE ContentMap -----------------------------
(***************************************************************************)
(* The content map of ce-drive-core/src/content.rs as operators: for each  *)
(* file node a current version and a capped history, changed by content    *)
(* operations.                                                             *)
(*                                                                         *)
(*   content map = function from the nodes with a record to                *)
(*                 [cid, mtime, versions |-> sequence of [cid, at, conflict]] *)
(*   operation   = [type |-> "set" | "restore" | "remove", id, cid, at]    *)
(*                                                                         *)
(* A cid is a number: the code orders cids, as the last tie-break of two   *)
(* saves.  The size of a version is a function of its cid and is left out, *)
(* as are the mode bits and the reserved doc_id: no decision reads them.    *)
(***************************************************************************)
EXTENDS Naturals, Sequences, SequencesExt

CONSTANTS MaxVersions  \* MAX_VERSIONS: how many prior versions a file keeps

ASSUME MaxVersionsAssumption == MaxVersions \in Nat \ {0}

NoContent == [n \in {} |-> 0]

SetOp(id, cid, at)     == [type |-> "set", id |-> id, cid |-> cid, at |-> at]
RestoreOp(id, cid, at) == [type |-> "restore", id |-> id, cid |-> cid, at |-> at]
RemoveOp(id)           == [type |-> "remove", id |-> id, cid |-> 0, at |-> 0]

-----------------------------------------------------------------------------

Version(cid, at, conflict) == [cid |-> cid, at |-> at, conflict |-> conflict]

\* Append to the history unless its newest entry has the same cid, and drop the
\* oldest entry beyond the cap.
PushVersion(versions, v) ==
    IF versions # <<>> /\ Last(versions).cid = v.cid THEN versions
    ELSE IF Len(versions) = MaxVersions THEN Append(Tail(versions), v)
    ELSE Append(versions, v)

\* A save wins by its modification time, and among equal times by its cid.
Wins(c, cid, at) == at > c.mtime \/ (at = c.mtime /\ cid > c.cid)

\* Wrong variant: an edit that loses is dropped.
RecordDropsLoser(c, cid, at) ==
    IF cid = c.cid \/ ~Wins(c, cid, at) THEN c
    ELSE [cid |-> cid, mtime |-> at,
          versions |-> PushVersion(c.versions, Version(c.cid, c.mtime, at = c.mtime))]

\* FileContent::record: the loser, be it the incoming version or the displaced
\* one, goes to the history, as a conflict when the times are equal.
Record(c, cid, at) ==
    IF cid = c.cid THEN c
    ELSE IF Wins(c, cid, at)
    THEN [cid      |-> cid,
          mtime    |-> at,
          versions |-> PushVersion(c.versions, Version(c.cid, c.mtime, at = c.mtime))]
    ELSE [c EXCEPT !.versions = PushVersion(@, Version(cid, at, at >= c.mtime))]

\* FileContent::restore: point back at a version of the history, if it has it.
RestoreRecord(c, cid, now) ==
    IF \E i \in DOMAIN c.versions : c.versions[i].cid = cid
    THEN [cid      |-> cid,
          mtime    |-> now,
          versions |-> PushVersion(c.versions, Version(c.cid, c.mtime, FALSE))]
    ELSE c

HasConflict(c) == \E i \in DOMAIN c.versions : c.versions[i].conflict

\* The cids a record keeps alive: its current version and its history.
CidsOf(c) == {c.cid} \cup {c.versions[i].cid : i \in DOMAIN c.versions}

AllCids(m) == UNION {CidsOf(m[n]) : n \in DOMAIN m}

WithRecord(m, id, c) == [n \in DOMAIN m \cup {id} |-> IF n = id THEN c ELSE m[n]]

WithoutRecord(m, id) == [n \in DOMAIN m \ {id} |-> m[n]]

\* ContentMap::apply.
ApplyContent(m, op) ==
    CASE op.type = "set" ->
           WithRecord(m, op.id,
                      IF op.id \in DOMAIN m THEN Record(m[op.id], op.cid, op.at)
                      ELSE [cid |-> op.cid, mtime |-> op.at, versions |-> <<>>])
      [] op.type = "restore" ->
           IF op.id \in DOMAIN m
           THEN WithRecord(m, op.id, RestoreRecord(m[op.id], op.cid, op.at)) ELSE m
      [] op.type = "remove" -> WithoutRecord(m, op.id)

=============================================================================
