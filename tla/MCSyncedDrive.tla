--------------------------- MODULE MCSyncedDrive ----------------------------
(***************************************************************************)
(* TLC instances of SyncedDrive.                                           *)
(***************************************************************************)
EXTENDS SyncedDrive

CONSTANTS t1, t2, u

OneName == {<<1>>}

TwoAndOne == <<{t1, t2}, {u}>>

\* The tasks of a device are interchangeable; no property is temporal beyond a step.
Symmetric == Permutations({t1, t2})
=============================================================================
