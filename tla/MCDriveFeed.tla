---------------------------- MODULE MCDriveFeed -----------------------------
(***************************************************************************)
(* TLC instances of DriveFeed.                                             *)
(***************************************************************************)
EXTENDS DriveFeed

OneName == {<<1>>}

Feeding == {"mkdir", "add", "mv", "rm", "restore", "empty", "reload"}
=============================================================================
