----------------------------- MODULE MCBrowser ------------------------------
(***************************************************************************)
(* TLC instances of Browser.                                               *)
(***************************************************************************)
EXTENDS Browser

OneName == {<<1>>}

\* A device that fills and empties its trash, and the calls of a page.
DeviceCalls == {"add", "rm", "empty"}
PageCalls == {"mkdir", "add", "mv", "rm", "write"}

\* A device that edits one file and brings an older version back; a page that
\* only looks on.
Versioning == {"add", "write", "version"}
NoCalls == {}
=============================================================================
