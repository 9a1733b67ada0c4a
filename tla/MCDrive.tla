------------------------------ MODULE MCDrive -------------------------------
(***************************************************************************)
(* TLC instances of Drive: the names, and the commands that users issue.   *)
(***************************************************************************)
EXTENDS Drive

OneName == {<<1>>}
TwoNames == {<<1>>, <<2>>}

\* A drive in long use by one process, which also compacts it.
Everyday ==
    {"mkdir", "add", "mv", "rm", "restore", "empty", "gc", "write", "version", "compact"}

\* Every command a process of its own, as on the command line.
CommandLine == {"mkdir", "rm", "compact", "reload"}

\* Two devices that edit, delete and bring back in one small drive, whose processes end
\* and replay the saved logs.
Merged == {"mkdir", "add", "write", "version", "rm", "restore", "empty", "reload"}
=============================================================================
