----------------------------- MODULE MCFolder ------------------------------
(***************************************************************************)
(* TLC instances of Folder.                                                *)
(***************************************************************************)
EXTENDS Folder

CONSTANTS x, y \* chunks

OneName == {<<1>>}

\* A path and what is below it.
NestedPaths == {<<<<1>>>>, <<<<1>>, <<1>>>>}

\* The same and a sibling, for the larger instance.
ThreePaths == {<<<<1>>>>, <<<<1>>, <<1>>>>, <<<<2>>>>}

\* File 2 shares a chunk with file 1; file 3 is empty.
Chunks == <<{x}, {x, y}, {}>>

\* What other commands do to the drive meanwhile.
Meanwhile == {"mkdir", "add"}
=============================================================================
