------------------------------- MODULE MCVfs --------------------------------
(***************************************************************************)
(* TLC instances of Mounts.                                                *)
(***************************************************************************)
EXTENDS Mounts

CONSTANTS k1, k2

TwoNames == {<<1>>, <<2>>}

TwoFiles == <<<<1>>, <<2>>>>

AllOs == {"fuse", "winfsp", "engine"}

AllCalls == {"add", "mkdir", "rm", "mv", "peer"}

\* Calls are interchangeable; no property names one.
Symmetric == Permutations({k1, k2})
=============================================================================
