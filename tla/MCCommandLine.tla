--------------------------- MODULE MCCommandLine ----------------------------
(***************************************************************************)
(* The TLC instance of CommandLine.                                        *)
(***************************************************************************)
EXTENDS CommandLine
=============================================================================
