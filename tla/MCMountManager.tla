--------------------------- MODULE MCMountManager ---------------------------
(***************************************************************************)
(* Instances of MountManager for TLC: two commands for one working tree,   *)
(* the first of which may time out.                                        *)
(***************************************************************************)
EXTENDS MountManager
CONSTANTS c1, c2
=============================================================================
