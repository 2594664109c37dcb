--------------------------- MODULE MCDaemonStart ---------------------------
(***************************************************************************)
(* An instance of DaemonStart for TLC: two terminals.                      *)
(***************************************************************************)
EXTENDS DaemonStart
CONSTANTS t1, t2
=============================================================================
