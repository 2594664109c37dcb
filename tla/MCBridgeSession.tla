--------------------------- MODULE MCBridgeSession ---------------------------
(***************************************************************************)
(* Instances of BridgeSession for TLC.  One process has every feature and  *)
(* strict, or no remoteFs and no strict, and may lose whatever it opened;  *)
(* the other shares its mount root and may be killed.                      *)
(***************************************************************************)
EXTENDS BridgeSession, TLC
CONSTANTS p1, p2

Mode(f, s) == [features |-> f, strict |-> s]

MCModes ==
  p1 :> {Mode({"forward", "remotefs", "proxy"}, TRUE), Mode({"forward", "proxy"}, FALSE)}
  @@ p2 :> {Mode({"remotefs"}, FALSE)}
=============================================================================
