--------------------------- MODULE MCLocalDaemon ---------------------------
(***************************************************************************)
(* Instances of LocalDaemon for TLC: terminals of one target, and targets  *)
(* that share a domain prefix, so that names collide.                      *)
(***************************************************************************)
EXTENDS LocalDaemon, TLC

CONSTANTS l1, l2, l3, l4, k1, k2, k3, h1

MCHost == [k \in Keys |-> h1]

\* Run daemon: two terminals of one target, the first of which comes back.
TwoTerminals    == {l1, l2}
TwoTerminalsKey == l1 :> k1 @@ l2 :> k1
ComesBack       == l1 :> 2 @@ l2 :> 1

\* Run now: a terminal of each of two targets, both of which come back.
TwoTargets    == {l1, l3}
TwoTargetsKey == l1 :> k1 @@ l3 :> k2
BothComeBack  == [l \in Leases |-> 2]

\* Run address: a third target, to take over an address that was given back.
ThreeTargets    == {l1, l2, l3, l4}
ThreeTargetsKey == l1 :> k1 @@ l2 :> k1 @@ l3 :> k2 @@ l4 :> k3
OnlyOnce        == [l \in Leases |-> 1]

\* Connections are interchangeable.
ConnSymmetry == Permutations(Conns)
=============================================================================
