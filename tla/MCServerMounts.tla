--------------------------- MODULE MCServerMounts ---------------------------
(***************************************************************************)
(* Instances of ServerMounts for TLC: two creates and a release of the     *)
(* first mount, over a single slot.                                        *)
(***************************************************************************)
EXTENDS ServerMounts
CONSTANTS k1, k2, r1, m1, m2

MCMountOf == [c \in Creates \cup Releases |-> IF c = k2 THEN m2 ELSE m1]
=============================================================================
