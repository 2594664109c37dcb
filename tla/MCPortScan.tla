----------------------------- MODULE MCPortScan -----------------------------
(* Instances of PortScan for TLC. *)
EXTENDS PortScan, TLC

\* Ports and clients are interchangeable.
Symmetry == Permutations(Ports) \cup Permutations(Clients)
=============================================================================
