-------------------------- MODULE MCForwardManager --------------------------
(* Instances of ForwardManager for TLC. *)
EXTENDS ForwardManager, TLC

\* Calls, ports, hosts and masters are interchangeable.
Symmetry == Permutations(Calls) \cup Permutations(Ports)
            \cup Permutations(Hosts) \cup Permutations(Masters)
=============================================================================
