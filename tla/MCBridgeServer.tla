-------------------------- MODULE MCBridgeServer --------------------------
(***************************************************************************)
(* Instances of BridgeServer for TLC.  c1 and c2 are two connections of    *)
(* one session, the second a reconnect.  The requesters name the context   *)
(* only, so that both may be served by either connection.                  *)
(***************************************************************************)
EXTENDS BridgeServer, TLC

CONSTANTS c1, c2, r1, r2, d1, s1, x1

MCSessionOf == [c \in ClientConns |-> s1]
MCContextOf == [c \in ClientConns |-> x1]
MCWant      == [r \in RequestConns |-> [session |-> AnyId, context |-> x1]]

\* Requesters are interchangeable.
RequesterSymmetry == Permutations(RequestConns)
=============================================================================
