---------------------------- MODULE ForwardTable ----------------------------
(***************************************************************************)
(* What a forward manager promises the local daemon: a table of forwarded  *)
(* remote ports.  A port is added only while the manager runs and only if  *)
(* it is not there yet, an added port changes only by being removed, and a *)
(* stopped manager is empty forever.  LocalDaemon uses a manager this way. *)
(***************************************************************************)
CONSTANTS Ports, Forwards, None

VARIABLES table, stopped

vars == <<table, stopped>>

Init == table = [p \in Ports |-> None] /\ stopped = FALSE

Add(p, f) ==
  /\ ~stopped /\ table[p] = None
  /\ table' = [table EXCEPT ![p] = f]
  /\ UNCHANGED stopped

Remove(p) ==
  /\ table' = [table EXCEPT ![p] = None]
  /\ UNCHANGED stopped

Stop ==
  /\ stopped' = TRUE
  /\ table' = [p \in Ports |-> None]

Next ==
  \/ \E p \in Ports, f \in Forwards : Add(p, f)
  \/ \E p \in Ports : Remove(p)
  \/ Stop

Spec == Init /\ [][Next]_vars
=============================================================================
