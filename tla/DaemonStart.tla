---------------------------- MODULE DaemonStart ----------------------------
(***************************************************************************)
(* How the local daemon is started and replaced: ensureLocalDaemon in      *)
(* internal/cli/ssh_bridge.go, which every terminal with autoForward runs, *)
(* the lock file of internal/processlock, and the two ends of Serve in     *)
(* internal/locald.  The daemon that a terminal starts has its name.       *)
(*                                                                         *)
(* Times are not modelled: a wait may end at its limit at any step.  Pids  *)
(* are not reused.                                                         *)
(***************************************************************************)
EXTENDS Naturals, FiniteSets

CONSTANTS
  Starters,   \* terminals that need the daemon
  Old,        \* a daemon of another version
  None

Daemons == Starters \cup {Old}

VARIABLES
  spc,        \* how far each terminal is
  dpc,        \* how far each daemon is
  attempt,    \* how often it has tried to create the lock file
  lock,       \* the lock file: who created it, and the pid in it
  sock,       \* the daemon whose socket the path leads to
  signalled   \* daemons that were sent an interrupt

vars == <<spc, dpc, attempt, lock, sock, signalled>>

StarterPlaces == {"ping", "shutdown", "wait", "terminate", "waitAgain", "spawn", "poll", "served", "failed"}
DaemonPlaces ==
  {"none", "create", "write", "inspect", "remove", "locked", "unlinked", "serving", "closed", "release", "gone"}

Locks == [by : Daemons, pid : Daemons \cup {None}]

(***************************************************************************)
(* At first there is nothing, a daemon of another version, or what a       *)
(* killed one has left.                                                    *)
(***************************************************************************)
Init ==
  /\ spc = [s \in Starters |-> "ping"]
  /\ dpc \in [Daemons -> {"none", "serving", "gone"}]
  /\ \A s \in Starters : dpc[s] = "none"
  /\ attempt = [d \in Daemons |-> 0]
  /\ lock = IF dpc[Old] = "none" THEN None ELSE [by |-> Old, pid |-> Old]
  /\ sock = IF dpc[Old] = "none" THEN None ELSE Old
  /\ signalled = {}

Running(d) == dpc[d] \notin {"none", "gone"}
Serving(d) == dpc[d] = "serving"

-----------------------------------------------------------------------------
(***************************************************************************)
(* ensureLocalDaemon                                                       *)
(***************************************************************************)
Starter(s, place) == spc' = [spc EXCEPT ![s] = place]
Answers == IF sock = None THEN FALSE ELSE Serving(sock)
Compatible(d) == d # Old

(***************************************************************************)
(* A daemon that drains closes the connection, which is like no daemon.    *)
(***************************************************************************)
Ping(s) ==
  /\ spc[s] = "ping"
  /\ \/ Answers /\ Starter(s, IF Compatible(sock) THEN "served" ELSE "shutdown")
     \/ Starter(s, "spawn")
  /\ UNCHANGED <<dpc, attempt, lock, sock, signalled>>

(***************************************************************************)
(* The request goes to whatever daemon is there by now.                    *)
(***************************************************************************)
Shutdown(s) ==
  /\ spc[s] = "shutdown"
  /\ Starter(s, "wait")
  /\ signalled' = IF Answers THEN signalled \cup {sock} ELSE signalled
  /\ UNCHANGED <<dpc, attempt, lock, sock>>

Removed == sock = None /\ lock = None

WaitForRemoval(s) ==
  /\ \/ spc[s] = "wait" /\ Removed /\ Starter(s, "spawn")
     \/ spc[s] = "wait" /\ ~Removed /\ Starter(s, "terminate")
     \/ spc[s] = "waitAgain" /\ Starter(s, "spawn")
  /\ UNCHANGED <<dpc, attempt, lock, sock, signalled>>

(***************************************************************************)
(* Every daemon on the socket path is found by its command line.           *)
(***************************************************************************)
TerminateLegacy(s) ==
  /\ spc[s] = "terminate"
  /\ Starter(s, "waitAgain")
  /\ signalled' = signalled \cup {d \in Daemons : Running(d)}
  /\ UNCHANGED <<dpc, attempt, lock, sock>>

Spawn(s) ==
  /\ spc[s] = "spawn"
  /\ Starter(s, "poll")
  /\ dpc' = [dpc EXCEPT ![s] = "create"]
  /\ UNCHANGED <<attempt, lock, sock, signalled>>

Poll(s) ==
  /\ spc[s] = "poll"
  /\ \/ Answers /\ Compatible(sock) /\ Starter(s, "served")
     \/ Starter(s, "failed")
  /\ UNCHANGED <<dpc, attempt, lock, sock, signalled>>

-----------------------------------------------------------------------------
(***************************************************************************)
(* processlock.Acquire: the file is created empty, and what is written     *)
(* reaches it only if it is still the one at the path.                     *)
(***************************************************************************)
Daemon(d, place) == dpc' = [dpc EXCEPT ![d] = place]

CreateLock(d) ==
  /\ dpc[d] = "create"
  /\ IF lock = None
     THEN Daemon(d, "write") /\ lock' = [by |-> d, pid |-> None]
     ELSE Daemon(d, "inspect") /\ UNCHANGED lock
  /\ UNCHANGED <<spc, attempt, sock, signalled>>

WritePid(d) ==
  /\ dpc[d] = "write"
  /\ Daemon(d, "locked")
  /\ lock' = IF lock # None /\ lock.by = d THEN [lock EXCEPT !.pid = d] ELSE lock
  /\ UNCHANGED <<spc, attempt, sock, signalled>>

HeldByLiving == IF lock = None \/ lock.pid = None THEN FALSE ELSE Running(lock.pid)

InspectLock(d) ==
  /\ dpc[d] = "inspect"
  /\ Daemon(d, IF HeldByLiving THEN "gone" ELSE "remove")
  /\ UNCHANGED <<spc, attempt, lock, sock, signalled>>

RemoveLock(d) ==
  /\ dpc[d] = "remove"
  /\ lock' = None
  /\ attempt' = [attempt EXCEPT ![d] = @ + 1]
  /\ Daemon(d, IF attempt[d] = 0 THEN "create" ELSE "gone")
  /\ UNCHANGED <<spc, sock, signalled>>

(***************************************************************************)
(* Serve                                                                   *)
(***************************************************************************)
RemoveSocket(d) ==
  /\ dpc[d] = "locked"
  /\ Daemon(d, "unlinked") /\ sock' = None
  /\ UNCHANGED <<spc, attempt, lock, signalled>>

Listen(d) ==
  /\ dpc[d] = "unlinked"
  /\ IF sock = None
     THEN Daemon(d, "serving") /\ sock' = d
     ELSE Daemon(d, "release") /\ UNCHANGED sock
  /\ UNCHANGED <<spc, attempt, lock, signalled>>

(***************************************************************************)
(* The listener is closed on a signal, a shutdown request, a startup       *)
(* timeout or the end of the last session.  That unlinks the path, whoever *)
(* the socket there belongs to; removeOwnedSocket then finds nothing.      *)
(***************************************************************************)
CloseListener(d) ==
  /\ Serving(d)
  /\ d = Old => d \in signalled
  /\ Daemon(d, "closed") /\ sock' = None
  /\ UNCHANGED <<spc, attempt, lock, signalled>>

EndServe(d) ==
  /\ dpc[d] = "closed"
  /\ Daemon(d, "release")
  /\ UNCHANGED <<spc, attempt, lock, sock, signalled>>

ReleaseLock(d) ==
  /\ dpc[d] = "release"
  /\ Daemon(d, "gone") /\ lock' = None
  /\ UNCHANGED <<spc, attempt, sock, signalled>>

Next ==
  \/ \E s \in Starters :
       Ping(s) \/ Shutdown(s) \/ WaitForRemoval(s) \/ TerminateLegacy(s) \/ Spawn(s) \/ Poll(s)
  \/ \E d \in Daemons :
       \/ CreateLock(d) \/ WritePid(d) \/ InspectLock(d) \/ RemoveLock(d)
       \/ RemoveSocket(d) \/ Listen(d) \/ CloseListener(d) \/ EndServe(d) \/ ReleaseLock(d)

Spec == Init /\ [][Next]_vars

-----------------------------------------------------------------------------
TypeOK ==
  /\ spc \in [Starters -> StarterPlaces]
  /\ dpc \in [Daemons -> DaemonPlaces]
  /\ attempt \in [Daemons -> 0..2]
  /\ lock \in Locks \cup {None}
  /\ sock \in Daemons \cup {None}
  /\ signalled \subseteq Daemons

(***************************************************************************)
(* There is a single local daemon that all terminals share: never do two   *)
(* serve at once.                                                          *)
(***************************************************************************)
OneDaemon == Cardinality({d \in Daemons : Serving(d)}) <= 1
=============================================================================
