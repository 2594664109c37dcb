---------------------------- MODULE ReverseMounts ----------------------------
(***************************************************************************)
(* The directories below which the CLI mounts trees of the server          *)
(* (newRemoteMountManager, cleanupStaleReverseMounts and Close in          *)
(* internal/cli/ssh_bridge_mount.go).  Every session has one, named after  *)
(* the session, with a file .lease that its process keeps locked.  Whoever *)
(* starts a manager first removes the directories that no process holds.   *)
(* The file .cleanup.lock keeps two starts apart, but not a start and an   *)
(* end.                                                                    *)
(*                                                                         *)
(* A directory holds at most one export here, which stands for all of      *)
(* them.  Module MountManager has the requests that lead to its mount.     *)
(***************************************************************************)
EXTENDS Naturals, FiniteSets

CONSTANTS
  Procs,    \* CLI processes; each has its own session
  Jammed,   \* those whose mount cannot be detached from outside
  Faults,   \* what may fail: io (files of the mount root)
  None

ASSUME ReverseMountsAssumption ==
  /\ None \notin Procs /\ Jammed \subseteq Procs /\ Faults \subseteq {"io"}

VARIABLES
  mpc,      \* how far each process's manager is
  dirs,     \* the sessions that have a directory
  flock,    \* who holds the lock on the .lease in each directory
  cleaner,  \* who holds .cleanup.lock
  scan,     \* the directories a start has read and not yet visited
  victim,   \* the directory whose lease it holds now
  export    \* the export in each directory

mounts == <<mpc, dirs, flock, cleaner, scan, victim, export>>

ManagerStates ==
  {"none", "locked", "made", "opened", "leased", "scanning", "ready", "broken",
   "closing", "unlocked", "closed"}

(***************************************************************************)
(* An export is bare between its mkdir and the write of its .mount-path.   *)
(***************************************************************************)
ExportStates == {"none", "bare", "marked", "mounted"}

MountsTypeOK ==
  /\ mpc \in [Procs -> ManagerStates]
  /\ dirs \subseteq Procs
  /\ flock \in [Procs -> Procs \cup {None}]
  /\ cleaner \in Procs \cup {None}
  /\ scan \in [Procs -> SUBSET Procs]
  /\ victim \in [Procs -> Procs \cup {None}]
  /\ export \in [Procs -> ExportStates]

MountsInit ==
  /\ mpc = [p \in Procs |-> "none"]
  /\ dirs = {}
  /\ flock = [p \in Procs |-> None]
  /\ cleaner = None
  /\ scan = [p \in Procs |-> {}]
  /\ victim = [p \in Procs |-> None]
  /\ export = [p \in Procs |-> "none"]

Manager(p, s) == mpc' = [mpc EXCEPT ![p] = s]

-----------------------------------------------------------------------------
(***************************************************************************)
(* newRemoteMountManager                                                   *)
(***************************************************************************)
\* Mutant: two starts are not kept apart.
AnyTime(p) == TRUE

CleanupFree(p) == cleaner = None

LockCleanup(p) ==
  /\ mpc[p] = "none"
  /\ \/ CleanupFree(p) /\ cleaner' = p /\ Manager(p, "locked")
     \/ "io" \in Faults /\ Manager(p, "broken") /\ UNCHANGED cleaner
  /\ UNCHANGED <<dirs, flock, scan, victim, export>>

Unlocked(p) == IF cleaner = p THEN None ELSE cleaner

MakeDirectory(p) ==
  /\ mpc[p] = "locked"
  /\ Manager(p, "made") /\ dirs' = dirs \cup {p}
  /\ UNCHANGED <<flock, cleaner, scan, victim, export>>

OpenLease(p) ==
  /\ mpc[p] = "made"
  /\ IF p \in dirs
     THEN Manager(p, "opened") /\ UNCHANGED cleaner
     ELSE Manager(p, "broken") /\ cleaner' = Unlocked(p)
  /\ UNCHANGED <<dirs, flock, scan, victim, export>>

(***************************************************************************)
(* A file that is gone in the meantime can still be locked, and the lock   *)
(* then protects nothing.                                                  *)
(***************************************************************************)
LockLease(p) ==
  /\ mpc[p] = "opened"
  /\ IF p \in dirs /\ flock[p] # None
     THEN Manager(p, "broken") /\ cleaner' = Unlocked(p) /\ UNCHANGED flock
     ELSE /\ Manager(p, "leased")
          /\ flock' = [flock EXCEPT ![p] = IF p \in dirs THEN p ELSE None]
          /\ UNCHANGED cleaner
  /\ UNCHANGED <<dirs, scan, victim, export>>

(***************************************************************************)
(* cleanupStaleReverseMounts                                               *)
(***************************************************************************)
ReadRoot(p) ==
  /\ mpc[p] = "leased"
  /\ Manager(p, "scanning") /\ scan' = [scan EXCEPT ![p] = dirs \ {p}]
  /\ UNCHANGED <<dirs, flock, cleaner, victim, export>>

Stale(s) == s \in dirs /\ flock[s] = None

Visit(p, s) ==
  /\ mpc[p] = "scanning" /\ victim[p] = None /\ s \in scan[p]
  /\ scan' = [scan EXCEPT ![p] = @ \ {s}]
  /\ IF Stale(s)
     THEN /\ flock' = [flock EXCEPT ![s] = p] /\ victim' = [victim EXCEPT ![p] = s]
     ELSE UNCHANGED <<flock, victim>>
  /\ UNCHANGED <<mpc, dirs, cleaner, export>>

Leave(p) ==
  /\ flock' = [flock EXCEPT ![victim[p]] = None]
  /\ victim' = [victim EXCEPT ![p] = None]

(***************************************************************************)
(* The process that served the mount is dead, so os.Stat of the mount      *)
(* point fails: the mount is detached all the same.                        *)
(***************************************************************************)
\* Mutant: a mount point that os.Stat cannot read is left alone.
DetachableIfStat(s) == FALSE

Detachable(s) == s \notin Jammed

DetachStale(p) ==
  /\ victim[p] # None /\ export[victim[p]] = "mounted" /\ Detachable(victim[p])
  /\ export' = [export EXCEPT ![victim[p]] = "marked"]
  /\ UNCHANGED <<mpc, dirs, flock, cleaner, scan, victim>>

KeepStale(p) ==
  /\ victim[p] # None
  /\ \/ export[victim[p]] = "bare"
     \/ export[victim[p]] = "mounted" /\ ~Detachable(victim[p])
  /\ Leave(p)
  /\ UNCHANGED <<mpc, dirs, cleaner, scan, export>>

RemoveStale(p) ==
  /\ victim[p] # None /\ export[victim[p]] \in {"none", "marked"}
  /\ dirs' = dirs \ {victim[p]}
  /\ export' = [export EXCEPT ![victim[p]] = "none"]
  /\ Leave(p)
  /\ UNCHANGED <<mpc, cleaner, scan>>

CleanupEnds(p) ==
  /\ mpc[p] = "scanning" /\ victim[p] = None /\ scan[p] = {}
  /\ Manager(p, "ready") /\ cleaner' = Unlocked(p)
  /\ UNCHANGED <<dirs, flock, scan, victim, export>>

StartManager(p) ==
  \/ LockCleanup(p) \/ MakeDirectory(p) \/ OpenLease(p) \/ LockLease(p) \/ ReadRoot(p)
  \/ \E s \in Procs : Visit(p, s)
  \/ DetachStale(p) \/ KeepStale(p) \/ RemoveStale(p) \/ CleanupEnds(p)

-----------------------------------------------------------------------------
(***************************************************************************)
(* OnMount and SetupMountPoint, OnUnmount, and Close.                      *)
(***************************************************************************)
Export(p, from, to) ==
  /\ export[p] = from
  /\ export' = [export EXCEPT ![p] = to]
  /\ UNCHANGED <<mpc, dirs, flock, cleaner, scan, victim>>

MountBegins(p) == mpc[p] = "ready" /\ Export(p, "none", "bare")
MountGoesOn(p) ==
  /\ mpc[p] \in {"ready", "closing"}
  /\ \/ Export(p, "bare", "marked") \/ Export(p, "marked", "mounted") \/ Export(p, "marked", "none")
MountEnds(p) == mpc[p] = "ready" /\ Export(p, "mounted", "none")

CloseBegins(p) ==
  /\ Manager(p, "closing")
  /\ UNCHANGED <<dirs, flock, cleaner, scan, victim, export>>

CloseUnlocks(p) ==
  /\ mpc[p] = "closing" /\ export[p] \in {"none", "mounted"}
  /\ Manager(p, "unlocked")
  /\ export' = [export EXCEPT ![p] = "none"]
  /\ flock' = [s \in Procs |-> IF s = p /\ flock[s] = p THEN None ELSE flock[s]]
  /\ UNCHANGED <<dirs, cleaner, scan, victim>>

CloseRemoves(p) ==
  /\ mpc[p] = "unlocked"
  /\ Manager(p, "closed") /\ dirs' = dirs \ {p}
  /\ UNCHANGED <<flock, cleaner, scan, victim, export>>

(***************************************************************************)
(* The kernel takes back every lock of a process that ends.                *)
(***************************************************************************)
LocksFreed(p) ==
  /\ flock' = [s \in Procs |-> IF flock[s] = p THEN None ELSE flock[s]]
  /\ cleaner' = Unlocked(p)
  /\ scan' = [scan EXCEPT ![p] = {}] /\ victim' = [victim EXCEPT ![p] = None]
  /\ UNCHANGED <<mpc, dirs, export>>
=============================================================================
