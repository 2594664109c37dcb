------------------------ MODULE BridgeSessionProofs ------------------------
(***************************************************************************)
(* Proofs about BridgeSession for any number of processes that share a     *)
(* mount root and may be killed, and any configurations.                   *)
(***************************************************************************)
EXTENDS BridgeSession, TLAPS

(***************************************************************************)
(* What a process has opened when it is at a place: every step either took *)
(* its part or left the start of the session.                              *)
(***************************************************************************)
AfterMaster == {"server", "ssh", "lease", "mux", "manager", "handshake", "connect", "mount",
     "tunnel", "command"}
AfterLease == {"mux", "manager", "handshake", "connect", "mount", "tunnel", "command"}
AfterClient == {"handshake", "connect", "mount", "tunnel", "command"}

Acquired ==
  \A p \in Procs :
    /\ pc[p] \in AfterMaster /\ mode[p].strict => "master" \in opened[p]
    /\ pc[p] \in AfterLease \cup {"lease"} => "ssh" \in opened[p]
    /\ pc[p] \in AfterLease /\ Has(p, "forward") => "lease" \in opened[p]
    /\ pc[p] \in AfterClient => "client" \in opened[p]
    /\ pc[p] \in {"mount", "tunnel", "command"} /\ Has(p, "remotefs") => "peer" \in opened[p]
    /\ pc[p] \in {"tunnel", "command"} /\ Has(p, "remotefs") => "mount" \in opened[p]
    /\ pc[p] = "command" /\ Has(p, "proxy") /\ mode[p].strict => "tunnel" \in opened[p]

(***************************************************************************)
(* What a process may hold at a place: this bounds what an error has to    *)
(* take back before ssh runs alone.                                        *)
(***************************************************************************)
Bounded ==
  \A p \in Procs :
    /\ pc[p] \in {"master", "server", "ssh"} => held[p] \subseteq {"master"}
    /\ pc[p] = "lease" => held[p] \subseteq {"master", "ssh"}
    /\ pc[p] \in {"mux", "manager"} => held[p] \subseteq {"master", "ssh", "lease"}
    /\ pc[p] \in {"handshake", "connect"} => held[p] \subseteq {"master", "ssh", "lease", "client"}
    /\ pc[p] \in {"mount", "undo"} => Has(p, "remotefs")
    /\ pc[p] = "plain" =>
         ~mode[p].strict /\ ~Has(p, "remotefs") /\ held[p] \subseteq {"master", "client"}

(***************************************************************************)
(* A process that starts its manager has .cleanup.lock; one that visits a  *)
(* directory holds the lease there; the directory of a process that has    *)
(* made it is there, and its lease is the process's own once it is locked. *)
(***************************************************************************)
Starting == {"locked", "made", "opened", "leased", "scanning"}

OneStart ==
  \A p \in Procs : Alive(p) /\ mpc[p] \in Starting =>
    pc[p] = "manager" /\ Has(p, "remotefs") /\ cleaner = p

VisitsLocked ==
  \A p \in Procs :
    /\ p \notin scan[p]
    /\ victim[p] # None =>
         Alive(p) /\ mpc[p] = "scanning" /\ victim[p] # p /\ flock[victim[p]] = p

OwnDirectory ==
  \A p \in Procs :
    /\ Alive(p) /\ mpc[p] \in {"made", "opened", "leased", "scanning", "ready"} => p \in dirs
    /\ Alive(p) /\ mpc[p] \in {"leased", "scanning", "ready"} => flock[p] = p

Types == TypeOK /\ mode \in [Procs -> UNION {Modes[p] : p \in Procs}]
Parts == Acquired /\ Bounded
Directories == OneStart /\ VisitsLocked /\ OwnDirectory
IInv == Types /\ Parts /\ Directories

-----------------------------------------------------------------------------
LEMMA InitInv == Init => IInv
<1> USE ReverseMountsAssumption, SessionAssumption
<1> SUFFICES ASSUME Init PROVE IInv OBVIOUS
<1>1. Types
  BY DEF Init, MountsInit, Types, TypeOK, MountsTypeOK, ManagerStates, ExportStates, Places, Resources
<1>2. Parts
  BY DEF Init, Parts, Acquired, Bounded, AfterMaster, AfterLease, AfterClient
<1>3. Directories
  BY DEF Init, MountsInit, Directories, OneStart, VisitsLocked, OwnDirectory, Starting
<1> QED BY <1>1, <1>2, <1>3 DEF IInv

-----------------------------------------------------------------------------
(***************************************************************************)
(* The three ways in which a step of the start ends keep the types.        *)
(***************************************************************************)
LEMMA TakeTypes ==
  ASSUME Types, NEW p \in Procs, NEW r \in Resources, NEW place \in Places, Take(p, r, place)
  PROVE  Types'
<1>1. held' \in [Procs -> SUBSET Resources] /\ opened' \in [Procs -> SUBSET Resources]
  BY DEF Types, TypeOK, Take
<1>2. pc' \in [Procs -> Places] BY DEF Types, TypeOK, Take, Go
<1> QED BY <1>1, <1>2 DEF Types, TypeOK, MountsTypeOK, mounts, Take

LEMMA SkipTypes ==
  ASSUME Types, NEW p \in Procs, NEW place \in Places, Skip(p, place)
  PROVE  Types'
BY DEF Types, TypeOK, MountsTypeOK, mounts, Skip, Go

LEMMA FailsTypes ==
  ASSUME Types, NEW p \in Procs, NEW rs, Fails(p, rs)
  PROVE  Types'
<1>1. held' \in [Procs -> SUBSET Resources] /\ over' \in [Procs -> BOOLEAN]
  BY DEF Types, TypeOK, Fails
<1>2. pc' \in [Procs -> Places] BY DEF Types, TypeOK, Fails, Go, Fallback, Places
<1> QED BY <1>1, <1>2 DEF Types, TypeOK, MountsTypeOK, mounts, Fails

-----------------------------------------------------------------------------
(***************************************************************************)
(* One step per action.  A cancelled bridgeCtx or the end of ssh only ends *)
(* what may end at any time: SSHKilled, ClientFollows and PeerFollows are  *)
(* instances of SSHEnds, ClientEnds and PeerEnds.                          *)
(***************************************************************************)
LEMMA TypesStep ==
  ASSUME Types, [Next]_vars
  PROVE  Types'
<1> USE ReverseMountsAssumption DEF Types, TypeOK, MountsTypeOK, mounts, Go, Places, Resources,
     ManagerStates, ExportStates
<1>1. ASSUME NEW p \in Procs, StartMaster(p) PROVE Types'
  BY <1>1, TakeTypes, SkipTypes DEF StartMaster, MasterStarts
<1>2. ASSUME NEW p \in Procs, Prepare(p) PROVE Types'
  BY <1>2, SkipTypes DEF Prepare, Fallback
<1>3. ASSUME NEW p \in Procs, StartSSH(p) PROVE Types'
  BY <1>3, TakeTypes, FailsTypes DEF StartSSH
<1>4. ASSUME NEW p \in Procs, OpenSession(p) PROVE Types'
  BY <1>4, TakeTypes, FailsTypes, SkipTypes DEF OpenSession, LeaseOpens
<1>5. ASSUME NEW p \in Procs, OpenMux(p) PROVE Types'
  BY <1>5, FailsTypes, SkipTypes DEF OpenMux
<1>6. ASSUME NEW p \in Procs, NewManager(p) PROVE Types'
  <2>1. CASE LockCleanup(p)
    BY <1>6, <2>1 DEF NewManager, LockCleanup, CleanupFree, Manager
  <2>2. CASE MakeDirectory(p)
    BY <1>6, <2>2 DEF NewManager, MakeDirectory, Manager
  <2>3. CASE OpenLease(p)
    BY <1>6, <2>3 DEF NewManager, OpenLease, Unlocked, Manager
  <2>4. CASE LockLease(p)
    <3>1. mpc' \in [Procs -> ManagerStates] /\ cleaner' \in Procs \cup {None}
      BY SMTT(30), <2>4 DEF LockLease, Unlocked, Manager
    <3>2. flock' \in [Procs -> Procs \cup {None}] BY <2>4 DEF LockLease
    <3> QED BY <1>6, <2>4, <3>1, <3>2 DEF NewManager, LockLease
  <2>5. CASE ReadRoot(p)
    BY <1>6, <2>5 DEF NewManager, ReadRoot, Manager
  <2>6. ASSUME NEW s \in Procs, Visit(p, s) PROVE Types'
    <3>1. flock' \in [Procs -> Procs \cup {None}] /\ victim' \in [Procs -> Procs \cup {None}]
      BY SMTT(30), <2>6 DEF Visit
    <3>2. scan' \in [Procs -> SUBSET Procs] BY <2>6 DEF Visit
    <3> QED BY <1>6, <2>6, <3>1, <3>2 DEF NewManager, Visit
  <2>7. CASE DetachStale(p)
    BY <1>6, <2>7 DEF NewManager, DetachStale
  <2>8. CASE KeepStale(p)
    BY <1>6, <2>8 DEF NewManager, KeepStale, Leave
  <2>9. CASE RemoveStale(p)
    BY <1>6, <2>9 DEF NewManager, RemoveStale, Leave
  <2>10. CASE CleanupEnds(p)
    BY <1>6, <2>10 DEF NewManager, CleanupEnds, Unlocked, Manager
    <2> QED BY <1>6, <2>1, <2>2, <2>3, <2>4, <2>5, <2>6, <2>7, <2>8, <2>9, <2>10 DEF NewManager,
       StartManager
<1>7. ASSUME NEW p \in Procs, StartClient(p) PROVE Types'
  BY <1>7, TakeTypes DEF StartClient
<1>8. ASSUME NEW p \in Procs, Handshake(p) PROVE Types'
  BY <1>8, FailsTypes, SkipTypes DEF Handshake
<1>9. ASSUME NEW p \in Procs, Connect(p) PROVE Types'
  BY <1>9, TakeTypes, FailsTypes, SkipTypes DEF Connect
<1>10. ASSUME NEW p \in Procs, MountWorkspace(p) PROVE Types'
  <2>1. CASE Take(p, "mount", "tunnel") BY <2>1, TakeTypes
  <2>2. CASE Go(p, "undo") /\ CloseBegins(p) /\ UNCHANGED <<mode, held, opened, over>>
    BY <2>2 DEF CloseBegins, Manager
  <2> QED BY <1>10, <2>1, <2>2 DEF MountWorkspace
<1>11. ASSUME NEW p \in Procs, UndoEnds(p) PROVE Types'
  BY <1>11, FailsTypes DEF UndoEnds
<1>12. ASSUME NEW p \in Procs, StartTunnel(p) PROVE Types'
  BY <1>12, TakeTypes, FailsTypes, SkipTypes DEF StartTunnel, TunnelOpens
<1>13. ASSUME NEW p \in Procs, CommandKilled(p) PROVE Types'
  BY <1>13, SkipTypes DEF CommandKilled
<1>14. ASSUME NEW p \in Procs, StopPeer(p) PROVE Types'
  BY <1>14 DEF StopPeer, CloseBegins, Manager
<1>15. ASSUME NEW p \in Procs, CloseManager(p) PROVE Types'
  <2>1. CASE CloseUnlocks(p)
    <3>1. flock' \in [Procs -> Procs \cup {None}] BY <2>1 DEF CloseUnlocks
    <3> QED BY <1>15, <2>1, <3>1 DEF CloseManager, CloseUnlocks, Manager
  <2>2. CASE CloseRemoves(p) BY <1>15, <2>2 DEF CloseManager, CloseRemoves, Manager
  <2> QED BY <1>15, <2>1, <2>2 DEF CloseManager
<1>16. ASSUME NEW p \in Procs, StopRest(p) PROVE Types'
  BY <1>16 DEF StopRest
<1>17. ASSUME NEW p \in Procs, Exit(p) PROVE Types'
  BY <1>17 DEF Exit, Ends, LocksFreed, Unlocked
<1>18. ASSUME NEW p \in Procs, SSHEnds(p) PROVE Types'
  BY <1>18 DEF SSHEnds, Loses
<1>19. ASSUME NEW p \in Procs, LeaseLost(p) PROVE Types'
  BY <1>19 DEF LeaseLost, Loses
<1>20. ASSUME NEW p \in Procs, PeerEnds(p) PROVE Types'
  BY <1>20 DEF PeerEnds, Loses
<1>21. ASSUME NEW p \in Procs, ClientEnds(p) PROVE Types'
  BY <1>21 DEF ClientEnds, Loses
<1>22. ASSUME NEW p \in Procs, ClientCloses(p) PROVE Types'
  BY <1>22 DEF ClientCloses, Loses
<1>23. ASSUME NEW p \in Procs, Watch(p) PROVE Types'
  BY <1>23 DEF Watch
<1>24. ASSUME NEW p \in Procs, ServerUnmounts(p) PROVE Types'
  BY <1>24 DEF ServerUnmounts, Loses
<1>25. ASSUME NEW p \in Procs, ReverseMount(p) PROVE Types'
  BY <1>25 DEF ReverseMount, MountBegins, MountEnds, Export
<1>26. ASSUME NEW p \in Procs, ReverseMountGoesOn(p) PROVE Types'
  BY <1>26 DEF ReverseMountGoesOn, MountGoesOn, Export
<1>27. ASSUME NEW p \in Procs, CommandEnds(p) PROVE Types'
  BY <1>27, SkipTypes DEF CommandEnds
<1>28. ASSUME NEW p \in Procs, Kill(p) PROVE Types'
  BY <1>28 DEF Kill, Ends, LocksFreed, Unlocked
<1>29. CASE UNCHANGED vars
  BY <1>29 DEF vars, mounts
<1> QED
    BY <1>1, <1>2, <1>3, <1>4, <1>5, <1>6, <1>7, <1>8, <1>9, <1>10, <1>11, <1>12, <1>13, <1>14,
     <1>15, <1>16, <1>17, <1>18, <1>19, <1>20, <1>21, <1>22, <1>23, <1>24, <1>25, <1>26, <1>27,
     <1>28, <1>29
  DEF Next, Step, Background, Environment, SSHKilled, ClientFollows, PeerFollows

LEMMA AcquiredStep ==
  ASSUME Types, Acquired, [Next]_vars
  PROVE  Acquired'
<1> USE DEF Types, TypeOK, Acquired, AfterMaster, AfterLease, AfterClient, Go, Has, Refuses, Places
<1>1. ASSUME NEW p \in Procs, StartMaster(p) PROVE Acquired'
  BY <1>1 DEF StartMaster, MasterStarts, Take, Skip
<1>2. ASSUME NEW p \in Procs, Prepare(p) PROVE Acquired'
  BY <1>2 DEF Prepare, Skip, Fallback
<1>3. ASSUME NEW p \in Procs, StartSSH(p) PROVE Acquired'
  BY <1>3 DEF StartSSH, Take, Fails, Fallback
<1>4. ASSUME NEW p \in Procs, OpenSession(p) PROVE Acquired'
  BY <1>4 DEF OpenSession, LeaseOpens, Take, Fails, Fallback, Skip
<1>5. ASSUME NEW p \in Procs, OpenMux(p) PROVE Acquired'
  BY <1>5 DEF OpenMux, Skip, Fails, Fallback
<1>6. ASSUME NEW p \in Procs, NewManager(p) PROVE Acquired'
  BY <1>6 DEF NewManager
<1>7. ASSUME NEW p \in Procs, StartClient(p) PROVE Acquired'
  BY <1>7 DEF StartClient, Take
<1>8. ASSUME NEW p \in Procs, Handshake(p) PROVE Acquired'
  BY <1>8 DEF Handshake, HandshakeFailed, Skip, Fails, Fallback
<1>9. ASSUME NEW p \in Procs, Connect(p) PROVE Acquired'
  BY <1>9 DEF Connect, Take, Fails, Fallback, Skip
<1>10. ASSUME NEW p \in Procs, MountWorkspace(p) PROVE Acquired'
  BY <1>10 DEF MountWorkspace, Take, CloseBegins, Manager
<1>11. ASSUME NEW p \in Procs, UndoEnds(p) PROVE Acquired'
  BY <1>11 DEF UndoEnds, Fails, Fallback
<1>12. ASSUME NEW p \in Procs, StartTunnel(p) PROVE Acquired'
  BY <1>12 DEF StartTunnel, WantsTunnel, TunnelOpens, MustHaveTunnel, Take, Fails, Fallback, Skip
<1>13. ASSUME NEW p \in Procs, CommandKilled(p) PROVE Acquired'
  BY <1>13 DEF CommandKilled, Skip
<1>14. ASSUME NEW p \in Procs, StopPeer(p) PROVE Acquired'
  BY <1>14 DEF StopPeer, CloseBegins, Manager
<1>15. ASSUME NEW p \in Procs, CloseManager(p) PROVE Acquired'
  BY <1>15 DEF CloseManager, CloseUnlocks, CloseRemoves, Manager
<1>16. ASSUME NEW p \in Procs, StopRest(p) PROVE Acquired'
  BY <1>16 DEF StopRest
<1>17. ASSUME NEW p \in Procs, Exit(p) PROVE Acquired'
  BY <1>17 DEF Exit, Ends, LocksFreed, Unlocked
<1>18. ASSUME NEW p \in Procs, SSHEnds(p) PROVE Acquired'
  BY <1>18 DEF SSHEnds, Loses
<1>19. ASSUME NEW p \in Procs, LeaseLost(p) PROVE Acquired'
  BY <1>19 DEF LeaseLost, Loses
<1>20. ASSUME NEW p \in Procs, PeerEnds(p) PROVE Acquired'
  BY <1>20 DEF PeerEnds, Loses
<1>21. ASSUME NEW p \in Procs, ClientEnds(p) PROVE Acquired'
  BY <1>21 DEF ClientEnds, Loses
<1>22. ASSUME NEW p \in Procs, ClientCloses(p) PROVE Acquired'
  BY <1>22 DEF ClientCloses, Loses
<1>23. ASSUME NEW p \in Procs, Watch(p) PROVE Acquired'
  BY <1>23 DEF Watch
<1>24. ASSUME NEW p \in Procs, ServerUnmounts(p) PROVE Acquired'
  BY <1>24 DEF ServerUnmounts, Loses
<1>25. ASSUME NEW p \in Procs, ReverseMount(p) PROVE Acquired'
  BY <1>25 DEF ReverseMount, MountBegins, MountEnds, Export
<1>26. ASSUME NEW p \in Procs, ReverseMountGoesOn(p) PROVE Acquired'
  BY <1>26 DEF ReverseMountGoesOn, MountGoesOn, Export
<1>27. ASSUME NEW p \in Procs, CommandEnds(p) PROVE Acquired'
  BY <1>27 DEF CommandEnds, Skip
<1>28. ASSUME NEW p \in Procs, Kill(p) PROVE Acquired'
  BY <1>28 DEF Kill, Ends, LocksFreed, Unlocked
<1>29. CASE UNCHANGED vars
  BY <1>29 DEF vars, mounts
<1> QED
    BY <1>1, <1>2, <1>3, <1>4, <1>5, <1>6, <1>7, <1>8, <1>9, <1>10, <1>11, <1>12, <1>13, <1>14,
     <1>15, <1>16, <1>17, <1>18, <1>19, <1>20, <1>21, <1>22, <1>23, <1>24, <1>25, <1>26, <1>27,
     <1>28, <1>29
  DEF Next, Step, Background, Environment, SSHKilled, ClientFollows, PeerFollows

LEMMA BoundedStep ==
  ASSUME Types, Bounded, [Next]_vars
  PROVE  Bounded'
<1> USE DEF Types, TypeOK, Bounded, Go, Has, Refuses, Places, Alive
<1>1. ASSUME NEW p \in Procs, StartMaster(p) PROVE Bounded'
  BY <1>1 DEF StartMaster, MasterStarts, Take, Skip
<1>2. ASSUME NEW p \in Procs, Prepare(p) PROVE Bounded'
  BY <1>2 DEF Prepare, Skip, Fallback
<1>3. ASSUME NEW p \in Procs, StartSSH(p) PROVE Bounded'
  BY <1>3 DEF StartSSH, Take, Fails, Fallback
<1>4. ASSUME NEW p \in Procs, OpenSession(p) PROVE Bounded'
  BY <1>4 DEF OpenSession, LeaseOpens, Take, Fails, Fallback, Skip
<1>5. ASSUME NEW p \in Procs, OpenMux(p) PROVE Bounded'
  BY <1>5 DEF OpenMux, Skip, Fails, Fallback
<1>6. ASSUME NEW p \in Procs, NewManager(p) PROVE Bounded'
  BY <1>6 DEF NewManager
<1>7. ASSUME NEW p \in Procs, StartClient(p) PROVE Bounded'
  BY <1>7 DEF StartClient, Take
<1>8. ASSUME NEW p \in Procs, Handshake(p) PROVE Bounded'
  BY <1>8 DEF Handshake, HandshakeFailed, Skip, Fails, Fallback
<1>9. ASSUME NEW p \in Procs, Connect(p) PROVE Bounded'
  BY <1>9 DEF Connect, Take, Fails, Fallback, Skip
<1>10. ASSUME NEW p \in Procs, MountWorkspace(p) PROVE Bounded'
  BY <1>10 DEF MountWorkspace, Take, CloseBegins, Manager
<1>11. ASSUME NEW p \in Procs, UndoEnds(p) PROVE Bounded'
  BY <1>11 DEF UndoEnds, Fails, Fallback
<1>12. ASSUME NEW p \in Procs, StartTunnel(p) PROVE Bounded'
  BY <1>12 DEF StartTunnel, WantsTunnel, TunnelOpens, MustHaveTunnel, Take, Fails, Fallback, Skip
<1>13. ASSUME NEW p \in Procs, CommandKilled(p) PROVE Bounded'
  BY <1>13 DEF CommandKilled, Skip
<1>14. ASSUME NEW p \in Procs, StopPeer(p) PROVE Bounded'
  BY <1>14 DEF StopPeer, CloseBegins, Manager
<1>15. ASSUME NEW p \in Procs, CloseManager(p) PROVE Bounded'
  BY <1>15 DEF CloseManager, CloseUnlocks, CloseRemoves, Manager
<1>16. ASSUME NEW p \in Procs, StopRest(p) PROVE Bounded'
  BY <1>16 DEF StopRest
<1>17. ASSUME NEW p \in Procs, Exit(p) PROVE Bounded'
  BY <1>17 DEF Exit, Ends, LocksFreed, Unlocked
<1>18. ASSUME NEW p \in Procs, SSHEnds(p) PROVE Bounded'
  BY <1>18 DEF SSHEnds, Loses
<1>19. ASSUME NEW p \in Procs, LeaseLost(p) PROVE Bounded'
  BY <1>19 DEF LeaseLost, Loses
<1>20. ASSUME NEW p \in Procs, PeerEnds(p) PROVE Bounded'
  BY <1>20 DEF PeerEnds, Loses
<1>21. ASSUME NEW p \in Procs, ClientEnds(p) PROVE Bounded'
  BY <1>21 DEF ClientEnds, Loses
<1>22. ASSUME NEW p \in Procs, ClientCloses(p) PROVE Bounded'
  BY <1>22 DEF ClientCloses, Loses
<1>23. ASSUME NEW p \in Procs, Watch(p) PROVE Bounded'
  BY <1>23 DEF Watch
<1>24. ASSUME NEW p \in Procs, ServerUnmounts(p) PROVE Bounded'
  BY <1>24 DEF ServerUnmounts, Loses
<1>25. ASSUME NEW p \in Procs, ReverseMount(p) PROVE Bounded'
  BY <1>25 DEF ReverseMount, MountBegins, MountEnds, Export
<1>26. ASSUME NEW p \in Procs, ReverseMountGoesOn(p) PROVE Bounded'
  BY <1>26 DEF ReverseMountGoesOn, MountGoesOn, Export
<1>27. ASSUME NEW p \in Procs, CommandEnds(p) PROVE Bounded'
  BY <1>27 DEF CommandEnds, Skip
<1>28. ASSUME NEW p \in Procs, Kill(p) PROVE Bounded'
  BY <1>28 DEF Kill, Ends, LocksFreed, Unlocked
<1>29. CASE UNCHANGED vars
  BY <1>29 DEF vars, mounts
<1> QED
    BY <1>1, <1>2, <1>3, <1>4, <1>5, <1>6, <1>7, <1>8, <1>9, <1>10, <1>11, <1>12, <1>13, <1>14,
     <1>15, <1>16, <1>17, <1>18, <1>19, <1>20, <1>21, <1>22, <1>23, <1>24, <1>25, <1>26, <1>27,
     <1>28, <1>29
  DEF Next, Step, Background, Environment, SSHKilled, ClientFollows, PeerFollows

LEMMA OneStartStep ==
  ASSUME Types, Bounded, OneStart, [Next]_vars
  PROVE  OneStart'
<1> USE ReverseMountsAssumption DEF Types, TypeOK, MountsTypeOK, mounts, Go, Has, Alive, Places,
     Starting, OneStart
<1>1. ASSUME NEW p \in Procs, StartMaster(p) PROVE OneStart'
  BY <1>1 DEF StartMaster, MasterStarts, Take, Skip
<1>2. ASSUME NEW p \in Procs, Prepare(p) PROVE OneStart'
  BY <1>2 DEF Prepare, Skip, Fallback
<1>3. ASSUME NEW p \in Procs, StartSSH(p) PROVE OneStart'
  BY <1>3 DEF StartSSH, Take, Fails, Fallback
<1>4. ASSUME NEW p \in Procs, OpenSession(p) PROVE OneStart'
  BY <1>4 DEF OpenSession, LeaseOpens, Take, Fails, Fallback, Skip
<1>5. ASSUME NEW p \in Procs, OpenMux(p) PROVE OneStart'
  BY <1>5 DEF OpenMux, Skip, Fails, Fallback
<1>6. ASSUME NEW p \in Procs, NewManager(p) PROVE OneStart'
  <2>1. CASE LockCleanup(p)
    BY <1>6, <2>1 DEF NewManager, LockCleanup, CleanupFree, Manager
  <2>2. CASE MakeDirectory(p)
    BY <1>6, <2>2 DEF NewManager, MakeDirectory, Manager
  <2>3. CASE OpenLease(p)
    BY <1>6, <2>3 DEF NewManager, OpenLease, Unlocked, Manager
  <2>4. CASE LockLease(p)
    BY <1>6, <2>4 DEF NewManager, LockLease, Unlocked, Manager
  <2>5. CASE ReadRoot(p)
    BY <1>6, <2>5 DEF NewManager, ReadRoot, Manager
  <2>6. ASSUME NEW s \in Procs, Visit(p, s) PROVE OneStart'
    BY <1>6, <2>6 DEF NewManager, Visit, Stale
  <2>7. CASE DetachStale(p)
    BY <1>6, <2>7 DEF NewManager, DetachStale
  <2>8. CASE KeepStale(p)
    BY <1>6, <2>8 DEF NewManager, KeepStale, Leave
  <2>9. CASE RemoveStale(p)
    BY <1>6, <2>9 DEF NewManager, RemoveStale, Leave
  <2>10. CASE CleanupEnds(p)
    BY <1>6, <2>10 DEF NewManager, CleanupEnds, Unlocked, Manager
    <2> QED BY <1>6, <2>1, <2>2, <2>3, <2>4, <2>5, <2>6, <2>7, <2>8, <2>9, <2>10 DEF NewManager,
       StartManager
<1>7. ASSUME NEW p \in Procs, StartClient(p) PROVE OneStart'
  BY <1>7 DEF StartClient, Take
<1>8. ASSUME NEW p \in Procs, Handshake(p) PROVE OneStart'
  BY <1>8 DEF Handshake, HandshakeFailed, Skip, Fails, Fallback
<1>9. ASSUME NEW p \in Procs, Connect(p) PROVE OneStart'
  BY <1>9 DEF Connect, Take, Fails, Fallback, Skip
<1>10. ASSUME NEW p \in Procs, MountWorkspace(p) PROVE OneStart'
  BY <1>10 DEF MountWorkspace, Take, CloseBegins, Manager, Bounded
<1>11. ASSUME NEW p \in Procs, UndoEnds(p) PROVE OneStart'
  BY <1>11 DEF UndoEnds, Fails, Fallback
<1>12. ASSUME NEW p \in Procs, StartTunnel(p) PROVE OneStart'
  BY <1>12 DEF StartTunnel, WantsTunnel, TunnelOpens, MustHaveTunnel, Take, Fails, Fallback, Skip
<1>13. ASSUME NEW p \in Procs, CommandKilled(p) PROVE OneStart'
  BY <1>13 DEF CommandKilled, Skip
<1>14. ASSUME NEW p \in Procs, StopPeer(p) PROVE OneStart'
  BY <1>14 DEF StopPeer, CloseBegins, Manager
<1>15. ASSUME NEW p \in Procs, CloseManager(p) PROVE OneStart'
  BY <1>15 DEF CloseManager, CloseUnlocks, CloseRemoves, Manager
<1>16. ASSUME NEW p \in Procs, StopRest(p) PROVE OneStart'
  BY <1>16 DEF StopRest
<1>17. ASSUME NEW p \in Procs, Exit(p) PROVE OneStart'
  BY <1>17 DEF Exit, Ends, LocksFreed, Unlocked
<1>18. ASSUME NEW p \in Procs, SSHEnds(p) PROVE OneStart'
  BY <1>18 DEF SSHEnds, Loses
<1>19. ASSUME NEW p \in Procs, LeaseLost(p) PROVE OneStart'
  BY <1>19 DEF LeaseLost, Loses
<1>20. ASSUME NEW p \in Procs, PeerEnds(p) PROVE OneStart'
  BY <1>20 DEF PeerEnds, Loses
<1>21. ASSUME NEW p \in Procs, ClientEnds(p) PROVE OneStart'
  BY <1>21 DEF ClientEnds, Loses
<1>22. ASSUME NEW p \in Procs, ClientCloses(p) PROVE OneStart'
  BY <1>22 DEF ClientCloses, Loses
<1>23. ASSUME NEW p \in Procs, Watch(p) PROVE OneStart'
  BY <1>23 DEF Watch
<1>24. ASSUME NEW p \in Procs, ServerUnmounts(p) PROVE OneStart'
  BY <1>24 DEF ServerUnmounts, Loses
<1>25. ASSUME NEW p \in Procs, ReverseMount(p) PROVE OneStart'
  BY <1>25 DEF ReverseMount, MountBegins, MountEnds, Export
<1>26. ASSUME NEW p \in Procs, ReverseMountGoesOn(p) PROVE OneStart'
  BY <1>26 DEF ReverseMountGoesOn, MountGoesOn, Export
<1>27. ASSUME NEW p \in Procs, CommandEnds(p) PROVE OneStart'
  BY <1>27 DEF CommandEnds, Skip
<1>28. ASSUME NEW p \in Procs, Kill(p) PROVE OneStart'
  BY <1>28 DEF Kill, Ends, LocksFreed, Unlocked
<1>29. CASE UNCHANGED vars
  BY <1>29 DEF vars, mounts
<1> QED
    BY <1>1, <1>2, <1>3, <1>4, <1>5, <1>6, <1>7, <1>8, <1>9, <1>10, <1>11, <1>12, <1>13, <1>14,
     <1>15, <1>16, <1>17, <1>18, <1>19, <1>20, <1>21, <1>22, <1>23, <1>24, <1>25, <1>26, <1>27,
     <1>28, <1>29
  DEF Next, Step, Background, Environment, SSHKilled, ClientFollows, PeerFollows

LEMMA VisitsStep ==
  ASSUME Types, OneStart, VisitsLocked, [Next]_vars
  PROVE  VisitsLocked'
<1> USE ReverseMountsAssumption DEF Types, TypeOK, MountsTypeOK, mounts, Go, Has, Alive, Places,
     Starting, OneStart, VisitsLocked
<1>1. ASSUME NEW p \in Procs, StartMaster(p) PROVE VisitsLocked'
  BY <1>1 DEF StartMaster, MasterStarts, Take, Skip
<1>2. ASSUME NEW p \in Procs, Prepare(p) PROVE VisitsLocked'
  BY <1>2 DEF Prepare, Skip, Fallback
<1>3. ASSUME NEW p \in Procs, StartSSH(p) PROVE VisitsLocked'
  BY <1>3 DEF StartSSH, Take, Fails, Fallback
<1>4. ASSUME NEW p \in Procs, OpenSession(p) PROVE VisitsLocked'
  BY <1>4 DEF OpenSession, LeaseOpens, Take, Fails, Fallback, Skip
<1>5. ASSUME NEW p \in Procs, OpenMux(p) PROVE VisitsLocked'
  BY <1>5 DEF OpenMux, Skip, Fails, Fallback
<1>6. ASSUME NEW p \in Procs, NewManager(p) PROVE VisitsLocked'
  <2>1. CASE LockCleanup(p)
    BY <1>6, <2>1 DEF NewManager, LockCleanup, CleanupFree, Manager
  <2>2. CASE MakeDirectory(p)
    BY <1>6, <2>2 DEF NewManager, MakeDirectory, Manager
  <2>3. CASE OpenLease(p)
    BY <1>6, <2>3 DEF NewManager, OpenLease, Unlocked, Manager
  <2>4. CASE LockLease(p)
    BY <1>6, <2>4 DEF NewManager, LockLease, Unlocked, Manager
  <2>5. CASE ReadRoot(p)
    BY <1>6, <2>5 DEF NewManager, ReadRoot, Manager
  <2>6. ASSUME NEW s \in Procs, Visit(p, s) PROVE VisitsLocked'
    BY <1>6, <2>6 DEF NewManager, Visit, Stale
  <2>7. CASE DetachStale(p)
    BY <1>6, <2>7 DEF NewManager, DetachStale
  <2>8. CASE KeepStale(p)
    BY <1>6, <2>8 DEF NewManager, KeepStale, Leave
  <2>9. CASE RemoveStale(p)
    BY <1>6, <2>9 DEF NewManager, RemoveStale, Leave
  <2>10. CASE CleanupEnds(p)
    BY <1>6, <2>10 DEF NewManager, CleanupEnds, Unlocked, Manager
    <2> QED BY <1>6, <2>1, <2>2, <2>3, <2>4, <2>5, <2>6, <2>7, <2>8, <2>9, <2>10 DEF NewManager,
       StartManager
<1>7. ASSUME NEW p \in Procs, StartClient(p) PROVE VisitsLocked'
  BY <1>7 DEF StartClient, Take
<1>8. ASSUME NEW p \in Procs, Handshake(p) PROVE VisitsLocked'
  BY <1>8 DEF Handshake, HandshakeFailed, Skip, Fails, Fallback
<1>9. ASSUME NEW p \in Procs, Connect(p) PROVE VisitsLocked'
  BY <1>9 DEF Connect, Take, Fails, Fallback, Skip
<1>10. ASSUME NEW p \in Procs, MountWorkspace(p) PROVE VisitsLocked'
  BY <1>10 DEF MountWorkspace, Take, CloseBegins, Manager
<1>11. ASSUME NEW p \in Procs, UndoEnds(p) PROVE VisitsLocked'
  BY <1>11 DEF UndoEnds, Fails, Fallback
<1>12. ASSUME NEW p \in Procs, StartTunnel(p) PROVE VisitsLocked'
  BY <1>12 DEF StartTunnel, WantsTunnel, TunnelOpens, MustHaveTunnel, Take, Fails, Fallback, Skip
<1>13. ASSUME NEW p \in Procs, CommandKilled(p) PROVE VisitsLocked'
  BY <1>13 DEF CommandKilled, Skip
<1>14. ASSUME NEW p \in Procs, StopPeer(p) PROVE VisitsLocked'
  BY <1>14 DEF StopPeer, CloseBegins, Manager
<1>15. ASSUME NEW p \in Procs, CloseManager(p) PROVE VisitsLocked'
  BY <1>15 DEF CloseManager, CloseUnlocks, CloseRemoves, Manager
<1>16. ASSUME NEW p \in Procs, StopRest(p) PROVE VisitsLocked'
  BY <1>16 DEF StopRest
<1>17. ASSUME NEW p \in Procs, Exit(p) PROVE VisitsLocked'
  BY <1>17 DEF Exit, Ends, LocksFreed, Unlocked
<1>18. ASSUME NEW p \in Procs, SSHEnds(p) PROVE VisitsLocked'
  BY <1>18 DEF SSHEnds, Loses
<1>19. ASSUME NEW p \in Procs, LeaseLost(p) PROVE VisitsLocked'
  BY <1>19 DEF LeaseLost, Loses
<1>20. ASSUME NEW p \in Procs, PeerEnds(p) PROVE VisitsLocked'
  BY <1>20 DEF PeerEnds, Loses
<1>21. ASSUME NEW p \in Procs, ClientEnds(p) PROVE VisitsLocked'
  BY <1>21 DEF ClientEnds, Loses
<1>22. ASSUME NEW p \in Procs, ClientCloses(p) PROVE VisitsLocked'
  BY <1>22 DEF ClientCloses, Loses
<1>23. ASSUME NEW p \in Procs, Watch(p) PROVE VisitsLocked'
  BY <1>23 DEF Watch
<1>24. ASSUME NEW p \in Procs, ServerUnmounts(p) PROVE VisitsLocked'
  BY <1>24 DEF ServerUnmounts, Loses
<1>25. ASSUME NEW p \in Procs, ReverseMount(p) PROVE VisitsLocked'
  BY <1>25 DEF ReverseMount, MountBegins, MountEnds, Export
<1>26. ASSUME NEW p \in Procs, ReverseMountGoesOn(p) PROVE VisitsLocked'
  BY <1>26 DEF ReverseMountGoesOn, MountGoesOn, Export
<1>27. ASSUME NEW p \in Procs, CommandEnds(p) PROVE VisitsLocked'
  BY <1>27 DEF CommandEnds, Skip
<1>28. ASSUME NEW p \in Procs, Kill(p) PROVE VisitsLocked'
  BY <1>28 DEF Kill, Ends, LocksFreed, Unlocked
<1>29. CASE UNCHANGED vars
  BY <1>29 DEF vars, mounts
<1> QED
    BY <1>1, <1>2, <1>3, <1>4, <1>5, <1>6, <1>7, <1>8, <1>9, <1>10, <1>11, <1>12, <1>13, <1>14,
     <1>15, <1>16, <1>17, <1>18, <1>19, <1>20, <1>21, <1>22, <1>23, <1>24, <1>25, <1>26, <1>27,
     <1>28, <1>29
  DEF Next, Step, Background, Environment, SSHKilled, ClientFollows, PeerFollows

(***************************************************************************)
(* Another process q gives up or removes the directory of p only as the    *)
(* one it visits, and then q has the lease of p: p does not, so p is not   *)
(* past LockLease; nor is p before it, for then p and not q would have     *)
(* .cleanup.lock.                                                          *)
(***************************************************************************)
LEMMA OwnStep ==
  ASSUME Types, OneStart, VisitsLocked, OwnDirectory, [Next]_vars
  PROVE  OwnDirectory'
<1> USE ReverseMountsAssumption DEF Types, TypeOK, MountsTypeOK, mounts, Go, Has, Alive, Places,
     Starting, OneStart, VisitsLocked, OwnDirectory
<1>1. ASSUME NEW p \in Procs, StartMaster(p) PROVE OwnDirectory'
  BY <1>1 DEF StartMaster, MasterStarts, Take, Skip
<1>2. ASSUME NEW p \in Procs, Prepare(p) PROVE OwnDirectory'
  BY <1>2 DEF Prepare, Skip, Fallback
<1>3. ASSUME NEW p \in Procs, StartSSH(p) PROVE OwnDirectory'
  BY <1>3 DEF StartSSH, Take, Fails, Fallback
<1>4. ASSUME NEW p \in Procs, OpenSession(p) PROVE OwnDirectory'
  BY <1>4 DEF OpenSession, LeaseOpens, Take, Fails, Fallback, Skip
<1>5. ASSUME NEW p \in Procs, OpenMux(p) PROVE OwnDirectory'
  BY <1>5 DEF OpenMux, Skip, Fails, Fallback
<1>6. ASSUME NEW p \in Procs, NewManager(p) PROVE OwnDirectory'
  <2>1. CASE LockCleanup(p)
    BY <1>6, <2>1 DEF NewManager, LockCleanup, CleanupFree, Manager
  <2>2. CASE MakeDirectory(p)
    BY <1>6, <2>2 DEF NewManager, MakeDirectory, Manager
  <2>3. CASE OpenLease(p)
    BY <1>6, <2>3 DEF NewManager, OpenLease, Unlocked, Manager
  <2>4. CASE LockLease(p)
    BY <1>6, <2>4 DEF NewManager, LockLease, Unlocked, Manager
  <2>5. CASE ReadRoot(p)
    BY <1>6, <2>5 DEF NewManager, ReadRoot, Manager
  <2>6. ASSUME NEW s \in Procs, Visit(p, s) PROVE OwnDirectory'
    BY <1>6, <2>6 DEF NewManager, Visit, Stale
  <2>7. CASE DetachStale(p)
    BY <1>6, <2>7 DEF NewManager, DetachStale
  <2>8. CASE KeepStale(p)
    BY <1>6, <2>8 DEF NewManager, KeepStale, Leave
  <2>9. CASE RemoveStale(p)
    BY <1>6, <2>9 DEF NewManager, RemoveStale, Leave
  <2>10. CASE CleanupEnds(p)
    BY <1>6, <2>10 DEF NewManager, CleanupEnds, Unlocked, Manager
    <2> QED BY <1>6, <2>1, <2>2, <2>3, <2>4, <2>5, <2>6, <2>7, <2>8, <2>9, <2>10 DEF NewManager,
       StartManager
<1>7. ASSUME NEW p \in Procs, StartClient(p) PROVE OwnDirectory'
  BY <1>7 DEF StartClient, Take
<1>8. ASSUME NEW p \in Procs, Handshake(p) PROVE OwnDirectory'
  BY <1>8 DEF Handshake, HandshakeFailed, Skip, Fails, Fallback
<1>9. ASSUME NEW p \in Procs, Connect(p) PROVE OwnDirectory'
  BY <1>9 DEF Connect, Take, Fails, Fallback, Skip
<1>10. ASSUME NEW p \in Procs, MountWorkspace(p) PROVE OwnDirectory'
  BY <1>10 DEF MountWorkspace, Take, CloseBegins, Manager
<1>11. ASSUME NEW p \in Procs, UndoEnds(p) PROVE OwnDirectory'
  BY <1>11 DEF UndoEnds, Fails, Fallback
<1>12. ASSUME NEW p \in Procs, StartTunnel(p) PROVE OwnDirectory'
  BY <1>12 DEF StartTunnel, WantsTunnel, TunnelOpens, MustHaveTunnel, Take, Fails, Fallback, Skip
<1>13. ASSUME NEW p \in Procs, CommandKilled(p) PROVE OwnDirectory'
  BY <1>13 DEF CommandKilled, Skip
<1>14. ASSUME NEW p \in Procs, StopPeer(p) PROVE OwnDirectory'
  BY <1>14 DEF StopPeer, CloseBegins, Manager
<1>15. ASSUME NEW p \in Procs, CloseManager(p) PROVE OwnDirectory'
  BY <1>15 DEF CloseManager, CloseUnlocks, CloseRemoves, Manager
<1>16. ASSUME NEW p \in Procs, StopRest(p) PROVE OwnDirectory'
  BY <1>16 DEF StopRest
<1>17. ASSUME NEW p \in Procs, Exit(p) PROVE OwnDirectory'
  BY <1>17 DEF Exit, Ends, LocksFreed, Unlocked
<1>18. ASSUME NEW p \in Procs, SSHEnds(p) PROVE OwnDirectory'
  BY <1>18 DEF SSHEnds, Loses
<1>19. ASSUME NEW p \in Procs, LeaseLost(p) PROVE OwnDirectory'
  BY <1>19 DEF LeaseLost, Loses
<1>20. ASSUME NEW p \in Procs, PeerEnds(p) PROVE OwnDirectory'
  BY <1>20 DEF PeerEnds, Loses
<1>21. ASSUME NEW p \in Procs, ClientEnds(p) PROVE OwnDirectory'
  BY <1>21 DEF ClientEnds, Loses
<1>22. ASSUME NEW p \in Procs, ClientCloses(p) PROVE OwnDirectory'
  BY <1>22 DEF ClientCloses, Loses
<1>23. ASSUME NEW p \in Procs, Watch(p) PROVE OwnDirectory'
  BY <1>23 DEF Watch
<1>24. ASSUME NEW p \in Procs, ServerUnmounts(p) PROVE OwnDirectory'
  BY <1>24 DEF ServerUnmounts, Loses
<1>25. ASSUME NEW p \in Procs, ReverseMount(p) PROVE OwnDirectory'
  BY <1>25 DEF ReverseMount, MountBegins, MountEnds, Export
<1>26. ASSUME NEW p \in Procs, ReverseMountGoesOn(p) PROVE OwnDirectory'
  BY <1>26 DEF ReverseMountGoesOn, MountGoesOn, Export
<1>27. ASSUME NEW p \in Procs, CommandEnds(p) PROVE OwnDirectory'
  BY <1>27 DEF CommandEnds, Skip
<1>28. ASSUME NEW p \in Procs, Kill(p) PROVE OwnDirectory'
  BY <1>28 DEF Kill, Ends, LocksFreed, Unlocked
<1>29. CASE UNCHANGED vars
  BY <1>29 DEF vars, mounts
<1> QED
    BY <1>1, <1>2, <1>3, <1>4, <1>5, <1>6, <1>7, <1>8, <1>9, <1>10, <1>11, <1>12, <1>13, <1>14,
     <1>15, <1>16, <1>17, <1>18, <1>19, <1>20, <1>21, <1>22, <1>23, <1>24, <1>25, <1>26, <1>27,
     <1>28, <1>29
  DEF Next, Step, Background, Environment, SSHKilled, ClientFollows, PeerFollows

LEMMA Inductive == Spec => []IInv
<1>1. IInv /\ [Next]_vars => IInv'
  BY TypesStep, AcquiredStep, BoundedStep, OneStartStep, VisitsStep, OwnStep DEF IInv, Parts, Directories
<1> QED BY InitInv, <1>1, PTL DEF Spec

-----------------------------------------------------------------------------
(***************************************************************************)
(* The variables of every process and of the mount root they share keep    *)
(* their types.                                                            *)
(***************************************************************************)
THEOREM TypeCorrect == Spec => []TypeOK
<1>1. IInv => TypeOK BY DEF IInv, Types
<1> QED BY Inductive, <1>1, PTL

(***************************************************************************)
(* Run runs the command with all that its configuration promises, or runs  *)
(* plain ssh where the configuration allows it, and then nothing of the    *)
(* session but the master and the client that is ending stays behind: for  *)
(* every configuration, and whatever is lost while the session starts.     *)
(***************************************************************************)
THEOREM EnhancedSafe == Spec => []EnhancedOrPlain
<1>1. IInv => EnhancedOrPlain
    BY DEF IInv, Parts, Acquired, Bounded, EnhancedOrPlain, Promised, AfterMaster, AfterLease,
       AfterClient, Has
<1> QED BY Inductive, <1>1, PTL

(***************************************************************************)
(* cleanupStaleReverseMounts and Close never take the directory or the     *)
(* lease of a session that is up, however many processes of the user start *)
(* end or are killed at the same time.                                     *)
(***************************************************************************)
THEOREM DirectoryHeld == Spec => []DirectoryIsHeld
<1>1. IInv => DirectoryIsHeld
  BY DEF IInv, Directories, OwnDirectory, DirectoryIsHeld
<1> QED BY Inductive, <1>1, PTL
=============================================================================
