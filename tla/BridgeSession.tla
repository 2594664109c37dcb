---------------------------- MODULE BridgeSession ----------------------------
(***************************************************************************)
(* One invocation of the CLI with its enhanced session: Runner.Run,        *)
(* defaultStartBridge and the stop function it returns (internal/cli), and *)
(* the lease of the local daemon (internal/locald/session.go).  Every step *)
(* of the start may fail, what it opened may be lost at any time, and the  *)
(* process may be killed.  Module ReverseMounts has the directories that   *)
(* the processes of one user share.                                        *)
(*                                                                         *)
(* A process acquires, in this order: the control master, the ssh process  *)
(* that carries the hidden channel, the lease, the client that serves the  *)
(* server's requests, the data session's peer, the mount of the working    *)
(* directory on the server, and the proxy tunnel.  The mux lives and ends  *)
(* with the ssh process and has no state of its own.                       *)
(***************************************************************************)
EXTENDS ReverseMounts

CONSTANTS
  Modes,     \* the configurations each process may have
  Killed,    \* the processes that may be killed
  Lossy      \* those that may lose the daemon, the server or the connection

ASSUME SessionAssumption ==
  /\ Killed \subseteq Procs /\ Lossy \subseteq Procs
  /\ \A p \in Procs : Modes[p] \subseteq
       [features : SUBSET {"forward", "remotefs", "proxy"}, strict : BOOLEAN]

VARIABLES
  mode,      \* the configuration of each process
  pc,        \* how far the process is
  held,      \* what it holds
  opened,    \* what it has held at some time
  over       \* bridgeCtx is cancelled

vars == <<mode, pc, held, opened, over, mounts>>

Resources == {"master", "ssh", "lease", "client", "peer", "mount", "tunnel"}

Places ==
  {"master", "server", "ssh", "lease", "mux", "manager",
   "handshake", "connect", "mount", "undo", "tunnel", "command", "plain",
   "stopping", "closing", "ending", "exit", "gone", "killed"}

Alive(p) == pc[p] \notin {"gone", "killed"}
Has(p, f) == f \in mode[p].features

Init ==
  /\ MountsInit
  /\ mode \in [Procs -> UNION {Modes[p] : p \in Procs}]
  /\ \A p \in Procs : mode[p] \in Modes[p]
  /\ pc = [p \in Procs |-> "master"]
  /\ held = [p \in Procs |-> {}]
  /\ opened = [p \in Procs |-> {}]
  /\ over = [p \in Procs |-> FALSE]

-----------------------------------------------------------------------------
Go(p, place) == pc' = [pc EXCEPT ![p] = place]

Take(p, r, place) ==
  /\ Go(p, place)
  /\ held' = [held EXCEPT ![p] = @ \cup {r}]
  /\ opened' = [opened EXCEPT ![p] = @ \cup {r}]
  /\ UNCHANGED <<mode, over, mounts>>

Skip(p, place) ==
  /\ Go(p, place)
  /\ UNCHANGED <<mode, held, opened, over, mounts>>

(***************************************************************************)
(* What Run does with an error of a step before or in the start of the     *)
(* bridge: it gives up, or runs ssh as if sshx were not there.             *)
(***************************************************************************)
\* Mutant: remoteFs is optional.
RefusesIfStrict(p) == mode[p].strict

Refuses(p) == mode[p].strict \/ Has(p, "remotefs")
Fallback(p) == IF Refuses(p) THEN "exit" ELSE "plain"

(***************************************************************************)
(* defaultStartBridge returns an error after cancel and the calls that     *)
(* close rs.                                                               *)
(***************************************************************************)
Fails(p, rs) ==
  /\ Go(p, Fallback(p))
  /\ over' = [over EXCEPT ![p] = TRUE]
  /\ held' = [held EXCEPT ![p] = @ \ rs]
  /\ UNCHANGED <<mode, opened, mounts>>

MasterStarts(p) == Take(p, "master", "server")

StartMaster(p) ==
  /\ pc[p] = "master"
  /\ \/ MasterStarts(p)
     \/ Skip(p, IF Refuses(p) THEN "exit" ELSE "server")

(***************************************************************************)
(* The server is installed and started, its token read and the local       *)
(* daemon started: nothing here is held yet.                               *)
(***************************************************************************)
Prepare(p) == pc[p] = "server" /\ (Skip(p, "ssh") \/ Skip(p, Fallback(p)))

StartSSH(p) == pc[p] = "ssh" /\ (Take(p, "ssh", "lease") \/ Fails(p, {}))

(***************************************************************************)
(* A proxy needs the control path of the master.  With strict there is one *)
(* by now; without strict the proxy is skipped.                            *)
(***************************************************************************)
WantsTunnel(p) == Has(p, "proxy") /\ "master" \in opened[p]

LeaseOpens(p) == Take(p, "lease", "mux")

OpenSession(p) ==
  /\ pc[p] = "lease"
  /\ \/ Has(p, "forward") /\ (LeaseOpens(p) \/ Fails(p, {"ssh"}))
     \/ ~Has(p, "forward") /\ Skip(p, "mux")

OpenMux(p) ==
  /\ pc[p] = "mux"
  /\ \/ Skip(p, "manager")
     \/ Fails(p, {"lease", "ssh"})

NewManager(p) ==
  /\ pc[p] = "manager" /\ Has(p, "remotefs")
  /\ StartManager(p)
  /\ UNCHANGED <<mode, pc, held, opened, over>>

StartClient(p) ==
  /\ pc[p] = "manager" /\ (Has(p, "remotefs") => mpc[p] \in {"ready", "broken"})
  /\ Take(p, "client", "handshake")

HandshakeFailed == {"lease", "ssh"}

Handshake(p) ==
  /\ pc[p] = "handshake"
  /\ \/ "client" \in held[p] /\ Skip(p, "connect")
     \/ Fails(p, HandshakeFailed)

Connect(p) ==
  /\ pc[p] = "connect"
  /\ \/ /\ Has(p, "remotefs")
        /\ \/ "ssh" \in held[p] /\ ~over[p] /\ Take(p, "peer", "mount")
           \/ Fails(p, {"lease", "ssh"})
     \/ ~Has(p, "remotefs") /\ Skip(p, "tunnel")

MountWorkspace(p) ==
  /\ pc[p] = "mount"
  /\ \/ "peer" \in held[p] /\ ~over[p] /\ Take(p, "mount", "tunnel")
     \/ /\ Go(p, "undo") /\ CloseBegins(p)
        /\ UNCHANGED <<mode, held, opened, over>>

UndoEnds(p) ==
  /\ pc[p] = "undo" /\ mpc[p] = "closed"
  /\ Fails(p, {"mount", "peer", "lease", "ssh"})

(***************************************************************************)
(* Without strict a missing tunnel is reported and the session goes on.    *)
(***************************************************************************)
MustHaveTunnel(p) == mode[p].strict

TunnelOpens(p) == ~over[p] /\ Take(p, "tunnel", "command")

StartTunnel(p) ==
  /\ pc[p] = "tunnel"
  /\ \/ WantsTunnel(p) /\ TunnelOpens(p)
     \/ WantsTunnel(p) /\ MustHaveTunnel(p) /\ Fails(p, {"lease", "ssh"})
     \/ (WantsTunnel(p) => ~MustHaveTunnel(p)) /\ Skip(p, "command")

-----------------------------------------------------------------------------
(***************************************************************************)
(* While the start goes on and while the command runs.                     *)
(***************************************************************************)
Loses(p, r) ==
  /\ r \in held[p] /\ Alive(p)
  /\ held' = [held EXCEPT ![p] = @ \ {r}]
  /\ UNCHANGED <<mode, pc, opened, mounts>>

SSHEnds(p) == Loses(p, "ssh") /\ UNCHANGED over
LeaseLost(p) == Loses(p, "lease") /\ UNCHANGED over
PeerEnds(p) == Loses(p, "peer") /\ UNCHANGED over
ClientEnds(p) == Loses(p, "client") /\ over' = [over EXCEPT ![p] = TRUE]

Ended(p, r) == r \in opened[p] \ held[p]

ClientCloses(p) == Ended(p, "client") /\ Loses(p, "lease") /\ UNCHANGED over

\* Mutant: nobody watches the lease.
WatchedPeer == {"peer"}

Watched == {"lease", "peer"}

Watch(p) ==
  /\ Alive(p) /\ ~over[p] /\ \E r \in Watched : Ended(p, r)
  /\ over' = [over EXCEPT ![p] = TRUE]
  /\ UNCHANGED <<mode, pc, held, opened, mounts>>

(***************************************************************************)
(* The server unmounts what the session that ended had mounted.            *)
(***************************************************************************)
ServerUnmounts(p) == "peer" \notin held[p] /\ Loses(p, "mount") /\ UNCHANGED over

ReverseMount(p) ==
  /\ Alive(p) /\ "peer" \in held[p]
  /\ MountBegins(p) \/ MountEnds(p)
  /\ UNCHANGED <<mode, pc, held, opened, over>>

ReverseMountGoesOn(p) ==
  /\ Alive(p) /\ MountGoesOn(p)
  /\ UNCHANGED <<mode, pc, held, opened, over>>

-----------------------------------------------------------------------------
(***************************************************************************)
(* The command ends, or is killed when Done closes; then Stop and the      *)
(* deferred calls of Run.                                                  *)
(***************************************************************************)
CommandEnds(p) ==
  \/ pc[p] = "command" /\ Skip(p, "stopping")
  \/ pc[p] = "plain" /\ Skip(p, "exit")

CommandKilled(p) == pc[p] = "command" /\ over[p] /\ Skip(p, "stopping")

StopPeer(p) ==
  /\ pc[p] = "stopping"
  /\ Go(p, "closing")
  /\ held' = [held EXCEPT ![p] = @ \ {"tunnel", "mount", "peer"}]
  /\ IF Has(p, "remotefs") THEN CloseBegins(p) ELSE UNCHANGED mounts
  /\ UNCHANGED <<mode, opened, over>>

CloseManager(p) ==
  /\ pc[p] \in {"undo", "closing"}
  /\ CloseUnlocks(p) \/ CloseRemoves(p)
  /\ UNCHANGED <<mode, pc, held, opened, over>>

StopRest(p) ==
  /\ pc[p] = "closing" /\ (Has(p, "remotefs") => mpc[p] = "closed")
  /\ Go(p, "exit")
  /\ over' = [over EXCEPT ![p] = TRUE]
  /\ held' = [held EXCEPT ![p] = @ \ {"lease", "ssh"}]
  /\ UNCHANGED <<mode, opened, mounts>>

(***************************************************************************)
(* The process ends, after it has stopped the master.                      *)
(***************************************************************************)
Ends(p, place) ==
  /\ Go(p, place) /\ LocksFreed(p)
  /\ UNCHANGED <<mode, opened, over>>

Exit(p) == pc[p] = "exit" /\ Ends(p, "gone") /\ held' = [held EXCEPT ![p] = {}]

(***************************************************************************)
(* Nobody stops the master of a process that is killed.                    *)
(***************************************************************************)
Kill(p) ==
  /\ p \in Killed /\ Alive(p) /\ Ends(p, "killed")
  /\ held' = [held EXCEPT ![p] = @ \cap {"master"}]

-----------------------------------------------------------------------------
Step(p) ==
  \/ StartMaster(p) \/ Prepare(p) \/ StartSSH(p) \/ OpenSession(p) \/ OpenMux(p)
  \/ NewManager(p) \/ StartClient(p)
  \/ Handshake(p) \/ Connect(p) \/ MountWorkspace(p) \/ UndoEnds(p) \/ StartTunnel(p)
  \/ CommandKilled(p) \/ StopPeer(p) \/ CloseManager(p) \/ StopRest(p) \/ Exit(p)

Environment(p) ==
  \/ p \in Lossy /\ (SSHEnds(p) \/ LeaseLost(p) \/ PeerEnds(p) \/ ClientEnds(p))
  \/ CommandEnds(p) \/ ReverseMount(p) \/ Kill(p)

(***************************************************************************)
(* A cancelled bridgeCtx kills ssh, and ends the client and the peer; so   *)
(* does the end of ssh.                                                    *)
(***************************************************************************)
SSHKilled(p) == over[p] /\ SSHEnds(p)
ClientFollows(p) == (over[p] \/ Ended(p, "ssh")) /\ ClientEnds(p)
PeerFollows(p) == (over[p] \/ Ended(p, "ssh")) /\ PeerEnds(p)

Background(p) ==
  \/ ClientCloses(p) \/ Watch(p) \/ ServerUnmounts(p)
  \/ SSHKilled(p) \/ ClientFollows(p) \/ PeerFollows(p)

Next == \E p \in Procs : Step(p) \/ Background(p) \/ ReverseMountGoesOn(p) \/ Environment(p)

Spec == Init /\ [][Next]_vars

Fairness(p) ==
  WF_vars(Step(p)) /\ WF_vars(Background(p)) /\ WF_vars(ReverseMountGoesOn(p))

FairSpec == Spec /\ \A p \in Procs : Fairness(p)

-----------------------------------------------------------------------------
TypeOK ==
  /\ MountsTypeOK
  /\ \A p \in Procs : mode[p] \in Modes[p]
  /\ pc \in [Procs -> Places]
  /\ held \in [Procs -> SUBSET Resources]
  /\ opened \in [Procs -> SUBSET Resources]
  /\ over \in [Procs -> BOOLEAN]

(***************************************************************************)
(* The command runs with everything the configuration asks for, or as      *)
(* plain ssh next to which nothing of the session stays behind; and plain  *)
(* only where the configuration allows it.                                 *)
(***************************************************************************)
Promised(p) ==
  {"ssh", "client"} \cup (IF Has(p, "forward") THEN {"lease"} ELSE {})
    \cup (IF Has(p, "remotefs") THEN {"peer", "mount"} ELSE {})
    \cup (IF Has(p, "proxy") /\ mode[p].strict THEN {"tunnel"} ELSE {})

EnhancedOrPlain ==
  \A p \in Procs :
    /\ pc[p] = "command" => Promised(p) \subseteq opened[p]
    /\ pc[p] = "plain" => ~mode[p].strict /\ ~Has(p, "remotefs") /\ held[p] \subseteq {"master", "client"}

(***************************************************************************)
(* The directory of a session that is up exists, and its process holds the *)
(* lease in it, whatever other processes start, end or clean up.           *)
(***************************************************************************)
DirectoryIsHeld ==
  \A p \in Procs : Alive(p) /\ mpc[p] = "ready" => p \in dirs /\ flock[p] = p

(***************************************************************************)
(* A command never goes on for long without what its session had: when the *)
(* daemon, the server or the connection is lost, it is ended.              *)
(***************************************************************************)
LostSessionEnds ==
  \A p \in Procs :
    (pc[p] = "command" /\ \E r \in {"ssh", "lease", "client", "peer"} : Ended(p, r))
      ~> pc[p] # "command"

(***************************************************************************)
(* What a process left behind, killed or not, is removed by the next one   *)
(* that starts a manager, unless its mount cannot be detached or it was    *)
(* killed between the making of an export and its .mount-path.             *)
(***************************************************************************)
LeftoversGo ==
  \A p \in Procs : \A q \in Procs \ {p} :
    ( /\ ~Alive(p) /\ p \in dirs /\ p \notin Jammed /\ export[p] # "bare"
      /\ pc[q] = "manager" /\ mpc[q] = "none" /\ Has(q, "remotefs") )
      ~> (p \notin dirs \/ pc[q] = "killed" \/ mpc[q] = "broken")

=============================================================================
