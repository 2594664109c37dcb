# A TLA+ model of sshx

sshx wraps `ssh`. It gives every remote target a private loopback address and a
domain name on the local machine, forwards the ports that open on the remote
host, and lets programs on the remote host run commands, or mount directories,
on the local one. Three kinds of process share state for that: any number of
`sshx` terminals, one on-demand local daemon, and one server per remote host.
This directory models the parts in which those processes meet.

All paths below are relative to `src/`.

## Inventory

| Component | State | Operations | Interacts with | Module |
|---|---|---|---|---|
| local daemon `internal/locald/{locald,server_session,server_target}.go` | leases (`sessions`), target records with session counts, forward managers, `draining`, grace and startup timers | open a session, ensure and remove a port, shut down, release, clean up an idle target, startup timeout, end of `Serve` | terminals over a Unix socket, one goroutine per connection; `forward.Manager`; `domain.Manager` | `LocalDaemon` |
| name resolver `internal/domain/domain.go`, address pool `internal/loopback/pool.go` | `records` | `RegisterTarget`, `Unregister`, lookup | local daemon | in `LocalDaemon` |
| forward manager `internal/forward/` | `byRemote`, `stopped`, the context | `Ensure`, `Remove`, `Stop` | ssh control masters (`ssh -O forward` / `-O cancel`) | `ForwardManager`, `ForwardTable` |
| bridge server `internal/bridge/bridge.go` | `clients`, `connections`, `lastActive`, `draining`, `pending` of each client | hello of a client or a requester, `addClient`, `removeClient`, `pickClient`, `request`, `readLoop`, `monitorLeases`, `closeConnections` | client bridges (one per terminal), requesters (`sshx exec` on the remote host) | `BridgeServer` |
| bridge client `internal/bridge/client.go` | connection, heartbeat | take a command, run it, reply | bridge server | as the environment of `BridgeServer` |
| port sniffing `internal/bridge/ports.go` | `observedPorts`, `portMisses` | scan, apply, broadcast, replay to a new client | bridge server; `/proc` | `PortScan` |
| file system sessions `internal/bridge/remotefs.go` | `fsPeers`, `fsMounting`, `fsMounts`, `fsUnmounting`, `fsBackends`, `fsClientMounts` | data session start and end, `mountRemoteFS`, `unmountRemoteFS`, `ensureExportBackend`, `ensureClientMount` | bridge server, file system peer | `ServerMounts`, `MountManager` |
| file system peer `internal/remotefs/peer.go` | requests in flight, slots, handlers, mounts | `request`, `readLoop`, `handleRequest`, cancel, `close` | both ends of the data socket | `Peer` |
| mount manager `internal/cli/ssh_bridge_mount.go` | mounts by `mountId`, the session's directory and its lease file | `OnMount`, `OnUnmount`, `Execute`, `Close`, clean-up of dead sessions | bridge client, FUSE, other terminals through the mount root | `MountManager`, `ReverseMounts` |
| session of the CLI `internal/cli/{ssh_bridge,cli,exec}.go`, `internal/locald/session.go` | control master, lease, ssh, mux, bridge client, peer, tunnel | start with fall-back, loss of a part, `Stop` | all of the above | `BridgeSession` |
| start of the daemon `internal/cli/ssh_bridge.go`, `internal/processlock/` | lock file, socket | `Acquire`, `Release`, `ensureLocalDaemon`, both ends of `Serve` | other terminals | `DaemonStart` |
| editor integration `internal/integration/` | profile directory, settings, lock, backup | `Install`, rollback | file system, the editor | `Integration` |
| protocol, identities, ssh argument parsing, configuration, bootstrap, docker, mux, CLI | little or none | pure conversions, process plumbing | | see "Not modelled" |

What is hard here:

* **Locks are dropped around slow work.** The daemon looks a target up, starts
  DNS, and looks again; the manager runs ssh between two critical sections; the
  server's monitor decides on values it read earlier. Every "look, unlock, act"
  is a place where another goroutine gets in between.
* **Timers that nobody cancels.** Each released lease starts a grace timer; the
  startup timer and the drain monitor run beside them.
* **Failure is normal.** Clients leave in the middle of a command, replies
  arrive late, heartbeats stop and start again, ssh masters end, `ssh -O cancel`
  times out.
* **Files as shared state.** Terminals meet in a lock file, a socket path, a mount
  root and an editor's settings, where every check and the act that follows it are
  two system calls, and a process may be killed between them.
* **Shutdown by counting.** Daemon and server exit when they believe that nobody
  uses them: too early strands a client, never leaks a process.

`PROJECT.json` lists these at their lines under "hazards", with the properties
that watch them.

Correctness of each part, in short:

* daemon: drains only when no lease is held and stays drained; counts sessions
  no higher than they are; names and addresses of targets are distinct and
  resolve; nothing keeps a target forever; no forward is left without somebody who
  stops it; exits when everybody has left;
* forward manager: a table with atomic entries; no listening socket is
  forgotten; racing calls do not destroy each other's forwards;
* bridge server: drains only when idle; a client that has reconnected is not removed in
  place of its old connection; a reply reaches the requester it belongs to; a command
  that was read is answered; an abandoned or cancelled server ends;
* port sniffing: no client misses a port; a closed port is dropped, a flickering
  one is not;
* file systems: every request ends and returns its slot; every mount has somebody
  who unmounts it, and the marker by which it is found after a crash; what the server
  believes of a client's mount is true; stopping comes to an end;
* session: a command runs with all that was promised, or plain with nothing left
  beside it; a lost part ends it; what a killed session left is removed, what a
  living one uses is not;
* start of the daemon: one daemon;
* editor integration: a failed install changes nothing, and the editor is not sent
  to a shim that is missing.

## Modules

| Module | Contents |
|---|---|
| `LocalDaemon` | the daemon: one action per critical section of `Server.mu` |
| `ForwardTable` | abstract: the forward table of a target, with atomic add, remove and stop |
| `ForwardManager` | `forward.Manager` and the sockets of its ssh masters; refines `ForwardTable` |
| `BridgeServer` | the remote server: registration, routing with fail-over, monitor, end of `Serve` |
| `PortScan` | scanner, broadcasts and the replay to new clients |
| `Peer` | one direction of a data session: requests, slots, cancel frames, close; mounts are left to its owner |
| `ServerMounts` | the mount table of the server, as the owner of a `Peer` |
| `MountManager` | mounts of the server's working tree on the client: both sides and the driver between them |
| `ReverseMounts` | the directories of sessions below the mount root, their leases and their clean-up |
| `BridgeSession` | the session of a terminal from start to end; composes `ReverseMounts` |
| `DaemonStart` | racing terminals, the pid lock and the socket path |
| `Integration` | installs of an editor integration |
| `MC*` | constants and symmetry sets for TLC |
| `*Proofs` | theorems, proved with TLAPS |

### LocalDaemon

A handler is the program counter `pc[c]` of a connection; the request it read,
the record pointer and the manager pointer it holds are `req`, `rec` and `fwd`.
Target records live in a heap (`recs`), because `handleSession` keeps the pointer
`ensureTarget` gave it while a grace timer may delete the map entry: the session
is then counted on a record that no map holds. What a cleanup does after its
unlock (stop the forwarder, unregister the name, shut down, in that order) is an
element of `tails`; it is not atomic with the cleanup.

| Code | Actions |
|---|---|
| `Serve`, `handleConn` | `Accept`, `CheckLease`, `ShutdownRequest` |
| `handleSession` | `OpenSession`, (`ensureTarget`), `RegisterSession` |
| `ensureTarget`, `domain`, `allocateLoopbackIPLocked`, `RegisterTarget` | `LookupTarget`, `EnsureDomain`, `CreateTarget` |
| `releaseSessionWithGrace`, `cleanupIdleTarget` | `ReleaseWithGrace`, `GraceExpires`, `CleanupTail` |
| `releaseSessionNow` | `ReleaseNow`, `CleanupTail` |
| `ensureTargetPort`, `removeTargetPort` | `LookupForwarder`, `EnsureForward`, `LookupRemove`, `RemoveForward` |
| `monitorStartup` | `StartupExpires` |
| the deferred calls of `Serve` | `StopResources`, `StopNext`, `CloseConnections`, `Exit` |

A target key and its prefix are model values; `Host` maps several keys to one
prefix so that `RegisterTarget` has to number names. `LeaseKey` fixes the target
of each lease, as one terminal serves one target. `Ping` and list requests only
read and are left out. A forward manager is here what `ForwardTable` promises of
it, with one remote port.

`Prompt` is a real-time assumption of the run `daemon`: a port request that has passed
its lease check has its target and its manager before the grace timer of its lease
(10 s) fires. It covers map lookups and the start of DNS; ssh itself, which the code
gives no limit, may take any time. Without it a request that is delayed for longer
recreates a target which nothing removes, so `NoLeakedTarget` and `IdleDaemonExits`
need it, and so does the theorem `NoLeak`. The run `now` and the other theorems do
without.

### ForwardManager

`byRemote`, `stopped` and `cancelled` are the manager's; `bound[p]` is the socket
that really listens, held by an ssh master or in process, and `alive` the masters
that run. `Ensure` is `EnsureStart` (first critical section), `EnsureExec` (ssh),
`EnsureCommit` (second critical section, with `abandon`, and on a stopped manager
the `drop`). `Remove` and `Stop` take entries out of the table first and `Drop`
them one by one afterwards. `EnsureExec` may fail, or be killed after the master
has done its work; `Drop` may time out. `lost` records that one of those
happened, or that a loser left a socket to a winner with another `-L` spec: the
code accepts all three.

### BridgeServer

A connection is used once; `pc` tells where its handler is. `gone` and `shut` are
the connections that the peer left and that the server closed; `done` the clients
whose `done` channel is closed. Commands (`inbox`) and replies (`replies`) are
sets of frames that are taken at any time, so they are late and out of order. The id
of a command is chosen by its requester and taken to be distinct, so a command is
named after it. `pending` is the map of expected replies, and `resp` has a channel for
each attempt, a requester with a client: a reply that arrives after the fail-over is
in a channel that nobody reads. `quiet` says that the timeout that applies (drain, or
startup if there was no client yet) has passed since `lastActive`. `monitorLeases` is
`Tick`, `SweepClient` (which looks at `lastSeen` of one client of its snapshot),
`SweepRemoves` (which removes that client in a critical section of its own, whatever
it has sent in between), `MonitorLook`, `MonitorDrain` and `MonitorShutdown`. File
system sessions are data connections that keep the server busy.

`Leavers`, `Mute` and `Events` say who may leave, whose heartbeats may stop, and
whether time passes and a signal comes, so that a run can do without what its
properties are not about. The theorems cover every choice.

### PortScan

`Scan` reads the listeners, `Apply` is `applyPortScan`, and each frame is
broadcast to the clients registered at that time, one write per `Send`. `Join`,
`Replay` and `ReplayPort` are `addClient` and `sendCurrentPorts`. `view` is what
the written frames tell a client. Failed scans change nothing and are left out,
and a client that leaves only takes its own view with it.

### Peer and ServerMounts

`call` is where each call of `request` is, `reqs` and `resps` are the frames on the
ordered connection, `hpc` is where the handler of each request is, `sem` the slots.
`close` has stages, because it cancels handlers and takes the mounts over in separate
critical sections. A handler in `onmount` and an unmounter in `look` belong to the
owner. `ServerMounts` gives them the steps of `mountRemoteFS` (begin; `Setup`, which
makes the directory and its marker `.mount-path`; `Mount`, without the lock; register
or throw away) and `unmountRemoteFS` (look, wait for another unmounter and look again,
unmount, and remove the directory after the unlock).

Who unmounts is part of the state: the reader of a cancel frame, a handler, or
`close`. An unmount fails for two reasons. The mount is busy: `stuck` records it, since
the code gives such a mount up. Or its own context is cancelled before it has begun
(`fuse.go:126`): that is the handler of a release whose caller has left or whose peer
closes, the mount stays in the table, and the properties still demand an owner for it.
`raced` is the history of mounts that were set up while the directory of the one before
was still to be removed. `ServerMountsAssumption`: no two creates of a data session
carry the same `mountId`, since the CLI asks once per session, for its
`workspaceMountID` (`ssh_bridge.go:183`, 327).

Both ends of a connection run this code, and each direction is a `Peer` of its own;
they share only the connection and its end. An operation on a file is a request whose
handler answers at once.

### MountManager

Here the server asks and the CLI handles. `Peer` already has the frames, so a frame
is handled as soon as it is sent, while a response stays on its way. A command first
needs the working tree exported: `ensureExportBackend` is `ExportLook`, the opening of
the tree without the lock, `Register` (the backend is added to the peer as it is then)
and `Record`, which looks again whether client and peer are the ones it began with.
`ensureClientMount` has the same shape (`offering`, `offered`). A client that leaves
(`removeClient`), and a data session that ends on either side (`speer`, `stage`), may
come between any two of them. Of `removeClient`, the removal from the maps and the
close of the peer are one step. A record that stays after only the data session ended
(`remotefs.go:125`) is harmless: the next command finds no peer.

All commands carry one `mountId` (a hash of root and path), so a command after one
that timed out makes a second mount at the same path. `crossed` records that a create
was sent while the handler or an unmounter of an earlier one was still at work.
`stack` is what is mounted at the path: the driver mounts over whatever is there and
takes away what is on top. `marker` is the file beside the mount point that names it:
written before the mount, removed with the directory.

### ReverseMounts and BridgeSession

`ReverseMounts` has one action per system call: the clean-up lock, `mkdir`, opening
and locking `.lease`, the visits to other directories, detaching, removing, and at the
end the unlock and the removal, which are two. A lock on a file whose directory was
removed protects nothing (`LockLease`). `BridgeSession` starts the parts of a session
in the order of the code (`held` what it has, `opened` what it ever had), lets any of
them be lost at any step, and falls back or refuses as `strict` and `remoteFs` say.
`over` is the cancelled `bridgeCtx`.

### DaemonStart

One action per system call of `processlock.Acquire` and per request of
`ensureLocalDaemon`. A daemon is named after the terminal that spawned it. `lock`
holds who created the file and the pid in it: a pid that is written after another
process replaced the file is lost. Waits end at any time, pids are not reused.

### Integration

`settings` and `profile` are the editor's settings and the profile directory;
`original`, `staged` and `backup` belong to an install. The lock is that of
`processlock`, which `DaemonStart` shows not to be exclusive, with the same steps:
`CreateLock`, `WritePid`, `InspectLock`, `RemoveLock`. So several installs may be at
work at once: a rename onto the profile of another fails, and a rollback may remove
what another has just moved in. Every step may fail, those of the deferred rollback
too, whose errors the code discards (`integration.go:281`); an install may be killed
between any two of them. `Init` allows what an earlier install left, and the lock of a
process that was killed. A verification compares files (`os.SameFile`), so the shims
of all editors, which are links to one executable, pass for each other (`IsShim`).

The histories say who may be blamed for a missing shim. `touched`: others have changed
settings or profile since this install read them; `botched`: a step of its rollback
failed; `blamed`: it was killed with the profile away, or rolled back `touched` or
`botched`; `crowd`: the installs that were under way when one removed the lock of a
living other, and those that began before these ended.

## Runs

Passing runs, all without a deadlock check except `sniff`: daemon, server and
sessions end, clients have bounded numbers of requests, and calls of a manager may
cease.

| Run | Checks |
|---|---|
| `daemon` | `TypeOK`, `DrainedIsIdle`, `NoPhantomSessions`, `ResolverAgrees`, `NoLeakedTarget`, `ForwardsOwned`, and `IdleDaemonExits` under fairness: two terminals of one target, the first of which comes back while the timers of its first lease run, with port requests and a signal |
| `now` | `ResolverAgrees` without a hand-off grace: two targets of one prefix and a pool of one address, leases opened twice, explicit shutdowns, port requests of any age |
| `orphan` | `NoOrphanForward`, `EnsureKeepsWinner` and the refinement `TableSpec`, with four calls, two hosts, two masters and in-process listeners |
| `serve` | `DrainedIsIdle`, and under fairness `RequesterEnds`, `ShutdownEnds`, `AbandonedServerExits`: one client, one requester, one data connection, with silence, time and signals |
| `route` | `TypeOK`, `OwnReply`, `NoSecondAttempt`, `OnlyDeadClientsLeave`: two connections of one session, and two requesters whose commands share a client and fail over |
| `sniff` | `TypeOK`, `NoMissedPort`, `OnlyReplayIsStale`, `GoneIsDebounced`, `ListenerIsForwarded`, `ClosedIsDropped` with two ports and two clients |
| `session` | `MountHasOwner`, `MountIsMarked`, `UnmountMeansGone`, and under fairness `RequestEnds`, `UnwantedMountGoes`: two creates and a release over one slot, callers that give up, busy mounts, unmounts whose context is cancelled, either peer closing |
| `manager` | `EntryIsMarked`, `OfferIsTrue`, `CloseLeavesNothing`, and under fairness `StopReturns`: two commands for one working tree, the first of which may time out and whose mount may be busy, a client that leaves, a data session that ends, a session that stops or fails to start |
| `bridge` | `EnhancedOrPlain`, `DirectoryIsHeld`, and under fairness `LostSessionEnds`, `LeftoversGo`: a session that may lose each of its parts and one that may be killed, below one mount root |
| `editor` | `NeverDangling`, `FailureRestores`: two installs at once over what an earlier one has left, both of which may be killed, with the steps of their lock, and an editor that saves its settings |

Where a property holds with an exception, its formula names it, and the exception is
something the code does:

* a mount that a program keeps busy is given up (`stuck`, in `MountHasOwner`,
  `UnmountMeansGone`, `UnwantedMountGoes`, `CloseLeavesNothing`);
* a directory is removed after the table was left, and a create in between has made
  it anew: its marker goes (`raced`, in `MountIsMarked`);
* a create that is repeated while one that timed out is still at work can lose its
  mount and its marker to the late unmount of that one (`crossed`, in `OfferIsTrue`
  and `EntryIsMarked`; TLC finds both when the exception is left out), and two mounts
  that cross at one path can make an unmount wait for ever (`hung`, in `StopReturns`);
* an export whose `.mount-path` was not written yet when its process was killed is
  never removed (`LeftoversGo`);
* the editor is without its shim while an install has the profile away, and after one
  was killed there, or rolled back after others had written, or could not roll back
  (`blamed`, in `NeverDangling`). Only an install that succeeds while no other works
  ends that: of two that work at once, one may return successfully with its shim gone.

Runs in which the code does not keep what a text of the repository says:

| Run | Shows |
|---|---|
| `address` | `OwnAddress`: a session that registers on a record which a grace timer has removed keeps an address that another target is then given (`server_session.go:73`, README.md:328) |
| `start` | `OneDaemon`: a lock file is empty until its pid is written; a second terminal's daemon takes it for garbage, and both serve (`processlock.go:19`, README.md:390) |

More disagreements were met while modelling and have no run:

* the timer of an older session removes a target whose last session was released a
  moment ago (`server_session.go:147`; comment at 125);
* when the terminal whose master holds a forward ends, the entry stays and other
  terminals of the target have no forward (`forward.go:58`; README.md:40);
* the startup timer drains without looking at running grace timers
  (`locald.go:235`; README.md:206 promises a 10-second hand-off window);
* the lease of a port request is checked once and may be gone when the forward is
  added (`locald.go:259`; docs/server-bootstrap-and-protocol-identities.md:166);
* the server's monitor drains on a `lastActive` it read in an earlier critical
  section, so a client that came and went in between gets no drain window
  (`bridge.go:263`; the same document, line 120);
* a `Remove` whose cancel comes late can take the socket of a forward that was
  registered since (`forward.go:133`; comment at 166);
* an install reads the settings before it takes the lock (`integration.go:164`,
  191), so what another install or the editor wrote in between is overwritten or
  rolled back; one that is killed between the two renames (267, 291) loses the
  user's own ssh path for the next install (README.md:240 calls the install
  idempotent with a rollback);
* the lock of an install is not exclusive either (`processlock.go:38`): with two at
  work the move-in of one fails on the profile of the other, its rollback removes that
  profile, and the other may have verified it already and return success;
* the end of a daemon unlinks the socket path by name (`ln.Close`) and its lock file
  whoever wrote it, and `terminateLegacyLocalDaemons` may interrupt the new daemon
  of another terminal during an upgrade.

Seen, and promised by nobody: a strict start whose tunnel fails leaves peer and
manager to the end of the process; a killed terminal leaves its ssh control master
running; a port whose listener moves to another loopback host between two scans
keeps its old forward (`ports.go:66`); a file system command fails when the client
it is routed to has no data session although another one has (`bridge.go:431`).

### Bounds

* Daemon: a second connection suffices for every race between two handlers, and
  timers, cleanups and the end of `Serve` run beside them without a connection. In
  `daemon` the first lease is opened twice (`MaxOpens` 2 and 1), so that up to three
  timers of one target run, and `MaxRecs` 3 lets a handler hold a removed record while
  a new one is registered; one manager suffices for `ForwardsOwned`. In `now` both
  targets come back, with two managers, and the pool has one address. `address` opens
  each of its four leases once, over three connections and three records, with a pool of
  two.
* Manager: one port, since ports do not interact except in `Stop`, and four calls:
  a remover, a stopper and two ensurers at once. The theorems cover any number.
* Server: two connections of one session overlap, and are the two clients that a
  fail-over needs; with two requesters a reply can be for the wrong one. `route` leaves
  out time and signals, `serve` has them.
* Port sniffing: two ports and two clients; `portGoneMissingScans` is 2 as in the
  code.
* Data session: the table holds one mount per session, so a second create with
  another `mountId` meets it occupied, or sets its directory up while that of the first
  is being removed; the release races with the cancel of the first create, with its own
  cancel and with the close; one slot makes the calls queue.
* Mount manager: the second command is the retry after a timeout, which makes the
  stack two deep; a third would repeat it.
* Bridge session: one process to die and one to find what it left; the second
  start and the first one's end overlap. `Jammed` makes one mount undetachable.
* Start of the daemon: two terminals and a daemon of another version; the violation
  needs no more.
* Editor: two installs, since `Init` has what a third left before them, killed or not;
  one save of the editor (`MaxEdits`). The theorems cover any number.

Symmetry is used only in runs without liveness.

### Fairness

* Daemon: goroutines run (weak fairness of each handler), timers fire, and a
  connection closed by `closeConnections` ends its session. Clients owe nothing:
  they may hold a lease forever. `Prompt` is assumed in addition, see above.
* Server: handlers and the monitor run, time passes, connections are closed. A
  command sent to a client is taken and ends if the client is not silent for good
  (strong fairness, because silence may come and go). A requester may set a timeout,
  which `ExecuteLocal` enforces; without one this assumes that the user's program
  ends, since a server cannot promise that. Nobody owes a connection, a hello or a
  request.
* Port sniffing: the ticker's goroutine and the handlers run.
* Data session and mount manager: weak fairness of the program as a whole. Goroutines
  run, frames arrive, mounts and unmounts end; since each goroutine takes finitely
  many steps, no finer fairness is needed. Nobody owes a request, a timeout, a close
  or the end of a command that is not killed.
* Bridge session: weak fairness of each process's own steps, of its watchers and of
  mounts under way. A lost part, a kill, and the end of the user's command are owed by
  nobody. That `stopMaster` waits for ssh without a timeout is outside: ssh is assumed
  to end when it is told to.

## Proofs

All theorems hold for every value of the constants under the named assumptions
(`LocalDaemonAssumption`, `OpensAssumption`, `ForwardAssumption`, `BridgeAssumption`,
`DisturbanceAssumption`, `PortScanAssumption`, `IntegrationAssumption`,
`PeerAssumption`, `ServerMountsAssumption`, `ManagerAssumption`,
`ReverseMountsAssumption`, `SessionAssumption`). They say what the constants are; only
`ServerMountsAssumption` also says how the CLI uses the data session (see
`ServerMounts`). A theorem that needs more states it as a hypothesis. The inductive invariants of `ServerMounts`,
`BridgeSession`, `MountManager` and `Integration` were also checked with TLC, on the
instances of their runs.

**LocalDaemonProofs**: `TypeCorrect`, `DrainSafe`, `NoForwardForgotten`, `NoPhantom`,
`ResolverCorrect`, `NoLeak`. Type correctness needs that handlers and cleanups refer to
allocated cells (`HandlerOK`, `RecordOK`). `DrainedIsIdle` is not inductive: a cleanup
tail that will shut the daemon down must imply that it is draining already
(`TailsDrain`). `NoForwardForgotten` rests on `ManagersKept`: a manager that was created
is stopped, in the table or with a cleanup, and a stopped one forwards nothing.
`ResolverAgrees` needs that a name waiting to be unregistered belongs to its record
alone (`NamesOwned`, `Resolved`): numbers are given out by `FreeName` only when the
record map has no such name, so a new target can never own the name of a pending
cleanup. `NoPhantomSessions` (`Counted`) is inductive on top of these: a session counts
on a record when its lease is added, and the guard of the decrement keeps a record that
never counted the session from going below zero. `NoLeak` takes `Grace` and `Prompt` as
hypotheses: a target that is registered has a lease with a session or a running timer,
or a handler about to register one (`NoneLeaked`). When the last timer of a lease fires,
the target stays only if its record counts a session, and `Counted` gives the lease of
that session; `PortsServed` says that a port request, which may create a target of its
own, still has its lease, because the timer waits for it.

**ForwardManagerProofs**: `ImplementsTable` (the refinement, with `Inv`), `EnsureSafe`
(with `LocalOwner`: an in-process listener has one owner, the table, an Ensure or a
dropping call, and that owner has the socket) and `NoOrphan` (with `DropsLast`: only a
call in its last part has forwards to drop).

**BridgeServerProofs**: `TypeCorrect`, `DrainSafe`, `NoRetry`, `OnlyDead`,
`RepliesOwn`. The base invariant adds to the types that a handler is in a state of its
kind of connection (`Kinds`), that a requester past `Pick` has a target (`Aimed`), and
that the client list has no session twice (`Uniq`), which `removeClient` needs to remove
the right one. `NoRetry` rests on `Routed`: a connection is registered once in its life
and given up only when it is over. `OwnReply` rests on `Answers`: commands go only to
clients that serve the requester, what is in the channel of an attempt came from its
client for its requester, and a result was preceded by the run.

**PortScanProofs**: `TypeCorrect`, `NoPortMissed` (with `Reached`: an observed port is
in the view, in the replay still to be written, or in a frame still to be sent),
`StaleByReplay` (with `Founded`) and `Debounced` (with `Counted`, for
`portGoneMissingScans >= 2`).

**IntegrationProofs**: `NoDangling` and `RollbackComplete` (and `TypeCorrect`). The
rollback rests on `Kept`: an install that nobody has disturbed still finds the
settings, or the backup, that belong to its step. It needs no lock, since every write
of another process counts as a disturbance. `NeverDangling` does not rest on the lock
either. `Dangling` strengthens it: whenever the editor is without its shim somebody is
blamed, or a living install is `Answerable`: it has the profile away, and will put it
back or be to blame. `Blameless`: an undisturbed install that found the editor without
its shim, and so puts that state back when it fails, is not the first to blame. Only
the end of a blame needs to know who works alone: two holders of the lock are in one
crowd (`Together`), outside of a crowd the lock names the one living install at work
(`Exclusive`), and that one has its profile in place when it succeeds (`InPlace`).

**ServerMountsProofs**: `TypeCorrect`, `NoMountForgotten`, `UnmountIsTrue`, `MarkKept`.
Beside the types, the invariant says that a frame is on its way once (`SentOnce`) and is
acted upon once (`HandledOnce`: a call whose request has not arrived has no handler, and
no call of OnUnmount begins twice), so no step overwrites an unmounter at work.
`TableTrue` relates `fsMounting`, `fsMounts` and `fsUnmounting` to the goroutines they
stand for, and `MountInTable` what is mounted to the table. `Owned` is the heart: the
mount in the table is listed by a peer whose close has not taken the list over, or with
its handler, or with an unmounter that has not returned and cannot be cancelled. It
needs `GivenOnce` (a release is only asked for a create that is over), `Gone` and
`Released` (a release that has returned without an error left nothing with its
`mountId`). `Marked` adds the handler that has set its directory up and the unmounters
that still have one to remove.

**BridgeSessionProofs**: `TypeCorrect`, `EnhancedSafe`, `DirectoryHeld`.
`EnhancedOrPlain` rests on two bounds per place of the start: what a process has opened
when it gets there (`Acquired`) and what it may hold (`Bounded`), so that an error takes
back all there is before ssh runs alone. `DirectoryIsHeld` rests on `OneStart` (who
starts a manager holds `.cleanup.lock`), `VisitsLocked` (a visited directory belongs to
somebody else and its lease is held by the visitor) and `OwnDirectory`: a directory
between its `mkdir` and its lock is unprotected, but only the holder of `.cleanup.lock`
could visit it, and that is its own process.

**MountManagerProofs**: `TypeCorrect` (for finitely many commands), `OfferTrue`,
`EntryMarked`, `CloseComplete`. `Server` says what may be believed of a session at each
step of a command; a record made after the client or its peer has gone is what it must
exclude. `Once` says that no create, cancel, undo or close begins twice, `Awaited` which
commands still wait for an answer, `MountPoint` that a mount is in the stack at most
once and not after its end. `OfferIsTrue` and `EntryIsMarked` need `Steady`: as long as
no creates have crossed, at most one handler or unmounter is at work (`InTurn`), the
mount it works on is the only one (`OneMount`), and a create that was reported as done
is in the table (`Reported`). `CloseLeavesNothing` needs `Owned` (each mount that was
not busy is in charge of its handler, the table, an unmounter or Close) and `Shut`
(Close waits for the handlers and empties the table, and nobody fills it again); these
hold for crossing creates too.

Every safety property of the passing runs is stated by a theorem. Only model-checked
are the liveness properties (`IdleDaemonExits`, `RequesterEnds`, `ShutdownEnds`,
`AbandonedServerExits`, `ListenerIsForwarded`, `ClosedIsDropped`, `RequestEnds`,
`UnwantedMountGoes`, `StopReturns`, `LostSessionEnds`, `LeftoversGo`), which the prover
does not do, and the two violations, which are counterexamples. `DaemonStart` has no
theorem: what it is about does not hold.

## Not modelled

* Bootstrap of the remote server, ssh and docker command lines, argument and
  configuration parsing and text output: scripts and process plumbing without shared
  state. `BridgeSession` takes their outcome as success or failure.
* The framing of the mux and the copying of the stdio proxy; a connection is there or
  lost.
* `protocol`, `identity`, error codes, open flags, the merging of listeners and the
  edit of a JSON text: pure conversions.
* The operations on files of the backend and the FUSE driver are calls into the
  operating system. The life of a mount is modelled.
* The server's accept of a second data session for one client while the first is
  connecting, and its clean-up of stale mounts when it starts.
* The shims of an editor integration at run time (`integration_adapter.go`): they
  start a session, which is `BridgeSession`, and pass bytes on. Their sidecar waits
  for its context only, not for the end of the session.
* The wire formats of DNS and of the frames: a frame arrives whole or not at all.

## Plan

Done: (1) `LocalDaemon`, (2) `ForwardTable` and `ForwardManager`, (3) `BridgeServer`,
(4) `PortScan`, (5) `Peer` and `ServerMounts`, (6) `MountManager`, (7) `ReverseMounts`
and `BridgeSession`, (8) `DaemonStart`, (9) `Integration`, all but `DaemonStart` with
the proofs of their safety properties.

To come: action properties that the inductive invariants already carry (a mount, once
taken away, does not come back; a lease is registered by its own session only), and the
refinement of the server's mount table by one that mounts and unmounts atomically.
