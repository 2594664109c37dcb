---------------------------- MODULE LocalDaemon ----------------------------
(***************************************************************************)
(* The on-demand local daemon of internal/locald: the leases of sshx       *)
(* clients, the target records they share (a private loopback address and  *)
(* a domain name each), the forwarders of the targets, the hand-off grace  *)
(* timers, and the drain that ends the process.                            *)
(*                                                                         *)
(* Every connection is handled by a goroutine of its own.  One action is   *)
(* one critical section of Server.mu together with what the goroutine does *)
(* up to its next critical section; everything else may happen in between. *)
(* A target record is a heap cell (recs) because handlers keep a pointer   *)
(* to it across critical sections, when the map targets may already have   *)
(* lost it.                                                                *)
(***************************************************************************)
EXTENDS Integers, FiniteSets

CONSTANTS
  Conns,      \* connections (handler goroutines) that may be open at a time
  Leases,     \* lease identifiers minted by the clients
  Keys,       \* target keys
  Hosts,      \* domain prefixes; different keys may share one
  NoConn,     \* absence of a connection
  LeaseKey,   \* the target a client holds its lease for
  Host,       \* the domain prefix of a target (TargetPrefix)
  PoolSize,   \* loopback.Size
  Grace,      \* TRUE: HandoffGrace > 0, as cli/builtins.go:222 starts it
  Prompt,     \* TRUE: a port request has its target and its manager within
              \* the grace period
  Kinds,      \* the kinds of request that the clients send
  MaxRecs,    \* bound: target records ever created
  MaxFwds,    \* bound: forward managers ever created
  MaxOpens    \* bound: open-session requests of each lease

ASSUME LocalDaemonAssumption ==
  /\ IsFiniteSet(Leases)
  /\ NoConn \notin Conns
  /\ LeaseKey \in [Leases -> Keys]
  /\ Host \in [Keys -> Hosts]
  /\ PoolSize \in Nat /\ MaxRecs \in Nat /\ MaxFwds \in Nat
  /\ Kinds \subseteq {"open", "ensure", "remove", "shutdown"}
  /\ Grace \in BOOLEAN /\ Prompt \in BOOLEAN

ASSUME OpensAssumption == MaxOpens \in [Leases -> Nat]

VARIABLES
  draining,   \* Server.draining
  shutdown,   \* the shutdown channel is closed
  asked,      \* history: a client sent a shutdown request
  cancelled,  \* a signal cancelled the context of the process
  phase,      \* progress of Serve: serving, then its deferred calls
  startup,    \* the startup timer of monitorStartup has not fired
  sessions,   \* Server.sessions: the connection that holds each lease
  targets,    \* Server.targets: heap index of the record, 0 if absent
  recs,       \* heap of target records
  nrec,       \* records allocated so far
  records,    \* domain.Manager.records: the address of each name, 0 if absent
  domain,     \* the domain manager: off, on or stopped
  forwarders, \* Server.forwarders: heap index of the manager, 0 if absent
  forwards,   \* forwards[f]: the address manager f forwards the modelled
              \* remote port from, 0 if it does not
  stopped,    \* managers that were stopped
  nfwd,       \* managers allocated so far
  timers,     \* timers[l]: grace timers running for released lease l
  tails,      \* what cleanups still do after they unlocked Server.mu
  stopping,   \* managers stopResources still has to stop
  opens,      \* open requests sent per lease (for the bound)
  pc,         \* where the handler of each connection is
  req,        \* the request of each connection
  rec,        \* the target record the handler holds, 0 if none
  fwd         \* the forward manager the handler holds, 0 if none

life   == <<draining, shutdown, asked, cancelled, phase, startup, stopping>>
table  == <<sessions, targets, recs, nrec, records, domain>>
fwds   == <<forwarders, forwards, stopped, nfwd>>
grace  == <<timers, tails>>
conn   == <<pc, req, rec, fwd>>
vars   == <<life, table, fwds, grace, opens, conn>>

NoLease == [type |-> "none", lease |-> "none"]
Addr    == 1 .. PoolSize
Names   == Hosts \X (0 .. MaxRecs)
TargetRecord == [key : Keys, ip : Addr, name : Names, sessions : Nat]
Request == [type : Kinds, lease : Leases]

PCs == {"idle", "open", "check", "lookup", "domain", "create", "register",
        "session", "forwarder", "ensure", "remove", "drop", "shutdown"}

KeyOf(c)     == LeaseKey[req[c].lease]
LeasesOf(k)  == {l \in Leases : LeaseKey[l] = k /\ sessions[l] # NoConn}
Registered   == {k \in Keys : targets[k] # 0}

Init ==
  /\ draining = FALSE /\ shutdown = FALSE /\ asked = FALSE /\ cancelled = FALSE
  /\ phase = "serving" /\ startup = TRUE
  /\ sessions = [l \in Leases |-> NoConn]
  /\ targets = [k \in Keys |-> 0]
  /\ recs = [r \in {} |-> 0] /\ nrec = 0
  /\ records = [n \in Names |-> 0] /\ domain = "off"
  /\ forwarders = [k \in Keys |-> 0]
  /\ forwards = [f \in 1 .. MaxFwds |-> 0] /\ stopped = {} /\ nfwd = 0
  /\ timers = [l \in Leases |-> 0]
  /\ tails = {} /\ stopping = {}
  /\ opens = [l \in Leases |-> 0]
  /\ pc = [c \in Conns |-> "idle"]
  /\ req = [c \in Conns |-> NoLease]
  /\ rec = [c \in Conns |-> 0]
  /\ fwd = [c \in Conns |-> 0]

-----------------------------------------------------------------------------
(* Moving the handler of a connection.                                      *)

Goto(c, p) == pc' = [pc EXCEPT ![c] = p]

\* The handler answers, returns, and removeConnection forgets the connection.
Return(c) ==
  /\ Goto(c, "idle")
  /\ req' = [req EXCEPT ![c] = NoLease]
  /\ rec' = [rec EXCEPT ![c] = 0]
  /\ fwd' = [fwd EXCEPT ![c] = 0]

-----------------------------------------------------------------------------
(* Serve: the accept loop, and the request the connection carries.          *)

\* A draining daemon closes what it accepts, which changes nothing here.
\* Ping and list-ports requests only read.
FirstStep(t) ==
  CASE t = "open" -> "open" [] t = "shutdown" -> "shutdown" [] OTHER -> "check"

Accept(c, t, l) ==
  /\ pc[c] = "idle" /\ phase = "serving" /\ ~shutdown /\ ~draining
  /\ t = "open" => opens[l] < MaxOpens[l]
  /\ opens' = IF t = "open" THEN [opens EXCEPT ![l] = @ + 1] ELSE opens
  /\ Goto(c, FirstStep(t))
  /\ req' = [req EXCEPT ![c] = [type |-> t, lease |-> l]]
  /\ UNCHANGED <<life, table, fwds, grace, rec, fwd>>

\* handleConn: a port request needs a live lease, looked up once (hasSession).
\* Mutant: the lease check is dropped.
hasSessionDropped(l) == TRUE
hasSession(l) == sessions[l] # NoConn

CheckLease(c) ==
  /\ pc[c] = "check"
  /\ \/ /\ hasSession(req[c].lease)
        /\ Goto(c, IF req[c].type = "ensure" THEN "lookup" ELSE "remove")
        /\ UNCHANGED <<req, rec, fwd>>
     \/ ~hasSession(req[c].lease) /\ Return(c)
  /\ UNCHANGED <<life, table, fwds, grace, opens>>

\* The explicit shutdown request: initiateShutdown.
ShutdownRequest(c) ==
  /\ pc[c] = "shutdown"
  /\ asked' = TRUE /\ draining' = TRUE /\ shutdown' = TRUE
  /\ Return(c)
  /\ UNCHANGED <<cancelled, phase, startup, stopping, table, fwds, grace, opens>>

-----------------------------------------------------------------------------
(* ensureTarget, shared by open and ensure requests.                        *)

\* Where the handler continues once ensureTarget returned a record.
AfterEnsure(c) == IF req[c].type = "open" THEN "register" ELSE "forwarder"

Found(c) ==
  /\ rec' = [rec EXCEPT ![c] = targets[KeyOf(c)]]
  /\ Goto(c, AfterEnsure(c))
  /\ UNCHANGED <<req, fwd>>

\* First critical section: the record may be there already.
LookupTarget(c) ==
  /\ pc[c] = "lookup"
  /\ \/ targets[KeyOf(c)] # 0 /\ Found(c)
     \/ targets[KeyOf(c)] = 0 /\ Goto(c, "domain") /\ UNCHANGED <<req, rec, fwd>>
  /\ UNCHANGED <<life, table, fwds, grace, opens>>

\* domain: starting the DNS listener may fail, and then the request does.
EnsureDomain(c) ==
  /\ pc[c] = "domain"
  /\ \/ /\ domain' = IF domain = "off" THEN "on" ELSE domain
        /\ Goto(c, "create")
        /\ UNCHANGED <<req, rec, fwd>>
     \/ domain = "off" /\ UNCHANGED domain /\ Return(c)
  /\ UNCHANGED <<life, sessions, targets, recs, nrec, records, fwds, grace, opens>>

\* allocateLoopbackIPLocked: the first address no registered target uses.
UsedAddr == {recs[targets[k]].ip : k \in Registered}
FirstFree(i) == i \notin UsedAddr /\ \A j \in 1 .. (i - 1) : j \in UsedAddr

\* RegisterTarget: the prefix itself, else the first free numbered one.
\* Mutant: the prefix is taken without looking for an existing record.
FreeNameUnchecked(h, n) == n = 0
FreeName(h, n) ==
  records[<<h, n>>] = 0 /\ \A m \in 0 .. (n - 1) : records[<<h, m>>] # 0

\* Second critical section: look again, then allocate, register and record.
CreateTarget(c) ==
  LET k == KeyOf(c) IN
  /\ pc[c] = "create"
  /\ \/ /\ targets[k] # 0
        /\ Found(c)
        /\ UNCHANGED <<targets, recs, nrec, records>>
     \/ /\ targets[k] = 0 /\ Addr \subseteq UsedAddr
        /\ Return(c)
        /\ UNCHANGED <<targets, recs, nrec, records>>
     \/ /\ targets[k] = 0 /\ nrec < MaxRecs
        /\ \E i \in Addr, n \in 0 .. MaxRecs :
             /\ FirstFree(i) /\ FreeName(Host[k], n)
             /\ records' = [records EXCEPT ![<<Host[k], n>>] = i]
             /\ recs' = [r \in 1 .. (nrec + 1) |->
                           IF r = nrec + 1
                             THEN [key |-> k, ip |-> i, name |-> <<Host[k], n>>, sessions |-> 0]
                             ELSE recs[r]]
        /\ nrec' = nrec + 1
        /\ targets' = [targets EXCEPT ![k] = nrec + 1]
        /\ rec' = [rec EXCEPT ![c] = nrec + 1]
        /\ Goto(c, AfterEnsure(c))
        /\ UNCHANGED <<req, fwd>>
  /\ UNCHANGED <<life, sessions, domain, fwds, grace, opens>>

-----------------------------------------------------------------------------
(* handleSession.                                                           *)

\* The first look at draining, in a critical section of its own.
OpenSession(c) ==
  /\ pc[c] = "open"
  /\ \/ draining /\ Return(c)
     \/ ~draining /\ Goto(c, "lookup") /\ UNCHANGED <<req, rec, fwd>>
  /\ UNCHANGED <<life, table, fwds, grace, opens>>

\* The daemon looks again at draining and at the lease before it registers.
\* Mutants: draining is not looked at again under the lock; a lease that is
\* held already is accepted again.
AdmitsDraining(l) == sessions[l] = NoConn
AdmitsTwice(l) == ~draining
Admits(l) == ~draining /\ sessions[l] = NoConn

\* The lease is registered and the record the handler holds counts it, even
\* when targets no longer maps the key to that record.
RegisterSession(c) ==
  LET l == req[c].lease IN
  /\ pc[c] = "register"
  /\ \/ /\ Admits(l)
        /\ sessions' = [sessions EXCEPT ![l] = c]
        /\ recs' = [recs EXCEPT ![rec[c]].sessions = @ + 1]
        /\ Goto(c, "session")
        /\ UNCHANGED <<req, rec, fwd>>
     \/ /\ ~Admits(l)
        /\ Return(c)
        /\ UNCHANGED <<sessions, recs>>
  /\ UNCHANGED <<life, targets, nrec, records, domain, fwds, grace, opens>>

\* The count of the record now registered for k after a session of k ended.
\* Mutants: a release that is counted twice; the count is not kept at all.
DecrementTwice(k) ==
  IF targets[k] # 0 /\ recs[targets[k]].sessions > 0
    THEN [recs EXCEPT ![targets[k]].sessions = @ - 2]
    ELSE recs
DecrementForgotten(k) == recs
Decrement(k) ==
  IF targets[k] # 0 /\ recs[targets[k]].sessions > 0
    THEN [recs EXCEPT ![targets[k]].sessions = @ - 1]
    ELSE recs

\* The heartbeat loop ends: the peer closed, sent something else, or was
\* silent for LeaseTimeout.  releaseSessionWithGrace then starts the timer.
ReleaseWithGrace(c) ==
  LET l == req[c].lease IN
  /\ Grace /\ pc[c] = "session"
  /\ sessions' = [sessions EXCEPT ![l] = NoConn]
  /\ recs' = Decrement(KeyOf(c))
  /\ timers' = [timers EXCEPT ![l] = @ + 1]
  /\ Return(c)
  /\ UNCHANGED <<life, targets, nrec, records, domain, fwds, tails, opens>>

-----------------------------------------------------------------------------
(* Removing a target, and what follows after the unlock.                    *)

\* Removes target k (if it is idle) and queues the rest of the cleanup:
\* stop its forwarder, unregister its name, and shut down if nothing is left.
RemoveTarget(k, idle, stop) ==
  /\ targets' = IF idle THEN [targets EXCEPT ![k] = 0] ELSE targets
  /\ forwarders' = IF idle THEN [forwarders EXCEPT ![k] = 0] ELSE forwarders
  /\ tails' = IF idle \/ stop
       THEN tails \cup {[rec |-> IF idle THEN targets[k] ELSE 0,
                         fwd |-> IF idle THEN forwarders[k] ELSE 0,
                         stop |-> stop]}
       ELSE tails
  /\ draining' = (draining \/ stop)

\* A port request of lease l between its lease check and the critical section
\* in which it has its manager.  ssh, which follows, may take any time.
PortRequestOf(l) ==
  \E c \in Conns : /\ req[c].type = "ensure" /\ req[c].lease = l
                   /\ pc[c] \in {"lookup", "domain", "create", "forwarder"}

NoSession == \A l \in Leases : sessions[l] = NoConn

\* cleanupIdleTarget, when the grace timer of a released lease fires.
IdleTarget(k) == targets[k] # 0 /\ recs[targets[k]].sessions = 0

GraceExpires(l) ==
  LET k == LeaseKey[l]
      idle == IdleTarget(k)
      left == Registered \ (IF idle THEN {k} ELSE {})
  IN
  /\ timers[l] > 0
  /\ phase # "exited"
  /\ Prompt => ~PortRequestOf(l)
  /\ timers' = [timers EXCEPT ![l] = @ - 1]
  /\ RemoveTarget(k, idle, NoSession /\ left = {})
  /\ UNCHANGED <<shutdown, asked, cancelled, phase, startup, stopping, sessions, recs, nrec,
                 records, domain, forwards, stopped, nfwd, opens, conn>>

\* releaseSessionNow: the daemon without a hand-off grace.
ReleaseNow(c) ==
  LET l == req[c].lease
      k == KeyOf(c)
      idle == targets[k] # 0 /\ recs[targets[k]].sessions <= 1
      last == \A m \in Leases \ {l} : sessions[m] = NoConn
  IN
  /\ ~Grace /\ pc[c] = "session"
  /\ sessions' = [sessions EXCEPT ![l] = NoConn]
  /\ recs' = Decrement(k)
  /\ RemoveTarget(k, idle, last)
  /\ Return(c)
  /\ UNCHANGED <<shutdown, asked, cancelled, phase, startup, stopping, nrec, records, domain,
                 forwards, stopped, nfwd, timers, opens>>

\* Manager.Stop: no forward survives it and no Ensure succeeds after it.
\* Mutant: Stop empties the table and does not mark the manager.
StopManagerUnmarked(f) ==
  /\ stopped' = stopped
  /\ forwards' = [forwards EXCEPT ![f] = 0]
StopManager(f) ==
  /\ stopped' = stopped \cup {f}
  /\ forwards' = [forwards EXCEPT ![f] = 0]

\* Outside the lock, in this order: fwd.Stop, Unregister, initiateShutdown.
CleanupTail(t) ==
  /\ t \in tails
  /\ phase # "exited"
  /\ \/ /\ t.fwd # 0
        /\ StopManager(t.fwd)
        /\ tails' = (tails \ {t}) \cup {[t EXCEPT !.fwd = 0]}
        /\ UNCHANGED <<draining, shutdown, records>>
     \/ /\ t.fwd = 0 /\ t.rec # 0
        /\ records' = [records EXCEPT ![recs[t.rec].name] = 0]
        /\ tails' = (tails \ {t}) \cup (IF t.stop THEN {[t EXCEPT !.rec = 0]} ELSE {})
        /\ UNCHANGED <<draining, shutdown, stopped, forwards>>
     \/ /\ t.fwd = 0 /\ t.rec = 0
        /\ draining' = TRUE /\ shutdown' = TRUE
        /\ tails' = tails \ {t}
        /\ UNCHANGED <<records, stopped, forwards>>
  /\ UNCHANGED <<asked, cancelled, phase, startup, stopping, sessions, targets, recs, nrec,
                 domain, forwarders, nfwd, timers, opens, conn>>

-----------------------------------------------------------------------------
(* ensureTargetPort and removeTargetPort.                                   *)

\* forwarder: look up or create the manager of the key.
LookupForwarder(c) ==
  LET k == KeyOf(c) IN
  /\ pc[c] = "forwarder"
  /\ \/ /\ forwarders[k] # 0
        /\ fwd' = [fwd EXCEPT ![c] = forwarders[k]]
        /\ UNCHANGED fwds
     \/ /\ forwarders[k] = 0 /\ nfwd < MaxFwds
        /\ nfwd' = nfwd + 1
        /\ forwarders' = [forwarders EXCEPT ![k] = nfwd + 1]
        /\ fwd' = [fwd EXCEPT ![c] = nfwd + 1]
        /\ UNCHANGED <<forwards, stopped>>
  /\ Goto(c, "ensure")
  /\ UNCHANGED <<life, table, grace, opens, req, rec>>

\* Manager.Ensure as its caller sees it: a stopped manager and a failing
\* ssh or listener refuse, an existing forward is returned, else it is added.
EnsureForward(c) ==
  LET f == fwd[c] IN
  /\ pc[c] = "ensure"
  /\ \/ /\ f \notin stopped /\ forwards[f] = 0
        /\ forwards' = [forwards EXCEPT ![f] = recs[rec[c]].ip]
     \/ UNCHANGED forwards
  /\ Return(c)
  /\ UNCHANGED <<life, table, forwarders, stopped, nfwd, grace, opens>>

\* removeTargetPort: look the manager up, then Remove outside the lock.
LookupRemove(c) ==
  /\ pc[c] = "remove"
  /\ \/ /\ forwarders[KeyOf(c)] # 0
        /\ fwd' = [fwd EXCEPT ![c] = forwarders[KeyOf(c)]]
        /\ Goto(c, "drop")
        /\ UNCHANGED <<req, rec>>
     \/ forwarders[KeyOf(c)] = 0 /\ Return(c)
  /\ UNCHANGED <<life, table, fwds, grace, opens>>

RemoveForward(c) ==
  /\ pc[c] = "drop"
  /\ forwards' = [forwards EXCEPT ![fwd[c]] = 0]
  /\ Return(c)
  /\ UNCHANGED <<life, table, forwarders, stopped, nfwd, grace, opens>>

-----------------------------------------------------------------------------
(* monitorStartup and the end of Serve.                                     *)

\* The daemon drains itself when no lease is held StartupTimeout after start.
StartupExpires ==
  /\ startup /\ ~shutdown
  /\ startup' = FALSE
  /\ IF NoSession
       THEN /\ draining' = TRUE
            /\ tails' = tails \cup {[rec |-> 0, fwd |-> 0, stop |-> TRUE]}
       ELSE UNCHANGED <<draining, tails>>
  /\ UNCHANGED <<shutdown, asked, cancelled, phase, stopping, table, fwds, timers, opens, conn>>

\* SIGINT, SIGTERM, SIGHUP or SIGQUIT (cli/signal.go): Serve returns, but
\* nothing marks the daemon as draining.
Signal ==
  /\ ~cancelled /\ phase # "exited"
  /\ cancelled' = TRUE
  /\ UNCHANGED <<draining, shutdown, asked, phase, startup, stopping, table, fwds, grace, opens, conn>>

\* The listener is closed: the deferred stopResources takes its snapshot.
StopResources ==
  /\ phase = "serving" /\ (shutdown \/ cancelled)
  /\ phase' = "stopping"
  /\ stopping' = {forwarders[k] : k \in {k \in Keys : forwarders[k] # 0}}
  /\ UNCHANGED <<draining, shutdown, asked, cancelled, startup, table, fwds, grace, opens, conn>>

StopNext(f) ==
  /\ phase = "stopping" /\ f \in stopping
  /\ stopping' = stopping \ {f}
  /\ StopManager(f)
  /\ UNCHANGED <<draining, shutdown, asked, cancelled, phase, startup, table, forwarders, nfwd,
                 grace, opens, conn>>

\* dom.Stop, then closeConnections.
CloseConnections ==
  /\ phase = "stopping" /\ stopping = {}
  /\ phase' = "closing"
  /\ domain' = IF domain = "on" THEN "stopped" ELSE domain
  /\ UNCHANGED <<draining, shutdown, asked, cancelled, startup, stopping, sessions, targets, recs,
                 nrec, records, fwds, grace, opens, conn>>

\* connWG.Wait: every handler returned; without a grace the handler itself
\* runs the tail of the cleanup.
Exit ==
  /\ phase = "closing"
  /\ \A c \in Conns : pc[c] = "idle"
  /\ ~Grace => tails = {}
  /\ phase' = "exited"
  /\ UNCHANGED <<draining, shutdown, asked, cancelled, startup, stopping, table, fwds, grace, opens, conn>>

-----------------------------------------------------------------------------
(* The steps of a handler after its request was read, except the end of a   *)
(* session, which the client decides until Serve closes the connection.     *)
Handler(c) ==
  \/ CheckLease(c) \/ ShutdownRequest(c) \/ LookupTarget(c) \/ EnsureDomain(c)
  \/ CreateTarget(c) \/ OpenSession(c) \/ RegisterSession(c) \/ LookupForwarder(c)
  \/ EnsureForward(c) \/ LookupRemove(c) \/ RemoveForward(c)

Release(c) == ReleaseWithGrace(c) \/ ReleaseNow(c)

Next ==
  \/ \E c \in Conns, t \in Kinds, l \in Leases :
       Accept(c, t, l)
  \/ \E c \in Conns : Handler(c) \/ Release(c)
  \/ \E l \in Leases : GraceExpires(l)
  \/ \E t \in tails : CleanupTail(t)
  \/ \E f \in stopping : StopNext(f)
  \/ StartupExpires \/ Signal \/ StopResources \/ CloseConnections \/ Exit

\* Goroutines run, timers fire, and a closed connection ends its session;
\* clients owe nothing.
Fairness ==
  /\ \A c \in Conns : WF_vars(Handler(c)) /\ WF_vars(phase # "serving" /\ Release(c))
  /\ \A l \in Leases : WF_vars(GraceExpires(l))
  /\ WF_vars(\E t \in tails : CleanupTail(t))
  /\ WF_vars(\E f \in stopping : StopNext(f))
  /\ WF_vars(~cancelled /\ StartupExpires) /\ WF_vars(StopResources)
  /\ WF_vars(CloseConnections) /\ WF_vars(Exit)

Spec == Init /\ [][Next]_vars
FairSpec == Spec /\ Fairness

-----------------------------------------------------------------------------
(* Properties.                                                              *)

TypeLife ==
  /\ draining \in BOOLEAN /\ shutdown \in BOOLEAN /\ asked \in BOOLEAN
  /\ startup \in BOOLEAN /\ cancelled \in BOOLEAN
  /\ phase \in {"serving", "stopping", "closing", "exited"}

TypeTable ==
  /\ sessions \in [Leases -> Conns \cup {NoConn}]
  /\ nrec \in 0 .. MaxRecs /\ recs \in [1 .. nrec -> TargetRecord]
  /\ targets \in [Keys -> 0 .. nrec]
  /\ records \in [Names -> 0 .. PoolSize]
  /\ domain \in {"off", "on", "stopped"}

TypeForwards ==
  /\ nfwd \in 0 .. MaxFwds
  /\ forwarders \in [Keys -> 0 .. nfwd]
  /\ forwards \in [1 .. MaxFwds -> 0 .. PoolSize]
  /\ stopped \subseteq 1 .. nfwd /\ stopping \subseteq 1 .. nfwd

TypeGrace ==
  /\ timers \in [Leases -> Nat]
  /\ tails \subseteq [rec : 0 .. nrec, fwd : 0 .. nfwd, stop : BOOLEAN]
  /\ opens \in [Leases -> Nat]

TypeConn ==
  /\ pc \in [Conns -> PCs]
  /\ req \in [Conns -> Request \cup {NoLease}]
  /\ rec \in [Conns -> 0 .. nrec]
  /\ fwd \in [Conns -> 0 .. nfwd]

\* Every variable has its type; the maps, the handlers and the pending
\* cleanups only refer to heap cells that were allocated.
TypeOK == TypeLife /\ TypeTable /\ TypeForwards /\ TypeGrace /\ TypeConn

\* A daemon that drains by itself (startup timeout, last lease released,
\* grace over) strands nobody: no lease is held then and none is admitted
\* later, although handlers may already be past their first look at draining.
DrainedIsIdle == draining /\ ~asked => NoSession

\* The registered record of a target never counts more sessions than the
\* target has: with a higher count cleanupIdleTarget would never find the
\* target idle, and the daemon would not exit.
NoPhantomSessions ==
  \A k \in Registered : recs[targets[k]].sessions <= Cardinality(LeasesOf(k))

\* Registered targets have different addresses and different names, and the
\* resolver answers each name with that target's address, also while the
\* names of removed targets are still waiting to be unregistered.
ResolverAgrees ==
  /\ \A k \in Registered :
       records[recs[targets[k]].name] = recs[targets[k]].ip
  /\ \A j, k \in Registered : j # k =>
       /\ recs[targets[j]].ip # recs[targets[k]].ip
       /\ recs[targets[j]].name # recs[targets[k]].name

\* Nothing keeps a target forever: while the daemon is not draining, a
\* registered target has a session, a grace timer or an open request that
\* will release it.
NoLeakedTarget ==
  ~draining => \A k \in Registered :
    \/ \E l \in Leases : LeaseKey[l] = k /\ (sessions[l] # NoConn \/ timers[l] > 0)
    \/ \E c \in Conns : pc[c] = "register" /\ KeyOf(c) = k

\* No forward is forgotten: a manager that forwards is in the table, from
\* which a cleanup or the end of Serve takes it, or with a cleanup that has
\* yet to stop it.  A port request may still hold a manager whose target was
\* removed after its lease was checked; it must not add a forward there.
ForwardsOwned ==
  \A f \in 1 .. nfwd : forwards[f] # 0 =>
    (\E k \in Keys : forwarders[k] = f) \/ (\E t \in tails : t.fwd = f)

\* When at last no connection is open any more, the process ends.
IdleDaemonExits == <>[](\A c \in Conns : pc[c] = "idle") => <>(phase = "exited")

-----------------------------------------------------------------------------
(* A statement of the documentation that the daemon does not keep.          *)

\* README: each target gets its own loopback address.  Two live sessions of
\* different targets were not told the same address.
OwnAddress ==
  \A l, m \in Leases :
    hasSession(l) /\ hasSession(m) /\ LeaseKey[l] # LeaseKey[m]
      => recs[rec[sessions[l]]].ip # recs[rec[sessions[m]]].ip
=============================================================================
