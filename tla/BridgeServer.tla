---------------------------- MODULE BridgeServer ----------------------------
(***************************************************************************)
(* The remote server of internal/bridge: the client bridges registered     *)
(* with it, the requesters whose commands it routes to them (with a fail-  *)
(* over to another client), the heartbeat sweep, and the drain.            *)
(*                                                                         *)
(* Every connection has a handler goroutine and is used once.  One action  *)
(* is one critical section of Server.mu with what follows up to the next   *)
(* blocking call.  Commands and replies travel in frames that a client may *)
(* take at any time, late ones included.  The file system sessions of the  *)
(* server count here only as connections that keep it busy.                *)
(***************************************************************************)
EXTENDS Naturals, Sequences, SequencesExt

CONSTANTS
  ClientConns,   \* connections of client bridges
  RequestConns,  \* connections of requesters (sshx exec on the remote host)
  DataConns,     \* connections of the file system socket
  Sessions, Contexts,
  AnyId,         \* a requester that names no session, or no context
  None,
  SessionOf,     \* the session and the context that a client announces,
  ContextOf,
  Able,          \* the clients with the command.exec capability, and
  Want,          \* the session and the context that a requester names
  Leavers,       \* connections whose peer may leave at any time
  Mute,          \* clients whose heartbeats may stop
  Events         \* what else may happen: time, signal

Conns == ClientConns \cup RequestConns \cup DataConns

ASSUME BridgeAssumption ==
  /\ ClientConns \cap RequestConns = {} /\ DataConns \cap (ClientConns \cup RequestConns) = {}
  /\ None \notin Conns /\ AnyId \notin Sessions \cup Contexts
  /\ SessionOf \in [ClientConns -> Sessions]
  /\ ContextOf \in [ClientConns -> Contexts]
  /\ Able \subseteq ClientConns
  /\ Want \in [RequestConns -> [session : Sessions \cup {AnyId}, context : Contexts \cup {AnyId}]]

ASSUME DisturbanceAssumption ==
  /\ Leavers \subseteq Conns /\ Mute \subseteq ClientConns
  /\ Events \subseteq {"time", "signal"}

VARIABLES
  draining,   \* Server.draining
  cancelled,  \* the context of Serve is cancelled
  phase,      \* Serve: serving, closing its connections, exited
  everHad,    \* Server.everHadClient
  quiet,      \* the drain (or startup) timeout has passed since lastActive
  mon,        \* where monitorLeases is
  sweep,      \* clients of its snapshot it still has to look at
  doomed,     \* the client it found silent and is about to remove
  clients,    \* Server.clients, in the order of their arrival
  pc,         \* where the handler of each connection is
  silent,     \* clients without a heartbeat for HeartbeatTimeout
  gone,       \* connections that the peer has left
  shut,       \* connections that the server has closed
  done,       \* clients whose done channel is closed
  target,     \* the client that a requester has picked
  tried,      \* history: the clients a requester gave up
  pending,    \* <<client, requester>>: replies the client's readLoop expects
  inbox,      \* <<client, requester>>: commands on their way to the client
  replies,    \* frames on their way back
  resp,       \* the frame in the response channel of each attempt, a
              \* <<client, requester>>: every attempt has a channel of its own
  ran         \* history: <<requester, client>>, commands that were run

server == <<draining, cancelled, phase, everHad>>
monitor == <<mon, sweep, doomed>>
sockets == <<silent, gone>>
routing == <<target, tried, pending, inbox, replies, resp, ran>>
vars == <<server, quiet, monitor, clients, pc, sockets, shut, done, routing>>

Attempts == ClientConns \X RequestConns
Reply == [by : ClientConns, for : RequestConns, kind : {"result", "error"}]

Init ==
  /\ draining = FALSE /\ cancelled = FALSE /\ phase = "serving"
  /\ everHad = FALSE /\ quiet = FALSE
  /\ mon = "idle" /\ sweep = {} /\ doomed = None /\ clients = <<>>
  /\ pc = [c \in Conns |-> "new"]
  /\ silent = {} /\ gone = {} /\ shut = {} /\ done = {}
  /\ target = [r \in RequestConns |-> None] /\ tried = [r \in RequestConns |-> {}]
  /\ pending = {} /\ inbox = {} /\ replies = {}
  /\ resp = [a \in Attempts |-> None] /\ ran = {}

\* Server.connections: the connections whose handler has not returned.
Connections == {c \in Conns : pc[c] \notin {"new", "closed"}}

Goto(c, p) == pc' = [pc EXCEPT ![c] = p]

-----------------------------------------------------------------------------
(* Registering and removing a client.                                       *)

\* addClient refuses while draining, and a session that is still registered.
Admits(c) == ~draining /\ \A d \in ToSet(clients) : SessionOf[d] # SessionOf[c]

\* The list without c, if it is there: clients are told apart by their
\* connection, never by the session they carry.
\* Mutant: by the session.
WithoutSession(c) == SelectSeq(clients, LAMBDA d : SessionOf[d] # SessionOf[c])
Without(c) ==
  IF c \in ToSet(clients)
    THEN RemoveAt(clients, CHOOSE i \in 1 .. Len(clients) : clients[i] = c)
    ELSE clients

\* The clients that removeClient(c) closes: a requester that waits for one
\* is woken up.
\* Mutant: only the socket is closed.
WokenNone(c) == done
Woken(c) == done \cup (ToSet(clients) \cap {c})

removeClient(c) ==
  /\ clients' = Without(c)
  /\ shut' = shut \cup (ToSet(clients) \cap {c})
  /\ done' = Woken(c)
  /\ quiet' = (quiet /\ c \notin ToSet(clients))

-----------------------------------------------------------------------------
(* Accepting connections, and client handlers.                              *)

Accept(c) ==
  /\ pc[c] = "new" /\ phase = "serving" /\ ~draining
  /\ Goto(c, IF c \in DataConns THEN "data" ELSE "hello")
  /\ UNCHANGED <<server, quiet, monitor, clients, sockets, shut, done, routing>>

\* The peer leaves, or sends a frame that makes its handler give up (a bad
\* hello, another role, an incompatible heartbeat).  A requester whose command
\* was read is only written to: that it left makes no difference.
PeerLeaves(c) ==
  /\ c \in Leavers /\ c \in Connections /\ c \notin gone
  /\ c \in RequestConns => pc[c] \in {"hello", "request"}
  /\ gone' = gone \cup {c}
  /\ UNCHANGED <<server, quiet, monitor, clients, pc, silent, shut, done, routing>>

\* No hello, or one that is refused.
HelloFails(c) ==
  /\ pc[c] = "hello" /\ c \in gone \cup shut
  /\ Goto(c, "closed")
  /\ shut' = shut \cup {c}
  /\ UNCHANGED <<server, quiet, monitor, clients, sockets, done, routing>>

HelloClient(c) ==
  /\ c \in ClientConns /\ pc[c] = "hello"
  /\ \/ /\ Admits(c)
        /\ clients' = Append(clients, c)
        /\ everHad' = TRUE /\ quiet' = FALSE
        /\ Goto(c, "greet")
        /\ UNCHANGED <<shut, done>>
     \/ /\ ~Admits(c)
        /\ Goto(c, "closed")
        /\ shut' = shut \cup {c} /\ done' = done \cup {c}
        /\ UNCHANGED <<clients, everHad, quiet>>
  /\ UNCHANGED <<draining, cancelled, phase, monitor, sockets, routing>>

\* The capabilities are sent, then the current ports (module PortScan).
Greet(c) ==
  /\ c \in ClientConns /\ pc[c] = "greet"
  /\ \/ /\ c \notin gone \cup shut
        /\ Goto(c, "reading")
        /\ UNCHANGED <<clients, quiet, shut, done>>
     \/ /\ c \in gone \cup shut
        /\ removeClient(c)
        /\ Goto(c, "closed")
  /\ UNCHANGED <<server, monitor, sockets, routing>>

\* readLoop ends on a closed connection, and removeClient follows.
ReadEnds(c) ==
  /\ c \in ClientConns /\ pc[c] = "reading" /\ c \in gone \cup shut
  /\ removeClient(c)
  /\ Goto(c, "closed")
  /\ UNCHANGED <<server, monitor, sockets, routing>>

\* HeartbeatTimeout passes without a heartbeat; a late one is still read.
FallsSilent(c) ==
  /\ c \in Mute /\ pc[c] \in {"greet", "reading"} /\ c \notin silent
  /\ silent' = silent \cup {c}
  /\ UNCHANGED <<server, quiet, monitor, clients, pc, gone, shut, done, routing>>

Heartbeat(c) ==
  /\ c \in ClientConns /\ pc[c] = "reading" /\ c \in silent
  /\ silent' = silent \ {c}
  /\ UNCHANGED <<server, quiet, monitor, clients, pc, gone, shut, done, routing>>

-----------------------------------------------------------------------------
(* Requesters.                                                              *)

\* The role is known: markActive.
HelloRequester(r) ==
  /\ r \in RequestConns /\ pc[r] = "hello"
  /\ quiet' = FALSE
  /\ Goto(r, "request")
  /\ UNCHANGED <<server, monitor, clients, sockets, shut, done, routing>>

\* The requester's handler answers, and closes the connection.
Answer(r) == Goto(r, "closed") /\ shut' = shut \cup {r}

ReadRequest(r) ==
  /\ r \in RequestConns /\ pc[r] = "request"
  /\ Goto(r, "pick")
  /\ UNCHANGED <<server, quiet, monitor, clients, sockets, shut, done, routing>>

\* No command, or one that is malformed or contradicts the hello.
RequestFails(r) ==
  /\ r \in RequestConns /\ pc[r] = "request" /\ r \in gone \cup shut
  /\ Answer(r)
  /\ UNCHANGED <<server, quiet, monitor, clients, sockets, done, routing>>

Serves(c, r) ==
  /\ c \in Able
  /\ Want[r].session \in {AnyId, SessionOf[c]}
  /\ Want[r].context \in {AnyId, ContextOf[c]}

\* pickClient: the first registered client that fits.
Pick(r) ==
  LET fits == {i \in 1 .. Len(clients) : Serves(clients[i], r)} IN
  /\ r \in RequestConns /\ pc[r] = "pick"
  /\ \/ /\ fits = {}
        /\ Answer(r)
        /\ UNCHANGED target
     \/ \E i \in fits :
          /\ \A j \in fits : i <= j
          /\ target' = [target EXCEPT ![r] = clients[i]]
          /\ Goto(r, "send")
          /\ UNCHANGED shut
  /\ UNCHANGED <<server, quiet, monitor, clients, sockets, done,
                 tried, pending, inbox, replies, resp, ran>>

\* A command that wants the remote file system is answered with an error when
\* the export or the mount cannot be had; there is no fail-over then.
PrepareFails(r) ==
  /\ r \in RequestConns /\ pc[r] = "send"
  /\ Answer(r)
  /\ UNCHANGED <<server, quiet, monitor, clients, sockets, done, routing>>

\* clientConn.request: the reply is expected before the command is written.
Send(r) ==
  LET c == target[r] IN
  /\ r \in RequestConns /\ pc[r] = "send"
  /\ \/ /\ c \notin gone \cup shut
        /\ pending' = pending \cup {<<c, r>>}
        /\ inbox' = inbox \cup {<<c, r>>}
        /\ Goto(r, "wait")
     \/ /\ c \in gone \cup shut
        /\ Goto(r, "failed")
        /\ UNCHANGED <<pending, inbox>>
  /\ UNCHANGED <<server, quiet, monitor, clients, sockets, shut, done,
                 target, tried, replies, resp, ran>>

\* The deferred end of request: the reply is not expected any longer.
\* Mutant: the entry stays.
ForgetNothing(r) == pending
Forget(r) == pending \ {<<target[r], r>>}

\* The response channel and the done channel may both be ready: select then
\* takes either.  The channel goes with its attempt.
Wait(r) ==
  /\ r \in RequestConns /\ pc[r] = "wait"
  /\ \/ resp[<<target[r], r>>] # None /\ Answer(r)
     \/ target[r] \in done /\ Goto(r, "failed") /\ UNCHANGED shut
  /\ pending' = Forget(r)
  /\ resp' = [resp EXCEPT ![<<target[r], r>>] = None]
  /\ UNCHANGED <<server, quiet, monitor, clients, sockets, done,
                 target, tried, inbox, replies, ran>>

\* The client is given up before the next one is picked.
\* Mutant: the client stays registered.
GiveUpNothing(r) == UNCHANGED <<clients, shut, done, quiet>>
GiveUp(r) == removeClient(target[r])

Failed(r) ==
  /\ r \in RequestConns /\ pc[r] = "failed"
  /\ GiveUp(r)
  /\ tried' = [tried EXCEPT ![r] = @ \cup {target[r]}]
  /\ target' = [target EXCEPT ![r] = None]
  /\ Goto(r, "pick")
  /\ UNCHANGED <<server, monitor, sockets, pending, inbox, replies, resp, ran>>

-----------------------------------------------------------------------------
(* The client's side of a command (client.go), and its reply.               *)

\* The client runs the command, or refuses it (policy, malformed frame).  What
\* it writes to a connection that the server has closed is lost.
Run(c, r) ==
  /\ <<c, r>> \in inbox /\ c \notin gone
  /\ inbox' = inbox \ {<<c, r>>}
  /\ \E kind \in {"result", "error"} :
       /\ ran' = IF kind = "result" THEN ran \cup {<<r, c>>} ELSE ran
       /\ replies' = IF c \in shut THEN replies
                     ELSE replies \cup {[by |-> c, for |-> r, kind |-> kind]}
  /\ UNCHANGED <<server, quiet, monitor, clients, pc, sockets, shut, done,
                 target, tried, pending, resp>>

\* The requesters that a reply may be handed to: by the command's identifier,
\* which the requesters choose and no two share.
\* Mutant: whoever waits for this client.
ExpectedByClient(m) == {r \in RequestConns : <<m.by, r>> \in pending}
ExpectedBy(m) == {r \in RequestConns : r = m.for /\ <<m.by, r>> \in pending}

\* readLoop hands the reply over; one that nobody expects is dropped.
Deliver(m) ==
  /\ m \in replies /\ pc[m.by] = "reading"
  /\ replies' = replies \ {m}
  /\ \/ \E r \in ExpectedBy(m) : resp' = [resp EXCEPT ![<<m.by, r>>] = IF @ = None THEN m ELSE @]
     \/ ExpectedBy(m) = {} /\ UNCHANGED resp
  /\ UNCHANGED <<server, quiet, monitor, clients, pc, sockets, shut, done,
                 target, tried, pending, inbox, ran>>

-----------------------------------------------------------------------------
(* Data connections, and time.                                              *)

\* A file system session starts or ends: lastActive.
DataActive(c) ==
  /\ c \in DataConns /\ pc[c] = "data" /\ quiet
  /\ quiet' = FALSE
  /\ UNCHANGED <<server, monitor, clients, pc, sockets, shut, done, routing>>

DataEnds(c) ==
  /\ c \in DataConns /\ pc[c] = "data" /\ c \in gone \cup shut
  /\ Goto(c, "closed")
  /\ UNCHANGED <<server, quiet, monitor, clients, sockets, shut, done, routing>>

TimePasses ==
  /\ "time" \in Events /\ ~quiet
  /\ quiet' = TRUE
  /\ UNCHANGED <<server, monitor, clients, pc, sockets, shut, done, routing>>

-----------------------------------------------------------------------------
(* monitorLeases.                                                           *)

Tick ==
  /\ mon = "idle" /\ ~cancelled
  /\ mon' = "sweep" /\ sweep' = ToSet(clients)
  /\ UNCHANGED <<server, quiet, doomed, clients, pc, sockets, shut, done, routing>>

\* lastSeen is read in a critical section of the client ...
SweepClient(c) ==
  /\ mon = "sweep" /\ doomed = None /\ c \in sweep
  /\ sweep' = sweep \ {c}
  /\ doomed' = IF c \in silent THEN c ELSE None
  /\ UNCHANGED <<server, quiet, mon, clients, pc, sockets, shut, done, routing>>

\* ... and removeClient follows in one of the server: a heartbeat that comes
\* in between does not save the client.
SweepRemoves ==
  /\ doomed # None
  /\ removeClient(doomed)
  /\ doomed' = None
  /\ UNCHANGED <<server, mon, sweep, pc, sockets, routing>>

\* Whether the timeout that applies has passed: DrainTimeout after a client,
\* StartupTimeout while there was none.
\* Mutant: a server that never had a client waits for one.
OverdueOnceUsed == everHad /\ quiet
Overdue == (everHad /\ quiet) \/ (~everHad /\ quiet)

Idle == clients = <<>> /\ Connections = {}

\* First look, in one critical section.
MonitorLook ==
  /\ mon = "sweep" /\ sweep = {} /\ doomed = None
  /\ mon' = IF Idle /\ Overdue THEN "armed" ELSE "idle"
  /\ UNCHANGED <<server, quiet, sweep, doomed, clients, pc, sockets, shut, done, routing>>

\* Second look, in the critical section that sets draining.
\* Mutant: the second look is left out.
StillIdleUnchecked == TRUE
StillIdle == Idle

MonitorDrain ==
  /\ mon = "armed"
  /\ IF StillIdle THEN draining' = TRUE /\ mon' = "drain"
                  ELSE mon' = "idle" /\ UNCHANGED draining
  /\ UNCHANGED <<cancelled, phase, everHad, quiet, sweep, doomed, clients, pc, sockets, shut, done, routing>>

\* initiateShutdown cancels the context of Serve.
MonitorShutdown ==
  /\ mon = "drain"
  /\ mon' = "end" /\ cancelled' = TRUE
  /\ UNCHANGED <<draining, phase, everHad, quiet, sweep, doomed, clients, pc, sockets, shut, done, routing>>

-----------------------------------------------------------------------------
(* The end of Serve.                                                        *)

\* SIGINT, SIGTERM, SIGHUP or SIGQUIT: the server ends without draining.
Signal ==
  /\ "signal" \in Events /\ ~cancelled
  /\ cancelled' = TRUE
  /\ UNCHANGED <<draining, phase, everHad, quiet, monitor, clients, pc, sockets, shut, done, routing>>

\* The accept loop has ended: closeConnections closes what is open.
CloseConnections ==
  /\ cancelled /\ phase = "serving"
  /\ phase' = "closing"
  /\ shut' = shut \cup Connections
  /\ UNCHANGED <<draining, cancelled, everHad, quiet, monitor, clients, pc, sockets, done, routing>>

\* connWG.Wait.
Exit ==
  /\ phase = "closing" /\ Connections = {}
  /\ phase' = "exited"
  /\ UNCHANGED <<draining, cancelled, everHad, quiet, monitor, clients, pc, sockets, shut, done, routing>>

-----------------------------------------------------------------------------
(* What a handler does on its own, and what it does when its peer speaks.    *)
Handler(c) ==
  \/ HelloFails(c) \/ Greet(c) \/ ReadEnds(c) \/ DataEnds(c) \/ RequestFails(c)
  \/ Pick(c) \/ Send(c) \/ Wait(c) \/ Failed(c)

PeerSpeaks(c) == HelloClient(c) \/ HelloRequester(c) \/ ReadRequest(c)

Monitor ==
  \/ Tick \/ MonitorLook \/ MonitorDrain \/ MonitorShutdown
  \/ SweepRemoves \/ \E c \in sweep : SweepClient(c)

Next ==
  \/ \E c \in Conns : \/ Accept(c) \/ PeerLeaves(c) \/ PeerSpeaks(c) \/ Handler(c)
                      \/ FallsSilent(c) \/ Heartbeat(c) \/ PrepareFails(c) \/ DataActive(c)
  \/ \E c \in ClientConns, r \in RequestConns : Run(c, r)
  \/ \E m \in replies : Deliver(m)
  \/ TimePasses \/ Monitor \/ Signal \/ CloseConnections \/ Exit

\* Goroutines run and time passes.  A client that is not silent for good takes
\* its commands and they end; nobody owes a connection, a hello or a request.
Fairness ==
  /\ \A c \in Conns : WF_vars(Handler(c))
  /\ WF_vars(Monitor) /\ WF_vars(TimePasses)
  /\ WF_vars(CloseConnections) /\ WF_vars(Exit)
  /\ \A c \in ClientConns, r \in RequestConns : SF_vars(c \notin silent /\ Run(c, r))
  /\ WF_vars(\E m \in replies : Deliver(m))

Spec == Init /\ [][Next]_vars
FairSpec == Spec /\ Fairness

-----------------------------------------------------------------------------
(* Properties.                                                              *)

\* Every variable has its type, and a reply is expected only for a requester
\* that waits, from the client it waits for.
TypeOK ==
  /\ draining \in BOOLEAN /\ cancelled \in BOOLEAN /\ everHad \in BOOLEAN /\ quiet \in BOOLEAN
  /\ phase \in {"serving", "closing", "exited"}
  /\ mon \in {"idle", "sweep", "armed", "drain", "end"}
  /\ clients \in Seq(ClientConns) /\ sweep \subseteq ClientConns
  /\ doomed \in ClientConns \cup {None}
  /\ pc \in [Conns -> {"new", "hello", "greet", "reading", "data", "request",
                       "pick", "send", "wait", "failed", "closed"}]
  /\ silent \subseteq ClientConns /\ gone \subseteq Conns
  /\ shut \subseteq Conns /\ done \subseteq ClientConns
  /\ target \in [RequestConns -> ClientConns \cup {None}]
  /\ tried \in [RequestConns -> SUBSET ClientConns]
  /\ pending \subseteq {<<target[r], r>> : r \in {q \in RequestConns : pc[q] = "wait"}}
  /\ inbox \subseteq ClientConns \X RequestConns
  /\ replies \subseteq Reply /\ resp \in [Attempts -> Reply \cup {None}]
  /\ ran \subseteq RequestConns \X ClientConns

\* A server that drains serves nobody: no client is registered, no requester
\* waits, no data connection is open, and none of them is let in later.
DrainedIsIdle == draining => Idle

\* The answer that a requester is given is the reply to its own command, by the
\* client it waits for, and a result means that this client ran the command;
\* a command runs only where it was addressed to.
OwnReply ==
  /\ \A r \in RequestConns :
       LET m == resp[<<target[r], r>>] IN
       pc[r] = "wait" /\ m # None =>
         /\ m.for = r /\ m.by = target[r]
         /\ m.kind = "result" => <<r, target[r]>> \in ran
  /\ \A x \in ran : Serves(x[2], x[1])

\* The fail-over makes progress: a client that a requester gave up is not
\* registered any more, so it is never tried a second time.
NoSecondAttempt == \A r \in RequestConns : tried[r] \cap ToSet(clients) = {}

\* A client is unregistered only when its own connection ended or when the
\* sweep, looking at this very connection, had found it silent; never because
\* of an older connection of its session.
OnlyDeadClientsLeave ==
  [][/\ \A c \in ToSet(clients) : c \in ToSet(clients') \cup gone \cup shut \cup {doomed}
     /\ doomed' \in silent \cup {doomed, None}]_vars

\* Every command that was read is answered: by a reply, by a fail-over, or by
\* an error.
RequesterEnds ==
  \A r \in RequestConns : pc[r] \in {"pick", "send", "wait", "failed"} ~> pc[r] = "closed"

\* Once the context of Serve is cancelled the server ends, whoever waits.
ShutdownEnds == cancelled ~> phase = "exited"

\* A server that everybody has left for good exits by itself.
AbandonedServerExits == <>[](Connections = {}) => <>(phase = "exited")

=============================================================================
