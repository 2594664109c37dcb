------------------------------ MODULE PortScan ------------------------------
(***************************************************************************)
(* Port sniffing in internal/bridge/ports.go: one goroutine scans the      *)
(* listening ports and broadcasts what appeared and what is gone; the      *)
(* handler of each new client replays the ports known at that time.  Both  *)
(* write to the same connection, in whatever order they get to it.         *)
(***************************************************************************)
EXTENDS Naturals, FiniteSets

CONSTANTS
  Ports,                 \* ports that may be forwarded (listenerFromAddr)
  Clients,               \* client connections of the bridge
  portGoneMissingScans   \* scans that a port has to miss before it is gone

ASSUME PortScanAssumption == portGoneMissingScans \in Nat \ {0}

VARIABLES
  listening,      \* what listens on the remote host
  scanner,        \* where scanAndBroadcastPorts is
  scan,           \* the listeners it has read
  last,           \* history: the listeners it had read the time before
  observedPorts,  \* Server.observedPorts
  portMisses,     \* Server.portMisses
  frames,         \* frames it still has to broadcast
  out,            \* recipients of the frame being broadcast
  st,             \* clients: new, joined (registered), replay, ready
  todo,           \* ports whose replay is still to be written
  view,           \* the ports that the frames written so far tell the client
  stale           \* history: ports replayed after they were reported gone

scanning == <<scanner, scan, last, observedPorts, portMisses, frames, out>>
vars == <<listening, scanning, st, todo, view, stale>>

Frame == [port : Ports, gone : BOOLEAN]

Init ==
  /\ listening = {} /\ scanner = "idle" /\ scan = {} /\ last = {}
  /\ observedPorts = {} /\ portMisses = [p \in Ports |-> 0]
  /\ frames = {} /\ out = {}
  /\ st = [c \in Clients |-> "new"]
  /\ todo = [c \in Clients |-> {}]
  /\ view = [c \in Clients |-> {}]
  /\ stale = [c \in Clients |-> {}]

-----------------------------------------------------------------------------
(* The remote host.                                                         *)

Toggle(p) ==
  /\ listening' = IF p \in listening THEN listening \ {p} ELSE listening \cup {p}
  /\ UNCHANGED <<scanning, st, todo, view, stale>>

-----------------------------------------------------------------------------
(* scanAndBroadcastPorts.                                                   *)

\* A scan that fails is left out: it changes nothing.
Scan ==
  /\ scanner = "idle"
  /\ scanner' = "apply"
  /\ scan' = listening /\ last' = scan
  /\ UNCHANGED <<listening, observedPorts, portMisses, frames, out, st, todo, view, stale>>

\* The misses of each port after this scan; a port that is there has none.
\* Mutants: they are kept when the port is seen again; never added up.
MissesKept(p) == IF p \in observedPorts \ scan THEN portMisses[p] + 1 ELSE portMisses[p]
MissesFlat(p) == IF p \in observedPorts \ scan THEN 1 ELSE 0
Misses(p) == IF p \in observedPorts \ scan THEN portMisses[p] + 1 ELSE 0

\* What is reported as new.
\* Mutant: the ports are compared after they were recorded.
AppearedNever == scan \ (observedPorts \cup scan)
Appeared == scan \ observedPorts

\* What is reported as gone.
\* Mutant: one scan later.
GoneLate == {p \in observedPorts \ scan : Misses(p) > portGoneMissingScans}
Gone == {p \in observedPorts \ scan : Misses(p) >= portGoneMissingScans}

\* applyPortScan, in one critical section.
Apply ==
  /\ scanner = "apply"
  /\ scanner' = "send"
  /\ observedPorts' = (observedPorts \cup scan) \ Gone
  /\ portMisses' = [p \in Ports |-> IF p \in Gone THEN 0 ELSE Misses(p)]
  /\ frames' = [port : Appeared, gone : {FALSE}] \cup [port : Gone, gone : {TRUE}]
  /\ UNCHANGED <<listening, scan, last, out, st, todo, view, stale>>

\* broadcast: the registered clients, those in their replay included.
\* Mutant: only those whose replay is over.
RecipientsReady == {c \in Clients : st[c] = "ready"}
Recipients == {c \in Clients : st[c] # "new"}

Broadcast(f) ==
  /\ scanner = "send" /\ out = {}
  /\ frames' = frames \ {f}
  /\ out' = Recipients \X {f}
  /\ UNCHANGED <<listening, scanner, scan, last, observedPorts, portMisses, st, todo, view, stale>>

\* One write of the broadcast.
Send(c, f) ==
  /\ <<c, f>> \in out
  /\ out' = out \ {<<c, f>>}
  /\ view' = [view EXCEPT ![c] = IF f.gone THEN @ \ {f.port} ELSE @ \cup {f.port}]
  /\ stale' = [stale EXCEPT ![c] = IF f.gone /\ f.port \in todo[c]
                                     THEN @ \cup {f.port} ELSE @ \ {f.port}]
  /\ UNCHANGED <<listening, scanner, scan, last, observedPorts, portMisses, frames, st, todo>>

ScanDone ==
  /\ scanner = "send" /\ frames = {} /\ out = {}
  /\ scanner' = "idle"
  /\ UNCHANGED <<listening, scan, last, observedPorts, portMisses, frames, out, st, todo, view, stale>>

-----------------------------------------------------------------------------
(* A new client: addClient, then sendCurrentPorts.                          *)

Join(c) ==
  /\ st[c] = "new"
  /\ st' = [st EXCEPT ![c] = "joined"]
  /\ UNCHANGED <<listening, scanning, todo, view, stale>>

\* currentPorts, in a critical section of its own.
Replay(c) ==
  /\ st[c] = "joined"
  /\ st' = [st EXCEPT ![c] = "replay"]
  /\ todo' = [todo EXCEPT ![c] = observedPorts]
  /\ UNCHANGED <<listening, scanning, view, stale>>

ReplayPort(c, p) ==
  /\ st[c] = "replay" /\ p \in todo[c]
  /\ todo' = [todo EXCEPT ![c] = @ \ {p}]
  /\ view' = [view EXCEPT ![c] = @ \cup {p}]
  /\ UNCHANGED <<listening, scanning, st, stale>>

ReplayDone(c) ==
  /\ st[c] = "replay" /\ todo[c] = {}
  /\ st' = [st EXCEPT ![c] = "ready"]
  /\ UNCHANGED <<listening, scanning, todo, view, stale>>

-----------------------------------------------------------------------------
Scanner ==
  \/ Scan \/ Apply \/ ScanDone
  \/ \E f \in frames : Broadcast(f)
  \/ \E o \in out : Send(o[1], o[2])

Client(c) == Replay(c) \/ ReplayDone(c) \/ \E p \in todo[c] : ReplayPort(c, p)

Next ==
  \/ \E p \in Ports : Toggle(p)
  \/ Scanner
  \/ \E c \in Clients : Join(c) \/ Client(c)

\* The scanner and the handlers run; ports open and close and clients join freely.
Fairness == WF_vars(Scanner) /\ \A c \in Clients : WF_vars(Client(c))

Spec == Init /\ [][Next]_vars
FairSpec == Spec /\ Fairness

-----------------------------------------------------------------------------
(* Properties.                                                              *)

\* Every variable has its type; no port is kept once it missed all the scans
\* that it may miss.
TypeOK ==
  /\ listening \subseteq Ports /\ scan \subseteq Ports /\ last \subseteq Ports
  /\ observedPorts \subseteq Ports
  /\ portMisses \in [Ports -> 0 .. (portGoneMissingScans - 1)]
  /\ scanner \in {"idle", "apply", "send"}
  /\ frames \subseteq Frame /\ out \subseteq Clients \X Frame
  /\ st \in [Clients -> {"new", "joined", "replay", "ready"}]
  /\ todo \in [Clients -> SUBSET Ports] /\ view \in [Clients -> SUBSET Ports]
  /\ stale \in [Clients -> SUBSET Ports]

\* Between scans a client that had its replay knows every observed port: one
\* that appears while the client registers reaches it by the broadcast or by
\* the replay.
NoMissedPort ==
  scanner = "idle" => \A c \in Clients : st[c] = "ready" => observedPorts \subseteq view[c]

\* A client believes in a port that is gone only if its replay overtook the
\* report.
OnlyReplayIsStale ==
  scanner = "idle" =>
    \A c \in Clients : st[c] = "ready" => view[c] \subseteq observedPorts \cup stale[c]

\* A port is dropped only after two scans in a row without it, so that a server
\* that restarts between two scans keeps its forward.
GoneIsDebounced ==
  [][\A p \in observedPorts \ observedPorts' : p \notin scan /\ p \notin last]_vars

\* A port that keeps listening is forwarded by every client that stays.
ListenerIsForwarded ==
  \A p \in Ports, c \in Clients :
    <>[](p \in listening /\ st[c] = "ready") => <>[](p \in view[c])

\* A port that was closed for good is dropped.
ClosedIsDropped == \A p \in Ports : <>[](p \notin listening) => <>[](p \notin observedPorts)
=============================================================================
