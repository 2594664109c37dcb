--------------------------- MODULE ForwardManager ---------------------------
(***************************************************************************)
(* internal/forward.Manager, the port forwards of one target: Ensure,      *)
(* Remove and Stop called by the daemon's handlers, and the listening      *)
(* sockets that the ssh control masters hold for it.                       *)
(*                                                                         *)
(* A manager never holds its mutex while ssh runs.  An Ensure therefore    *)
(* looks, runs ssh -O forward, and looks again; a Remove or a Stop deletes *)
(* the entry first and runs ssh -O cancel afterwards.                      *)
(***************************************************************************)
EXTENDS Naturals, FiniteSets

CONSTANTS
  Calls,    \* calls of the manager that may run at a time
  Ports,    \* remote ports; the target's address is listened on at the same port
  Hosts,    \* remote hosts a listener was observed on, part of the -L spec
  Masters,  \* control masters, one per session of the target
  Local,    \* no control path: an in-process listener
  None,     \* no forward, no port
  Ops       \* what happens: ensure, remove, stop, die

ASSUME ForwardAssumption ==
  /\ Local \notin Masters
  /\ None \notin [via : Masters \cup {Local}, host : Hosts]
  /\ Ops \subseteq {"ensure", "remove", "stop", "die"}

VARIABLES
  byRemote,  \* Manager.byRemote
  stopped,   \* Manager.stopped
  cancelled, \* Manager.ctx is cancelled
  bound,     \* the forward whose listening socket the port has
  alive,     \* control masters that run
  lost,      \* history: an ssh command was killed or timed out, or an Ensure
             \* abandoned a forward that is not the one of the winner
  pc,        \* where each call is
  port,      \* the port of an Ensure
  fwd,       \* the forward an Ensure makes
  drops      \* forwards a call has deleted and still has to drop

vars == <<byRemote, stopped, cancelled, bound, alive, lost, pc, port, fwd, drops>>

Forwards == [via : Masters \cup {Local}, host : Hosts]

Init ==
  /\ byRemote = [p \in Ports |-> None] /\ stopped = FALSE /\ cancelled = FALSE
  /\ bound = [p \in Ports |-> None] /\ alive = Masters /\ lost = FALSE
  /\ pc = [c \in Calls |-> "idle"]
  /\ port = [c \in Calls |-> None] /\ fwd = [c \in Calls |-> None]
  /\ drops = [c \in Calls |-> {}]

manager == <<byRemote, stopped, cancelled>>
outside == <<bound, alive, lost>>
call    == <<pc, port, fwd, drops>>

Return(c) ==
  /\ pc' = [pc EXCEPT ![c] = "idle"]
  /\ port' = [port EXCEPT ![c] = None]
  /\ fwd' = [fwd EXCEPT ![c] = None]
  /\ drops' = [drops EXCEPT ![c] = {}]

\* The call goes on to drop the forwards it took out of the table.
Dropping(c, p, ds) ==
  /\ pc' = [pc EXCEPT ![c] = p]
  /\ drops' = [drops EXCEPT ![c] = ds]
  /\ UNCHANGED <<port, fwd>>

-----------------------------------------------------------------------------
(* ssh and the listening sockets (external).                                *)

\* A second -O forward of a spec that its master already has succeeds.
CanListen(p, f) ==
  IF f.via = Local THEN bound[p] = None
  ELSE f.via \in alive /\ bound[p] \in {None, f}

-----------------------------------------------------------------------------
(* Ensure.                                                                  *)

\* First critical section.  A stopped manager refuses and an existing forward
\* is returned, which changes nothing; transport then picks any session.
EnsureStart(c, p, f) ==
  /\ "ensure" \in Ops /\ pc[c] = "idle"
  /\ ~stopped /\ byRemote[p] = None
  /\ pc' = [pc EXCEPT ![c] = "exec"]
  /\ port' = [port EXCEPT ![c] = p]
  /\ fwd' = [fwd EXCEPT ![c] = f]
  /\ UNCHANGED <<manager, outside, drops>>

\* ssh -O forward, or net.Listen: it works; it fails, and Ensure returns; or
\* the cancelled context kills ssh when the master has already done its work.
EnsureExec(c) ==
  LET p == port[c]
      f == fwd[c]
  IN
  /\ pc[c] = "exec"
  /\ \/ /\ CanListen(p, f)
        /\ bound' = [bound EXCEPT ![p] = f]
        /\ pc' = [pc EXCEPT ![c] = "commit"]
        /\ UNCHANGED <<lost, port, fwd, drops>>
     \/ /\ Return(c)
        /\ UNCHANGED <<bound, lost>>
     \/ /\ f.via # Local /\ cancelled /\ CanListen(p, f)
        /\ bound' = [bound EXCEPT ![p] = f]
        /\ lost' = TRUE
        /\ Return(c)
  /\ UNCHANGED <<manager, alive>>

\* What becomes of the forward of an Ensure that lost the race (abandon): only
\* an in-process listener is closed.
\* Mutant: the loser drops its forward, and cancels the winner's.
AbandonDrops(p, f) == [bound EXCEPT ![p] = None]
Abandon(p, f) == IF f.via = Local THEN [bound EXCEPT ![p] = None] ELSE bound

\* Whether the second critical section may register a forward for the port.
\* Mutant: the existing entry is not looked at again.
MayCommitTwice(p) == ~stopped
MayCommit(p) == ~stopped /\ byRemote[p] = None

\* A stopped manager drops what the Ensure just made.
\* Mutant: it only reports the error.
RefusedKept(p, f) == {}
Refused(p, f) == {<<p, f>>}

\* Second critical section, and abandon.
EnsureCommit(c) ==
  LET p == port[c]
      f == fwd[c]
  IN
  /\ pc[c] = "commit"
  /\ \/ /\ MayCommit(p)
        /\ byRemote' = [byRemote EXCEPT ![p] = f]
        /\ Return(c)
        /\ UNCHANGED <<bound, lost>>
     \/ /\ ~MayCommit(p) /\ stopped
        /\ Dropping(c, "drop", Refused(p, f))
        /\ UNCHANGED <<byRemote, bound, lost>>
     \/ /\ ~MayCommit(p) /\ ~stopped
        /\ bound' = Abandon(p, f)
        /\ lost' = (lost \/ (f.via # Local /\ byRemote[p] # f))
        /\ Return(c)
        /\ UNCHANGED byRemote
  /\ UNCHANGED <<stopped, cancelled, alive>>

-----------------------------------------------------------------------------
(* Remove and Stop.                                                         *)

Remove(c, p) ==
  /\ "remove" \in Ops /\ pc[c] = "idle" /\ byRemote[p] # None
  /\ byRemote' = [byRemote EXCEPT ![p] = None]
  /\ Dropping(c, "drop", {<<p, byRemote[p]>>})
  /\ UNCHANGED <<stopped, cancelled, outside>>

Stop(c) ==
  /\ "stop" \in Ops /\ pc[c] = "idle" /\ ~stopped
  /\ stopped' = TRUE
  /\ byRemote' = [p \in Ports |-> None]
  /\ Dropping(c, "stop", {<<p, byRemote[p]>> : p \in {q \in Ports : byRemote[q] # None}})
  /\ UNCHANGED <<cancelled, outside>>

\* drop: close the listener, or ssh -O cancel, whose error is ignored.  The
\* command may time out and leave the socket with its master.
Drop(c, d) ==
  /\ pc[c] \in {"drop", "stop"} /\ d \in drops[c]
  /\ \/ /\ bound' = IF bound[d[1]] = d[2] THEN [bound EXCEPT ![d[1]] = None] ELSE bound
        /\ UNCHANGED lost
     \/ /\ d[2].via # Local
        /\ lost' = TRUE
        /\ UNCHANGED bound
  /\ drops' = [drops EXCEPT ![c] = @ \ {d}]
  /\ UNCHANGED <<manager, alive, pc, port, fwd>>

\* The last drop is done; Stop cancels the context.
DropDone(c) ==
  /\ pc[c] \in {"drop", "stop"} /\ drops[c] = {}
  /\ cancelled' = (cancelled \/ pc[c] = "stop")
  /\ Return(c)
  /\ UNCHANGED <<byRemote, stopped, outside>>

\* The ssh session of a control master ends, and its sockets are closed.
MasterDies(m) ==
  /\ "die" \in Ops /\ m \in alive
  /\ alive' = alive \ {m}
  /\ bound' = [p \in Ports |-> IF bound[p] # None /\ bound[p].via = m THEN None ELSE bound[p]]
  /\ UNCHANGED <<manager, lost, call>>

-----------------------------------------------------------------------------
Next ==
  \/ \E c \in Calls, p \in Ports, f \in Forwards : EnsureStart(c, p, f)
  \/ \E c \in Calls, p \in Ports : Remove(c, p)
  \/ \E c \in Calls : EnsureExec(c) \/ EnsureCommit(c) \/ Stop(c) \/ DropDone(c)
  \/ \E c \in Calls : \E d \in drops[c] : Drop(c, d)
  \/ \E m \in Masters : MasterDies(m)

Spec == Init /\ [][Next]_vars

-----------------------------------------------------------------------------
(* Properties.                                                              *)

TypeOK ==
  /\ byRemote \in [Ports -> Forwards \cup {None}]
  /\ bound \in [Ports -> Forwards \cup {None}]
  /\ stopped \in BOOLEAN /\ cancelled \in BOOLEAN /\ lost \in BOOLEAN
  /\ alive \subseteq Masters
  /\ pc \in [Calls -> {"idle", "exec", "commit", "drop", "stop"}]
  /\ port \in [Calls -> Ports \cup {None}]
  /\ fwd \in [Calls -> Forwards \cup {None}]
  /\ drops \in [Calls -> SUBSET (Ports \X Forwards)]

\* Whatever else goes on, an Ensure that makes its forward, loses the race or
\* is refused never takes away the socket of a forward in the table.
EnsureKeepsWinner ==
  [][\A c \in Calls, p \in Ports :
       /\ pc[c] \in {"exec", "commit"} /\ pc'[c] # pc[c]
       /\ byRemote[p] # None /\ bound[p] = byRemote[p]
       => bound'[p] = bound[p]]_vars

\* Unless ssh itself was killed or hung, or a forward was abandoned to a winner
\* with another -L spec, a socket that is listened on for the manager is in the
\* table or in the hands of a call that will drop it.
NoOrphanForward ==
  ~lost => \A p \in Ports : bound[p] # None =>
    \/ byRemote[p] = bound[p]
    \/ \E c \in Calls : \/ pc[c] = "commit" /\ port[c] = p /\ fwd[c] = bound[p]
                        \/ <<p, bound[p]>> \in drops[c]

\* The manager implements the table that the daemon relies on.
Table == INSTANCE ForwardTable WITH table <- byRemote
TableSpec == Table!Spec
=============================================================================
