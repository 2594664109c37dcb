---------------------------- MODULE MountManager ----------------------------
(***************************************************************************)
(* The mount manager of the CLI (internal/cli/ssh_bridge_mount.go), which  *)
(* mounts the server's working tree for commands that run on the client,   *)
(* and the server's side of it (ensureExportBackend, ensureClientMount and *)
(* removeClient in internal/bridge).  Here the server makes the requests   *)
(* and the CLI handles them.                                               *)
(*                                                                         *)
(* Module Peer has the frames of a data session, its slots and the steps   *)
(* of its end.  Here a frame is handled as soon as it is sent, a response  *)
(* stays on its way until the server takes it, and the client's peer       *)
(* closes in one step up to its unmounts.                                  *)
(*                                                                         *)
(* A command with remoteFs may have to send a mount.create.  All of them   *)
(* are about one working tree, so they carry one mountId: a command after  *)
(* one that timed out sends a second create for the same mount point.      *)
(*                                                                         *)
(* The driver makes the directory it needs, mounts over whatever is at the *)
(* path and unmounts whatever is on top.  The client is not root, so       *)
(* syscall.Unmount refuses it.  A marker beside the mount point names it:  *)
(* after a crash the next session finds the mount by it.                   *)
(***************************************************************************)
EXTENDS Naturals, FiniteSets, SequencesExt

CONSTANTS
  Commands,   \* commands with remoteFs, each with the create it may send
  Impatient,  \* those whose create may time out
  Used,       \* those whose mount programs may use, so that it is busy
  Undo,       \* whether the start of the session may fail
  None

ASSUME ManagerAssumption ==
  /\ None \notin Commands /\ Impatient \cup Used \subseteq Commands /\ Undo \in BOOLEAN

VARIABLES
  cpc,        \* where each command is
  client,     \* the session's client is registered on the server
  fsPeer,     \* Server.fsPeers holds the data session
  speer,      \* its peer on the server: open, closed
  serves,     \* Peer.backends of that peer holds the working tree
  exporting,  \* Server.fsExporting: the command that opens the working tree
  exported,   \* Server.fsBackends holds the working tree
  offering,   \* Server.fsOffering: the command that asks for the mount
  offered,    \* Server.fsClientMounts holds the mount
  late,       \* the commands whose create timed out
  hpc,        \* where the handler of each create is
  result,     \* its response
  ctxDone,    \* the creates whose context is cancelled
  listed,     \* Peer.mounts of the client holds the mount
  stage,      \* the client's peer: open, done
  upc,        \* where each call of OnUnmount is
  entry,      \* remoteMountManager.mounts: the command whose create made it
  mstage,     \* how far remoteMountManager.Close has come
  taken,      \* the mount that an unmounter, or Close, works on
  stack,      \* the mounts at the mount point, the visible one last
  marker,     \* the export's directory holds its .mount-path
  ended,      \* the mounts whose goFuseMount is finished
  hung,       \* those whose Unmount took away another mount and waits
  mctx,       \* the lifetime context of each mount
  stuck,      \* history: those that could not be unmounted once
  crossed     \* history: a create was sent while the handler or an unmounter
              \* of an earlier one was still at work

export == <<serves, exporting, exported>>
session == <<client, fsPeer, speer>>
server == <<session, export, offering, offered, late, crossed>>
peer == <<hpc, result, ctxDone, listed, stage, upc>>
manager == <<entry, mstage, taken>>
driver == <<stack, marker, ended, hung, mctx, stuck>>
vars == <<cpc, server, peer, manager, driver>>

\* Who calls OnUnmount: the reader of a cancel frame, a handler, and the end of
\* the peer.  Close unmounts by itself.
Unmounters == ({"cancel", "handler"} \X Commands) \cup {<<"close", None>>}
Close == <<"manager", None>>

Init ==
  /\ cpc = [c \in Commands |-> "idle"]
  /\ client = TRUE /\ fsPeer = TRUE /\ speer = "open"
  /\ serves = FALSE /\ exporting = None /\ exported = FALSE
  /\ offering = None /\ offered = FALSE /\ late = {} /\ crossed = FALSE
  /\ hpc = [c \in Commands |-> "none"] /\ result = [c \in Commands |-> None]
  /\ ctxDone = {} /\ listed = FALSE /\ stage = "open"
  /\ upc = [u \in Unmounters |-> "none"]
  /\ entry = None /\ mstage = "open" /\ taken = [u \in Unmounters \cup {Close} |-> None]
  /\ stack = <<>> /\ marker = FALSE /\ ended = {} /\ hung = {}
  /\ mctx = [c \in Commands |-> "none"] /\ stuck = {}

\* Both ends of the data session are open.
Connected == speer = "open" /\ stage = "open"

Step(c, from, to) == cpc[c] = from /\ cpc' = [cpc EXCEPT ![c] = to]

\* The handler of a create goes on, or it ends: with a response, unless its
\* context is cancelled or the connection is gone.
At(c, state) ==
  /\ hpc' = [hpc EXCEPT ![c] = IF state \in {"ok", "error"} THEN "none" ELSE state]
  /\ result' = IF state \in {"ok", "error"} /\ c \notin ctxDone /\ Connected
                 THEN [result EXCEPT ![c] = state] ELSE result
  /\ ctxDone' = IF state \in {"ok", "error"} THEN ctxDone \ {c} ELSE ctxDone

-----------------------------------------------------------------------------
(* The server: one command with remoteFs.                                   *)

\* The data session of the session is looked up.  A command whose directory
\* cannot be resolved gets no further.
Command(c) ==
  /\ Step(c, "idle", IF client /\ fsPeer THEN "export" ELSE "over")
  /\ UNCHANGED <<server, peer, manager, driver>>

\* ensureExportBackend: one command opens the working tree, the others wait.
ExportLook(c) ==
  /\ \/ exported /\ Step(c, "export", "offer") /\ UNCHANGED exporting
     \/ /\ ~exported /\ exporting = None
        /\ Step(c, "export", "exporting")
        /\ exporting' = c
  /\ UNCHANGED <<session, serves, exported, offering, offered, late, crossed, peer, manager, driver>>

\* Without the lock it is opened and registered on the peer that was found,
\* which fails when that peer has closed.
Register(c) ==
  /\ \/ /\ speer = "open" /\ ~serves
        /\ Step(c, "exporting", "opened")
        /\ serves' = TRUE /\ UNCHANGED exporting
     \/ /\ Step(c, "exporting", "over")
        /\ exporting' = None /\ UNCHANGED serves
  /\ UNCHANGED <<session, exported, offering, offered, late, crossed, peer, manager, driver>>

\* What was made for a peer counts only while it is the session's peer.
\* Mutant: it always counts.
AnyPeer == TRUE
Current == fsPeer

\* It is recorded under the lock, or unregistered again: also when somebody else
\* has recorded one.
Record(c) ==
  /\ Step(c, "opened", IF Current THEN "offer" ELSE "over")
  /\ exporting' = None
  /\ exported' = (exported \/ Current)
  /\ serves' = (serves /\ Current /\ ~exported)
  /\ UNCHANGED <<session, offering, offered, late, crossed, peer, manager, driver>>

\* A handler or an unmounter is at work on the client.
AtWork ==
  \/ \E d \in Commands : hpc[d] # "none"
  \/ \E u \in Unmounters : upc[u] \notin {"none", "done"}

\* ensureClientMount: one command sends the create, the others wait.
NobodyOffers == offering = None

Offer(c) ==
  /\ \/ /\ offered /\ Step(c, "offer", "send")
        /\ UNCHANGED <<offering, crossed, hpc, result, ctxDone>>
     \/ /\ ~offered /\ NobodyOffers
        /\ Step(c, "offer", "offering")
        /\ offering' = c
        /\ IF Connected THEN At(c, "onmount") /\ crossed' = (crossed \/ AtWork)
                        ELSE UNCHANGED <<crossed, hpc, result, ctxDone>>
  /\ UNCHANGED <<session, export, offered, late, listed, stage, upc, manager, driver>>

\* Ten seconds have passed, perhaps with the response on its way: the cancel
\* frame ends the handler's context and has the mount unmounted.
GiveUp(c) ==
  /\ c \in Impatient /\ cpc[c] = "offering" /\ c \notin late
  /\ late' = late \cup {c}
  /\ IF ~Connected THEN UNCHANGED <<ctxDone, listed, upc>>
     ELSE /\ ctxDone' = ctxDone \cup {d \in {c} : hpc[d] # "none"}
          /\ listed' = FALSE
          /\ upc' = [upc EXCEPT ![<<"cancel", c>>] = "look"]
  /\ UNCHANGED <<cpc, session, export, offering, offered, crossed,
                 hpc, result, stage, manager, driver>>

Offered(c) ==
  /\ offering' = None
  /\ result' = [result EXCEPT ![c] = None]
  /\ \/ /\ c \notin late /\ result[c] # None
        /\ LET ok == result[c] = "ok" /\ Current IN
             /\ Step(c, "offering", IF ok THEN "send" ELSE "over")
             /\ offered' = (offered \/ ok)
     \/ /\ c \in late \/ speer = "closed"
        /\ Step(c, "offering", "over")
        /\ UNCHANGED offered
  /\ UNCHANGED <<session, export, late, crossed, hpc, ctxDone, listed, stage, upc, manager, driver>>

\* removeClient, because the client is silent or its connection ended.
RemoveClient ==
  /\ client
  /\ client' = FALSE /\ fsPeer' = FALSE /\ exported' = FALSE /\ offered' = FALSE
  /\ UNCHANGED <<cpc, speer, serves, exporting, offering, late, crossed, peer, manager, driver>>

\* The server's peer closes: its readLoop meets the end of the connection, or
\* removeClient goes on to unregister what it found and to close the peer.
ServerPeerCloses ==
  /\ speer = "open" /\ (stage # "open" \/ ~client)
  /\ speer' = "closed" /\ serves' = FALSE
  /\ UNCHANGED <<cpc, client, fsPeer, exporting, exported, offering, offered, late, crossed,
                 peer, manager, driver>>

\* handleFSConn ends with its peer.
PeerGone ==
  /\ fsPeer /\ speer = "closed"
  /\ fsPeer' = FALSE
  /\ UNCHANGED <<cpc, client, speer, export, offering, offered, late, crossed, peer, manager, driver>>

-----------------------------------------------------------------------------
(* The client's peer, as the manager sees it.                               *)

\* handleRequest after OnMount has succeeded.
KeepMount(c) ==
  /\ \/ /\ hpc[c] = "mounted" /\ stage = "open" /\ c \notin ctxDone
        /\ At(c, "ok") /\ listed' = TRUE
        /\ UNCHANGED upc
     \/ /\ hpc[c] = "mounted" /\ (stage # "open" \/ c \in ctxDone)
        /\ At(c, "undoing")
        /\ upc' = [upc EXCEPT ![<<"handler", c>>] = "look"]
        /\ UNCHANGED listed
     \/ /\ hpc[c] = "undoing" /\ upc[<<"handler", c>>] = "done"
        /\ At(c, "error")
        /\ UNCHANGED <<listed, upc>>
  /\ UNCHANGED <<cpc, server, stage, manager, driver>>

\* Peer.close: the contexts end and the mount that is listed is taken over.
BeginClose ==
  IF stage # "open" THEN UNCHANGED <<stage, ctxDone, listed, upc>>
  ELSE /\ stage' = "done" /\ listed' = FALSE
       /\ ctxDone' = ctxDone \cup {c \in Commands : hpc[c] # "none"}
       /\ upc' = [upc EXCEPT ![<<"close", None>>] = IF listed THEN "look" ELSE "done"]

PeerMeetsEnd ==
  /\ speer = "closed" /\ stage = "open"
  /\ BeginClose
  /\ UNCHANGED <<cpc, server, hpc, result, manager, driver>>

\* close returns after the unmount.
PeerClosed == stage = "done" /\ upc[<<"close", None>>] = "done"

-----------------------------------------------------------------------------
(* The driver and the mount point.                                          *)

\* os.RemoveAll of the export's directory or of the one above it.  What is
\* mounted there stays, since the export's backend refuses to delete.
RemoveTree == marker' = FALSE

\* goFuseMount.Unmount of c takes away what is on top, and then waits for the
\* end of c.
Pop(c) ==
  /\ c \in Range(stack) /\ c \notin hung
  /\ stack' = Front(stack)
  /\ hung' = IF Last(stack) = c THEN hung ELSE hung \cup {c}
  /\ UNCHANGED <<marker, ended, mctx, stuck>>

\* It fails while a program uses the mount.
Busy(c) == c \in Used /\ c \in Range(stack) /\ c \notin hung

\* Unmount has returned: the outcome is success or an error.
Returned(c, ok) ==
  IF ok THEN c \in ended /\ UNCHANGED stuck ELSE Busy(c) /\ stuck' = stuck \cup {c}

\* The end of a mount that is no longer there.
Finish(c) ==
  /\ mctx[c] # "none" /\ c \notin Range(stack) \cup ended
  /\ ended' = ended \cup {c}
  /\ mctx' = [mctx EXCEPT ![c] = "tried"]
  /\ UNCHANGED <<cpc, server, peer, manager, stack, marker, hung, stuck>>

\* A mount's context ends; nobody listens once the mount has.
Cancel(cs) == mctx' = [c \in Commands |-> IF c \in cs \ ended /\ mctx[c] = "live" THEN "cancelled" ELSE mctx[c]]

\* AfterFunc: the request's context ends the mount's, until MountLocal has
\* returned.
\* Mutant: also later.
FollowsRequest(c) == c \in ctxDone \/ hpc[c] = "none"
Follows(c) == c \in ctxDone /\ hpc[c] = "ready"

RequestEndsMount(c) ==
  /\ mctx[c] = "live" /\ Follows(c)
  /\ Cancel({c})
  /\ UNCHANGED <<cpc, server, peer, manager, stack, marker, ended, hung, stuck>>

\* The driver's goroutine tries once when the mount's context ends.
LifetimeEnds(c) ==
  /\ mctx[c] = "cancelled" /\ c \notin ended \cup hung
  /\ mctx' = [mctx EXCEPT ![c] = "tried"]
  /\ c \in Range(stack)
  /\ \/ /\ stack' = Front(stack)
        /\ hung' = IF Last(stack) = c THEN hung ELSE hung \cup {c}
        /\ UNCHANGED stuck
     \/ /\ Busy(c) /\ stuck' = stuck \cup {c}
        /\ UNCHANGED <<stack, hung>>
  /\ UNCHANGED <<cpc, server, peer, manager, marker, ended>>

\* remoteMountManager.closing.
IsClosing == mstage \notin {"open", "stopping"}

-----------------------------------------------------------------------------
(* remoteMountManager.OnMount.                                              *)

MountBegins(c) ==
  /\ hpc[c] = "onmount"
  /\ At(c, IF IsClosing THEN "error" ELSE IF entry # None THEN "mounted" ELSE "setup")
  /\ UNCHANGED <<cpc, server, listed, stage, upc, manager, driver>>

\* SetupMountPoint removes what is at the path, which fails when something is
\* mounted there, and writes the marker.
Setup(c) ==
  /\ hpc[c] = "setup"
  /\ \/ stack = <<>> /\ At(c, "mounting") /\ marker' = TRUE
     \/ At(c, "error") /\ UNCHANGED marker
  /\ UNCHANGED <<cpc, server, listed, stage, upc, manager,
                 stack, ended, hung, mctx, stuck>>

\* driver.Mount: it takes its time, and after a failure the tree is removed.
Mount(c) ==
  /\ hpc[c] = "mounting"
  /\ \/ /\ At(c, "ready")
        /\ stack' = Append(stack, c)
        /\ mctx' = [mctx EXCEPT ![c] = IF c \in ctxDone THEN "cancelled" ELSE "live"]
        /\ UNCHANGED marker
     \/ /\ At(c, "error") /\ RemoveTree
        /\ UNCHANGED <<stack, mctx>>
  /\ UNCHANGED <<cpc, server, listed, stage, upc, manager, ended, hung, stuck>>

\* Another create was faster, or the mount is not wanted any more, or it is
\* the mount.
MountReady(c) ==
  /\ hpc[c] = "ready"
  /\ LET unwanted == IsClosing \/ c \in ctxDone IN
       /\ At(c, IF entry # None THEN "losing" ELSE IF unwanted THEN "discard" ELSE "mounted")
       /\ entry' = IF entry = None /\ ~unwanted THEN c ELSE entry
  /\ UNCHANGED <<cpc, server, listed, stage, upc, mstage, taken, driver>>

DiscardMount(c) ==
  /\ hpc[c] \in {"losing", "discard"}
  /\ \/ Pop(c) /\ UNCHANGED <<hpc, result, ctxDone>>
     \/ /\ \E ok \in BOOLEAN : Returned(c, ok)
        /\ Cancel({c})
        /\ At(c, IF hpc[c] = "losing" THEN "mounted" ELSE "error")
        /\ UNCHANGED <<stack, marker, ended, hung>>
  /\ UNCHANGED <<cpc, server, listed, stage, upc, manager>>

-----------------------------------------------------------------------------
(* remoteMountManager.OnUnmount.                                            *)

\* The entry is deleted before its mount is unmounted.
\* Mutant: it stays.
StaysListed == entry
Deleted == None

UnmountLook(u) ==
  /\ upc[u] = "look"
  /\ upc' = [upc EXCEPT ![u] = IF entry = None THEN "done" ELSE "unmount"]
  /\ taken' = [taken EXCEPT ![u] = entry] /\ entry' = Deleted
  /\ UNCHANGED <<cpc, server, hpc, result, ctxDone, listed, stage, mstage, driver>>

Unmount(u) ==
  /\ upc[u] = "unmount"
  /\ \/ Pop(taken[u]) /\ UNCHANGED upc
     \/ /\ \E ok \in BOOLEAN : Returned(taken[u], ok)
        /\ Cancel({taken[u]})
        /\ upc' = [upc EXCEPT ![u] = "remove"]
        /\ UNCHANGED <<stack, marker, ended, hung>>
  /\ UNCHANGED <<cpc, server, hpc, result, ctxDone, listed, stage, manager>>

UnmountRemoves(u) ==
  /\ upc[u] = "remove"
  /\ upc' = [upc EXCEPT ![u] = "done"]
  /\ RemoveTree
  /\ taken' = [taken EXCEPT ![u] = None]
  /\ UNCHANGED <<cpc, server, hpc, result, ctxDone, listed, stage, entry, mstage,
                 stack, ended, hung, mctx, stuck>>

-----------------------------------------------------------------------------
(* remoteMountManager.Execute.                                              *)

\* The command goes to the client on the control connection.
Execute(c) ==
  /\ Step(c, "send", IF client /\ ~IsClosing /\ entry # None THEN "running" ELSE "over")
  /\ UNCHANGED <<server, peer, manager, driver>>

\* The process ends when it likes, and is killed once the bridge's context is
\* cancelled: that happens when the peer has closed.
\* Mutant: nobody waits for the end of the peer.
NeverKilled == FALSE
Killed == stage = "done"

CommandEnds(c) ==
  /\ Step(c, "running", "over")
  /\ UNCHANGED <<server, peer, manager, driver>>

-----------------------------------------------------------------------------
(* remoteMountManager.Close.                                                *)

\* The calls that the WaitGroup counts.
Active == {c \in Commands : \/ hpc[c] \in {"setup", "mounting", "ready", "losing", "discard"}
                            \/ cpc[c] = "running"}

\* Mutant: Close does not wait.
NobodyActive == TRUE
Idle == Active = {}

\* stop: the peer is closed first, and Close is called when that has returned.
StopBegins ==
  /\ mstage = "open"
  /\ mstage' = "stopping"
  /\ BeginClose
  /\ UNCHANGED <<cpc, server, hpc, result, entry, taken, driver>>

StopCloses ==
  /\ mstage = "stopping" /\ PeerClosed
  /\ mstage' = "closing"
  /\ UNCHANGED <<cpc, server, peer, entry, taken, driver>>

\* The start of the session has failed: Close comes first, the peer follows.
UndoBegins ==
  /\ Undo /\ mstage = "open"
  /\ mstage' = "closing"
  /\ UNCHANGED <<cpc, server, peer, entry, taken, driver>>

UndoEnds ==
  /\ mstage = "closed" /\ stage = "open"
  /\ BeginClose
  /\ UNCHANGED <<cpc, server, hpc, result, manager, driver>>

CloseTakes ==
  /\ mstage = "closing" /\ Idle
  /\ mstage' = IF entry = None THEN "remove" ELSE "unmount"
  /\ taken' = [taken EXCEPT ![Close] = entry] /\ entry' = None
  /\ UNCHANGED <<cpc, server, peer, driver>>

CloseUnmounts ==
  /\ mstage = "unmount"
  /\ \/ Pop(taken[Close]) /\ UNCHANGED mstage
     \/ /\ \E ok \in BOOLEAN : Returned(taken[Close], ok)
        /\ mstage' = "remove"
        /\ UNCHANGED <<stack, marker, ended, hung, mctx>>
  /\ UNCHANGED <<cpc, server, peer, entry, taken>>

\* The directories go, and every lifetime context ends.
CloseRemoves ==
  /\ mstage = "remove"
  /\ mstage' = "closed"
  /\ RemoveTree
  /\ Cancel(Commands)
  /\ taken' = [taken EXCEPT ![Close] = None]
  /\ UNCHANGED <<cpc, server, peer, entry, stack, ended, hung, stuck>>

-----------------------------------------------------------------------------
ServerStep(c) == ExportLook(c) \/ Register(c) \/ Record(c) \/ Offer(c) \/ Offered(c)
Handler(c) == MountBegins(c) \/ Setup(c) \/ Mount(c) \/ MountReady(c) \/ DiscardMount(c)
              \/ KeepMount(c)
Unmounting(u) == UnmountLook(u) \/ Unmount(u) \/ UnmountRemoves(u)
Driver(c) == Finish(c) \/ RequestEndsMount(c) \/ LifetimeEnds(c)
Closing == StopCloses \/ CloseTakes \/ CloseUnmounts \/ CloseRemoves \/ UndoEnds
Ends == ServerPeerCloses \/ PeerGone \/ PeerMeetsEnd

Next ==
  \/ \E c \in Commands : \/ Command(c) \/ GiveUp(c) \/ CommandEnds(c)
                         \/ ServerStep(c) \/ Handler(c) \/ Driver(c) \/ Execute(c)
  \/ \E u \in Unmounters : Unmounting(u)
  \/ RemoveClient \/ StopBegins \/ UndoBegins \/ Closing \/ Ends

\* Goroutines run, frames arrive, and mounts and unmounts come to an end.
\* Nobody owes a command, a timeout, a stop, or the end of a process that is
\* not killed.  Each of them takes finitely many steps.
System ==
  \/ \E c \in Commands : \/ ServerStep(c) \/ Handler(c) \/ Driver(c) \/ Execute(c)
                         \/ Killed /\ CommandEnds(c)
  \/ \E u \in Unmounters : Unmounting(u)
  \/ Closing \/ Ends

Fairness == WF_vars(System)
Spec == Init /\ [][Next]_vars
FairSpec == Spec /\ Fairness

-----------------------------------------------------------------------------
(* Properties.                                                              *)

\* Every variable has its type; the one that works on the export, or on the
\* offer, is the command at that step, and a mount ends only once it is gone.
TypeOK ==
  /\ cpc \in [Commands -> {"idle", "export", "exporting", "opened", "offer", "offering", "send",
                           "running", "over"}]
  /\ {client, fsPeer, serves, exported, offered, crossed, listed, marker} \subseteq BOOLEAN
  /\ speer \in {"open", "closed"}
  /\ {c \in Commands : cpc[c] \in {"exporting", "opened"}} = {exporting} \ {None}
  /\ {c \in Commands : cpc[c] = "offering"} = {offering} \ {None}
  /\ hpc \in [Commands -> {"none", "onmount", "setup", "mounting", "ready", "losing", "discard",
                           "mounted", "undoing"}]
  /\ result \in [Commands -> {None, "ok", "error"}]
  /\ stage \in {"open", "done"}
  /\ upc \in [Unmounters -> {"none", "look", "unmount", "remove", "done"}]
  /\ entry \in Commands \cup {None} /\ taken \in [Unmounters \cup {Close} -> Commands \cup {None}]
  /\ mstage \in {"open", "stopping", "closing", "unmount", "remove", "closed"}
  /\ Range(stack) \subseteq Commands \ ended /\ Len(stack) <= Cardinality(Commands)
  /\ ctxDone \cup late \cup ended \cup hung \cup stuck \subseteq Commands
  /\ mctx \in [Commands -> {"none", "live", "cancelled", "tried"}]

\* What the server believes of a session is true: nothing is believed of one
\* whose client is gone, also when the client left while the working tree was
\* opened or the create was on its way; what is recorded as exported is served
\* until the data session closes; and a mount that was offered is registered and
\* mounted on the client until one of the two closes.  The exception is a create
\* that was sent while one that had been given up was not over: the late
\* unmount of that one takes the new mount as well.
OfferIsTrue ==
  /\ offered \/ exported => client
  /\ exported /\ speer = "open" => serves
  /\ offered /\ stage = "open" /\ ~IsClosing /\ ~crossed => entry \in Range(stack)

\* A mount that is registered and mounted has its marker for the next session,
\* also while the session closes.  The exception is the same: a removal that is
\* outstanding when the new mount is set up takes its marker away.
EntryIsMarked == entry \in Range(stack) /\ ~crossed => marker

\* A mount that is still there when Close has returned was busy, or an
\* OnUnmount that Close does not wait for is at work on it.
CloseLeavesNothing ==
  mstage = "closed" =>
    \A c \in Range(stack) \ stuck :
      \E u \in Unmounters : taken[u] = c /\ upc[u] = "unmount"

\* stop returns: no mount that is being made and no command keeps it waiting.
\* Only two mounts that crossed at one path do: the unmount of the lower one
\* takes the upper one away and waits for ever.
StopReturns ==
  mstage = "stopping" ~> mstage = "closed" \/ hung # {}
=============================================================================
