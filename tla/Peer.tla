-------------------------------- MODULE Peer --------------------------------
(***************************************************************************)
(* One direction of a file system data session (internal/remotefs/peer.go): *)
(* a peer that makes requests and the peer that handles them, on one        *)
(* ordered connection.  Both ends run the same code, and the two directions *)
(* only share the connection and its end.                                  *)
(*                                                                         *)
(* mount.create and mount.release are handed to the callbacks OnMount and  *)
(* OnUnmount.  They belong to whoever owns the peer, so this module leaves *)
(* them open: a handler stays in "onmount" until the owner moves it to     *)
(* "mounted" or "reply", and a call of OnUnmount is an unmounter that the  *)
(* owner takes from "look" to "done".  ServerMounts is such an owner.      *)
(***************************************************************************)
EXTENDS Naturals, Sequences, FiniteSets

CONSTANTS
  Calls,        \* calls of request, each made at most once
  Creates,      \* those for mount.create,
  Releases,     \* for mount.release; the others are operations on files
  MountIds,
  MountOf,      \* the mountId that a create or a release carries
  MaxInFlight,
  None,
  Impatient,    \* the calls whose caller may give up (a timeout, a cancelled context)
  Faults        \* what else may happen: close, busy

ASSUME PeerAssumption ==
  /\ Creates \subseteq Calls /\ Releases \subseteq Calls /\ Creates \cap Releases = {}
  /\ MountOf \in [Creates \cup Releases -> MountIds]
  /\ MaxInFlight \in Nat \ {0}
  /\ None \notin Calls /\ Impatient \subseteq Calls
  /\ Faults \subseteq {"close", "busy"}

VARIABLES
  call,      \* where each call of request is
  answer,    \* the frame in its response channel
  reqs,      \* frames on their way to the handler, in order
  resps,     \* frames on their way back
  pdone,     \* the requesting peer is closed
  hand,      \* the frame that the handler's readLoop has read
  hpc,       \* where the handler of each request is
  code,      \* the response it is going to send
  ctxDone,   \* the requests whose context is cancelled
  active,    \* Peer.active
  sem,       \* the requests that hold a slot of Peer.sem
  mounts,    \* Peer.mounts
  stage,     \* how far close has come on the handling peer
  closing,   \* the mounts that close still has to unmount
  upc,       \* where each call of OnUnmount is
  uerr       \* those that returned an error

requester == <<call, answer, pdone>>
wire == <<reqs, resps>>
handlers == <<hpc, code, active, sem>>
unmounts == <<upc, uerr>>
peerVars == <<requester, wire, hand, handlers, ctxDone, mounts, stage, closing, unmounts>>

\* Who calls OnUnmount: the reader of a cancel frame, a handler, and close.
Unmounters ==
  ({"cancel"} \X Creates) \cup ({"handler"} \X (Creates \cup Releases)) \cup ({"close"} \X MountIds)

Unmounted(u) == IF u[1] = "close" THEN u[2] ELSE MountOf[u[2]]

PeerInit ==
  /\ call = [c \in Calls |-> "idle"] /\ answer = [c \in Calls |-> None]
  /\ reqs = <<>> /\ resps = <<>> /\ pdone = FALSE
  /\ hand = None
  /\ hpc = [c \in Calls |-> "none"] /\ code = [c \in Calls |-> None]
  /\ ctxDone = {} /\ active = {} /\ sem = {}
  /\ mounts = {} /\ stage = "open" /\ closing = {}
  /\ upc = [u \in Unmounters |-> "none"] /\ uerr = {}

Frame(kind, c) == [kind |-> kind, call |-> c]

\* A frame that is written reaches the other end unless the connection is gone.
Sent(queue, frame) == IF pdone \/ stage # "open" THEN queue ELSE Append(queue, frame)

-----------------------------------------------------------------------------
(* request: the caller's side.                                              *)

Ask(c) ==
  /\ call[c] = "idle"
  /\ call' = [call EXCEPT ![c] = "slot"]

\* The calls that hold a slot of Peer.outgoing, and have an entry in pending.
Outgoing == {c \in Calls : call[c] = "wait"}

\* A slot is free: the call is registered and its frame written.  Writing may
\* fail when the connection is gone.
Acquire(c) ==
  /\ call[c] = "slot" /\ Cardinality(Outgoing) < MaxInFlight
  /\ \/ /\ ~pdone
        /\ call' = [call EXCEPT ![c] = "wait"]
        /\ reqs' = Sent(reqs, Frame("request", c))
     \/ /\ pdone \/ stage # "open"
        /\ call' = [call EXCEPT ![c] = "closed"]
        /\ UNCHANGED reqs
  /\ UNCHANGED <<answer, pdone, resps, hand, handlers, ctxDone, mounts, stage, closing, unmounts>>

\* The caller's context ends before there is a slot: nothing was sent.
SlotCancelled(c) ==
  /\ c \in Impatient /\ call[c] = "slot"
  /\ call' = [call EXCEPT ![c] = "gaveup"]
  /\ UNCHANGED <<answer, pdone, wire, hand, handlers, ctxDone, mounts, stage, closing, unmounts>>

TakeAnswer(c) ==
  /\ call[c] = "wait" /\ answer[c] # None
  /\ call' = [call EXCEPT ![c] = "answered"]
  /\ UNCHANGED <<answer, pdone, wire, hand, handlers, ctxDone, mounts, stage, closing, unmounts>>

\* The caller's context ends, perhaps with the answer already there: a cancel
\* frame, with the mountId when a mount was asked for.
\* Mutant: the handler is not told.
CancelSilently(c) == reqs
CancelFrame(c) == Sent(reqs, Frame("cancel", c))

GiveUp(c) ==
  /\ c \in Impatient /\ call[c] = "wait"
  /\ call' = [call EXCEPT ![c] = "gaveup"]
  /\ reqs' = CancelFrame(c)
  /\ UNCHANGED <<answer, pdone, resps, hand, handlers, ctxDone, mounts, stage, closing, unmounts>>

\* Mutant: only a call that waits for a slot looks at done.
WokenInSlot(c) == call[c] = "slot"
Woken(c) == call[c] \in {"slot", "wait"}

CallClosed(c) ==
  /\ pdone /\ Woken(c)
  /\ call' = [call EXCEPT ![c] = "closed"]
  /\ UNCHANGED <<answer, pdone, wire, hand, handlers, ctxDone, mounts, stage, closing, unmounts>>

\* readLoop of the requester: an answer that nobody waits for is dropped.
DeliverResponse ==
  /\ ~pdone /\ resps # <<>>
  /\ resps' = Tail(resps)
  /\ LET m == Head(resps) IN
       answer' = IF call[m.call] = "wait" /\ answer[m.call] = None
                   THEN [answer EXCEPT ![m.call] = m.kind] ELSE answer
  /\ UNCHANGED <<call, pdone, reqs, hand, handlers, ctxDone, mounts, stage, closing, unmounts>>

\* The requesting peer closes: its owner ends, or its readLoop meets the end.
\* A connection that is lost is the close of both ends, in either order; what
\* the other end had not read is lost with it.
RequesterCloses ==
  /\ ~pdone
  /\ "close" \in Faults \/ (stage # "open" /\ resps = <<>>)
  /\ pdone' = TRUE
  /\ UNCHANGED <<call, answer, wire, hand, handlers, ctxDone, mounts, stage, closing, unmounts>>

-----------------------------------------------------------------------------
(* readLoop and the handlers.                                               *)

\* close, first part: the connection and the contexts of the active requests.
BeginClose ==
  IF stage # "open" THEN UNCHANGED <<stage, ctxDone, active>>
  ELSE stage' = "closing" /\ ctxDone' = ctxDone \cup active /\ active' = {}

\* A frame is read while the connection is open, and acted upon later: close
\* may come in between.
ReadFrame ==
  /\ stage = "open" /\ hand = None /\ reqs # <<>>
  /\ hand' = Head(reqs) /\ reqs' = Tail(reqs)
  /\ UNCHANGED <<requester, resps, handlers, ctxDone, mounts, stage, closing, unmounts>>

AcceptRequest ==
  /\ hand # None /\ hand.kind = "request"
  /\ Cardinality(sem) < MaxInFlight
  /\ sem' = sem \cup {hand.call} /\ active' = active \cup {hand.call}
  /\ hpc' = [hpc EXCEPT ![hand.call] = "start"]
  /\ hand' = None
  /\ UNCHANGED <<requester, wire, code, ctxDone, mounts, stage, closing, unmounts>>

RejectRequest ==
  /\ hand # None /\ hand.kind = "request"
  /\ Cardinality(sem) = MaxInFlight
  /\ resps' = Sent(resps, Frame("busy", hand.call))
  /\ hand' = None
  /\ UNCHANGED <<requester, reqs, handlers, ctxDone, mounts, stage, closing, unmounts>>

\* The context of the request ends, if it is still active; a mount that it may
\* have made is unmounted by a goroutine of its own.
AcceptCancel ==
  /\ hand # None /\ hand.kind = "cancel"
  /\ ctxDone' = ctxDone \cup ({hand.call} \cap active)
  /\ IF hand.call \in Creates
       THEN /\ mounts' = mounts \ {MountOf[hand.call]}
            /\ upc' = [upc EXCEPT ![<<"cancel", hand.call>>] = "look"]
       ELSE UNCHANGED <<mounts, upc>>
  /\ hand' = None
  /\ UNCHANGED <<requester, wire, handlers, stage, closing, uerr>>

\* handleRequest.
StartRequest(c) ==
  /\ hpc[c] = "start"
  /\ \/ /\ c \in Creates
        /\ hpc' = [hpc EXCEPT ![c] = "onmount"]
        /\ UNCHANGED <<code, upc>>
     \/ /\ c \in Releases
        /\ hpc' = [hpc EXCEPT ![c] = "releasing"]
        /\ upc' = [upc EXCEPT ![<<"handler", c>>] = "look"]
        /\ UNCHANGED code
     \/ /\ c \notin Creates \cup Releases
        /\ hpc' = [hpc EXCEPT ![c] = "reply"]
        /\ \E k \in {"ok", "error"} : code' = [code EXCEPT ![c] = k]
        /\ UNCHANGED upc
  /\ UNCHANGED <<requester, wire, hand, active, sem, ctxDone, mounts, stage, closing, uerr>>

\* OnMount succeeded: whether the mount is still wanted.
\* Mutant: only the context is looked at.
WantedByContext(c) == c \notin ctxDone
Wanted(c) == stage \in {"open", "closing"} /\ c \notin ctxDone

KeepMount(c) ==
  /\ hpc[c] = "mounted"
  /\ \/ /\ Wanted(c)
        /\ mounts' = mounts \cup {MountOf[c]}
        /\ hpc' = [hpc EXCEPT ![c] = "reply"]
        /\ code' = [code EXCEPT ![c] = "ok"]
        /\ UNCHANGED upc
     \/ /\ ~Wanted(c)
        /\ upc' = [upc EXCEPT ![<<"handler", c>>] = "look"]
        /\ hpc' = [hpc EXCEPT ![c] = "undoing"]
        /\ UNCHANGED <<mounts, code>>
  /\ UNCHANGED <<requester, wire, hand, active, sem, ctxDone, stage, closing, uerr>>

\* A release that failed leaves its mount listed: close will unmount it.
\* Mutant: it is taken off the list in any case.
UnlistedAnyway(c) == mounts \ {MountOf[c]}
Unlisted(c) == IF <<"handler", c>> \in uerr THEN mounts ELSE mounts \ {MountOf[c]}

\* OnUnmount has returned to the handler.
UnmountReturned(c) ==
  /\ hpc[c] \in {"undoing", "releasing"} /\ upc[<<"handler", c>>] = "done"
  /\ hpc' = [hpc EXCEPT ![c] = "reply"]
  /\ mounts' = IF hpc[c] = "releasing" THEN Unlisted(c) ELSE mounts
  /\ code' = [code EXCEPT ![c] = IF hpc[c] = "releasing" /\ <<"handler", c>> \notin uerr
                                   THEN "ok" ELSE "error"]
  /\ UNCHANGED <<requester, wire, hand, active, sem, ctxDone, stage, closing, unmounts>>

\* No response once the context is cancelled.  A write that fails closes the
\* peer.
Respond(c) ==
  /\ hpc[c] = "reply"
  /\ hpc' = [hpc EXCEPT ![c] = "end"]
  /\ \/ /\ c \in ctxDone
        /\ UNCHANGED <<resps, stage, ctxDone, active>>
     \/ /\ c \notin ctxDone
        /\ resps' = Sent(resps, Frame(code[c], c))
        /\ UNCHANGED <<stage, ctxDone, active>>
     \/ /\ c \notin ctxDone /\ (pdone \/ stage # "open")
        /\ BeginClose
        /\ UNCHANGED resps
  /\ UNCHANGED <<requester, reqs, hand, code, sem, mounts, closing, unmounts>>

\* The deferred end: the slot is free only now, after the response.
Freed(c) == sem \ {c}

EndRequest(c) ==
  /\ hpc[c] = "end"
  /\ hpc' = [hpc EXCEPT ![c] = "none"]
  /\ active' = active \ {c} /\ sem' = Freed(c)
  /\ UNCHANGED <<requester, wire, hand, code, ctxDone, mounts, stage, closing, unmounts>>

-----------------------------------------------------------------------------
(* close on the handling peer.                                              *)

\* The owner closes the peer (removeClient, the end of the session), or
\* readLoop meets the end of the connection.
HandlerCloses ==
  /\ stage = "open"
  /\ \/ "close" \in Faults
     \/ hand = None /\ pdone /\ reqs = <<>>
  /\ BeginClose
  /\ UNCHANGED <<requester, wire, hand, hpc, code, sem, mounts, closing, unmounts>>

\* mountClosed is set and the mounts are taken over, in one critical section.
SealMounts ==
  /\ stage = "closing"
  /\ stage' = "sealed" /\ closing' = mounts /\ mounts' = {}
  /\ UNCHANGED <<requester, wire, hand, handlers, ctxDone, unmounts>>

\* The done channel is closed.
CloseDone ==
  /\ stage = "sealed"
  /\ stage' = "done"
  /\ UNCHANGED <<requester, wire, hand, handlers, ctxDone, mounts, closing, unmounts>>

\* One mount after the other.
CloseUnmount(m) ==
  /\ stage = "done" /\ m \in closing
  /\ \A n \in MountIds : upc[<<"close", n>>] \in {"none", "done"}
  /\ closing' = closing \ {m}
  /\ upc' = [upc EXCEPT ![<<"close", m>>] = "look"]
  /\ UNCHANGED <<requester, wire, hand, handlers, ctxDone, mounts, stage, uerr>>

CloseEnds ==
  /\ stage = "done" /\ closing = {}
  /\ \A n \in MountIds : upc[<<"close", n>>] \in {"none", "done"}
  /\ stage' = "closed"
  /\ UNCHANGED <<requester, wire, hand, handlers, ctxDone, mounts, closing, unmounts>>

-----------------------------------------------------------------------------
Caller(c) == Acquire(c) \/ TakeAnswer(c) \/ CallClosed(c)
Handler(c) == StartRequest(c) \/ KeepMount(c) \/ UnmountReturned(c) \/ Respond(c) \/ EndRequest(c)
ReadLoop == ReadFrame \/ AcceptRequest \/ RejectRequest \/ AcceptCancel
Closer == SealMounts \/ CloseDone \/ (\E m \in closing : CloseUnmount(m)) \/ CloseEnds

\* What the two peers do by themselves.
PeerNext ==
  \/ \E c \in Calls : Caller(c) \/ SlotCancelled(c) \/ GiveUp(c) \/ Handler(c)
  \/ DeliverResponse \/ ReadLoop \/ Closer
  \/ RequesterCloses \/ HandlerCloses

PeerTypeOK ==
  /\ call \in [Calls -> {"idle", "slot", "wait", "answered", "gaveup", "closed"}]
  /\ answer \in [Calls -> {None, "ok", "error", "busy"}]
  /\ \A i \in 1 .. Len(reqs) : reqs[i] \in [kind : {"request", "cancel"}, call : Calls]
  /\ \A i \in 1 .. Len(resps) : resps[i] \in [kind : {"ok", "error", "busy"}, call : Calls]
  /\ pdone \in BOOLEAN
  /\ hand \in [kind : {"request", "cancel"}, call : Calls] \cup {None}
  /\ hpc \in [Calls -> {"none", "start", "onmount", "setup", "mounting", "ready", "discard", "mounted",
                        "undoing", "releasing", "reply", "end"}]
  /\ code \in [Calls -> {None, "ok", "error"}]
  /\ ctxDone \subseteq Calls /\ active \subseteq sem
  /\ sem = {c \in Calls : hpc[c] # "none"} /\ Cardinality(sem) <= MaxInFlight
  /\ mounts \subseteq MountIds /\ closing \subseteq MountIds
  /\ stage \in {"open", "closing", "sealed", "done", "closed"}
  /\ upc \in [Unmounters -> {"none", "look", "wait", "unmount", "unmounted", "remove", "done"}]
  /\ uerr \subseteq Unmounters
=============================================================================
