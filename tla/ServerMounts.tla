---------------------------- MODULE ServerMounts ----------------------------
(***************************************************************************)
(* The mount table of the remote server (internal/bridge/remotefs.go,      *)
(* mountRemoteFS and unmountRemoteFS) as the owner of the handling peer of *)
(* one session.  A client asks for its workspace to be mounted, may give   *)
(* up, release it, close, or lose the connection; the server may close the *)
(* session (removeClient, the end of Serve).  One action is one critical   *)
(* section of Server.mu, one call of the driver, or one step on the        *)
(* session's directory.  The directory holds the mount point and a marker  *)
(* with its path, by which the next server finds a mount that this one     *)
(* leaves behind.  What os.RemoveAll meets on a mounted workspace stays:   *)
(* the client's backend refuses to delete.                                 *)
(***************************************************************************)
EXTENDS Peer

\* The client asks for a mountId once in a session: its workspaceMountID.
ASSUME ServerMountsAssumption ==
  /\ None \notin Unmounters
  /\ \A a, b \in Creates : MountOf[a] = MountOf[b] => a = b

VARIABLES
  fsMounting,    \* Server.fsMounting: the create that is mounting
  fsMounts,      \* Server.fsMounts: the create whose mount is registered
  fsUnmounting,  \* Server.fsUnmounting: the unmounter that works on it
  waitOn,        \* the unmounter whose end another one waits for
  mounted,       \* the creates whose file system is mounted
  marker,        \* the session's directory holds its .mount-path
  stuck,         \* history: the creates whose mount was busy when unmounted
  raced          \* history: those that were set up while the directory of an
                 \* earlier mount was still to be removed

table == <<fsMounting, fsMounts, fsUnmounting>>
history == <<stuck, raced>>
ownVars == <<table, waitOn, mounted, marker, history>>
vars == <<peerVars, ownVars>>

Init ==
  /\ PeerInit
  /\ fsMounting = None /\ fsMounts = None /\ fsUnmounting = None
  /\ waitOn = [u \in Unmounters |-> None]
  /\ mounted = {} /\ marker = FALSE /\ stuck = {} /\ raced = {}

Ended(c, k) == hpc' = [hpc EXCEPT ![c] = "reply"] /\ code' = [code EXCEPT ![c] = k]

-----------------------------------------------------------------------------
(* mountRemoteFS.                                                           *)

\* The client releases only a mount that it was given.
Request(c) ==
  /\ Ask(c)
  /\ c \in Releases => \E k \in Creates : /\ MountOf[k] = MountOf[c]
                                        /\ call[k] = "answered" /\ answer[k] = "ok"
  /\ UNCHANGED <<answer, pdone, wire, hand, handlers, ctxDone, mounts, stage, closing, unmounts,
                 ownVars>>

MountBegins(c) ==
  /\ hpc[c] = "onmount"
  /\ \/ /\ fsMounting # None \/ fsMounts # None
        /\ Ended(c, "error") /\ UNCHANGED fsMounting
     \/ /\ fsMounting = None /\ fsMounts = None
        /\ fsMounting' = c
        /\ hpc' = [hpc EXCEPT ![c] = "setup"] /\ UNCHANGED code
  /\ UNCHANGED <<requester, wire, hand, active, sem, ctxDone, mounts, stage, closing, unmounts,
                 fsMounts, fsUnmounting, waitOn, mounted, marker, history>>

\* MountLocal, without the lock.  First SetupMountPoint clears the mount point
\* and writes the marker; it fails when something is mounted there.
Setup(c) ==
  /\ hpc[c] = "setup"
  /\ \/ /\ hpc' = [hpc EXCEPT ![c] = "mounting"]
        /\ marker' = TRUE
        /\ raced' = IF \E u \in Unmounters : upc[u] = "remove" THEN raced \cup {c} ELSE raced
        /\ UNCHANGED <<code, fsMounting>>
     \/ /\ Ended(c, "error")
        /\ fsMounting' = None /\ UNCHANGED <<marker, raced>>
  /\ UNCHANGED <<requester, wire, hand, active, sem, ctxDone, mounts, stage, closing, unmounts,
                 fsMounts, fsUnmounting, waitOn, mounted, stuck>>

\* Then the driver mounts, and makes the directories again if it has to; after
\* a failure the session's directory is removed.
Mount(c) ==
  /\ hpc[c] = "mounting"
  /\ \/ /\ mounted' = mounted \cup {c}
        /\ hpc' = [hpc EXCEPT ![c] = "ready"]
        /\ UNCHANGED <<code, fsMounting, marker>>
     \/ /\ Ended(c, "error")
        /\ marker' = FALSE
        /\ fsMounting' = None /\ UNCHANGED mounted
  /\ UNCHANGED <<requester, wire, hand, active, sem, ctxDone, mounts, stage, closing, unmounts,
                 fsMounts, fsUnmounting, waitOn, history>>

\* The mount is there: it is registered unless its peer has closed or its
\* request was cancelled in the meantime.
StillWanted(c) == stage \notin {"done", "closed"} /\ c \notin ctxDone

MountReady(c) ==
  /\ hpc[c] = "ready"
  /\ fsMounting' = None
  /\ fsMounts' = IF StillWanted(c) THEN c ELSE fsMounts
  /\ hpc' = [hpc EXCEPT ![c] = IF StillWanted(c) THEN "mounted" ELSE "discard"]
  /\ UNCHANGED <<requester, wire, hand, code, active, sem, ctxDone, mounts, stage, closing, unmounts,
                 fsUnmounting, waitOn, mounted, marker, history>>

\* What the driver makes of an unmount of c: it fails while a program uses the
\* mount.
Detach(c, ok) ==
  IF ok THEN mounted' = mounted \ {c} /\ UNCHANGED stuck
        ELSE "busy" \in Faults /\ c \in mounted /\ stuck' = stuck \cup {c} /\ UNCHANGED mounted

DiscardMount(c) ==
  /\ hpc[c] = "discard"
  /\ \E ok \in BOOLEAN : Detach(c, ok)
  /\ Ended(c, "error")
  /\ UNCHANGED <<requester, wire, hand, active, sem, ctxDone, mounts, stage, closing, unmounts,
                 table, waitOn, marker, raced>>

-----------------------------------------------------------------------------
(* unmountRemoteFS.                                                         *)

Registered(m) == fsMounts \in {c \in Creates : MountOf[c] = m}

\* A second unmounter waits for the first.
\* Mutant: it takes the mount for gone.
AfterOtherReturns == "done"
AfterOther == "wait"

UnmountLook(u) ==
  /\ upc[u] = "look"
  /\ \/ /\ fsMounting # None
        /\ upc' = [upc EXCEPT ![u] = "done"] /\ uerr' = uerr \cup {u}
        /\ UNCHANGED <<fsUnmounting, waitOn>>
     \/ /\ fsMounting = None
        /\ ~Registered(Unmounted(u))
        /\ upc' = [upc EXCEPT ![u] = "done"]
        /\ UNCHANGED <<uerr, fsUnmounting, waitOn>>
     \/ /\ fsMounting = None /\ Registered(Unmounted(u))
        /\ IF fsUnmounting # None
             THEN /\ upc' = [upc EXCEPT ![u] = AfterOther]
                  /\ waitOn' = [waitOn EXCEPT ![u] = fsUnmounting]
                  /\ UNCHANGED fsUnmounting
             ELSE /\ upc' = [upc EXCEPT ![u] = "unmount"]
                  /\ fsUnmounting' = u
                  /\ UNCHANGED waitOn
        /\ UNCHANGED uerr
  /\ UNCHANGED <<requester, wire, hand, handlers, ctxDone, mounts, stage, closing,
                 fsMounting, fsMounts, mounted, marker, history>>

\* Only a release hands the context of its request on to OnUnmount.
MayGiveUp(u) == u[1] = "handler" /\ u[2] \in Releases
Cancelled(u) == MayGiveUp(u) /\ u[2] \in ctxDone

\* The first one has closed its channel, or the request that waits was
\* cancelled.
UnmountWait(u) ==
  /\ upc[u] = "wait"
  /\ \/ /\ upc[waitOn[u]] \in {"remove", "done"}
        /\ upc' = [upc EXCEPT ![u] = "look"]
        /\ UNCHANGED uerr
     \/ /\ Cancelled(u)
        /\ upc' = [upc EXCEPT ![u] = "done"] /\ uerr' = uerr \cup {u}
  /\ UNCHANGED <<requester, wire, hand, handlers, ctxDone, mounts, stage, closing,
                 table, waitOn, mounted, marker, history>>

\* A cancelled context stops the driver before it unmounts anything; a mount
\* that has ended by itself counts as unmounted.
Unmount(u) ==
  /\ upc[u] = "unmount"
  /\ upc' = [upc EXCEPT ![u] = "unmounted"]
  /\ \/ /\ Cancelled(u) /\ fsMounts \in mounted
        /\ uerr' = uerr \cup {u}
        /\ UNCHANGED <<mounted, stuck>>
     \/ /\ ~(Cancelled(u) /\ fsMounts \in mounted)
        /\ \E ok \in BOOLEAN :
             /\ Detach(fsMounts, ok)
             /\ uerr' = IF ok THEN uerr ELSE uerr \cup {u}
  /\ UNCHANGED <<requester, wire, hand, handlers, ctxDone, mounts, stage, closing,
                 table, waitOn, marker, raced>>

\* The table is put right and the waiters are told, in one critical section.
\* Mutant: the directory is removed whatever the driver said.
AfterUnmountAlways(u) == "remove"
AfterUnmount(u) == IF u \in uerr THEN "done" ELSE "remove"

UnmountFinish(u) ==
  /\ upc[u] = "unmounted"
  /\ upc' = [upc EXCEPT ![u] = AfterUnmount(u)]
  /\ fsMounts' = IF u \in uerr THEN fsMounts ELSE None
  /\ fsUnmounting' = None
  /\ UNCHANGED <<requester, wire, hand, handlers, ctxDone, mounts, stage, closing, uerr,
                 fsMounting, waitOn, mounted, marker, history>>

\* os.RemoveAll of the session's directory comes after the unlock: the next
\* create may have set it up again.
UnmountRemoves(u) ==
  /\ upc[u] = "remove"
  /\ upc' = [upc EXCEPT ![u] = "done"]
  /\ marker' = FALSE
  /\ UNCHANGED <<requester, wire, hand, handlers, ctxDone, mounts, stage, closing, uerr,
                 table, waitOn, mounted, history>>

\* The driver's goroutine unmounts when the mount's context ends: with the
\* request, as long as the mount is being made or thrown away.
LifetimeEnds(c) ==
  /\ c \in mounted
  /\ c \in ctxDone /\ hpc[c] \in {"ready", "discard"}
  /\ mounted' = mounted \ {c}
  /\ UNCHANGED <<peerVars, table, waitOn, marker, history>>

-----------------------------------------------------------------------------
Owner(c) == MountBegins(c) \/ Setup(c) \/ Mount(c) \/ MountReady(c) \/ DiscardMount(c)
Unmounting(u) == UnmountLook(u) \/ UnmountWait(u) \/ Unmount(u) \/ UnmountFinish(u) \/ UnmountRemoves(u)
PeerStep == PeerNext /\ UNCHANGED ownVars

Next ==
  \/ PeerStep
  \/ \E c \in Calls : Request(c) \/ Owner(c) \/ LifetimeEnds(c)
  \/ \E u \in Unmounters : Unmounting(u)

\* What the program does without being asked: goroutines run, frames arrive, a
\* mount and an unmount come to an end, and the end of the connection is
\* noticed.  Nobody owes a request, a cancel or a close.
System ==
  \/ /\ \/ \E c \in Calls : Caller(c) \/ Handler(c)
        \/ DeliverResponse \/ ReadLoop \/ Closer
        \/ stage # "open" /\ RequesterCloses
        \/ pdone /\ HandlerCloses
     /\ UNCHANGED ownVars
  \/ \E c \in Calls : Owner(c)
  \/ \E u \in Unmounters : Unmounting(u)

\* Every goroutine takes finitely many steps, so it is enough that the program
\* as a whole does not stop.
Fairness == WF_vars(System)

Spec == Init /\ [][Next]_vars
FairSpec == Spec /\ Fairness

-----------------------------------------------------------------------------
(* Properties.                                                              *)

\* Every variable has its type; a handler holds a slot as long as it runs, and
\* no more than MaxInFlight of them run.
TypeOK ==
  /\ PeerTypeOK
  /\ fsMounting \in Creates \cup {None} /\ fsMounts \in Creates \cup {None}
  /\ fsUnmounting \in Unmounters \cup {None}
  /\ waitOn \in [Unmounters -> Unmounters \cup {None}]
  /\ mounted \subseteq Creates /\ marker \in BOOLEAN
  /\ stuck \subseteq Creates /\ raced \subseteq Creates

\* A file system that is mounted is in the table, or its own handler is about
\* to judge it; and for one in the table somebody is left who unmounts it: the
\* peer that lists it, the close that took it over, its handler, or an
\* unmounter at work that cannot be cancelled.  Only a mount that a program
\* kept busy has nobody.
MountHasOwner ==
  /\ \A c \in mounted \ stuck : fsMounts = c \/ hpc[c] \in {"ready", "discard"}
  /\ fsMounts # None /\ fsMounts \notin stuck =>
       \/ MountOf[fsMounts] \in mounts /\ stage \in {"open", "closing"}
       \/ MountOf[fsMounts] \in closing \/ hpc[fsMounts] = "mounted"
       \/ \E u \in Unmounters : /\ Unmounted(u) = MountOf[fsMounts] /\ ~MayGiveUp(u)
                               /\ upc[u] \notin {"none", "remove", "done"}

\* A file system that is registered and mounted has the marker by which the next
\* server finds it after a crash, also when an unmount failed.  The exception is
\* a mount that was set up while the directory of the one before it was still
\* to be removed.
MountIsMarked == fsMounts \in mounted \ raced => marker

\* OnUnmount returns without an error only when nothing with this mountId is
\* mounted any more, whoever unmounted it; a mount that its handler throws
\* away does not count.
UnmountMeansGone ==
  [][\A u \in Unmounters : upc[u] # "done" /\ upc'[u] = "done" /\ u \notin uerr' =>
       \A c \in mounted' : MountOf[c] # Unmounted(u) \/ hpc'[c] = "discard" \/ c \in stuck']_vars

\* Every request comes to an end without a timeout of its caller: it is
\* answered, or the peer closes; and the slot of its handler is returned.
RequestEnds ==
  \A c \in Calls :
    /\ call[c] \in {"slot", "wait"} ~> call[c] \in {"answered", "gaveup", "closed"}
    /\ c \in sem ~> c \notin sem

\* A mount that its caller gave up, also when the answer crossed the cancel
\* frame, and every mount of a peer that has closed, goes away for good.
UnwantedMountGoes ==
  \A c \in Creates :
    call[c] = "gaveup" \/ stage = "closed" ~> [](c \notin mounted \/ c \in stuck)
=============================================================================
