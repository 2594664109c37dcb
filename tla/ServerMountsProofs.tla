------------------------- MODULE ServerMountsProofs -------------------------
(***************************************************************************)
(* Proofs about ServerMounts for any number of calls, mounts and slots:    *)
(* the frames that a session sends are handled once, the table names the   *)
(* mount that is there, and no mount is ever without an owner.             *)
(***************************************************************************)
EXTENDS ServerMounts, FiniteSetTheorems, TLAPS

Frames == [kind : {"request", "cancel"}, call : Calls]
Answers == [kind : {"ok", "error", "busy"}, call : Calls]

ByHandler(c) == <<"handler", c>>
ByCancel(c) == <<"cancel", c>>
ByClose(m) == <<"close", m>>

(***************************************************************************)
(* The types, by the part of the state they are about.  Beyond TypeOK: the *)
(* queues hold frames, a handler is at a place that fits its request, and  *)
(* it has a response once it replies.                                      *)
(***************************************************************************)
CallerTypes ==
  /\ call \in [Calls -> {"idle", "slot", "wait", "answered", "gaveup", "closed"}]
  /\ answer \in [Calls -> {None, "ok", "error", "busy"}]
  /\ pdone \in BOOLEAN

WireTypes ==
  /\ reqs \in Seq(Frames) /\ resps \in Seq(Answers)
  /\ hand \in Frames \cup {None}

HandlerTypes ==
  /\ hpc \in [Calls -> {"none", "start", "onmount", "setup", "mounting", "ready", "discard", "mounted",
                        "undoing", "releasing", "reply", "end"}]
  /\ code \in [Calls -> {None, "ok", "error"}]
  /\ \A c \in Calls :
       /\ hpc[c] \in {"onmount", "setup", "mounting", "ready", "discard", "mounted", "undoing"} =>
            c \in Creates
       /\ hpc[c] = "releasing" => c \in Releases
       /\ hpc[c] = "reply" => code[c] \in {"ok", "error"}

SlotTypes ==
  /\ ctxDone \subseteq Calls /\ active \subseteq sem
  /\ sem = {c \in Calls : hpc[c] # "none"}
  /\ IsFiniteSet(sem) /\ Cardinality(sem) <= MaxInFlight

CloseTypes ==
  /\ mounts \subseteq MountIds /\ closing \subseteq MountIds
  /\ stage \in {"open", "closing", "sealed", "done", "closed"}
  /\ upc \in [Unmounters -> {"none", "look", "wait", "unmount", "unmounted", "remove", "done"}]
  /\ uerr \subseteq Unmounters

TableTypes ==
  /\ fsMounting \in Creates \cup {None} /\ fsMounts \in Creates \cup {None}
  /\ fsUnmounting \in Unmounters \cup {None}
  /\ waitOn \in [Unmounters -> Unmounters \cup {None}]
  /\ mounted \subseteq Creates /\ marker \in BOOLEAN
  /\ stuck \subseteq Creates /\ raced \subseteq Creates

Base == CallerTypes /\ WireTypes /\ HandlerTypes /\ SlotTypes /\ CloseTypes /\ TableTypes

(***************************************************************************)
(* The frames on their way to a handler, or read and not yet acted upon:   *)
(* no two are the same.                                                    *)
(***************************************************************************)
Way == {reqs[i] : i \in 1 .. Len(reqs)} \cup ({hand} \ {None})
Back == {resps[i] : i \in 1 .. Len(resps)}

SentOnce ==
  /\ \A i, j \in 1 .. Len(reqs) : reqs[i] = reqs[j] => i = j
  /\ hand # None => \A i \in 1 .. Len(reqs) : reqs[i] # hand

(***************************************************************************)
(* A call that has not arrived yet has no handler, and no call of          *)
(* OnUnmount is made twice.                                                *)
(***************************************************************************)
Asked(c) == call[c] \notin {"idle", "slot"}
New(c) == hpc[c] = "none" /\ (c \in Creates \cup Releases => upc[ByHandler(c)] = "none")

Arriving ==
  \A f \in Way :
    /\ f.kind = "request" => Asked(f.call) /\ New(f.call)
    /\ f.kind = "cancel" =>
         call[f.call] = "gaveup" /\ (f.call \in Creates => upc[ByCancel(f.call)] = "none")

HandledOnce ==
  /\ Arriving
  /\ \A c \in Calls : ~Asked(c) => New(c)
  /\ \A c \in Creates : call[c] # "gaveup" => upc[ByCancel(c)] = "none"
  /\ \A c \in Creates \cup Releases :
       hpc[c] \in {"start", "onmount", "setup", "mounting", "ready", "discard", "mounted"} =>
         upc[ByHandler(c)] = "none"
  /\ stage \in {"open", "closing"} => closing = {}
  /\ \A m \in MountIds : m \in closing \/ stage \in {"open", "closing"} => upc[ByClose(m)] = "none"
  /\ \A u \in Unmounters : upc[u] \in {"none", "look", "wait", "unmount"} => u \notin uerr

(***************************************************************************)
(* The table: who mounts, what is mounted, who unmounts it and how it      *)
(* went.                                                                   *)
(***************************************************************************)
TableTrue ==
  /\ \A c \in Calls : hpc[c] \in {"setup", "mounting", "ready"} <=> fsMounting = c
  /\ fsMounting # None => fsMounts = None
  /\ \A u \in Unmounters : upc[u] \in {"unmount", "unmounted"} <=> fsUnmounting = u
  /\ fsUnmounting # None => fsMounts # None /\ MountOf[fsMounts] = Unmounted(fsUnmounting)
  /\ \A u \in Unmounters : upc[u] = "unmounted" =>
       IF u \in uerr THEN fsMounts \in stuck \/ MayGiveUp(u) ELSE fsMounts \notin mounted

MountInTable ==
  \A c \in mounted \ stuck : fsMounts = c \/ hpc[c] \in {"ready", "discard"}

(***************************************************************************)
(* Whoever releases a mount was given it: the create is through with       *)
(* mounting, and its mountId does not come back.                           *)
(***************************************************************************)
Through(c) ==
  /\ Asked(c) /\ Frame("request", c) \notin Way
  /\ hpc[c] \in {"mounted", "undoing", "reply", "end", "none"}

GivenOnce ==
  /\ \A f \in Back : Through(f.call)
  /\ \A c \in Calls : answer[c] # None => Through(c)
  /\ \A c \in Calls : call[c] = "answered" => answer[c] # None
  /\ \A c \in Releases : call[c] # "idle" =>
       \E k \in Creates : MountOf[k] = MountOf[c] /\ Through(k)

(***************************************************************************)
(* A mount in the table, and one that was unmounted, are not made again;   *)
(* a release that unmounted took its mount out of the table.               *)
(***************************************************************************)
Gone ==
  /\ fsMounts # None => Through(fsMounts)
  /\ \A u \in Unmounters : upc[u] = "remove" =>
       \A c \in Creates : MountOf[c] = Unmounted(u) => Through(c) /\ c \notin mounted

Released ==
  \A c \in Releases :
    LET u == ByHandler(c) IN
    upc[u] \in {"remove", "done"} /\ u \notin uerr => ~Registered(MountOf[c])

(***************************************************************************)
(* From its setup on a mount has its marker, and no removal of the         *)
(* directory is outstanding.                                               *)
(***************************************************************************)
Marked ==
  \A c \in Creates \ raced :
    hpc[c] \in {"mounting", "ready"} \/ (fsMounts = c /\ c \in mounted) =>
      marker /\ \A u \in Unmounters : upc[u] # "remove"

Owned ==
  fsMounts # None /\ fsMounts \notin stuck =>
    \/ MountOf[fsMounts] \in mounts /\ stage \in {"open", "closing"}
    \/ MountOf[fsMounts] \in closing \/ hpc[fsMounts] = "mounted"
    \/ \E u \in Unmounters : /\ Unmounted(u) = MountOf[fsMounts] /\ ~MayGiveUp(u)
                            /\ upc[u] \notin {"none", "remove", "done"}

IInv ==
  /\ Base /\ SentOnce /\ HandledOnce /\ TableTrue /\ MountInTable /\ GivenOnce
  /\ Gone /\ Released /\ Marked /\ Owned

LEMMA TypesHold == Base => TypeOK
<1> SUFFICES ASSUME Base PROVE TypeOK OBVIOUS
<1>1. /\ \A i \in 1 .. Len(reqs) : reqs[i] \in [kind : {"request", "cancel"}, call : Calls]
      /\ \A i \in 1 .. Len(resps) : resps[i] \in [kind : {"ok", "error", "busy"}, call : Calls]
      /\ hand \in [kind : {"request", "cancel"}, call : Calls] \cup {None}
  <2>1. \A i \in 1 .. Len(reqs) : reqs[i] \in Frames BY DEF Base, WireTypes
  <2>2. \A i \in 1 .. Len(resps) : resps[i] \in Answers BY DEF Base, WireTypes
  <2> QED BY <2>1, <2>2, Zenon DEF Base, WireTypes, Frames, Answers
<1>2. PeerTypeOK
  BY <1>1, Zenon DEF Base, CallerTypes, HandlerTypes, SlotTypes, CloseTypes, PeerTypeOK
<1> QED BY <1>2 DEF Base, TableTypes, TypeOK

-----------------------------------------------------------------------------
(***************************************************************************)
(* What the steps of the two ends do to the frames on the wire.            *)
(***************************************************************************)
LEMMA WaySend ==
  ASSUME WireTypes, SentOnce, NEW f \in Frames, f \notin Way, reqs' = Sent(reqs, f), hand' = hand
  PROVE  reqs' \in Seq(Frames) /\ SentOnce' /\ Way' \subseteq Way \cup {f}
<1> USE DEF WireTypes
<1>1. CASE reqs' = reqs BY <1>1 DEF SentOnce, Way
<1>2. CASE reqs' = Append(reqs, f)
  <2>1. /\ reqs' \in Seq(Frames) /\ Len(reqs') = Len(reqs) + 1 /\ Len(reqs) \in Nat
        /\ \A i \in 1 .. Len(reqs') : reqs'[i] = IF i <= Len(reqs) THEN reqs[i] ELSE f
    BY <1>2
  <2>2. \A i \in 1 .. Len(reqs) : reqs[i] # f BY DEF Way
  <2>3. SentOnce' BY <2>1, <2>2 DEF SentOnce, Way
  <2>4. Way' \subseteq Way \cup {f} BY <2>1 DEF Way
  <2> QED BY <2>1, <2>3, <2>4
<1> QED BY <1>1, <1>2 DEF Sent

LEMMA WayRead ==
  ASSUME WireTypes, SentOnce, ReadFrame
  PROVE  reqs' \in Seq(Frames) /\ hand' \in Frames /\ SentOnce' /\ Way' \subseteq Way
<1> USE DEF WireTypes, ReadFrame
<1>1. /\ reqs' \in Seq(Frames) /\ Len(reqs') = Len(reqs) - 1 /\ Len(reqs) \in Nat /\ Len(reqs) > 0
      /\ \A i \in 1 .. Len(reqs') : reqs'[i] = reqs[i + 1]
      /\ hand' = reqs[1] /\ hand' \in Frames
  OBVIOUS
<1>2. SentOnce' BY <1>1 DEF SentOnce
<1>3. Way' \subseteq Way BY <1>1 DEF Way
<1> QED BY <1>1, <1>2, <1>3

LEMMA WayTake ==
  ASSUME WireTypes, SentOnce, hand # None, hand' = None, reqs' = reqs
  PROVE  SentOnce' /\ Way' = Way \ {hand} /\ hand \in Way
BY DEF WireTypes, SentOnce, Way

LEMMA WayTypes == WireTypes => Way \subseteq Frames
BY DEF WireTypes, Way

LEMMA WayFrame == reqs' = reqs /\ hand' = hand => Way' = Way
BY DEF Way

LEMMA BackTypes == WireTypes => \A f \in Back : f \in Answers /\ f.call \in Calls
<1>1. WireTypes => \A f \in Back : f \in Answers BY DEF WireTypes, Back
<1> QED BY <1>1 DEF Answers

LEMMA BackFrame == resps' = resps => Back' = Back
BY DEF Back

LEMMA BackSend ==
  ASSUME WireTypes, NEW f \in Answers, resps' = Sent(resps, f)
  PROVE  resps' \in Seq(Answers) /\ Back' \subseteq Back \cup {f}
<1> USE DEF WireTypes
<1>1. CASE resps' = resps BY <1>1 DEF Back
<1>2. CASE resps' = Append(resps, f)
  <2>1. /\ resps' \in Seq(Answers) /\ Len(resps') = Len(resps) + 1 /\ Len(resps) \in Nat
        /\ \A i \in 1 .. Len(resps') : resps'[i] = IF i <= Len(resps) THEN resps[i] ELSE f
    BY <1>2
  <2> QED BY <2>1 DEF Back
<1> QED BY <1>1, <1>2 DEF Sent

LEMMA BackTake ==
  ASSUME WireTypes, DeliverResponse
  PROVE  resps' \in Seq(Answers) /\ Back' \subseteq Back /\ Head(resps) \in Back \cap Answers
<1> USE DEF WireTypes, DeliverResponse
<1>1. /\ resps' \in Seq(Answers) /\ Len(resps') = Len(resps) - 1 /\ Len(resps) \in Nat /\ Len(resps) > 0
      /\ \A i \in 1 .. Len(resps') : resps'[i] = resps[i + 1]
      /\ Head(resps) = resps[1]
  OBVIOUS
<1> QED BY <1>1 DEF Back

LEMMA FrameFacts ==
  /\ \A c \in Calls : Frame("request", c) \in Frames /\ Frame("cancel", c) \in Frames
  /\ \A c \in Calls : \A k \in {"ok", "error", "busy"} : Frame(k, c) \in Answers
  /\ \A f \in Frames : f.call \in Calls /\ f = Frame(f.kind, f.call)
  /\ \A f \in Answers : f.call \in Calls
  /\ \A k, c : Frame(k, c).kind = k /\ Frame(k, c).call = c
BY DEF Frame, Frames, Answers

LEMMA UnmounterFacts ==
  /\ \A c \in Creates \cup Releases : ByHandler(c) \in Unmounters /\ Unmounted(ByHandler(c)) = MountOf[c]
  /\ \A c \in Creates : ByCancel(c) \in Unmounters /\ Unmounted(ByCancel(c)) = MountOf[c]
  /\ \A m \in MountIds : ByClose(m) \in Unmounters /\ Unmounted(ByClose(m)) = m
  /\ \A a, b : ByHandler(a) # ByCancel(b) /\ ByHandler(a) # ByClose(b) /\ ByCancel(a) # ByClose(b)
  /\ \A a, b : ByHandler(a) = ByHandler(b) => a = b
  /\ \A a, b : ByCancel(a) = ByCancel(b) => a = b
  /\ \A a, b : ByClose(a) = ByClose(b) => a = b
  /\ \A c \in Creates : ~MayGiveUp(ByHandler(c)) /\ ~MayGiveUp(ByCancel(c))
  /\ \A m \in MountIds : ~MayGiveUp(ByClose(m))
BY PeerAssumption DEF ByHandler, ByCancel, ByClose, Unmounters, Unmounted, MayGiveUp

-----------------------------------------------------------------------------
(***************************************************************************)
(* The types, one step per action.                                         *)
(***************************************************************************)
LEMMA CallerStep ==
  ASSUME CallerTypes, WireTypes, [Next]_vars
  PROVE  CallerTypes'
<1> USE PeerAssumption DEF requester, wire, handlers, unmounts, ownVars, table, history, CallerTypes, Answers
<1>1. ASSUME NEW c \in Calls, Acquire(c), UNCHANGED ownVars PROVE CallerTypes'
  BY <1>1 DEF Acquire
<1>2. ASSUME NEW c \in Calls, SlotCancelled(c), UNCHANGED ownVars PROVE CallerTypes'
  BY <1>2 DEF SlotCancelled
<1>3. ASSUME NEW c \in Calls, TakeAnswer(c), UNCHANGED ownVars PROVE CallerTypes'
  BY <1>3 DEF TakeAnswer
<1>4. ASSUME NEW c \in Calls, GiveUp(c), UNCHANGED ownVars PROVE CallerTypes'
  BY <1>4 DEF GiveUp, CancelFrame
<1>5. ASSUME NEW c \in Calls, CallClosed(c), UNCHANGED ownVars PROVE CallerTypes'
  BY <1>5 DEF CallClosed, Woken
<1>6. ASSUME NEW c \in Calls, StartRequest(c), UNCHANGED ownVars PROVE CallerTypes'
  BY <1>6 DEF StartRequest
<1>7. ASSUME NEW c \in Calls, KeepMount(c), UNCHANGED ownVars PROVE CallerTypes'
  BY <1>7 DEF KeepMount, Wanted
<1>8. ASSUME NEW c \in Calls, UnmountReturned(c), UNCHANGED ownVars
      PROVE  CallerTypes'
  BY <1>8 DEF UnmountReturned, Unlisted
<1>9. ASSUME NEW c \in Calls, Respond(c), UNCHANGED ownVars PROVE CallerTypes'
  BY <1>9 DEF Respond, BeginClose
<1>10. ASSUME NEW c \in Calls, EndRequest(c), UNCHANGED ownVars PROVE CallerTypes'
  BY <1>10 DEF EndRequest, Freed
<1>11. ASSUME DeliverResponse, UNCHANGED ownVars PROVE CallerTypes'
  BY <1>11, BackTake DEF DeliverResponse
<1>12. ASSUME ReadFrame, UNCHANGED ownVars PROVE CallerTypes'
  BY <1>12 DEF ReadFrame
<1>13. ASSUME AcceptRequest, UNCHANGED ownVars PROVE CallerTypes'
  BY <1>13 DEF AcceptRequest
<1>14. ASSUME RejectRequest, UNCHANGED ownVars PROVE CallerTypes'
  BY <1>14 DEF RejectRequest
<1>15. ASSUME AcceptCancel, UNCHANGED ownVars PROVE CallerTypes'
  BY <1>15 DEF AcceptCancel
<1>16. ASSUME SealMounts, UNCHANGED ownVars PROVE CallerTypes'
  BY <1>16 DEF SealMounts
<1>17. ASSUME CloseDone, UNCHANGED ownVars PROVE CallerTypes'
  BY <1>17 DEF CloseDone
<1>18. ASSUME NEW m \in closing, CloseUnmount(m), UNCHANGED ownVars
      PROVE  CallerTypes'
  BY <1>18 DEF CloseUnmount
<1>19. ASSUME CloseEnds, UNCHANGED ownVars PROVE CallerTypes'
  BY <1>19 DEF CloseEnds
<1>20. ASSUME RequesterCloses, UNCHANGED ownVars PROVE CallerTypes'
  BY <1>20 DEF RequesterCloses
<1>21. ASSUME HandlerCloses, UNCHANGED ownVars PROVE CallerTypes'
  BY <1>21 DEF HandlerCloses, BeginClose
<1>22. ASSUME NEW c \in Calls, Request(c) PROVE CallerTypes'
  BY <1>22 DEF Request, Ask
<1>23. ASSUME NEW c \in Calls, MountBegins(c) PROVE CallerTypes'
  BY <1>23 DEF MountBegins, Ended
<1>24. ASSUME NEW c \in Calls, Mount(c) PROVE CallerTypes'
  BY <1>24 DEF Mount, Ended
<1>25. ASSUME NEW c \in Calls, MountReady(c) PROVE CallerTypes'
  BY <1>25 DEF MountReady, StillWanted
<1>26. ASSUME NEW c \in Calls, DiscardMount(c) PROVE CallerTypes'
  BY <1>26 DEF DiscardMount, Ended, Detach
<1>27. ASSUME NEW c \in Calls, LifetimeEnds(c) PROVE CallerTypes'
  BY <1>27 DEF LifetimeEnds, peerVars
<1>28. ASSUME NEW u \in Unmounters, UnmountLook(u) PROVE CallerTypes'
  BY <1>28 DEF UnmountLook, AfterOther
<1>29. ASSUME NEW u \in Unmounters, UnmountWait(u) PROVE CallerTypes'
  BY <1>29 DEF UnmountWait, Cancelled
<1>30. ASSUME NEW u \in Unmounters, Unmount(u) PROVE CallerTypes'
  BY <1>30 DEF Unmount, Cancelled, Detach
<1>31. ASSUME NEW u \in Unmounters, UnmountFinish(u) PROVE CallerTypes'
  BY <1>31 DEF UnmountFinish, AfterUnmount
<1>32. CASE UNCHANGED vars
  BY <1>32 DEF vars, peerVars
<1>33. ASSUME NEW c \in Calls, Setup(c) PROVE CallerTypes'
  BY <1>33 DEF Setup, Ended
<1>34. ASSUME NEW u \in Unmounters, UnmountRemoves(u) PROVE CallerTypes'
  BY <1>34 DEF UnmountRemoves
<1> QED
    BY <1>1, <1>2, <1>3, <1>4, <1>5, <1>6, <1>7, <1>8, <1>9, <1>10, <1>11, <1>12, <1>13, <1>14,
       <1>15, <1>16, <1>17, <1>18, <1>19, <1>20, <1>21, <1>22, <1>23, <1>24, <1>25, <1>26, <1>27,
       <1>28, <1>29, <1>30, <1>31, <1>32, <1>33, <1>34
  DEF Next, PeerStep, Owner, Unmounting, PeerNext, Caller, Handler, ReadLoop, Closer

LEMMA WireStep ==
  ASSUME Base, SentOnce, HandledOnce, [Next]_vars
  PROVE  (WireTypes /\ SentOnce)'
<1> USE PeerAssumption DEF requester, wire, handlers, unmounts, ownVars, table, history, Base, WireTypes, SentOnce
<1>1. ASSUME NEW c \in Calls, Acquire(c), UNCHANGED ownVars
      PROVE  (WireTypes /\ SentOnce)'
  <2>1. Frame("request", c) \in Frames \ Way
    BY <1>1, FrameFacts DEF Acquire, HandledOnce, Arriving, Asked
  <2> QED BY <1>1, <2>1, WaySend DEF Acquire
<1>2. ASSUME NEW c \in Calls, SlotCancelled(c), UNCHANGED ownVars
      PROVE  (WireTypes /\ SentOnce)'
  BY <1>2 DEF SlotCancelled
<1>3. ASSUME NEW c \in Calls, TakeAnswer(c), UNCHANGED ownVars
      PROVE  (WireTypes /\ SentOnce)'
  BY <1>3 DEF TakeAnswer
<1>4. ASSUME NEW c \in Calls, GiveUp(c), UNCHANGED ownVars
      PROVE  (WireTypes /\ SentOnce)'
  <2>1. Frame("cancel", c) \in Frames \ Way
    BY <1>4, FrameFacts DEF GiveUp, HandledOnce, Arriving
  <2> QED BY <1>4, <2>1, WaySend DEF GiveUp, CancelFrame
<1>5. ASSUME NEW c \in Calls, CallClosed(c), UNCHANGED ownVars
      PROVE  (WireTypes /\ SentOnce)'
  BY <1>5 DEF CallClosed, Woken
<1>6. ASSUME NEW c \in Calls, StartRequest(c), UNCHANGED ownVars
      PROVE  (WireTypes /\ SentOnce)'
  BY <1>6 DEF StartRequest
<1>7. ASSUME NEW c \in Calls, KeepMount(c), UNCHANGED ownVars
      PROVE  (WireTypes /\ SentOnce)'
  BY <1>7 DEF KeepMount, Wanted
<1>8. ASSUME NEW c \in Calls, UnmountReturned(c), UNCHANGED ownVars
      PROVE  (WireTypes /\ SentOnce)'
  BY <1>8 DEF UnmountReturned, Unlisted
<1>9. ASSUME NEW c \in Calls, Respond(c), UNCHANGED ownVars
      PROVE  (WireTypes /\ SentOnce)'
  <2>1. Frame(code[c], c) \in Answers BY <1>9, FrameFacts DEF Respond, HandlerTypes
  <2> QED BY <1>9, <2>1, BackSend DEF Respond
<1>10. ASSUME NEW c \in Calls, EndRequest(c), UNCHANGED ownVars
      PROVE  (WireTypes /\ SentOnce)'
  BY <1>10 DEF EndRequest, Freed
<1>11. ASSUME DeliverResponse, UNCHANGED ownVars PROVE (WireTypes /\ SentOnce)'
  BY <1>11, BackTake DEF DeliverResponse
<1>12. ASSUME ReadFrame, UNCHANGED ownVars PROVE (WireTypes /\ SentOnce)'
  BY <1>12, WayRead DEF ReadFrame
<1>13. ASSUME AcceptRequest, UNCHANGED ownVars PROVE (WireTypes /\ SentOnce)'
  BY <1>13 DEF AcceptRequest
<1>14. ASSUME RejectRequest, UNCHANGED ownVars PROVE (WireTypes /\ SentOnce)'
  <2>1. Frame("busy", hand.call) \in Answers BY <1>14, FrameFacts DEF RejectRequest
  <2> QED BY <1>14, <2>1, BackSend DEF RejectRequest
<1>15. ASSUME AcceptCancel, UNCHANGED ownVars PROVE (WireTypes /\ SentOnce)'
  BY <1>15 DEF AcceptCancel
<1>16. ASSUME SealMounts, UNCHANGED ownVars PROVE (WireTypes /\ SentOnce)'
  BY <1>16 DEF SealMounts
<1>17. ASSUME CloseDone, UNCHANGED ownVars PROVE (WireTypes /\ SentOnce)'
  BY <1>17 DEF CloseDone
<1>18. ASSUME NEW m \in closing, CloseUnmount(m), UNCHANGED ownVars
      PROVE  (WireTypes /\ SentOnce)'
  BY <1>18 DEF CloseUnmount
<1>19. ASSUME CloseEnds, UNCHANGED ownVars PROVE (WireTypes /\ SentOnce)'
  BY <1>19 DEF CloseEnds
<1>20. ASSUME RequesterCloses, UNCHANGED ownVars PROVE (WireTypes /\ SentOnce)'
  BY <1>20 DEF RequesterCloses
<1>21. ASSUME HandlerCloses, UNCHANGED ownVars PROVE (WireTypes /\ SentOnce)'
  BY <1>21 DEF HandlerCloses, BeginClose
<1>22. ASSUME NEW c \in Calls, Request(c) PROVE (WireTypes /\ SentOnce)'
  BY <1>22 DEF Request, Ask
<1>23. ASSUME NEW c \in Calls, MountBegins(c) PROVE (WireTypes /\ SentOnce)'
  BY <1>23 DEF MountBegins, Ended
<1>24. ASSUME NEW c \in Calls, Mount(c) PROVE (WireTypes /\ SentOnce)'
  BY <1>24 DEF Mount, Ended
<1>25. ASSUME NEW c \in Calls, MountReady(c) PROVE (WireTypes /\ SentOnce)'
  BY <1>25 DEF MountReady, StillWanted
<1>26. ASSUME NEW c \in Calls, DiscardMount(c) PROVE (WireTypes /\ SentOnce)'
  BY <1>26 DEF DiscardMount, Ended, Detach
<1>27. ASSUME NEW c \in Calls, LifetimeEnds(c) PROVE (WireTypes /\ SentOnce)'
  BY <1>27 DEF LifetimeEnds, peerVars
<1>28. ASSUME NEW u \in Unmounters, UnmountLook(u) PROVE (WireTypes /\ SentOnce)'
  BY <1>28 DEF UnmountLook, AfterOther
<1>29. ASSUME NEW u \in Unmounters, UnmountWait(u) PROVE (WireTypes /\ SentOnce)'
  BY <1>29 DEF UnmountWait, Cancelled
<1>30. ASSUME NEW u \in Unmounters, Unmount(u) PROVE (WireTypes /\ SentOnce)'
  BY <1>30 DEF Unmount, Cancelled, Detach
<1>31. ASSUME NEW u \in Unmounters, UnmountFinish(u) PROVE (WireTypes /\ SentOnce)'
  BY <1>31 DEF UnmountFinish, AfterUnmount
<1>32. CASE UNCHANGED vars
  BY <1>32 DEF vars, peerVars
<1>33. ASSUME NEW c \in Calls, Setup(c) PROVE (WireTypes /\ SentOnce)'
  BY <1>33 DEF Setup, Ended
<1>34. ASSUME NEW u \in Unmounters, UnmountRemoves(u) PROVE (WireTypes /\ SentOnce)'
  BY <1>34 DEF UnmountRemoves
<1> QED
    BY <1>1, <1>2, <1>3, <1>4, <1>5, <1>6, <1>7, <1>8, <1>9, <1>10, <1>11, <1>12, <1>13, <1>14,
       <1>15, <1>16, <1>17, <1>18, <1>19, <1>20, <1>21, <1>22, <1>23, <1>24, <1>25, <1>26, <1>27,
       <1>28, <1>29, <1>30, <1>31, <1>32, <1>33, <1>34
  DEF Next, PeerStep, Owner, Unmounting, PeerNext, Caller, Handler, ReadLoop, Closer

LEMMA HandlerStep ==
  ASSUME Base, [Next]_vars
  PROVE  HandlerTypes'
<1> USE PeerAssumption DEF requester, wire, handlers, unmounts, ownVars, table, history, Base, HandlerTypes, WireTypes, Frames
<1>1. ASSUME NEW c \in Calls, Acquire(c), UNCHANGED ownVars PROVE HandlerTypes'
  BY <1>1 DEF Acquire
<1>2. ASSUME NEW c \in Calls, SlotCancelled(c), UNCHANGED ownVars
      PROVE  HandlerTypes'
  BY <1>2 DEF SlotCancelled
<1>3. ASSUME NEW c \in Calls, TakeAnswer(c), UNCHANGED ownVars PROVE HandlerTypes'
  BY <1>3 DEF TakeAnswer
<1>4. ASSUME NEW c \in Calls, GiveUp(c), UNCHANGED ownVars PROVE HandlerTypes'
  BY <1>4 DEF GiveUp, CancelFrame
<1>5. ASSUME NEW c \in Calls, CallClosed(c), UNCHANGED ownVars PROVE HandlerTypes'
  BY <1>5 DEF CallClosed, Woken
<1>6. ASSUME NEW c \in Calls, StartRequest(c), UNCHANGED ownVars PROVE HandlerTypes'
  <2>1. CASE c \in Creates /\ hpc' = [hpc EXCEPT ![c] = "onmount"] /\ UNCHANGED code BY <2>1
  <2>2. CASE c \in Releases /\ hpc' = [hpc EXCEPT ![c] = "releasing"] /\ UNCHANGED code BY <2>2
  <2>3. ASSUME NEW k \in {"ok", "error"}, hpc' = [hpc EXCEPT ![c] = "reply"], code' = [code EXCEPT ![c] = k]
        PROVE  HandlerTypes'
    BY <2>3
  <2> QED BY <1>6, <2>1, <2>2, <2>3 DEF StartRequest
<1>7. ASSUME NEW c \in Calls, KeepMount(c), UNCHANGED ownVars PROVE HandlerTypes'
  BY <1>7 DEF KeepMount, Wanted
<1>8. ASSUME NEW c \in Calls, UnmountReturned(c), UNCHANGED ownVars
      PROVE  HandlerTypes'
  BY <1>8 DEF UnmountReturned, Unlisted
<1>9. ASSUME NEW c \in Calls, Respond(c), UNCHANGED ownVars PROVE HandlerTypes'
  BY <1>9 DEF Respond, BeginClose
<1>10. ASSUME NEW c \in Calls, EndRequest(c), UNCHANGED ownVars PROVE HandlerTypes'
  BY <1>10 DEF EndRequest, Freed
<1>11. ASSUME DeliverResponse, UNCHANGED ownVars PROVE HandlerTypes'
  BY <1>11 DEF DeliverResponse
<1>12. ASSUME ReadFrame, UNCHANGED ownVars PROVE HandlerTypes'
  BY <1>12 DEF ReadFrame
<1>13. ASSUME AcceptRequest, UNCHANGED ownVars PROVE HandlerTypes'
  BY <1>13 DEF AcceptRequest
<1>14. ASSUME RejectRequest, UNCHANGED ownVars PROVE HandlerTypes'
  BY <1>14 DEF RejectRequest
<1>15. ASSUME AcceptCancel, UNCHANGED ownVars PROVE HandlerTypes'
  BY <1>15 DEF AcceptCancel
<1>16. ASSUME SealMounts, UNCHANGED ownVars PROVE HandlerTypes'
  BY <1>16 DEF SealMounts
<1>17. ASSUME CloseDone, UNCHANGED ownVars PROVE HandlerTypes'
  BY <1>17 DEF CloseDone
<1>18. ASSUME NEW m \in closing, CloseUnmount(m), UNCHANGED ownVars
      PROVE  HandlerTypes'
  BY <1>18 DEF CloseUnmount
<1>19. ASSUME CloseEnds, UNCHANGED ownVars PROVE HandlerTypes'
  BY <1>19 DEF CloseEnds
<1>20. ASSUME RequesterCloses, UNCHANGED ownVars PROVE HandlerTypes'
  BY <1>20 DEF RequesterCloses
<1>21. ASSUME HandlerCloses, UNCHANGED ownVars PROVE HandlerTypes'
  BY <1>21 DEF HandlerCloses, BeginClose
<1>22. ASSUME NEW c \in Calls, Request(c) PROVE HandlerTypes'
  BY <1>22 DEF Request, Ask
<1>23. ASSUME NEW c \in Calls, MountBegins(c) PROVE HandlerTypes'
  BY <1>23 DEF MountBegins, Ended
<1>24. ASSUME NEW c \in Calls, Mount(c) PROVE HandlerTypes'
  BY <1>24 DEF Mount, Ended
<1>25. ASSUME NEW c \in Calls, MountReady(c) PROVE HandlerTypes'
  BY <1>25 DEF MountReady, StillWanted
<1>26. ASSUME NEW c \in Calls, DiscardMount(c) PROVE HandlerTypes'
  BY <1>26 DEF DiscardMount, Ended, Detach
<1>27. ASSUME NEW c \in Calls, LifetimeEnds(c) PROVE HandlerTypes'
  BY <1>27 DEF LifetimeEnds, peerVars
<1>28. ASSUME NEW u \in Unmounters, UnmountLook(u) PROVE HandlerTypes'
  BY <1>28 DEF UnmountLook, AfterOther
<1>29. ASSUME NEW u \in Unmounters, UnmountWait(u) PROVE HandlerTypes'
  BY <1>29 DEF UnmountWait, Cancelled
<1>30. ASSUME NEW u \in Unmounters, Unmount(u) PROVE HandlerTypes'
  BY <1>30 DEF Unmount, Cancelled, Detach
<1>31. ASSUME NEW u \in Unmounters, UnmountFinish(u) PROVE HandlerTypes'
  BY <1>31 DEF UnmountFinish, AfterUnmount
<1>32. CASE UNCHANGED vars
  BY <1>32 DEF vars, peerVars
<1>33. ASSUME NEW c \in Calls, Setup(c) PROVE HandlerTypes'
  BY <1>33 DEF Setup, Ended
<1>34. ASSUME NEW u \in Unmounters, UnmountRemoves(u) PROVE HandlerTypes'
  BY <1>34 DEF UnmountRemoves
<1> QED
    BY <1>1, <1>2, <1>3, <1>4, <1>5, <1>6, <1>7, <1>8, <1>9, <1>10, <1>11, <1>12, <1>13, <1>14,
       <1>15, <1>16, <1>17, <1>18, <1>19, <1>20, <1>21, <1>22, <1>23, <1>24, <1>25, <1>26, <1>27,
       <1>28, <1>29, <1>30, <1>31, <1>32, <1>33, <1>34
  DEF Next, PeerStep, Owner, Unmounting, PeerNext, Caller, Handler, ReadLoop, Closer

LEMMA SlotStep ==
  ASSUME Base, HandledOnce, [Next]_vars
  PROVE  SlotTypes'
<1> USE PeerAssumption DEF requester, wire, handlers, unmounts, ownVars, table, history, Base, HandlerTypes,
     SlotTypes, WireTypes, Frames
<1>1. ASSUME NEW c \in Calls, Acquire(c), UNCHANGED ownVars PROVE SlotTypes'
  BY <1>1 DEF Acquire
<1>2. ASSUME NEW c \in Calls, SlotCancelled(c), UNCHANGED ownVars PROVE SlotTypes'
  BY <1>2 DEF SlotCancelled
<1>3. ASSUME NEW c \in Calls, TakeAnswer(c), UNCHANGED ownVars PROVE SlotTypes'
  BY <1>3 DEF TakeAnswer
<1>4. ASSUME NEW c \in Calls, GiveUp(c), UNCHANGED ownVars PROVE SlotTypes'
  BY <1>4 DEF GiveUp, CancelFrame
<1>5. ASSUME NEW c \in Calls, CallClosed(c), UNCHANGED ownVars PROVE SlotTypes'
  BY <1>5 DEF CallClosed, Woken
<1>6. ASSUME NEW c \in Calls, StartRequest(c), UNCHANGED ownVars PROVE SlotTypes'
  BY <1>6 DEF StartRequest
<1>7. ASSUME NEW c \in Calls, KeepMount(c), UNCHANGED ownVars PROVE SlotTypes'
  BY <1>7 DEF KeepMount, Wanted
<1>8. ASSUME NEW c \in Calls, UnmountReturned(c), UNCHANGED ownVars PROVE SlotTypes'
  BY <1>8 DEF UnmountReturned, Unlisted
<1>9. ASSUME NEW c \in Calls, Respond(c), UNCHANGED ownVars PROVE SlotTypes'
  BY <1>9 DEF Respond, BeginClose
<1>10. ASSUME NEW c \in Calls, EndRequest(c), UNCHANGED ownVars PROVE SlotTypes'
  <2>1. IsFiniteSet(sem') /\ Cardinality(sem') <= Cardinality(sem)
    BY <1>10, FS_Subset DEF EndRequest, Freed
  <2>2. Cardinality(sem) \in Nat /\ Cardinality(sem') \in Nat BY <2>1, FS_CardinalityType
  <2> QED BY <1>10, <2>1, <2>2 DEF EndRequest, Freed
<1>11. ASSUME DeliverResponse, UNCHANGED ownVars PROVE SlotTypes'
  BY <1>11 DEF DeliverResponse
<1>12. ASSUME ReadFrame, UNCHANGED ownVars PROVE SlotTypes'
  BY <1>12 DEF ReadFrame
<1>13. ASSUME AcceptRequest, UNCHANGED ownVars PROVE SlotTypes'
  <2>1. hand.call \in Calls \ sem BY <1>13 DEF AcceptRequest, HandledOnce, Arriving, Way, New
  <2>2. /\ IsFiniteSet(sem \cup {hand.call})
        /\ Cardinality(sem \cup {hand.call}) = Cardinality(sem) + 1
    <3>1. IsFiniteSet(sem) /\ hand.call \notin sem BY <2>1
    <3> HIDE DEF Base, HandlerTypes, SlotTypes, WireTypes, Frames
    <3> QED BY <3>1, FS_AddElement
  <2>3. Cardinality(sem) \in Nat BY FS_CardinalityType
  <2> QED BY <1>13, <2>1, <2>2, <2>3 DEF AcceptRequest
<1>14. ASSUME RejectRequest, UNCHANGED ownVars PROVE SlotTypes'
  BY <1>14 DEF RejectRequest
<1>15. ASSUME AcceptCancel, UNCHANGED ownVars PROVE SlotTypes'
  BY <1>15 DEF AcceptCancel
<1>16. ASSUME SealMounts, UNCHANGED ownVars PROVE SlotTypes'
  BY <1>16 DEF SealMounts
<1>17. ASSUME CloseDone, UNCHANGED ownVars PROVE SlotTypes'
  BY <1>17 DEF CloseDone
<1>18. ASSUME NEW m \in closing, CloseUnmount(m), UNCHANGED ownVars PROVE SlotTypes'
  BY <1>18 DEF CloseUnmount
<1>19. ASSUME CloseEnds, UNCHANGED ownVars PROVE SlotTypes'
  BY <1>19 DEF CloseEnds
<1>20. ASSUME RequesterCloses, UNCHANGED ownVars PROVE SlotTypes'
  BY <1>20 DEF RequesterCloses
<1>21. ASSUME HandlerCloses, UNCHANGED ownVars PROVE SlotTypes'
  BY <1>21 DEF HandlerCloses, BeginClose
<1>22. ASSUME NEW c \in Calls, Request(c) PROVE SlotTypes'
  BY <1>22 DEF Request, Ask
<1>23. ASSUME NEW c \in Calls, MountBegins(c) PROVE SlotTypes'
  BY <1>23 DEF MountBegins, Ended
<1>24. ASSUME NEW c \in Calls, Mount(c) PROVE SlotTypes'
  BY <1>24 DEF Mount, Ended
<1>25. ASSUME NEW c \in Calls, MountReady(c) PROVE SlotTypes'
  BY <1>25 DEF MountReady, StillWanted
<1>26. ASSUME NEW c \in Calls, DiscardMount(c) PROVE SlotTypes'
  BY <1>26 DEF DiscardMount, Ended, Detach
<1>27. ASSUME NEW c \in Calls, LifetimeEnds(c) PROVE SlotTypes'
  BY <1>27 DEF LifetimeEnds, peerVars
<1>28. ASSUME NEW u \in Unmounters, UnmountLook(u) PROVE SlotTypes'
  BY <1>28 DEF UnmountLook, AfterOther
<1>29. ASSUME NEW u \in Unmounters, UnmountWait(u) PROVE SlotTypes'
  BY <1>29 DEF UnmountWait, Cancelled
<1>30. ASSUME NEW u \in Unmounters, Unmount(u) PROVE SlotTypes'
  BY <1>30 DEF Unmount, Cancelled, Detach
<1>31. ASSUME NEW u \in Unmounters, UnmountFinish(u) PROVE SlotTypes'
  BY <1>31 DEF UnmountFinish, AfterUnmount
<1>32. CASE UNCHANGED vars
  BY <1>32 DEF vars, peerVars
<1>33. ASSUME NEW c \in Calls, Setup(c) PROVE SlotTypes'
  BY <1>33 DEF Setup, Ended
<1>34. ASSUME NEW u \in Unmounters, UnmountRemoves(u) PROVE SlotTypes'
  BY <1>34 DEF UnmountRemoves
<1> QED
    BY <1>1, <1>2, <1>3, <1>4, <1>5, <1>6, <1>7, <1>8, <1>9, <1>10, <1>11, <1>12, <1>13, <1>14,
       <1>15, <1>16, <1>17, <1>18, <1>19, <1>20, <1>21, <1>22, <1>23, <1>24, <1>25, <1>26, <1>27,
       <1>28, <1>29, <1>30, <1>31, <1>32, <1>33, <1>34
  DEF Next, PeerStep, Owner, Unmounting, PeerNext, Caller, Handler, ReadLoop, Closer

LEMMA CloseStep ==
  ASSUME Base, [Next]_vars
  PROVE  CloseTypes'
<1> USE PeerAssumption DEF requester, wire, handlers, unmounts, ownVars, table, history, Base, CloseTypes,
     HandlerTypes, WireTypes, Frames, Unmounters
<1>1. ASSUME NEW c \in Calls, Acquire(c), UNCHANGED ownVars PROVE CloseTypes'
  BY <1>1 DEF Acquire
<1>2. ASSUME NEW c \in Calls, SlotCancelled(c), UNCHANGED ownVars PROVE CloseTypes'
  BY <1>2 DEF SlotCancelled
<1>3. ASSUME NEW c \in Calls, TakeAnswer(c), UNCHANGED ownVars PROVE CloseTypes'
  BY <1>3 DEF TakeAnswer
<1>4. ASSUME NEW c \in Calls, GiveUp(c), UNCHANGED ownVars PROVE CloseTypes'
  BY <1>4 DEF GiveUp, CancelFrame
<1>5. ASSUME NEW c \in Calls, CallClosed(c), UNCHANGED ownVars PROVE CloseTypes'
  BY <1>5 DEF CallClosed, Woken
<1>6. ASSUME NEW c \in Calls, StartRequest(c), UNCHANGED ownVars PROVE CloseTypes'
  BY <1>6 DEF StartRequest
<1>7. ASSUME NEW c \in Calls, KeepMount(c), UNCHANGED ownVars PROVE CloseTypes'
  <2>1. c \in Creates /\ MountOf[c] \in MountIds BY <1>7 DEF KeepMount
  <2>2. upc' = [upc EXCEPT ![<<"handler", c>>] = "look"] \/ upc' = upc BY <1>7 DEF KeepMount
  <2>3. mounts' \subseteq MountIds BY <1>7, <2>1 DEF KeepMount
  <2>4. stage' = stage /\ closing' = closing /\ uerr' = uerr BY <1>7 DEF KeepMount
  <2> QED BY <2>1, <2>2, <2>3, <2>4
<1>8. ASSUME NEW c \in Calls, UnmountReturned(c), UNCHANGED ownVars
      PROVE  CloseTypes'
  BY <1>8 DEF UnmountReturned, Unlisted
<1>9. ASSUME NEW c \in Calls, Respond(c), UNCHANGED ownVars PROVE CloseTypes'
  BY <1>9 DEF Respond, BeginClose
<1>10. ASSUME NEW c \in Calls, EndRequest(c), UNCHANGED ownVars PROVE CloseTypes'
  BY <1>10 DEF EndRequest, Freed
<1>11. ASSUME DeliverResponse, UNCHANGED ownVars PROVE CloseTypes'
  BY <1>11 DEF DeliverResponse
<1>12. ASSUME ReadFrame, UNCHANGED ownVars PROVE CloseTypes'
  BY <1>12 DEF ReadFrame
<1>13. ASSUME AcceptRequest, UNCHANGED ownVars PROVE CloseTypes'
  BY <1>13 DEF AcceptRequest
<1>14. ASSUME RejectRequest, UNCHANGED ownVars PROVE CloseTypes'
  BY <1>14 DEF RejectRequest
<1>15. ASSUME AcceptCancel, UNCHANGED ownVars PROVE CloseTypes'
  BY ZenonT(40), <1>15 DEF AcceptCancel
<1>16. ASSUME SealMounts, UNCHANGED ownVars PROVE CloseTypes'
  BY <1>16 DEF SealMounts
<1>17. ASSUME CloseDone, UNCHANGED ownVars PROVE CloseTypes'
  BY <1>17 DEF CloseDone
<1>18. ASSUME NEW m \in closing, CloseUnmount(m), UNCHANGED ownVars
      PROVE  CloseTypes'
  BY <1>18 DEF CloseUnmount
<1>19. ASSUME CloseEnds, UNCHANGED ownVars PROVE CloseTypes'
  BY <1>19 DEF CloseEnds
<1>20. ASSUME RequesterCloses, UNCHANGED ownVars PROVE CloseTypes'
  BY <1>20 DEF RequesterCloses
<1>21. ASSUME HandlerCloses, UNCHANGED ownVars PROVE CloseTypes'
  BY <1>21 DEF HandlerCloses, BeginClose
<1>22. ASSUME NEW c \in Calls, Request(c) PROVE CloseTypes'
  BY <1>22 DEF Request, Ask
<1>23. ASSUME NEW c \in Calls, MountBegins(c) PROVE CloseTypes'
  BY <1>23 DEF MountBegins, Ended
<1>24. ASSUME NEW c \in Calls, Mount(c) PROVE CloseTypes'
  BY <1>24 DEF Mount, Ended
<1>25. ASSUME NEW c \in Calls, MountReady(c) PROVE CloseTypes'
  BY <1>25 DEF MountReady, StillWanted
<1>26. ASSUME NEW c \in Calls, DiscardMount(c) PROVE CloseTypes'
  BY <1>26 DEF DiscardMount, Ended, Detach
<1>27. ASSUME NEW c \in Calls, LifetimeEnds(c) PROVE CloseTypes'
  BY <1>27 DEF LifetimeEnds, peerVars
<1>28. ASSUME NEW u \in Unmounters, UnmountLook(u) PROVE CloseTypes'
  <2>1. \E s \in {"done", "wait", "unmount"} : upc' = [upc EXCEPT ![u] = s]
    BY <1>28 DEF UnmountLook, AfterOther
  <2>2. uerr' \subseteq Unmounters BY <1>28 DEF UnmountLook
  <2>3. UNCHANGED <<mounts, closing, stage>> BY <1>28 DEF UnmountLook
  <2> QED BY <2>1, <2>2, <2>3
<1>29. ASSUME NEW u \in Unmounters, UnmountWait(u) PROVE CloseTypes'
  BY <1>29 DEF UnmountWait, Cancelled
<1>30. ASSUME NEW u \in Unmounters, Unmount(u) PROVE CloseTypes'
  BY <1>30 DEF Unmount, Cancelled, Detach
<1>31. ASSUME NEW u \in Unmounters, UnmountFinish(u) PROVE CloseTypes'
  BY <1>31 DEF UnmountFinish, AfterUnmount
<1>32. CASE UNCHANGED vars
  BY <1>32 DEF vars, peerVars
<1>33. ASSUME NEW c \in Calls, Setup(c) PROVE CloseTypes'
  BY <1>33 DEF Setup, Ended
<1>34. ASSUME NEW u \in Unmounters, UnmountRemoves(u) PROVE CloseTypes'
  BY <1>34 DEF UnmountRemoves
<1> QED
    BY <1>1, <1>2, <1>3, <1>4, <1>5, <1>6, <1>7, <1>8, <1>9, <1>10, <1>11, <1>12, <1>13, <1>14,
       <1>15, <1>16, <1>17, <1>18, <1>19, <1>20, <1>21, <1>22, <1>23, <1>24, <1>25, <1>26, <1>27,
       <1>28, <1>29, <1>30, <1>31, <1>32, <1>33, <1>34
  DEF Next, PeerStep, Owner, Unmounting, PeerNext, Caller, Handler, ReadLoop, Closer

LEMMA TableStep ==
  ASSUME Base, [Next]_vars
  PROVE  TableTypes'
<1> USE PeerAssumption DEF requester, wire, handlers, unmounts, ownVars, table, history, Base, TableTypes, HandlerTypes
<1>1. ASSUME NEW c \in Calls, Acquire(c), UNCHANGED ownVars PROVE TableTypes'
  BY <1>1 DEF Acquire
<1>2. ASSUME NEW c \in Calls, SlotCancelled(c), UNCHANGED ownVars PROVE TableTypes'
  BY <1>2 DEF SlotCancelled
<1>3. ASSUME NEW c \in Calls, TakeAnswer(c), UNCHANGED ownVars PROVE TableTypes'
  BY <1>3 DEF TakeAnswer
<1>4. ASSUME NEW c \in Calls, GiveUp(c), UNCHANGED ownVars PROVE TableTypes'
  BY <1>4 DEF GiveUp, CancelFrame
<1>5. ASSUME NEW c \in Calls, CallClosed(c), UNCHANGED ownVars PROVE TableTypes'
  BY <1>5 DEF CallClosed, Woken
<1>6. ASSUME NEW c \in Calls, StartRequest(c), UNCHANGED ownVars PROVE TableTypes'
  BY <1>6 DEF StartRequest
<1>7. ASSUME NEW c \in Calls, KeepMount(c), UNCHANGED ownVars PROVE TableTypes'
  BY <1>7 DEF KeepMount, Wanted
<1>8. ASSUME NEW c \in Calls, UnmountReturned(c), UNCHANGED ownVars
      PROVE  TableTypes'
  BY <1>8 DEF UnmountReturned, Unlisted
<1>9. ASSUME NEW c \in Calls, Respond(c), UNCHANGED ownVars PROVE TableTypes'
  BY <1>9 DEF Respond, BeginClose
<1>10. ASSUME NEW c \in Calls, EndRequest(c), UNCHANGED ownVars PROVE TableTypes'
  BY <1>10 DEF EndRequest, Freed
<1>11. ASSUME DeliverResponse, UNCHANGED ownVars PROVE TableTypes'
  BY <1>11 DEF DeliverResponse
<1>12. ASSUME ReadFrame, UNCHANGED ownVars PROVE TableTypes'
  BY <1>12 DEF ReadFrame
<1>13. ASSUME AcceptRequest, UNCHANGED ownVars PROVE TableTypes'
  BY <1>13 DEF AcceptRequest
<1>14. ASSUME RejectRequest, UNCHANGED ownVars PROVE TableTypes'
  BY <1>14 DEF RejectRequest
<1>15. ASSUME AcceptCancel, UNCHANGED ownVars PROVE TableTypes'
  BY <1>15 DEF AcceptCancel
<1>16. ASSUME SealMounts, UNCHANGED ownVars PROVE TableTypes'
  BY <1>16 DEF SealMounts
<1>17. ASSUME CloseDone, UNCHANGED ownVars PROVE TableTypes'
  BY <1>17 DEF CloseDone
<1>18. ASSUME NEW m \in closing, CloseUnmount(m), UNCHANGED ownVars
      PROVE  TableTypes'
  BY <1>18 DEF CloseUnmount
<1>19. ASSUME CloseEnds, UNCHANGED ownVars PROVE TableTypes'
  BY <1>19 DEF CloseEnds
<1>20. ASSUME RequesterCloses, UNCHANGED ownVars PROVE TableTypes'
  BY <1>20 DEF RequesterCloses
<1>21. ASSUME HandlerCloses, UNCHANGED ownVars PROVE TableTypes'
  BY <1>21 DEF HandlerCloses, BeginClose
<1>22. ASSUME NEW c \in Calls, Request(c) PROVE TableTypes'
  BY <1>22 DEF Request, Ask
<1>23. ASSUME NEW c \in Calls, MountBegins(c) PROVE TableTypes'
  BY <1>23 DEF MountBegins, Ended
<1>24. ASSUME NEW c \in Calls, Mount(c) PROVE TableTypes'
  BY ZenonT(40), <1>24 DEF Mount, Ended
<1>25. ASSUME NEW c \in Calls, MountReady(c) PROVE TableTypes'
  BY <1>25 DEF MountReady, StillWanted
<1>26. ASSUME NEW c \in Calls, DiscardMount(c) PROVE TableTypes'
  BY <1>26 DEF DiscardMount, Ended, Detach
<1>27. ASSUME NEW c \in Calls, LifetimeEnds(c) PROVE TableTypes'
  BY <1>27 DEF LifetimeEnds, peerVars
<1>28. ASSUME NEW u \in Unmounters, UnmountLook(u) PROVE TableTypes'
  BY <1>28 DEF UnmountLook, AfterOther
<1>29. ASSUME NEW u \in Unmounters, UnmountWait(u) PROVE TableTypes'
  BY <1>29 DEF UnmountWait, Cancelled
<1>30. ASSUME NEW u \in Unmounters, Unmount(u) PROVE TableTypes'
  BY <1>30 DEF Unmount, Cancelled, Detach
<1>31. ASSUME NEW u \in Unmounters, UnmountFinish(u) PROVE TableTypes'
  BY <1>31 DEF UnmountFinish, AfterUnmount
<1>32. CASE UNCHANGED vars
  BY <1>32 DEF vars, peerVars
<1>33. ASSUME NEW c \in Calls, Setup(c) PROVE TableTypes'
  <2>1. c \in Creates BY <1>33 DEF Setup
  <2> QED BY <1>33, <2>1 DEF Setup, Ended
<1>34. ASSUME NEW u \in Unmounters, UnmountRemoves(u) PROVE TableTypes'
  BY <1>34 DEF UnmountRemoves
<1> QED
    BY <1>1, <1>2, <1>3, <1>4, <1>5, <1>6, <1>7, <1>8, <1>9, <1>10, <1>11, <1>12, <1>13, <1>14,
       <1>15, <1>16, <1>17, <1>18, <1>19, <1>20, <1>21, <1>22, <1>23, <1>24, <1>25, <1>26, <1>27,
       <1>28, <1>29, <1>30, <1>31, <1>32, <1>33, <1>34
  DEF Next, PeerStep, Owner, Unmounting, PeerNext, Caller, Handler, ReadLoop, Closer

LEMMA HandledStep ==
  ASSUME Base, SentOnce, HandledOnce, [Next]_vars
  PROVE  HandledOnce'
<1>0. Way \subseteq Frames BY WayTypes DEF Base
<1> USE PeerAssumption DEF requester, wire, handlers, unmounts, ownVars, table, history, Base, CallerTypes,
     HandlerTypes, CloseTypes, HandledOnce, Arriving, Asked, New, ByHandler, ByCancel, ByClose,
     Unmounters
<1>1. ASSUME NEW c \in Calls, Acquire(c), UNCHANGED ownVars PROVE HandledOnce'
  <2>0. /\ Frame("request", c) \in Frames
        /\ Frame("request", c).kind = "request" /\ Frame("request", c).call = c
    BY FrameFacts
  <2>1. Frame("request", c) \notin Way
    <3>1. ~Asked(c) BY <1>1 DEF Acquire
    <3>2. Arriving OBVIOUS
    <3> HIDE DEF HandledOnce, New, Asked, Arriving
    <3>3. Frame("request", c) \in Way => Asked(Frame("request", c).call) BY <2>0, <3>2 DEF Arriving
    <3> QED BY <2>0, <3>1, <3>3
  <2>2. Way' \subseteq Way \cup {Frame("request", c)}
    BY <1>1, <2>0, <2>1, WaySend, WayFrame DEF Acquire
  <2>3. /\ \/ call' = [call EXCEPT ![c] = "wait"]
           \/ call' = [call EXCEPT ![c] = "closed"] /\ Way' = Way
        /\ UNCHANGED <<hpc, upc, stage, closing, uerr>> /\ call[c] = "slot"
    BY <1>1, WayFrame DEF Acquire
  <2>4. /\ \A d \in Calls \ {c} : call'[d] = call[d]
        /\ call'[c] \notin {"idle", "slot", "gaveup"}
    BY <2>3
  <2>5. New(c) BY <2>3
  <2>6. \A d \in Calls : New(d) => New(d)' BY <2>3
  <2>7. Arriving'
    <3> SUFFICES ASSUME NEW f \in Way'
                 PROVE  /\ f.kind = "request" => Asked(f.call)' /\ New(f.call)'
                        /\ f.kind = "cancel" =>
                                                          call'[f.call] = "gaveup" /\ (f.call \in
                                  Creates => upc'[ByCancel(f.call)] = "none")
      BY DEF Arriving
    <3>1. CASE f = Frame("request", c) BY <2>0, <2>4, <2>5, <2>6, <3>1
    <3>2. CASE f \in Way
      <4>1. f.call \in Calls BY <1>0, <3>2, FrameFacts
      <4>2. CASE f.call = c BY <2>3, <2>4, <2>5, <2>6, <3>2, <4>2
      <4>3. CASE f.call # c BY <2>3, <2>4, <2>6, <3>2, <4>1, <4>3
      <4> QED BY <4>2, <4>3
    <3> QED BY <2>2, <3>1, <3>2
  <2> HIDE DEF Arriving
  <2> QED BY <2>3, <2>4, <2>7
<1>2. ASSUME NEW c \in Calls, SlotCancelled(c), UNCHANGED ownVars PROVE HandledOnce'
  BY <1>2, WayFrame DEF SlotCancelled
<1>3. ASSUME NEW c \in Calls, TakeAnswer(c), UNCHANGED ownVars PROVE HandledOnce'
  BY <1>3, WayFrame DEF TakeAnswer
<1>4. ASSUME NEW c \in Calls, GiveUp(c), UNCHANGED ownVars PROVE HandledOnce'
  <2>0. /\ Frame("cancel", c) \in Frames
        /\ Frame("cancel", c).kind = "cancel" /\ Frame("cancel", c).call = c
    BY FrameFacts
  <2>1. Frame("cancel", c) \notin Way BY ZenonT(40), <1>4, <2>0 DEF GiveUp
  <2>2. Way' \subseteq Way \cup {Frame("cancel", c)}
    BY <1>4, <2>0, <2>1, WaySend DEF GiveUp, CancelFrame
  <2> QED BY <1>4, <1>0, <2>0, <2>2, FrameFacts DEF GiveUp
<1>5. ASSUME NEW c \in Calls, CallClosed(c), UNCHANGED ownVars PROVE HandledOnce'
  BY <1>5, WayFrame DEF CallClosed, Woken
<1>6. ASSUME NEW c \in Calls, StartRequest(c), UNCHANGED ownVars PROVE HandledOnce'
  BY SMTT(30), <1>6, WayFrame, <1>0, FrameFacts DEF StartRequest
<1>7. ASSUME NEW c \in Calls, KeepMount(c), UNCHANGED ownVars PROVE HandledOnce'
  BY <1>7, WayFrame, <1>0, FrameFacts DEF KeepMount, Wanted
<1>8. ASSUME NEW c \in Calls, UnmountReturned(c), UNCHANGED ownVars
      PROVE  HandledOnce'
  BY <1>8, WayFrame DEF UnmountReturned, Unlisted
<1>9. ASSUME NEW c \in Calls, Respond(c), UNCHANGED ownVars PROVE HandledOnce'
  BY <1>9, WayFrame DEF Respond, BeginClose
<1>10. ASSUME NEW c \in Calls, EndRequest(c), UNCHANGED ownVars PROVE HandledOnce'
  BY <1>10, WayFrame DEF EndRequest, Freed
<1>11. ASSUME DeliverResponse, UNCHANGED ownVars PROVE HandledOnce'
  BY <1>11, WayFrame DEF DeliverResponse
<1>12. ASSUME ReadFrame, UNCHANGED ownVars PROVE HandledOnce'
  BY <1>12, WayRead DEF ReadFrame
<1>13. ASSUME AcceptRequest, UNCHANGED ownVars PROVE HandledOnce'
  <2>1. hand \in Way /\ Way' = Way \ {hand} BY <1>13, WayTake DEF AcceptRequest
  <2>2. \A f \in Way' : f.kind = "request" => f.call # hand.call
    BY <1>13, <1>0, <2>1, FrameFacts DEF AcceptRequest
  <2>3. hand.call \in Calls /\ hand.kind = "request" BY <1>13, <1>0, <2>1, FrameFacts DEF AcceptRequest
  <2>4. Asked(hand.call) /\ New(hand.call) BY <2>1, <2>3
  <2>5. hpc' = [hpc EXCEPT ![hand.call] = "start"] /\ UNCHANGED <<call, upc, stage, closing, uerr>>
    BY <1>13 DEF AcceptRequest
  <2>6. \A d \in Calls \ {hand.call} : New(d)' <=> New(d)
    <3>1. \A d \in Calls \ {hand.call} : hpc'[d] = hpc[d] BY <2>5
    <3> QED BY <2>5, <3>1
  <2>7. Arriving'
    <3>1. \A f \in Way' : f \in Way /\ f.call \in Calls BY <1>0, <2>1, FrameFacts
    <3> HIDE DEF New
    <3> QED BY <2>2, <2>5, <2>6, <3>1
  <2> HIDE DEF Arriving
  <2> QED BY <2>3, <2>4, <2>5, <2>7
<1>14. ASSUME RejectRequest, UNCHANGED ownVars PROVE HandledOnce'
  BY <1>14, WayTake DEF RejectRequest
<1>15. ASSUME AcceptCancel, UNCHANGED ownVars PROVE HandledOnce'
  <2>1. hand \in Way /\ Way' = Way \ {hand} /\ hand.call \in Calls
    BY <1>15, <1>0, WayTake, FrameFacts DEF AcceptCancel
  <2>2. \A f \in Way' : f.kind = "cancel" => f.call # hand.call
    BY <1>15, <1>0, <2>1, FrameFacts DEF AcceptCancel
  <2>3. CASE hand.call \in Creates
    <3>1. upc' = [upc EXCEPT ![<<"cancel", hand.call>>] = "look"] BY <1>15, <2>3 DEF AcceptCancel
    <3>2. UNCHANGED <<hpc, call, stage, closing, uerr>> BY <1>15 DEF AcceptCancel
        <3>3. call[hand.call] = "gaveup" /\ upc[<<"cancel", hand.call>>] = "none" BY <1>15, <2>1,
         <2>3 DEF AcceptCancel
    <3>4. \A u \in Unmounters \ {<<"cancel", hand.call>>} : upc'[u] = upc[u] BY <3>1
    <3>5. \A d \in Calls : New(d)' <=> New(d) BY <3>2, <3>4
    <3>6. Arriving'
      <4>1. \A f \in Way' : f \in Way /\ f.call \in Calls BY <1>0, <2>1, FrameFacts
      <4>2. \A d \in Creates \ {hand.call} : upc'[ByCancel(d)] = upc[ByCancel(d)] BY <3>4
      <4> HIDE DEF New, ByCancel
      <4> QED BY <2>2, <3>2, <3>5, <4>1, <4>2
    <3> HIDE DEF Arriving
    <3> QED BY <2>1, <2>3, <3>1, <3>2, <3>3, <3>6
  <2>4. CASE hand.call \notin Creates BY <1>15, <2>1, <2>4 DEF AcceptCancel
  <2> QED BY <2>3, <2>4
<1>16. ASSUME SealMounts, UNCHANGED ownVars PROVE HandledOnce'
  BY <1>16, WayFrame DEF SealMounts
<1>17. ASSUME CloseDone, UNCHANGED ownVars PROVE HandledOnce'
  BY <1>17, WayFrame DEF CloseDone
<1>18. ASSUME NEW m \in closing, CloseUnmount(m), UNCHANGED ownVars
      PROVE  HandledOnce'
  BY <1>18, WayFrame DEF CloseUnmount
<1>19. ASSUME CloseEnds, UNCHANGED ownVars PROVE HandledOnce'
  BY <1>19, WayFrame DEF CloseEnds
<1>20. ASSUME RequesterCloses, UNCHANGED ownVars PROVE HandledOnce'
  BY <1>20, WayFrame DEF RequesterCloses
<1>21. ASSUME HandlerCloses, UNCHANGED ownVars PROVE HandledOnce'
  BY <1>21, WayFrame DEF HandlerCloses, BeginClose
<1>22. ASSUME NEW c \in Calls, Request(c) PROVE HandledOnce'
  BY <1>22, WayFrame DEF Request, Ask
<1>23. ASSUME NEW c \in Calls, MountBegins(c) PROVE HandledOnce'
  BY <1>23, WayFrame, <1>0, FrameFacts DEF MountBegins, Ended
<1>24. ASSUME NEW c \in Calls, Mount(c) PROVE HandledOnce'
  BY <1>24, WayFrame, <1>0, FrameFacts DEF Mount, Ended
<1>25. ASSUME NEW c \in Calls, MountReady(c) PROVE HandledOnce'
  BY <1>25, WayFrame DEF MountReady, StillWanted
<1>26. ASSUME NEW c \in Calls, DiscardMount(c) PROVE HandledOnce'
  BY <1>26, WayFrame DEF DiscardMount, Ended, Detach
<1>27. ASSUME NEW c \in Calls, LifetimeEnds(c) PROVE HandledOnce'
  BY <1>27, WayFrame DEF LifetimeEnds, peerVars
<1>28. ASSUME NEW u \in Unmounters, UnmountLook(u) PROVE HandledOnce'
  BY <1>28, WayFrame DEF UnmountLook, AfterOther
<1>29. ASSUME NEW u \in Unmounters, UnmountWait(u) PROVE HandledOnce'
  BY <1>29, WayFrame DEF UnmountWait, Cancelled
<1>30. ASSUME NEW u \in Unmounters, Unmount(u) PROVE HandledOnce'
  BY <1>30, WayFrame DEF Unmount, Cancelled, Detach
<1>31. ASSUME NEW u \in Unmounters, UnmountFinish(u) PROVE HandledOnce'
  BY <1>31, WayFrame DEF UnmountFinish, AfterUnmount
<1>32. CASE UNCHANGED vars
  BY <1>32, WayFrame DEF vars, peerVars
<1>33. ASSUME NEW c \in Calls, Setup(c) PROVE HandledOnce'
  BY <1>33, WayFrame, <1>0, FrameFacts DEF Setup, Ended
<1>34. ASSUME NEW u \in Unmounters, UnmountRemoves(u) PROVE HandledOnce'
  BY <1>34, WayFrame DEF UnmountRemoves
<1> QED
    BY ZenonT(40), <1>1, <1>2, <1>3, <1>4, <1>5, <1>6, <1>7, <1>8, <1>9, <1>10, <1>11, <1>12, <1>13, <1>14,
       <1>15, <1>16, <1>17, <1>18, <1>19, <1>20, <1>21, <1>22, <1>23, <1>24, <1>25, <1>26, <1>27,
       <1>28, <1>29, <1>30, <1>31, <1>32, <1>33, <1>34
  DEF Next, PeerStep, Owner, Unmounting, PeerNext, Caller, Handler, ReadLoop, Closer

-----------------------------------------------------------------------------
(***************************************************************************)
(* An unmounter that is started has not run before.                        *)
(***************************************************************************)
LEMMA StartsFresh ==
  ASSUME Base, SentOnce, HandledOnce
  PROVE  /\ \A c \in Releases : hpc[c] = "start" => upc[ByHandler(c)] = "none"
         /\ \A c \in Creates : hpc[c] = "mounted" => upc[ByHandler(c)] = "none"
         /\ AcceptCancel /\ hand.call \in Creates => upc[ByCancel(hand.call)] = "none"
         /\ AcceptRequest => hpc[hand.call] = "none" /\ hand.call \in Calls
         /\ \A m \in closing : m \in MountIds /\ upc[ByClose(m)] = "none"
<1>1. hand # None => hand \in Way /\ hand \in Frames BY DEF Base, WireTypes, Way
<1> QED BY <1>1 DEF Base, WireTypes, CloseTypes, HandledOnce, Arriving, New, AcceptCancel,
     AcceptRequest, Frames

LEMMA TableTrueStep ==
  ASSUME Base, SentOnce, HandledOnce, TableTrue, [Next]_vars
  PROVE  TableTrue'
<1> USE PeerAssumption, ServerMountsAssumption DEF requester, wire, handlers, unmounts, ownVars, table, history, Base,
     HandlerTypes, CloseTypes, TableTypes, TableTrue
<1>1. ASSUME NEW c \in Calls, Acquire(c), UNCHANGED ownVars PROVE TableTrue'
  BY <1>1 DEF Acquire
<1>2. ASSUME NEW c \in Calls, SlotCancelled(c), UNCHANGED ownVars PROVE TableTrue'
  BY <1>2 DEF SlotCancelled
<1>3. ASSUME NEW c \in Calls, TakeAnswer(c), UNCHANGED ownVars PROVE TableTrue'
  BY <1>3 DEF TakeAnswer
<1>4. ASSUME NEW c \in Calls, GiveUp(c), UNCHANGED ownVars PROVE TableTrue'
  BY <1>4 DEF GiveUp, CancelFrame
<1>5. ASSUME NEW c \in Calls, CallClosed(c), UNCHANGED ownVars PROVE TableTrue'
  BY <1>5 DEF CallClosed, Woken
<1>6. ASSUME NEW c \in Calls, StartRequest(c), UNCHANGED ownVars PROVE TableTrue'
  BY <1>6, StartsFresh, UnmounterFacts DEF StartRequest, ByHandler
<1>7. ASSUME NEW c \in Calls, KeepMount(c), UNCHANGED ownVars PROVE TableTrue'
  BY <1>7, StartsFresh, UnmounterFacts DEF KeepMount, Wanted, ByHandler
<1>8. ASSUME NEW c \in Calls, UnmountReturned(c), UNCHANGED ownVars PROVE TableTrue'
  BY <1>8 DEF UnmountReturned, Unlisted
<1>9. ASSUME NEW c \in Calls, Respond(c), UNCHANGED ownVars PROVE TableTrue'
  BY <1>9 DEF Respond, BeginClose
<1>10. ASSUME NEW c \in Calls, EndRequest(c), UNCHANGED ownVars PROVE TableTrue'
  BY <1>10 DEF EndRequest, Freed
<1>11. ASSUME DeliverResponse, UNCHANGED ownVars PROVE TableTrue'
  BY <1>11 DEF DeliverResponse
<1>12. ASSUME ReadFrame, UNCHANGED ownVars PROVE TableTrue'
  BY <1>12 DEF ReadFrame
<1>13. ASSUME AcceptRequest, UNCHANGED ownVars PROVE TableTrue'
  BY <1>13, StartsFresh DEF AcceptRequest
<1>14. ASSUME RejectRequest, UNCHANGED ownVars PROVE TableTrue'
  BY <1>14 DEF RejectRequest
<1>15. ASSUME AcceptCancel, UNCHANGED ownVars PROVE TableTrue'
  BY <1>15, StartsFresh, UnmounterFacts DEF AcceptCancel, ByCancel
<1>16. ASSUME SealMounts, UNCHANGED ownVars PROVE TableTrue'
  BY <1>16 DEF SealMounts
<1>17. ASSUME CloseDone, UNCHANGED ownVars PROVE TableTrue'
  BY <1>17 DEF CloseDone
<1>18. ASSUME NEW m \in closing, CloseUnmount(m), UNCHANGED ownVars PROVE TableTrue'
  BY <1>18, StartsFresh, UnmounterFacts DEF CloseUnmount, ByClose
<1>19. ASSUME CloseEnds, UNCHANGED ownVars PROVE TableTrue'
  BY <1>19 DEF CloseEnds
<1>20. ASSUME RequesterCloses, UNCHANGED ownVars PROVE TableTrue'
  BY <1>20 DEF RequesterCloses
<1>21. ASSUME HandlerCloses, UNCHANGED ownVars PROVE TableTrue'
  BY <1>21 DEF HandlerCloses, BeginClose
<1>22. ASSUME NEW c \in Calls, Request(c) PROVE TableTrue'
  BY <1>22 DEF Request, Ask
<1>23. ASSUME NEW c \in Calls, MountBegins(c) PROVE TableTrue'
  BY <1>23 DEF MountBegins, Ended
<1>24. ASSUME NEW c \in Calls, Mount(c) PROVE TableTrue'
  BY <1>24 DEF Mount, Ended
<1>25. ASSUME NEW c \in Calls, MountReady(c) PROVE TableTrue'
  BY <1>25 DEF MountReady, StillWanted
<1>26. ASSUME NEW c \in Calls, DiscardMount(c) PROVE TableTrue'
  BY <1>26 DEF DiscardMount, Ended, Detach
<1>27. ASSUME NEW c \in Calls, LifetimeEnds(c) PROVE TableTrue'
  BY <1>27 DEF LifetimeEnds, peerVars
<1>28. ASSUME NEW u \in Unmounters, UnmountLook(u) PROVE TableTrue'
  BY <1>28 DEF UnmountLook, AfterOther, Registered
<1>29. ASSUME NEW u \in Unmounters, UnmountWait(u) PROVE TableTrue'
  BY <1>29 DEF UnmountWait, Cancelled
<1>30. ASSUME NEW u \in Unmounters, Unmount(u) PROVE TableTrue'
  BY <1>30 DEF Unmount, Cancelled, Detach, HandledOnce
<1>31. ASSUME NEW u \in Unmounters, UnmountFinish(u) PROVE TableTrue'
  BY <1>31 DEF UnmountFinish, AfterUnmount
<1>32. CASE UNCHANGED vars
  BY <1>32 DEF vars, peerVars
<1>33. ASSUME NEW c \in Calls, Setup(c) PROVE TableTrue'
  BY <1>33 DEF Setup, Ended
<1>34. ASSUME NEW u \in Unmounters, UnmountRemoves(u) PROVE TableTrue'
  BY <1>34 DEF UnmountRemoves
<1> QED
    BY <1>1, <1>2, <1>3, <1>4, <1>5, <1>6, <1>7, <1>8, <1>9, <1>10, <1>11, <1>12, <1>13, <1>14,
       <1>15, <1>16, <1>17, <1>18, <1>19, <1>20, <1>21, <1>22, <1>23, <1>24, <1>25, <1>26, <1>27,
       <1>28, <1>29, <1>30, <1>31, <1>32, <1>33, <1>34
  DEF Next, PeerStep, Owner, Unmounting, PeerNext, Caller, Handler, ReadLoop, Closer

LEMMA MountInTableStep ==
  ASSUME Base, SentOnce, HandledOnce, TableTrue, MountInTable, [Next]_vars
  PROVE  MountInTable'
<1> USE PeerAssumption, ServerMountsAssumption DEF requester, wire, handlers, unmounts, ownVars, table, history, Base,
     HandlerTypes, CloseTypes, TableTypes, TableTrue, MountInTable
<1>1. ASSUME NEW c \in Calls, Acquire(c), UNCHANGED ownVars PROVE MountInTable'
  BY <1>1 DEF Acquire
<1>2. ASSUME NEW c \in Calls, SlotCancelled(c), UNCHANGED ownVars
      PROVE  MountInTable'
  BY <1>2 DEF SlotCancelled
<1>3. ASSUME NEW c \in Calls, TakeAnswer(c), UNCHANGED ownVars PROVE MountInTable'
  BY <1>3 DEF TakeAnswer
<1>4. ASSUME NEW c \in Calls, GiveUp(c), UNCHANGED ownVars PROVE MountInTable'
  BY <1>4 DEF GiveUp, CancelFrame
<1>5. ASSUME NEW c \in Calls, CallClosed(c), UNCHANGED ownVars PROVE MountInTable'
  BY <1>5 DEF CallClosed, Woken
<1>6. ASSUME NEW c \in Calls, StartRequest(c), UNCHANGED ownVars PROVE MountInTable'
  BY <1>6, StartsFresh, UnmounterFacts DEF StartRequest
<1>7. ASSUME NEW c \in Calls, KeepMount(c), UNCHANGED ownVars PROVE MountInTable'
  BY <1>7, StartsFresh, UnmounterFacts DEF KeepMount, Wanted
<1>8. ASSUME NEW c \in Calls, UnmountReturned(c), UNCHANGED ownVars
      PROVE  MountInTable'
  BY <1>8 DEF UnmountReturned, Unlisted
<1>9. ASSUME NEW c \in Calls, Respond(c), UNCHANGED ownVars PROVE MountInTable'
  BY <1>9 DEF Respond, BeginClose
<1>10. ASSUME NEW c \in Calls, EndRequest(c), UNCHANGED ownVars PROVE MountInTable'
  BY <1>10 DEF EndRequest, Freed
<1>11. ASSUME DeliverResponse, UNCHANGED ownVars PROVE MountInTable'
  BY <1>11 DEF DeliverResponse
<1>12. ASSUME ReadFrame, UNCHANGED ownVars PROVE MountInTable'
  BY <1>12 DEF ReadFrame
<1>13. ASSUME AcceptRequest, UNCHANGED ownVars PROVE MountInTable'
  BY <1>13, StartsFresh DEF AcceptRequest
<1>14. ASSUME RejectRequest, UNCHANGED ownVars PROVE MountInTable'
  BY <1>14 DEF RejectRequest
<1>15. ASSUME AcceptCancel, UNCHANGED ownVars PROVE MountInTable'
  BY <1>15, StartsFresh, UnmounterFacts DEF AcceptCancel
<1>16. ASSUME SealMounts, UNCHANGED ownVars PROVE MountInTable'
  BY <1>16 DEF SealMounts
<1>17. ASSUME CloseDone, UNCHANGED ownVars PROVE MountInTable'
  BY <1>17 DEF CloseDone
<1>18. ASSUME NEW m \in closing, CloseUnmount(m), UNCHANGED ownVars
      PROVE  MountInTable'
  BY <1>18, StartsFresh, UnmounterFacts DEF CloseUnmount
<1>19. ASSUME CloseEnds, UNCHANGED ownVars PROVE MountInTable'
  BY <1>19 DEF CloseEnds
<1>20. ASSUME RequesterCloses, UNCHANGED ownVars PROVE MountInTable'
  BY <1>20 DEF RequesterCloses
<1>21. ASSUME HandlerCloses, UNCHANGED ownVars PROVE MountInTable'
  BY <1>21 DEF HandlerCloses, BeginClose
<1>22. ASSUME NEW c \in Calls, Request(c) PROVE MountInTable'
  BY <1>22 DEF Request, Ask
<1>23. ASSUME NEW c \in Calls, MountBegins(c) PROVE MountInTable'
  BY <1>23 DEF MountBegins, Ended
<1>24. ASSUME NEW c \in Calls, Mount(c) PROVE MountInTable'
  BY <1>24 DEF Mount, Ended
<1>25. ASSUME NEW c \in Calls, MountReady(c) PROVE MountInTable'
  BY <1>25 DEF MountReady, StillWanted
<1>26. ASSUME NEW c \in Calls, DiscardMount(c) PROVE MountInTable'
  BY <1>26 DEF DiscardMount, Ended, Detach
<1>27. ASSUME NEW c \in Calls, LifetimeEnds(c) PROVE MountInTable'
  BY <1>27 DEF LifetimeEnds, peerVars
<1>28. ASSUME NEW u \in Unmounters, UnmountLook(u) PROVE MountInTable'
  BY <1>28 DEF UnmountLook, AfterOther
<1>29. ASSUME NEW u \in Unmounters, UnmountWait(u) PROVE MountInTable'
  BY <1>29 DEF UnmountWait, Cancelled
<1>30. ASSUME NEW u \in Unmounters, Unmount(u) PROVE MountInTable'
  BY <1>30 DEF Unmount, Cancelled, Detach
<1>31. ASSUME NEW u \in Unmounters, UnmountFinish(u) PROVE MountInTable'
  BY <1>31 DEF UnmountFinish, AfterUnmount
<1>32. CASE UNCHANGED vars
  BY <1>32 DEF vars, peerVars
<1>33. ASSUME NEW c \in Calls, Setup(c) PROVE MountInTable'
  BY <1>33 DEF Setup, Ended
<1>34. ASSUME NEW u \in Unmounters, UnmountRemoves(u) PROVE MountInTable'
  BY <1>34 DEF UnmountRemoves
<1> QED
    BY <1>1, <1>2, <1>3, <1>4, <1>5, <1>6, <1>7, <1>8, <1>9, <1>10, <1>11, <1>12, <1>13, <1>14,
       <1>15, <1>16, <1>17, <1>18, <1>19, <1>20, <1>21, <1>22, <1>23, <1>24, <1>25, <1>26, <1>27,
       <1>28, <1>29, <1>30, <1>31, <1>32, <1>33, <1>34
  DEF Next, PeerStep, Owner, Unmounting, PeerNext, Caller, Handler, ReadLoop, Closer

(***************************************************************************)
(* A request that has been handled is not handled again.                   *)
(***************************************************************************)
LEMMA ThroughStays ==
  ASSUME Base, SentOnce, HandledOnce, NEW k \in Calls, Through(k), [Next]_vars
  PROVE  Through(k)'
<1> USE PeerAssumption DEF requester, wire, handlers, unmounts, ownVars, table, history, Base, HandlerTypes,
     CallerTypes, Through, Asked
<1>1. ASSUME NEW c \in Calls, Acquire(c), UNCHANGED ownVars PROVE Through(k)'
  <2>1. Frame("request", c) \in Frames \ Way /\ c # k
    <3>1. Frame("request", c) \in Frames BY FrameFacts
    <3>2. Frame("request", c) \in Way => Asked(Frame("request", c).call)
      BY FrameFacts DEF HandledOnce, Arriving
    <3>3. ~Asked(c) BY <1>1 DEF Acquire, Asked
    <3> QED BY <3>1, <3>2, <3>3, FrameFacts DEF Through
  <2>2. Way' \subseteq Way \cup {Frame("request", c)}
    BY <1>1, <2>1, WaySend, WayFrame DEF Acquire
  <2>3. Frame("request", k) # Frame("request", c) BY <2>1, FrameFacts
  <2> QED BY <1>1, <2>1, <2>2, <2>3 DEF Acquire
<1>2. ASSUME NEW c \in Calls, SlotCancelled(c), UNCHANGED ownVars PROVE Through(k)'
  BY <1>2, WayFrame DEF SlotCancelled
<1>3. ASSUME NEW c \in Calls, TakeAnswer(c), UNCHANGED ownVars PROVE Through(k)'
  BY <1>3, WayFrame DEF TakeAnswer
<1>4. ASSUME NEW c \in Calls, GiveUp(c), UNCHANGED ownVars PROVE Through(k)'
  <2>1. Frame("cancel", c) \in Frames \ Way /\ Frame("request", k) # Frame("cancel", c)
    BY <1>4, FrameFacts DEF GiveUp, HandledOnce, Arriving
  <2>2. Way' \subseteq Way \cup {Frame("cancel", c)}
    BY <1>4, <2>1, WaySend DEF GiveUp, CancelFrame
  <2> QED BY <1>4, <2>1, <2>2 DEF GiveUp
<1>5. ASSUME NEW c \in Calls, CallClosed(c), UNCHANGED ownVars PROVE Through(k)'
  BY <1>5, WayFrame DEF CallClosed, Woken
<1>6. ASSUME NEW c \in Calls, StartRequest(c), UNCHANGED ownVars PROVE Through(k)'
  BY <1>6, WayFrame DEF StartRequest
<1>7. ASSUME NEW c \in Calls, KeepMount(c), UNCHANGED ownVars PROVE Through(k)'
  BY <1>7, WayFrame DEF KeepMount, Wanted
<1>8. ASSUME NEW c \in Calls, UnmountReturned(c), UNCHANGED ownVars
      PROVE  Through(k)'
  BY <1>8, WayFrame DEF UnmountReturned, Unlisted
<1>9. ASSUME NEW c \in Calls, Respond(c), UNCHANGED ownVars PROVE Through(k)'
  BY <1>9, WayFrame DEF Respond, BeginClose
<1>10. ASSUME NEW c \in Calls, EndRequest(c), UNCHANGED ownVars PROVE Through(k)'
  BY <1>10, WayFrame DEF EndRequest, Freed
<1>11. ASSUME DeliverResponse, UNCHANGED ownVars PROVE Through(k)'
  BY <1>11, WayFrame DEF DeliverResponse
<1>12. ASSUME ReadFrame, UNCHANGED ownVars PROVE Through(k)'
  BY <1>12, WayRead DEF ReadFrame
<1>13. ASSUME AcceptRequest, UNCHANGED ownVars PROVE Through(k)'
  <2>1. hand \in Way /\ Way' = Way \ {hand} BY <1>13, WayTake DEF AcceptRequest
  <2>2. hand = Frame("request", hand.call) /\ hand.call \in Calls
    BY <1>13, <2>1, FrameFacts, WayTypes DEF AcceptRequest
  <2>3. hand.call # k BY <2>1, <2>2
  <2> QED BY <1>13, <2>1, <2>2, <2>3 DEF AcceptRequest
<1>14. ASSUME RejectRequest, UNCHANGED ownVars PROVE Through(k)'
  BY <1>14, WayTake DEF RejectRequest
<1>15. ASSUME AcceptCancel, UNCHANGED ownVars PROVE Through(k)'
  BY <1>15, WayTake DEF AcceptCancel
<1>16. ASSUME SealMounts, UNCHANGED ownVars PROVE Through(k)'
  BY <1>16, WayFrame DEF SealMounts
<1>17. ASSUME CloseDone, UNCHANGED ownVars PROVE Through(k)'
  BY <1>17, WayFrame DEF CloseDone
<1>18. ASSUME NEW m \in closing, CloseUnmount(m), UNCHANGED ownVars
      PROVE  Through(k)'
  BY <1>18, WayFrame DEF CloseUnmount
<1>19. ASSUME CloseEnds, UNCHANGED ownVars PROVE Through(k)'
  BY <1>19, WayFrame DEF CloseEnds
<1>20. ASSUME RequesterCloses, UNCHANGED ownVars PROVE Through(k)'
  BY <1>20, WayFrame DEF RequesterCloses
<1>21. ASSUME HandlerCloses, UNCHANGED ownVars PROVE Through(k)'
  BY <1>21, WayFrame DEF HandlerCloses, BeginClose
<1>22. ASSUME NEW c \in Calls, Request(c) PROVE Through(k)'
  BY <1>22, WayFrame DEF Request, Ask
<1>23. ASSUME NEW c \in Calls, MountBegins(c) PROVE Through(k)'
  BY <1>23, WayFrame DEF MountBegins, Ended
<1>24. ASSUME NEW c \in Calls, Mount(c) PROVE Through(k)'
  BY <1>24, WayFrame DEF Mount, Ended
<1>25. ASSUME NEW c \in Calls, MountReady(c) PROVE Through(k)'
  BY <1>25, WayFrame DEF MountReady, StillWanted
<1>26. ASSUME NEW c \in Calls, DiscardMount(c) PROVE Through(k)'
  BY <1>26, WayFrame DEF DiscardMount, Ended, Detach
<1>27. ASSUME NEW c \in Calls, LifetimeEnds(c) PROVE Through(k)'
  BY <1>27, WayFrame DEF LifetimeEnds, peerVars
<1>28. ASSUME NEW u \in Unmounters, UnmountLook(u) PROVE Through(k)'
  BY <1>28, WayFrame DEF UnmountLook, AfterOther
<1>29. ASSUME NEW u \in Unmounters, UnmountWait(u) PROVE Through(k)'
  BY <1>29, WayFrame DEF UnmountWait, Cancelled
<1>30. ASSUME NEW u \in Unmounters, Unmount(u) PROVE Through(k)'
  BY <1>30, WayFrame DEF Unmount, Cancelled, Detach
<1>31. ASSUME NEW u \in Unmounters, UnmountFinish(u) PROVE Through(k)'
  BY <1>31, WayFrame DEF UnmountFinish, AfterUnmount
<1>32. CASE UNCHANGED vars
  BY <1>32, WayFrame DEF vars, peerVars
<1>33. ASSUME NEW c \in Calls, Setup(c) PROVE Through(k)'
  BY <1>33, WayFrame DEF Setup, Ended
<1>34. ASSUME NEW u \in Unmounters, UnmountRemoves(u) PROVE Through(k)'
  BY <1>34, WayFrame DEF UnmountRemoves
<1> QED
    BY <1>1, <1>2, <1>3, <1>4, <1>5, <1>6, <1>7, <1>8, <1>9, <1>10, <1>11, <1>12, <1>13, <1>14,
       <1>15, <1>16, <1>17, <1>18, <1>19, <1>20, <1>21, <1>22, <1>23, <1>24, <1>25, <1>26, <1>27,
       <1>28, <1>29, <1>30, <1>31, <1>32, <1>33, <1>34
  DEF Next, PeerStep, Owner, Unmounting, PeerNext, Caller, Handler, ReadLoop, Closer

LEMMA GivenStep ==
  ASSUME Base, SentOnce, HandledOnce, GivenOnce, [Next]_vars
  PROVE  GivenOnce'
<1>a. \A k \in Calls : Through(k) => Through(k)' BY ThroughStays
<1>b. \A f \in Back : f.call \in Calls BY BackTypes DEF Base
<1> USE PeerAssumption, <1>a, <1>b DEF requester, wire, handlers, unmounts, ownVars, table, history, Base,
     CallerTypes, GivenOnce
<1>1. ASSUME NEW c \in Calls, Acquire(c), UNCHANGED ownVars PROVE GivenOnce'
  BY <1>1, BackFrame DEF Acquire
<1>2. ASSUME NEW c \in Calls, SlotCancelled(c), UNCHANGED ownVars PROVE GivenOnce'
  BY <1>2, BackFrame DEF SlotCancelled
<1>3. ASSUME NEW c \in Calls, TakeAnswer(c), UNCHANGED ownVars PROVE GivenOnce'
  BY <1>3, BackFrame DEF TakeAnswer
<1>4. ASSUME NEW c \in Calls, GiveUp(c), UNCHANGED ownVars PROVE GivenOnce'
  BY <1>4, BackFrame DEF GiveUp, CancelFrame
<1>5. ASSUME NEW c \in Calls, CallClosed(c), UNCHANGED ownVars PROVE GivenOnce'
  BY <1>5, BackFrame DEF CallClosed, Woken
<1>6. ASSUME NEW c \in Calls, StartRequest(c), UNCHANGED ownVars PROVE GivenOnce'
  BY <1>6, BackFrame DEF StartRequest
<1>7. ASSUME NEW c \in Calls, KeepMount(c), UNCHANGED ownVars PROVE GivenOnce'
  BY <1>7, BackFrame DEF KeepMount, Wanted
<1>8. ASSUME NEW c \in Calls, UnmountReturned(c), UNCHANGED ownVars PROVE GivenOnce'
  BY <1>8, BackFrame DEF UnmountReturned, Unlisted
<1>9. ASSUME NEW c \in Calls, Respond(c), UNCHANGED ownVars PROVE GivenOnce'
  <2>1. Frame(code[c], c) \in Answers /\ Frame(code[c], c).call = c
    BY <1>9, FrameFacts DEF Respond, HandlerTypes
  <2>2. Back' \subseteq Back \cup {Frame(code[c], c)} BY <1>9, <2>1, BackSend, BackFrame DEF Respond
  <2>3. Through(c)'
    <3>1. Asked(c) BY <1>9 DEF Respond, HandledOnce, New
    <3>2. Frame("request", c) \notin Way
      <4>1. Frame("request", c) \in Way => New(Frame("request", c).call)
        BY FrameFacts DEF HandledOnce, Arriving
      <4> QED BY <1>9, <4>1, FrameFacts DEF Respond, New
    <3> QED BY <1>9, <3>1, <3>2, WayFrame DEF Respond, Through, Asked, HandlerTypes
  <2> QED BY <1>9, <2>1, <2>2, <2>3 DEF Respond
<1>10. ASSUME NEW c \in Calls, EndRequest(c), UNCHANGED ownVars PROVE GivenOnce'
  BY <1>10, BackFrame DEF EndRequest, Freed
<1>11. ASSUME DeliverResponse, UNCHANGED ownVars PROVE GivenOnce'
  <2>1. Back' \subseteq Back /\ Head(resps) \in Back /\ Head(resps).call \in Calls
    BY <1>11, BackTake, FrameFacts
  <2> QED BY <1>11, <2>1 DEF DeliverResponse
<1>12. ASSUME ReadFrame, UNCHANGED ownVars PROVE GivenOnce'
  BY <1>12, BackFrame DEF ReadFrame
<1>13. ASSUME AcceptRequest, UNCHANGED ownVars PROVE GivenOnce'
  BY <1>13, BackFrame DEF AcceptRequest
<1>14. ASSUME RejectRequest, UNCHANGED ownVars PROVE GivenOnce'
  <2>1. hand \in Way /\ Way' = Way \ {hand} BY <1>14, WayTake DEF RejectRequest
  <2>2. hand \in Frames /\ hand.kind = "request" /\ hand = Frame("request", hand.call)
    BY <1>14, <2>1, FrameFacts, WayTypes DEF RejectRequest
  <2>3. PICK k \in Calls : hand.call = k /\ hand = Frame("request", k)
    BY <2>2, FrameFacts
  <2>4. Frame("busy", k) \in Answers /\ Frame("busy", k).call = k BY FrameFacts
  <2>5. Back' \subseteq Back \cup {Frame("busy", k)}
    BY <1>14, <2>3, <2>4, BackSend DEF RejectRequest
  <2>6. Through(k)'
    <3>1. Asked(k) /\ New(k) BY <2>1, <2>2, <2>3 DEF HandledOnce, Arriving
    <3> QED BY <1>14, <2>1, <2>3, <3>1 DEF RejectRequest, Through, Asked, New
  <2> QED BY <1>14, <2>4, <2>5, <2>6 DEF RejectRequest
<1>15. ASSUME AcceptCancel, UNCHANGED ownVars PROVE GivenOnce'
  BY <1>15, BackFrame DEF AcceptCancel
<1>16. ASSUME SealMounts, UNCHANGED ownVars PROVE GivenOnce'
  BY <1>16, BackFrame DEF SealMounts
<1>17. ASSUME CloseDone, UNCHANGED ownVars PROVE GivenOnce'
  BY <1>17, BackFrame DEF CloseDone
<1>18. ASSUME NEW m \in closing, CloseUnmount(m), UNCHANGED ownVars PROVE GivenOnce'
  BY <1>18, BackFrame DEF CloseUnmount
<1>19. ASSUME CloseEnds, UNCHANGED ownVars PROVE GivenOnce'
  BY <1>19, BackFrame DEF CloseEnds
<1>20. ASSUME RequesterCloses, UNCHANGED ownVars PROVE GivenOnce'
  BY <1>20, BackFrame DEF RequesterCloses
<1>21. ASSUME HandlerCloses, UNCHANGED ownVars PROVE GivenOnce'
  BY <1>21, BackFrame DEF HandlerCloses, BeginClose
<1>22. ASSUME NEW c \in Calls, Request(c) PROVE GivenOnce'
  BY <1>22, BackFrame DEF Request, Ask
<1>23. ASSUME NEW c \in Calls, MountBegins(c) PROVE GivenOnce'
  BY <1>23, BackFrame DEF MountBegins, Ended
<1>24. ASSUME NEW c \in Calls, Mount(c) PROVE GivenOnce'
  BY <1>24, BackFrame DEF Mount, Ended
<1>25. ASSUME NEW c \in Calls, MountReady(c) PROVE GivenOnce'
  BY <1>25, BackFrame DEF MountReady, StillWanted
<1>26. ASSUME NEW c \in Calls, DiscardMount(c) PROVE GivenOnce'
  BY <1>26, BackFrame DEF DiscardMount, Ended, Detach
<1>27. ASSUME NEW c \in Calls, LifetimeEnds(c) PROVE GivenOnce'
  BY <1>27, BackFrame DEF LifetimeEnds, peerVars
<1>28. ASSUME NEW u \in Unmounters, UnmountLook(u) PROVE GivenOnce'
  BY <1>28, BackFrame DEF UnmountLook, AfterOther
<1>29. ASSUME NEW u \in Unmounters, UnmountWait(u) PROVE GivenOnce'
  BY <1>29, BackFrame DEF UnmountWait, Cancelled
<1>30. ASSUME NEW u \in Unmounters, Unmount(u) PROVE GivenOnce'
  BY <1>30, BackFrame DEF Unmount, Cancelled, Detach
<1>31. ASSUME NEW u \in Unmounters, UnmountFinish(u) PROVE GivenOnce'
  BY <1>31, BackFrame DEF UnmountFinish, AfterUnmount
<1>32. CASE UNCHANGED vars
  BY <1>32, BackFrame DEF vars, peerVars
<1>33. ASSUME NEW c \in Calls, Setup(c) PROVE GivenOnce'
  BY <1>33, BackFrame DEF Setup, Ended
<1>34. ASSUME NEW u \in Unmounters, UnmountRemoves(u) PROVE GivenOnce'
  BY <1>34, BackFrame DEF UnmountRemoves
<1> QED
    BY <1>1, <1>2, <1>3, <1>4, <1>5, <1>6, <1>7, <1>8, <1>9, <1>10, <1>11, <1>12, <1>13, <1>14,
       <1>15, <1>16, <1>17, <1>18, <1>19, <1>20, <1>21, <1>22, <1>23, <1>24, <1>25, <1>26, <1>27,
       <1>28, <1>29, <1>30, <1>31, <1>32, <1>33, <1>34
  DEF Next, PeerStep, Owner, Unmounting, PeerNext, Caller, Handler, ReadLoop, Closer

(***************************************************************************)
(* The mount that a release is about does not come back: its create is     *)
(* over, and no other create has its mountId.                              *)
(***************************************************************************)
(***************************************************************************)
(* The steps of the peers, and those of the owner that leave an unmounter  *)
(* where it is.                                                            *)
(***************************************************************************)
LEMMA PeerLeaves ==
  ASSUME Base, PeerStep
  PROVE  /\ UNCHANGED ownVars
         /\ \A u \in Unmounters : upc'[u] \in {upc[u], "look"}
         /\ \A c \in Calls : hpc'[c] \in {"setup", "mounting", "ready"} => hpc'[c] = hpc[c]
<1> USE PeerAssumption DEF requester, wire, handlers, unmounts, Base, CloseTypes, HandlerTypes
<1>1. UNCHANGED ownVars BY DEF PeerStep
<1>2. \A u \in Unmounters : upc'[u] \in {upc[u], "look"}
  BY ZenonT(40) DEF PeerStep, PeerNext, Caller, Handler, ReadLoop, Closer, Acquire, SlotCancelled,
    TakeAnswer, GiveUp, CallClosed, StartRequest, KeepMount, UnmountReturned, Respond, EndRequest,
    DeliverResponse, ReadFrame, AcceptRequest, RejectRequest, AcceptCancel, SealMounts, CloseDone,
    CloseUnmount, CloseEnds, RequesterCloses, HandlerCloses
<1>3. \A c \in Calls : hpc'[c] \in {"setup", "mounting", "ready"} => hpc'[c] = hpc[c]
  <2>1. ASSUME NEW d \in Calls, Handler(d)
        PROVE  \E w \in {"onmount", "releasing", "undoing", "reply", "end", "none"} :
                 hpc' = [hpc EXCEPT ![d] = w]
    BY <2>1 DEF Handler, StartRequest, KeepMount, UnmountReturned, Respond, EndRequest
  <2>2. CASE ReadLoop
    <3>1. hpc' = hpc \/ hpc' = [hpc EXCEPT ![hand.call] = "start"]
      BY <2>2 DEF ReadLoop, ReadFrame, AcceptRequest, RejectRequest, AcceptCancel
    <3> QED BY <3>1
  <2>3. CASE ~ReadLoop /\ ~\E d \in Calls : Handler(d)
    BY <2>3 DEF PeerStep, PeerNext, Caller, Closer, Acquire, SlotCancelled, TakeAnswer, GiveUp,
      CallClosed, DeliverResponse, SealMounts, CloseDone, CloseUnmount, CloseEnds, RequesterCloses,
      HandlerCloses
  <2> QED BY <2>1, <2>2, <2>3
<1> QED BY <1>1, <1>2, <1>3

LEMMA GoneStep ==
  ASSUME Base, SentOnce, HandledOnce, TableTrue, Gone, [Next]_vars
  PROVE  Gone'
<1>a. \A k \in Calls : Through(k) => Through(k)' BY ThroughStays
<1>b. ASSUME fsMounts' \in {fsMounts, None}, mounted' \subseteq mounted,
             \A u \in Unmounters : upc'[u] = "remove" => upc[u] = "remove"
      PROVE  Gone'
  BY <1>a, <1>b, PeerAssumption DEF Gone, Base, TableTypes
<1> USE PeerAssumption, ServerMountsAssumption
    DEF requester, wire, handlers, unmounts, ownVars, table, history, Base, HandlerTypes, CloseTypes, TableTypes
<1>1. CASE PeerStep BY <1>1, <1>b, PeerLeaves
<1>2. ASSUME NEW c \in Calls, Request(c) \/ MountBegins(c) \/ Setup(c) \/ DiscardMount(c) \/ LifetimeEnds(c)
      PROVE  Gone'
  BY <1>2, <1>b DEF Request, MountBegins, Setup, DiscardMount, Detach, LifetimeEnds, peerVars
<1>3. ASSUME NEW c \in Calls, Mount(c) PROVE Gone'
  <2>1. ~Through(c) BY <1>3 DEF Mount, Through
  <2>2. mounted' \subseteq mounted \cup {c} /\ UNCHANGED <<fsMounts, upc>> BY <1>3 DEF Mount
  <2> QED BY <1>a, <2>1, <2>2 DEF Gone
<1>4. ASSUME NEW c \in Calls, MountReady(c) PROVE Gone'
  <2>1. Asked(c) /\ Frame("request", c) \notin Way
    <3>1. ~New(c) BY <1>4 DEF MountReady, New
    <3> QED BY <3>1, FrameFacts DEF HandledOnce, Arriving
  <2>2. CASE StillWanted(c)
    <3>1. Through(c)' BY <1>4, <2>1, <2>2, WayFrame DEF MountReady, Through, Asked
    <3> QED BY <1>4, <1>a, <2>2, <3>1 DEF MountReady, Gone
  <2>3. CASE ~StillWanted(c) BY <1>4, <1>b, <2>3 DEF MountReady
  <2> QED BY <2>2, <2>3
<1>5. ASSUME NEW u \in Unmounters, UnmountLook(u) \/ UnmountWait(u) \/ Unmount(u) \/ UnmountRemoves(u)
      PROVE  Gone'
  BY <1>5, <1>b DEF UnmountLook, AfterOther, UnmountWait, Unmount, Detach, UnmountRemoves
<1>6. ASSUME NEW u \in Unmounters, UnmountFinish(u) PROVE Gone'
  <2>1. fsMounts # None /\ fsUnmounting = u /\ MountOf[fsMounts] = Unmounted(u)
    BY <1>6 DEF UnmountFinish, TableTrue
  <2>2. CASE u \in uerr BY <1>6, <1>b, <2>2 DEF UnmountFinish, AfterUnmount
  <2>3. CASE u \notin uerr
    <3>1. fsMounts \notin mounted BY <1>6, <2>3 DEF UnmountFinish, TableTrue
    <3>2. \A c \in Creates : MountOf[c] = Unmounted(u) => c = fsMounts BY <2>1
    <3> QED BY <1>6, <1>a, <2>1, <2>3, <3>1, <3>2 DEF UnmountFinish, AfterUnmount, Gone
  <2> QED BY <2>2, <2>3
<1>7. CASE UNCHANGED vars BY <1>7, <1>b DEF vars, peerVars
<1> QED BY <1>1, <1>2, <1>3, <1>4, <1>5, <1>6, <1>7 DEF Next, Owner, Unmounting

LEMMA MarkedStep ==
  ASSUME Base, TableTrue, Marked, [Next]_vars
  PROVE  Marked'
<1> USE PeerAssumption, ServerMountsAssumption
    DEF requester, wire, handlers, unmounts, ownVars, table, history, Base, HandlerTypes, CloseTypes, TableTypes
<1>b. ASSUME UNCHANGED <<fsMounts, marker, raced>>, mounted' \subseteq mounted,
             \A u \in Unmounters : upc'[u] = "remove" => upc[u] = "remove",
             \A c \in Calls : hpc'[c] \in {"mounting", "ready"} => hpc'[c] = hpc[c]
      PROVE  Marked'
  BY <1>b DEF Marked
<1>1. CASE PeerStep BY <1>1, <1>b, PeerLeaves
<1>2. ASSUME NEW c \in Calls, Request(c) \/ MountBegins(c) \/ DiscardMount(c) \/ LifetimeEnds(c)
      PROVE  Marked'
  BY <1>2, <1>b DEF Request, MountBegins, DiscardMount, Ended, Detach, LifetimeEnds, peerVars
<1>3. ASSUME NEW c \in Calls, Setup(c) PROVE Marked'
  BY <1>3 DEF Setup, Ended, Marked, TableTrue
<1>4. ASSUME NEW c \in Calls, Mount(c) PROVE Marked'
  BY <1>4 DEF Mount, Ended, Marked, TableTrue
<1>5. ASSUME NEW c \in Calls, MountReady(c) PROVE Marked'
  BY <1>5 DEF MountReady, Marked, TableTrue
<1>6. ASSUME NEW u \in Unmounters, UnmountLook(u) \/ UnmountWait(u) \/ Unmount(u) PROVE Marked'
  BY <1>6, <1>b DEF UnmountLook, AfterOther, UnmountWait, Unmount, Detach
<1>7. ASSUME NEW u \in Unmounters, UnmountFinish(u) PROVE Marked'
  BY <1>7 DEF UnmountFinish, AfterUnmount, Marked, TableTrue
<1>8. ASSUME NEW u \in Unmounters, UnmountRemoves(u) PROVE Marked'
  BY <1>8 DEF UnmountRemoves, Marked
<1>9. CASE UNCHANGED vars BY <1>9, <1>b DEF vars, peerVars
<1> QED BY <1>1, <1>2, <1>3, <1>4, <1>5, <1>6, <1>7, <1>8, <1>9 DEF Next, Owner, Unmounting

LEMMA NotMountedAgain ==
  ASSUME Base, HandledOnce, GivenOnce, NEW c \in Releases, upc[ByHandler(c)] # "none",
         NEW k \in Creates, MountOf[k] = MountOf[c]
  PROVE  hpc[k] \in {"mounted", "undoing", "reply", "end", "none"}
<1>1. Asked(c) BY PeerAssumption DEF HandledOnce, New
<1>2. call[c] # "idle" BY <1>1 DEF Asked
<1> QED BY <1>2, ServerMountsAssumption DEF GivenOnce, Through

LEMMA ReleasedStep ==
  ASSUME Base, SentOnce, HandledOnce, TableTrue, GivenOnce, Released, [Next]_vars
  PROVE  Released'
<1> USE PeerAssumption, ServerMountsAssumption DEF requester, wire, handlers, unmounts, ownVars, table, history, Base,
     HandlerTypes, CloseTypes, TableTypes, TableTrue, Released, Registered
<1>1. ASSUME NEW c \in Calls, Acquire(c), UNCHANGED ownVars PROVE Released'
  BY <1>1 DEF Acquire
<1>2. ASSUME NEW c \in Calls, SlotCancelled(c), UNCHANGED ownVars PROVE Released'
  BY <1>2 DEF SlotCancelled
<1>3. ASSUME NEW c \in Calls, TakeAnswer(c), UNCHANGED ownVars PROVE Released'
  BY <1>3 DEF TakeAnswer
<1>4. ASSUME NEW c \in Calls, GiveUp(c), UNCHANGED ownVars PROVE Released'
  BY <1>4 DEF GiveUp, CancelFrame
<1>5. ASSUME NEW c \in Calls, CallClosed(c), UNCHANGED ownVars PROVE Released'
  BY <1>5 DEF CallClosed, Woken
<1>6. ASSUME NEW c \in Calls, StartRequest(c), UNCHANGED ownVars PROVE Released'
  <2>1. upc' = upc \/ upc' = [upc EXCEPT ![ByHandler(c)] = "look"] BY <1>6 DEF StartRequest, ByHandler
  <2>2. \A d \in Releases : upc'[ByHandler(d)] \in {upc[ByHandler(d)], "look"} BY <2>1, UnmounterFacts
  <2> QED BY <1>6, <2>2 DEF StartRequest
<1>7. ASSUME NEW c \in Calls, KeepMount(c), UNCHANGED ownVars PROVE Released'
  <2>1. upc' = upc \/ upc' = [upc EXCEPT ![ByHandler(c)] = "look"] BY <1>7 DEF KeepMount, ByHandler
  <2>2. \A d \in Releases : upc'[ByHandler(d)] \in {upc[ByHandler(d)], "look"} BY <2>1, UnmounterFacts
  <2> QED BY <1>7, <2>2 DEF KeepMount
<1>8. ASSUME NEW c \in Calls, UnmountReturned(c), UNCHANGED ownVars PROVE Released'
  BY <1>8 DEF UnmountReturned, Unlisted
<1>9. ASSUME NEW c \in Calls, Respond(c), UNCHANGED ownVars PROVE Released'
  BY <1>9 DEF Respond, BeginClose
<1>10. ASSUME NEW c \in Calls, EndRequest(c), UNCHANGED ownVars PROVE Released'
  BY <1>10 DEF EndRequest, Freed
<1>11. ASSUME DeliverResponse, UNCHANGED ownVars PROVE Released'
  BY <1>11 DEF DeliverResponse
<1>12. ASSUME ReadFrame, UNCHANGED ownVars PROVE Released'
  BY <1>12 DEF ReadFrame
<1>13. ASSUME AcceptRequest, UNCHANGED ownVars PROVE Released'
  BY <1>13, StartsFresh DEF AcceptRequest
<1>14. ASSUME RejectRequest, UNCHANGED ownVars PROVE Released'
  BY <1>14 DEF RejectRequest
<1>15. ASSUME AcceptCancel, UNCHANGED ownVars PROVE Released'
  BY <1>15, StartsFresh, UnmounterFacts DEF AcceptCancel, ByCancel
<1>16. ASSUME SealMounts, UNCHANGED ownVars PROVE Released'
  BY <1>16 DEF SealMounts
<1>17. ASSUME CloseDone, UNCHANGED ownVars PROVE Released'
  BY <1>17 DEF CloseDone
<1>18. ASSUME NEW m \in closing, CloseUnmount(m), UNCHANGED ownVars PROVE Released'
  BY <1>18, StartsFresh, UnmounterFacts DEF CloseUnmount, ByClose
<1>19. ASSUME CloseEnds, UNCHANGED ownVars PROVE Released'
  BY <1>19 DEF CloseEnds
<1>20. ASSUME RequesterCloses, UNCHANGED ownVars PROVE Released'
  BY <1>20 DEF RequesterCloses
<1>21. ASSUME HandlerCloses, UNCHANGED ownVars PROVE Released'
  BY <1>21 DEF HandlerCloses, BeginClose
<1>22. ASSUME NEW c \in Calls, Request(c) PROVE Released'
  BY <1>22 DEF Request, Ask
<1>23. ASSUME NEW c \in Calls, MountBegins(c) PROVE Released'
  BY <1>23 DEF MountBegins, Ended
<1>24. ASSUME NEW c \in Calls, Mount(c) PROVE Released'
  BY <1>24 DEF Mount, Ended
<1>25. ASSUME NEW c \in Calls, MountReady(c) PROVE Released'
  BY <1>25, NotMountedAgain, UnmounterFacts DEF MountReady, StillWanted
<1>26. ASSUME NEW c \in Calls, DiscardMount(c) PROVE Released'
  BY <1>26 DEF DiscardMount, Ended, Detach
<1>27. ASSUME NEW c \in Calls, LifetimeEnds(c) PROVE Released'
  BY <1>27 DEF LifetimeEnds, peerVars
<1>28. ASSUME NEW u \in Unmounters, UnmountLook(u) PROVE Released'
  BY <1>28, UnmounterFacts DEF UnmountLook, AfterOther
<1>29. ASSUME NEW u \in Unmounters, UnmountWait(u) PROVE Released'
  BY <1>29, UnmounterFacts DEF UnmountWait, Cancelled
<1>30. ASSUME NEW u \in Unmounters, Unmount(u) PROVE Released'
  BY <1>30, UnmounterFacts DEF Unmount, Cancelled, Detach
<1>31. ASSUME NEW u \in Unmounters, UnmountFinish(u) PROVE Released'
  BY <1>31, UnmounterFacts DEF UnmountFinish, AfterUnmount
<1>32. CASE UNCHANGED vars
  BY <1>32 DEF vars, peerVars
<1>33. ASSUME NEW c \in Calls, Setup(c) PROVE Released'
  BY <1>33, UnmounterFacts DEF Setup, Ended
<1>34. ASSUME NEW u \in Unmounters, UnmountRemoves(u) PROVE Released'
  BY <1>34, UnmounterFacts DEF UnmountRemoves
<1> QED
    BY <1>1, <1>2, <1>3, <1>4, <1>5, <1>6, <1>7, <1>8, <1>9, <1>10, <1>11, <1>12, <1>13, <1>14,
       <1>15, <1>16, <1>17, <1>18, <1>19, <1>20, <1>21, <1>22, <1>23, <1>24, <1>25, <1>26, <1>27,
       <1>28, <1>29, <1>30, <1>31, <1>32, <1>33, <1>34
  DEF Next, PeerStep, Owner, Unmounting, PeerNext, Caller, Handler, ReadLoop, Closer

LEMMA OwnedStep ==
  ASSUME Base, SentOnce, HandledOnce, TableTrue, MountInTable, GivenOnce, Released, Owned, [Next]_vars
  PROVE  Owned'
<1> USE PeerAssumption, ServerMountsAssumption DEF requester, wire, handlers, unmounts, ownVars, table, history, Base,
     HandlerTypes, CloseTypes, TableTypes, TableTrue, Owned
<1>1. ASSUME NEW c \in Calls, Acquire(c), UNCHANGED ownVars PROVE Owned'
  BY <1>1 DEF Acquire
<1>2. ASSUME NEW c \in Calls, SlotCancelled(c), UNCHANGED ownVars PROVE Owned'
  BY <1>2 DEF SlotCancelled
<1>3. ASSUME NEW c \in Calls, TakeAnswer(c), UNCHANGED ownVars PROVE Owned'
  BY <1>3 DEF TakeAnswer
<1>4. ASSUME NEW c \in Calls, GiveUp(c), UNCHANGED ownVars PROVE Owned'
  BY <1>4 DEF GiveUp, CancelFrame
<1>5. ASSUME NEW c \in Calls, CallClosed(c), UNCHANGED ownVars PROVE Owned'
  BY <1>5 DEF CallClosed, Woken
<1>6. ASSUME NEW c \in Calls, StartRequest(c), UNCHANGED ownVars PROVE Owned'
  BY <1>6, StartsFresh, UnmounterFacts DEF StartRequest, ByHandler
<1>7. ASSUME NEW c \in Calls, KeepMount(c), UNCHANGED ownVars PROVE Owned'
  BY <1>7, StartsFresh, UnmounterFacts DEF KeepMount, Wanted, ByHandler
<1>8. ASSUME NEW c \in Calls, UnmountReturned(c), UNCHANGED ownVars PROVE Owned'
  BY <1>8, UnmounterFacts DEF UnmountReturned, Unlisted, Released, Registered, ByHandler
<1>9. ASSUME NEW c \in Calls, Respond(c), UNCHANGED ownVars PROVE Owned'
  BY <1>9 DEF Respond, BeginClose
<1>10. ASSUME NEW c \in Calls, EndRequest(c), UNCHANGED ownVars PROVE Owned'
  BY <1>10 DEF EndRequest, Freed
<1>11. ASSUME DeliverResponse, UNCHANGED ownVars PROVE Owned'
  BY <1>11 DEF DeliverResponse
<1>12. ASSUME ReadFrame, UNCHANGED ownVars PROVE Owned'
  BY <1>12 DEF ReadFrame
<1>13. ASSUME AcceptRequest, UNCHANGED ownVars PROVE Owned'
  BY <1>13, StartsFresh DEF AcceptRequest
<1>14. ASSUME RejectRequest, UNCHANGED ownVars PROVE Owned'
  BY <1>14 DEF RejectRequest
<1>15. ASSUME AcceptCancel, UNCHANGED ownVars PROVE Owned'
  BY <1>15, StartsFresh, UnmounterFacts DEF AcceptCancel, ByCancel
<1>16. ASSUME SealMounts, UNCHANGED ownVars PROVE Owned'
  BY <1>16 DEF SealMounts, HandledOnce
<1>17. ASSUME CloseDone, UNCHANGED ownVars PROVE Owned'
  BY <1>17 DEF CloseDone
<1>18. ASSUME NEW m \in closing, CloseUnmount(m), UNCHANGED ownVars PROVE Owned'
  BY <1>18, StartsFresh, UnmounterFacts DEF CloseUnmount, ByClose
<1>19. ASSUME CloseEnds, UNCHANGED ownVars PROVE Owned'
  BY <1>19 DEF CloseEnds
<1>20. ASSUME RequesterCloses, UNCHANGED ownVars PROVE Owned'
  BY <1>20 DEF RequesterCloses
<1>21. ASSUME HandlerCloses, UNCHANGED ownVars PROVE Owned'
  BY <1>21 DEF HandlerCloses, BeginClose
<1>22. ASSUME NEW c \in Calls, Request(c) PROVE Owned'
  BY <1>22 DEF Request, Ask
<1>23. ASSUME NEW c \in Calls, MountBegins(c) PROVE Owned'
  BY <1>23 DEF MountBegins, Ended
<1>24. ASSUME NEW c \in Calls, Mount(c) PROVE Owned'
  BY <1>24 DEF Mount, Ended
<1>25. ASSUME NEW c \in Calls, MountReady(c) PROVE Owned'
  BY <1>25 DEF MountReady, StillWanted
<1>26. ASSUME NEW c \in Calls, DiscardMount(c) PROVE Owned'
  BY <1>26 DEF DiscardMount, Ended, Detach
<1>27. ASSUME NEW c \in Calls, LifetimeEnds(c) PROVE Owned'
  BY <1>27 DEF LifetimeEnds, peerVars
<1>28. ASSUME NEW u \in Unmounters, UnmountLook(u) PROVE Owned'
  BY <1>28 DEF UnmountLook, AfterOther, Registered
<1>29. ASSUME NEW u \in Unmounters, UnmountWait(u) PROVE Owned'
  BY <1>29 DEF UnmountWait, Cancelled
<1>30. ASSUME NEW u \in Unmounters, Unmount(u) PROVE Owned'
  BY <1>30 DEF Unmount, Cancelled, Detach
<1>31. ASSUME NEW u \in Unmounters, UnmountFinish(u) PROVE Owned'
  BY <1>31 DEF UnmountFinish, AfterUnmount
<1>32. CASE UNCHANGED vars
  BY <1>32 DEF vars, peerVars
<1>33. ASSUME NEW c \in Calls, Setup(c) PROVE Owned'
  BY <1>33 DEF Setup, Ended
<1>34. ASSUME NEW u \in Unmounters, UnmountRemoves(u) PROVE Owned'
  BY <1>34 DEF UnmountRemoves
<1> QED
    BY <1>1, <1>2, <1>3, <1>4, <1>5, <1>6, <1>7, <1>8, <1>9, <1>10, <1>11, <1>12, <1>13, <1>14,
       <1>15, <1>16, <1>17, <1>18, <1>19, <1>20, <1>21, <1>22, <1>23, <1>24, <1>25, <1>26, <1>27,
       <1>28, <1>29, <1>30, <1>31, <1>32, <1>33, <1>34
  DEF Next, PeerStep, Owner, Unmounting, PeerNext, Caller, Handler, ReadLoop, Closer

-----------------------------------------------------------------------------
LEMMA InitInv == Init => IInv
<1> USE PeerAssumption, ServerMountsAssumption
<1> SUFFICES ASSUME Init PROVE IInv OBVIOUS
<1>1. Base
  <2>1. IsFiniteSet({}) /\ Cardinality({}) = 0 BY FS_EmptySet
  <2>2. CallerTypes /\ HandlerTypes BY DEF Init, PeerInit, CallerTypes, HandlerTypes
  <2>5. WireTypes
    <3>1. reqs = <<>> /\ resps = <<>> /\ hand = None BY DEF Init, PeerInit
    <3>2. \A S : <<>> \in Seq(S) OBVIOUS
    <3> QED BY <3>1, <3>2 DEF WireTypes
  <2>3. SlotTypes BY <2>1 DEF Init, PeerInit, SlotTypes
  <2>4. CloseTypes /\ TableTypes BY DEF Init, PeerInit, CloseTypes, TableTypes
  <2> QED BY <2>2, <2>3, <2>4, <2>5 DEF Base
<1>2. Way = {} /\ Back = {} BY DEF Init, PeerInit, Way, Back
<1>3. SentOnce /\ HandledOnce
  BY <1>2, UnmounterFacts DEF Init, PeerInit, SentOnce, HandledOnce, Arriving, Asked, New
<1>4. TableTrue /\ MountInTable /\ Gone /\ Marked /\ Owned
  BY DEF Init, PeerInit, TableTrue, MountInTable, Gone, Marked, Owned
<1>5. GivenOnce /\ Released
  BY <1>2, UnmounterFacts DEF Init, PeerInit, GivenOnce, Released
<1> QED BY <1>1, <1>3, <1>4, <1>5 DEF IInv

LEMMA Inductive == Spec => []IInv
<1>1. ASSUME IInv, [Next]_vars PROVE IInv'
  <2>1. Base'
    BY <1>1, CallerStep, WireStep, HandlerStep, SlotStep, CloseStep, TableStep DEF IInv, Base
  <2>2. SentOnce' BY <1>1, WireStep DEF IInv
  <2>3. HandledOnce' BY <1>1, HandledStep DEF IInv
  <2>4. TableTrue' /\ MountInTable' BY <1>1, TableTrueStep, MountInTableStep DEF IInv
  <2>5. GivenOnce' /\ Released' BY <1>1, GivenStep, ReleasedStep DEF IInv
  <2>6. Gone' /\ Marked' /\ Owned' BY <1>1, GoneStep, MarkedStep, OwnedStep DEF IInv
  <2> QED BY <2>1, <2>2, <2>3, <2>4, <2>5, <2>6 DEF IInv
<1> QED BY InitInv, <1>1, PTL DEF Spec

-----------------------------------------------------------------------------
(***************************************************************************)
(* The variables keep their types; in particular a handler holds a slot of *)
(* Peer.sem exactly as long as it runs, and never more than MaxInFlight    *)
(* run.                                                                    *)
(***************************************************************************)
THEOREM TypeCorrect == Spec => []TypeOK
<1>1. IInv => TypeOK BY TypesHold DEF IInv
<1> QED BY Inductive, <1>1, PTL

(***************************************************************************)
(* No mount of mountRemoteFS is forgotten: it is in the table or with its  *)
(* handler, and for one in the table somebody is left who unmounts it,     *)
(* whatever cancel frames, releases and closes cross it.                   *)
(***************************************************************************)
THEOREM NoMountForgotten == Spec => []MountHasOwner
<1>1. IInv => MountHasOwner BY DEF IInv, MountInTable, Owned, MountHasOwner
<1> QED BY Inductive, <1>1, PTL

(***************************************************************************)
(* When unmountRemoteFS returns without an error nothing with its mountId  *)
(* is mounted, also when another unmounter did the work.                   *)
(***************************************************************************)
THEOREM UnmountIsTrue == Spec => UnmountMeansGone
<1> DEFINE A == \A u \in Unmounters : upc[u] # "done" /\ upc'[u] = "done" /\ u \notin uerr' =>
       \A c \in mounted' : MountOf[c] # Unmounted(u) \/ hpc'[c] = "discard" \/ c \in stuck'
<1>1. ASSUME IInv, [Next]_vars PROVE [A]_vars
  <2> SUFFICES ASSUME Next, NEW u \in Unmounters, upc[u] # "done", upc'[u] = "done", u \notin uerr',
                      NEW c \in mounted', MountOf[c] = Unmounted(u), c \notin stuck'
               PROVE  hpc'[c] = "discard"
    BY <1>1
  <2> USE PeerAssumption, ServerMountsAssumption DEF requester, wire, handlers, unmounts, ownVars, table, history
  <2>1. UnmountLook(u) \/ UnmountRemoves(u)
    <3>1. upc \in [Unmounters -> {"none", "look", "wait", "unmount", "unmounted", "remove", "done"}]
      BY <1>1 DEF IInv, Base, CloseTypes
    <3>2. ~PeerStep BY <1>1, PeerLeaves DEF IInv
    <3>3. ASSUME NEW d \in Calls, Request(d) \/ Owner(d) \/ LifetimeEnds(d) PROVE FALSE
      BY <3>3 DEF Request, Owner, MountBegins, Setup, Mount, MountReady, DiscardMount, LifetimeEnds, peerVars
    <3>4. ASSUME NEW v \in Unmounters, Unmounting(v) PROVE UnmountLook(u) \/ UnmountRemoves(u)
      BY <3>1, <3>4 DEF Unmounting, UnmountLook, UnmountWait, Unmount, UnmountFinish, AfterUnmount,
        UnmountRemoves, AfterOther
    <3> QED BY <3>2, <3>3, <3>4 DEF Next
  <2>2. CASE UnmountLook(u)
    <3>1. UNCHANGED <<hpc, mounted, stuck>> /\ fsMounting = None /\ ~Registered(Unmounted(u))
      BY <1>1, <2>2 DEF UnmountLook, AfterOther, IInv, Base, CloseTypes
    <3> QED BY <1>1, <3>1 DEF IInv, Base, TableTypes, MountInTable, TableTrue, Registered
  <2>3. CASE UnmountRemoves(u)
    BY <1>1, <2>3 DEF UnmountRemoves, IInv, Base, TableTypes, Gone
  <2> QED BY <2>1, <2>2, <2>3
<1>2. Spec => [][A]_vars
  BY Inductive, <1>1, PTL DEF Spec
<1> QED BY <1>2 DEF A, UnmountMeansGone

(***************************************************************************)
(* A mount that is registered has its marker for the next server, unless   *)
(* it was set up before unmountRemoteFS removed the directory of the one   *)
(* before it.                                                              *)
(***************************************************************************)
THEOREM MarkKept == Spec => []MountIsMarked
<1>1. IInv => MountIsMarked
  <2> SUFFICES ASSUME IInv, fsMounts \in mounted \ raced PROVE marker BY DEF MountIsMarked
  <2> QED BY DEF IInv, Base, TableTypes, Marked
<1> QED BY Inductive, <1>1, PTL
=============================================================================
