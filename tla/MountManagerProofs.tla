------------------------- MODULE MountManagerProofs -------------------------
(***************************************************************************)
(* Proofs about MountManager for any number of commands, any of which may  *)
(* time out and have its mount used, and also when the start is undone.    *)
(***************************************************************************)
EXTENDS MountManager, FiniteSetTheorems, SequenceTheorems, TLAPS

(***************************************************************************)
(* The types of the variables, in the shape in which the steps use them.   *)
(***************************************************************************)
ServerTypes ==
  /\ cpc \in [Commands -> {"idle", "export", "exporting", "opened", "offer", "offering", "send",
                           "running", "over"}]
  /\ client \in BOOLEAN /\ fsPeer \in BOOLEAN /\ speer \in {"open", "closed"}
  /\ serves \in BOOLEAN /\ exported \in BOOLEAN /\ offered \in BOOLEAN /\ crossed \in BOOLEAN
  /\ exporting \in Commands \cup {None} /\ offering \in Commands \cup {None}
  /\ late \subseteq Commands

PeerTypes ==
  /\ hpc \in [Commands -> {"none", "onmount", "setup", "mounting", "ready", "losing", "discard",
                           "mounted", "undoing"}]
  /\ result \in [Commands -> {None, "ok", "error"}]
  /\ ctxDone \subseteq Commands /\ listed \in BOOLEAN /\ stage \in {"open", "done"}
  /\ upc \in [Unmounters -> {"none", "look", "unmount", "remove", "done"}]

ManagerTypes ==
  /\ entry \in Commands \cup {None}
  /\ mstage \in {"open", "stopping", "closing", "unmount", "remove", "closed"}
  /\ taken \in [Unmounters \cup {Close} -> Commands \cup {None}]

DriverTypes ==
  /\ stack \in Seq(Commands)
  /\ marker \in BOOLEAN
  /\ ended \subseteq Commands /\ hung \subseteq Commands /\ stuck \subseteq Commands
  /\ mctx \in [Commands -> {"none", "live", "cancelled", "tried"}]

Types == ServerTypes /\ PeerTypes /\ ManagerTypes /\ DriverTypes

(***************************************************************************)
(* One command opens the working tree and one asks for the mount; nothing  *)
(* is kept for a session whose client is gone; and what is exported, or    *)
(* about to be, is served by the peer as long as that is open.             *)
(***************************************************************************)
Server ==
  /\ \A c \in Commands : /\ cpc[c] \in {"exporting", "opened"} <=> exporting = c
                         /\ cpc[c] = "offering" <=> offering = c
                         /\ cpc[c] = "opened" /\ speer = "open" => serves /\ ~exported
  /\ fsPeer \/ offered \/ exported => client
  /\ exported /\ speer = "open" => serves
  /\ offered => offering = None

(***************************************************************************)
(* Nothing happens twice: a command sends one create, whose handler mounts *)
(* once, answers once and undoes once; a create is cancelled once; and the *)
(* peer closes once.                                                       *)
(***************************************************************************)
Early == {"idle", "export", "exporting", "opened", "offer"}

Once ==
  /\ \A c \in Commands :
       /\ cpc[c] \in Early =>
            /\ hpc[c] = "none" /\ result[c] = None /\ c \notin late
            /\ mctx[c] = "none" /\ upc[<<"handler", c>>] = "none"
       /\ result[c] # None => hpc[c] = "none"
       /\ hpc[c] \in {"onmount", "setup", "mounting"} => mctx[c] = "none"
       /\ upc[<<"handler", c>>] # "none" => hpc[c] \in {"undoing", "none"}
       /\ upc[<<"cancel", c>>] # "none" => c \in late
  /\ stage = "open" => upc[<<"close", None>>] = "none" /\ mstage # "stopping"

(***************************************************************************)
(* Somebody waits for the answer of every create: a handler whose command  *)
(* has gone on, or whose peer has closed, has its context cancelled.       *)
(***************************************************************************)
Awaited ==
  /\ \A c \in Commands :
       /\ result[c] # None => cpc[c] = "offering"
       /\ hpc[c] # "none" /\ c \notin ctxDone /\ Connected => cpc[c] = "offering" /\ c \notin late
       /\ hpc[c] # "none" /\ stage # "open" => c \in ctxDone

(***************************************************************************)
(* The mount point: a mount is there at most once, from its Mount until it *)
(* is taken away, and it ends after that.                                  *)
(***************************************************************************)
MountPoint ==
  /\ \A i, j \in 1..Len(stack) : stack[i] = stack[j] => i = j
  /\ \A c \in Range(stack) : c \notin ended /\ mctx[c] # "none"
  /\ \A c \in ended : mctx[c] # "none"

(***************************************************************************)
(* As long as no creates crossed: one create at a time is at work, and     *)
(* nobody unmounts anything while its result is wanted.                    *)
(***************************************************************************)
Quiet == \A u \in Unmounters : upc[u] \in {"none", "done"}

Asked(c) == hpc[c] # "none" \/ result[c] # None

InTurn ==
  /\ \A c \in Commands :
       /\ \A d \in Commands : Asked(c) /\ Asked(d) => c = d
       /\ hpc[c] # "none" /\ c \notin ctxDone => Quiet
       /\ result[c] # None /\ c \notin late /\ stage = "open" => Quiet
  /\ offered /\ stage = "open" => Quiet /\ \A c \in Commands : hpc[c] = "none"

(***************************************************************************)
(* What a handler found when it looked is then still true when it acts:    *)
(* its mount is the only one at the path, the registered mount is that     *)
(* one, and no removal of its marker is outstanding.                       *)
(***************************************************************************)
OneMount ==
  /\ \A c \in Commands :
       /\ hpc[c] # "losing"
       /\ hpc[c] \in {"setup", "mounting", "ready", "discard"} => entry = None
       /\ hpc[c] = "mounting" => stack = <<>>
       /\ hpc[c] = "ready" /\ c \notin ctxDone => stack = <<c>> /\ mctx[c] = "live"
       /\ hpc[c] \in {"mounting", "ready"} /\ c \notin ctxDone => marker
  /\ entry # None =>
       /\ stack = <<entry>> /\ mctx[entry] = "live" /\ marker
       /\ \A u \in Unmounters : upc[u] \notin {"unmount", "remove"}

(***************************************************************************)
(* What is reported, and recorded by the server, is in the table, until    *)
(* one of the two closes.                                                  *)
(***************************************************************************)
Reported ==
  stage = "open" /\ mstage = "open" =>
    /\ \A c \in Commands :
         /\ hpc[c] = "mounted" /\ c \notin ctxDone => entry # None
         /\ result[c] \notin {None, "error"} /\ c \notin late => entry # None
    /\ offered => entry # None

Steady == ~crossed => InTurn /\ OneMount /\ Reported

(***************************************************************************)
(* Somebody is in charge of every mount that was not busy: its handler,    *)
(* the table, an unmounter, or Close.  Close waits for the handlers and    *)
(* empties the table, and nobody fills it again.                           *)
(***************************************************************************)
Holding == {"ready", "losing", "discard"}

InCharge(c) ==
  \/ hpc[c] \in Holding
  \/ entry = c
  \/ \E u \in Unmounters : taken[u] = c /\ upc[u] = "unmount"
  \/ taken[Close] = c /\ mstage = "unmount"

Owned == \A c \in Range(stack) \ stuck : InCharge(c)

Shut ==
  mstage \in {"unmount", "remove", "closed"} =>
    /\ entry = None
    /\ \A c \in Commands : hpc[c] \notin {"setup", "mounting", "ready", "losing", "discard"}

IInv == Types /\ Server /\ Once /\ Awaited /\ MountPoint /\ Steady /\ Owned /\ Shut

-----------------------------------------------------------------------------
(***************************************************************************)
(* The stack of mounts.                                                    *)
(***************************************************************************)
LEMMA FrontFacts ==
  ASSUME NEW s \in Seq(Commands), NEW c \in Range(s)
  PROVE  /\ s # <<>> /\ Len(s) \in Nat /\ Len(s) > 0
         /\ Front(s) \in Seq(Commands)
         /\ Len(Front(s)) = Len(s) - 1
         /\ \A i \in 1..Len(s) - 1 : Front(s)[i] = s[i]
         /\ Range(Front(s)) \subseteq Range(s)
<1>1. PICK i \in DOMAIN s : c = s[i] BY DEF Range
<1>2. s # <<>> /\ Len(s) \in Nat /\ Len(s) > 0 BY <1>1
<1>3. /\ Front(s) \in Seq(Commands) /\ Len(Front(s)) = Len(s) - 1
      /\ \A k \in 1..Len(s) - 1 : Front(s)[k] = s[k]
  <2> DEFINE n == Len(s) - 1
  <2>1. n \in Int /\ n >= 0 /\ \A k \in 1..n : s[k] \in Commands BY <1>2
  <2> HIDE DEF n
  <2>2. /\ SubSeq(s, 1, n) \in Seq(Commands)
        /\ Len(SubSeq(s, 1, n)) = IF 1 <= n THEN n - 1 + 1 ELSE 0
        /\ \A k \in 1..n - 1 + 1 : SubSeq(s, 1, n)[k] = s[1 + k - 1]
    BY <2>1, SubSeqProperties, SMTT(30)
  <2>3. /\ SubSeq(s, 1, n) \in Seq(Commands) /\ Len(SubSeq(s, 1, n)) = n
        /\ \A k \in 1..n : SubSeq(s, 1, n)[k] = s[k]
    BY <2>1, <2>2
  <2> QED BY <2>3 DEF Front, n
<1>4. Range(Front(s)) \subseteq Range(s)
  BY <1>2, <1>3 DEF Range
<1> QED BY <1>2, <1>3, <1>4

LEMMA AppendFacts ==
  ASSUME NEW s \in Seq(Commands), NEW c \in Commands
  PROVE  /\ Append(s, c) \in Seq(Commands)
         /\ Len(s) \in Nat /\ Len(Append(s, c)) = Len(s) + 1
         /\ \A i \in 1..Len(s) : Append(s, c)[i] = s[i]
         /\ Append(s, c)[Len(s) + 1] = c
         /\ Range(Append(s, c)) = Range(s) \cup {c}
<1>1. /\ Append(s, c) \in Seq(Commands)
      /\ Len(s) \in Nat /\ Len(Append(s, c)) = Len(s) + 1
      /\ \A i \in 1..Len(s) : Append(s, c)[i] = s[i]
      /\ Append(s, c)[Len(s) + 1] = c
  OBVIOUS
<1>2. DOMAIN s = 1..Len(s) /\ DOMAIN Append(s, c) = 1..Len(s) + 1 BY <1>1
<1>3. Range(Append(s, c)) = Range(s) \cup {c}
  BY <1>1, <1>2 DEF Range
<1> QED BY <1>1, <1>3

LEMMA RangeTyped == ASSUME NEW s \in Seq(Commands) PROVE Range(s) \subseteq Commands
BY DEF Range

LEMMA Path ==
  /\ Range(<<>>) = {}
  /\ \A c \in Commands : Range(<<c>>) = {c} /\ Append(<<>>, c) = <<c>>
BY DEF Range

LEMMA UnmounterFacts ==
  /\ <<"close", None>> \in Unmounters /\ Close \notin Unmounters
  /\ \A c \in Commands : <<"cancel", c>> \in Unmounters /\ <<"handler", c>> \in Unmounters
BY DEF Unmounters, Close

-----------------------------------------------------------------------------
(***************************************************************************)
(* The steps that have alternatives, one beside the other.                 *)
(***************************************************************************)
LEMMA OfferCases ==
  ASSUME Types, NEW c \in Commands, Offer(c)
  PROVE  /\ cpc[c] = "offer"
         /\ UNCHANGED <<session, export, offered, late, listed, stage, upc, manager, driver>>
         /\ \/ /\ offered /\ cpc' = [cpc EXCEPT ![c] = "send"]
               /\ UNCHANGED <<offering, crossed, hpc, result, ctxDone>>
            \/ /\ ~offered /\ offering = None /\ ~Connected
               /\ cpc' = [cpc EXCEPT ![c] = "offering"] /\ offering' = c
               /\ UNCHANGED <<crossed, hpc, result, ctxDone>>
            \/ /\ ~offered /\ offering = None /\ Connected
               /\ cpc' = [cpc EXCEPT ![c] = "offering"] /\ offering' = c
               /\ hpc' = [hpc EXCEPT ![c] = "onmount"] /\ crossed' = (crossed \/ AtWork)
               /\ UNCHANGED <<result, ctxDone>>
BY DEF Offer, Step, NobodyOffers, At

LEMMA GiveUpCases ==
  ASSUME Types, NEW c \in Commands, GiveUp(c)
  PROVE  /\ cpc[c] = "offering" /\ c \notin late /\ late' = late \cup {c}
         /\ UNCHANGED <<cpc, session, export, offering, offered, crossed, hpc, result, stage,
                        manager, driver>>
         /\ \/ ~Connected /\ UNCHANGED <<ctxDone, listed, upc>>
            \/ /\ Connected /\ listed' = FALSE /\ upc' = [upc EXCEPT ![<<"cancel", c>>] = "look"]
               /\ ctxDone' = ctxDone \cup {d \in {c} : hpc[d] # "none"}
BY DEF GiveUp

LEMMA OfferedCases ==
  ASSUME Types, NEW c \in Commands, Offered(c)
  PROVE  /\ cpc[c] = "offering" /\ offering' = None /\ result' = [result EXCEPT ![c] = None]
         /\ UNCHANGED <<session, export, late, crossed, hpc, ctxDone, listed, stage, upc, manager,
                        driver>>
         /\ \/ /\ c \notin late /\ result[c] = "ok" /\ result[c] # None
               /\ fsPeer /\ offered' = TRUE
               /\ cpc' = [cpc EXCEPT ![c] = "send"]
            \/ /\ result[c] # None \/ c \in late \/ speer = "closed"
               /\ offered' = offered /\ cpc' = [cpc EXCEPT ![c] = "over"]
BY DEF Offered, Step, Current, Types, ServerTypes

LEMMA KeepMountCases ==
  ASSUME Types, NEW c \in Commands, KeepMount(c)
  PROVE  /\ UNCHANGED <<cpc, server, stage, manager, driver>>
         /\ \/ /\ hpc[c] = "mounted" /\ stage = "open" /\ c \notin ctxDone
               /\ hpc' = [hpc EXCEPT ![c] = "none"]
               /\ result' = IF Connected THEN [result EXCEPT ![c] = "ok"] ELSE result
               /\ ctxDone' = ctxDone /\ upc' = upc
            \/ /\ hpc[c] = "mounted" /\ (stage # "open" \/ c \in ctxDone)
               /\ hpc' = [hpc EXCEPT ![c] = "undoing"]
               /\ upc' = [upc EXCEPT ![<<"handler", c>>] = "look"]
               /\ UNCHANGED <<result, ctxDone>>
            \/ /\ hpc[c] = "undoing" /\ upc[<<"handler", c>>] = "done"
               /\ hpc' = [hpc EXCEPT ![c] = "none"]
               /\ result' = IF c \notin ctxDone /\ Connected THEN [result EXCEPT ![c] = "error"]
                                                              ELSE result
               /\ ctxDone' = ctxDone \ {c} /\ upc' = upc
BY DEF KeepMount, At

LEMMA MountCases ==
  ASSUME Types, NEW c \in Commands, Mount(c)
  PROVE  /\ hpc[c] = "mounting"
         /\ UNCHANGED <<cpc, server, listed, stage, upc, manager, ended, hung, stuck>>
         /\ \/ /\ hpc' = [hpc EXCEPT ![c] = "ready"] /\ stack' = Append(stack, c)
               /\ mctx' = [mctx EXCEPT ![c] = IF c \in ctxDone THEN "cancelled" ELSE "live"]
               /\ UNCHANGED <<result, ctxDone, marker>>
            \/ /\ hpc' = [hpc EXCEPT ![c] = "none"]
               /\ result' = IF c \notin ctxDone /\ Connected THEN [result EXCEPT ![c] = "error"]
                                                              ELSE result
               /\ ctxDone' = ctxDone \ {c} /\ marker' = FALSE
               /\ UNCHANGED <<stack, mctx>>
BY DEF Mount, At, RemoveTree

(***************************************************************************)
(* The types, one part of the state after the other.                       *)
(***************************************************************************)
LEMMA ServerTypesStep ==
  ASSUME Types, [Next]_vars
  PROVE  ServerTypes'
<1> USE ManagerAssumption DEF Types, ServerTypes, session, export, server, peer, manager, driver
<1>1. ASSUME NEW c \in Commands, Command(c) PROVE ServerTypes'
  BY <1>1 DEF Command, Step
<1>2. ASSUME NEW c \in Commands, ExportLook(c) PROVE ServerTypes'
  BY <1>2 DEF ExportLook, Step
<1>3. ASSUME NEW c \in Commands, Register(c) PROVE ServerTypes'
  BY <1>3 DEF Register, Step
<1>4. ASSUME NEW c \in Commands, Record(c) PROVE ServerTypes'
  BY <1>4 DEF Record, Step, Current
<1>5. ASSUME NEW c \in Commands, Offer(c) PROVE ServerTypes'
  BY <1>5 DEF Offer, Step, NobodyOffers, At
<1>6. ASSUME NEW c \in Commands, GiveUp(c) PROVE ServerTypes'
  BY <1>6 DEF GiveUp, Connected
<1>7. ASSUME NEW c \in Commands, Offered(c) PROVE ServerTypes'
  BY <1>7 DEF Offered, Step, Current
<1>8. ASSUME NEW c \in Commands, MountBegins(c) PROVE ServerTypes'
  BY <1>8 DEF MountBegins, At, IsClosing
<1>9. ASSUME NEW c \in Commands, Setup(c) PROVE ServerTypes'
  BY <1>9 DEF Setup, At
<1>10. ASSUME NEW c \in Commands, Mount(c) PROVE ServerTypes'
  BY <1>10 DEF Mount, At, RemoveTree
<1>11. ASSUME NEW c \in Commands, MountReady(c) PROVE ServerTypes'
  BY <1>11 DEF MountReady, At, IsClosing
<1>12. ASSUME NEW c \in Commands, DiscardMount(c) PROVE ServerTypes'
  BY <1>12 DEF DiscardMount, At, Pop, Returned, Busy, Cancel
<1>13. ASSUME NEW c \in Commands, KeepMount(c) PROVE ServerTypes'
  BY <1>13 DEF KeepMount, At
<1>14. ASSUME NEW c \in Commands, Finish(c) PROVE ServerTypes'
  BY <1>14 DEF Finish
<1>15. ASSUME NEW c \in Commands, RequestEndsMount(c) PROVE ServerTypes'
  BY <1>15 DEF RequestEndsMount, Cancel, Follows
<1>16. ASSUME NEW c \in Commands, LifetimeEnds(c) PROVE ServerTypes'
  BY <1>16 DEF LifetimeEnds, Busy
<1>17. ASSUME NEW c \in Commands, Execute(c) PROVE ServerTypes'
  BY <1>17 DEF Execute, Step
<1>18. ASSUME NEW c \in Commands, CommandEnds(c) PROVE ServerTypes'
  BY <1>18 DEF CommandEnds, Step
<1>19. ASSUME NEW u \in Unmounters, UnmountLook(u) PROVE ServerTypes'
  BY <1>19 DEF UnmountLook, Deleted
<1>20. ASSUME NEW u \in Unmounters, Unmount(u) PROVE ServerTypes'
  BY <1>20 DEF Unmount, Pop, Returned, Busy, Cancel
<1>21. ASSUME NEW u \in Unmounters, UnmountRemoves(u) PROVE ServerTypes'
  BY <1>21 DEF UnmountRemoves, RemoveTree
<1>22. ASSUME RemoveClient PROVE ServerTypes'
  BY <1>22 DEF RemoveClient
<1>23. ASSUME ServerPeerCloses PROVE ServerTypes'
  BY <1>23 DEF ServerPeerCloses
<1>24. ASSUME PeerGone PROVE ServerTypes'
  BY <1>24 DEF PeerGone
<1>25. ASSUME PeerMeetsEnd PROVE ServerTypes'
  BY <1>25 DEF PeerMeetsEnd, BeginClose
<1>26. ASSUME StopBegins PROVE ServerTypes'
  BY <1>26 DEF StopBegins, BeginClose
<1>27. ASSUME StopCloses PROVE ServerTypes'
  BY <1>27 DEF StopCloses, PeerClosed
<1>28. ASSUME UndoBegins PROVE ServerTypes'
  BY <1>28 DEF UndoBegins
<1>29. ASSUME UndoEnds PROVE ServerTypes'
  BY <1>29 DEF UndoEnds, BeginClose
<1>30. ASSUME CloseTakes PROVE ServerTypes'
  BY <1>30 DEF CloseTakes, Idle, Active
<1>31. ASSUME CloseUnmounts PROVE ServerTypes'
  BY <1>31 DEF CloseUnmounts, Pop, Returned, Busy
<1>32. ASSUME CloseRemoves PROVE ServerTypes'
  BY <1>32 DEF CloseRemoves, RemoveTree, Cancel
<1>33. CASE UNCHANGED vars
  BY <1>33 DEF vars
<1> QED BY <1>1, <1>2, <1>3, <1>4, <1>5, <1>6, <1>7, <1>8, <1>9, <1>10, <1>11, <1>12, <1>13,
    <1>14, <1>15, <1>16, <1>17, <1>18, <1>19, <1>20, <1>21, <1>22, <1>23, <1>24, <1>25, <1>26,
    <1>27, <1>28, <1>29, <1>30, <1>31, <1>32, <1>33 DEF Next, ServerStep, Handler, Unmounting,
    Driver, Closing, Ends

LEMMA PeerTypesStep ==
  ASSUME Types, [Next]_vars
  PROVE  PeerTypes'
<1> USE UnmounterFacts DEF Types, PeerTypes, session, export, server, peer, manager, driver
<1>1. ASSUME NEW c \in Commands, Command(c) PROVE PeerTypes'
  BY <1>1 DEF Command, Step
<1>2. ASSUME NEW c \in Commands, ExportLook(c) PROVE PeerTypes'
  BY <1>2 DEF ExportLook, Step
<1>3. ASSUME NEW c \in Commands, Register(c) PROVE PeerTypes'
  BY <1>3 DEF Register, Step
<1>4. ASSUME NEW c \in Commands, Record(c) PROVE PeerTypes'
  BY <1>4 DEF Record, Step, Current
<1>5. ASSUME NEW c \in Commands, Offer(c) PROVE PeerTypes'
  BY <1>5 DEF Offer, Step, NobodyOffers, At
<1>6. ASSUME NEW c \in Commands, GiveUp(c) PROVE PeerTypes'
  <2>1. ctxDone' \subseteq Commands BY <1>6 DEF GiveUp
  <2>2. upc' \in [Unmounters -> {"none", "look", "unmount", "remove", "done"}] BY <1>6 DEF GiveUp
  <2>3. listed' \in BOOLEAN BY <1>6 DEF GiveUp
  <2> QED BY <1>6, <2>1, <2>2, <2>3 DEF GiveUp
<1>7. ASSUME NEW c \in Commands, Offered(c) PROVE PeerTypes'
  BY <1>7 DEF Offered, Step, Current
<1>8. ASSUME NEW c \in Commands, MountBegins(c) PROVE PeerTypes'
  BY <1>8 DEF MountBegins, At, IsClosing
<1>9. ASSUME NEW c \in Commands, Setup(c) PROVE PeerTypes'
  BY <1>9 DEF Setup, At
<1>10. ASSUME NEW c \in Commands, Mount(c) PROVE PeerTypes'
  BY <1>10 DEF Mount, At, RemoveTree
<1>11. ASSUME NEW c \in Commands, MountReady(c) PROVE PeerTypes'
  BY <1>11 DEF MountReady, At, IsClosing
<1>12. ASSUME NEW c \in Commands, DiscardMount(c) PROVE PeerTypes'
  BY <1>12 DEF DiscardMount, At, Pop, Returned, Busy, Cancel
<1>13. ASSUME NEW c \in Commands, KeepMount(c) PROVE PeerTypes'
  BY <1>13 DEF KeepMount, At
<1>14. ASSUME NEW c \in Commands, Finish(c) PROVE PeerTypes'
  BY <1>14 DEF Finish
<1>15. ASSUME NEW c \in Commands, RequestEndsMount(c) PROVE PeerTypes'
  BY <1>15 DEF RequestEndsMount, Cancel, Follows
<1>16. ASSUME NEW c \in Commands, LifetimeEnds(c) PROVE PeerTypes'
  BY <1>16 DEF LifetimeEnds, Busy
<1>17. ASSUME NEW c \in Commands, Execute(c) PROVE PeerTypes'
  BY <1>17 DEF Execute, Step
<1>18. ASSUME NEW c \in Commands, CommandEnds(c) PROVE PeerTypes'
  BY <1>18 DEF CommandEnds, Step
<1>19. ASSUME NEW u \in Unmounters, UnmountLook(u) PROVE PeerTypes'
  BY <1>19 DEF UnmountLook, Deleted
<1>20. ASSUME NEW u \in Unmounters, Unmount(u) PROVE PeerTypes'
  BY <1>20 DEF Unmount, Pop, Returned, Busy, Cancel
<1>21. ASSUME NEW u \in Unmounters, UnmountRemoves(u) PROVE PeerTypes'
  BY <1>21 DEF UnmountRemoves, RemoveTree
<1>22. ASSUME RemoveClient PROVE PeerTypes'
  BY <1>22 DEF RemoveClient
<1>23. ASSUME ServerPeerCloses PROVE PeerTypes'
  BY <1>23 DEF ServerPeerCloses
<1>24. ASSUME PeerGone PROVE PeerTypes'
  BY <1>24 DEF PeerGone
<1>25. ASSUME PeerMeetsEnd PROVE PeerTypes'
  BY <1>25 DEF PeerMeetsEnd, BeginClose
<1>26. ASSUME StopBegins PROVE PeerTypes'
  BY <1>26 DEF StopBegins, BeginClose
<1>27. ASSUME StopCloses PROVE PeerTypes'
  BY <1>27 DEF StopCloses, PeerClosed
<1>28. ASSUME UndoBegins PROVE PeerTypes'
  BY <1>28 DEF UndoBegins
<1>29. ASSUME UndoEnds PROVE PeerTypes'
  BY <1>29 DEF UndoEnds, BeginClose
<1>30. ASSUME CloseTakes PROVE PeerTypes'
  BY <1>30 DEF CloseTakes, Idle, Active
<1>31. ASSUME CloseUnmounts PROVE PeerTypes'
  BY <1>31 DEF CloseUnmounts, Pop, Returned, Busy
<1>32. ASSUME CloseRemoves PROVE PeerTypes'
  BY <1>32 DEF CloseRemoves, RemoveTree, Cancel
<1>33. CASE UNCHANGED vars
  BY <1>33 DEF vars
<1> QED BY <1>1, <1>2, <1>3, <1>4, <1>5, <1>6, <1>7, <1>8, <1>9, <1>10, <1>11, <1>12, <1>13,
    <1>14, <1>15, <1>16, <1>17, <1>18, <1>19, <1>20, <1>21, <1>22, <1>23, <1>24, <1>25, <1>26,
    <1>27, <1>28, <1>29, <1>30, <1>31, <1>32, <1>33 DEF Next, ServerStep, Handler, Unmounting,
    Driver, Closing, Ends

LEMMA ManagerTypesStep ==
  ASSUME Types, [Next]_vars
  PROVE  ManagerTypes'
<1> USE UnmounterFacts DEF Types, ManagerTypes, session, export, server, peer, manager, driver
<1>1. ASSUME NEW c \in Commands, Command(c) PROVE ManagerTypes'
  BY <1>1 DEF Command, Step
<1>2. ASSUME NEW c \in Commands, ExportLook(c) PROVE ManagerTypes'
  BY <1>2 DEF ExportLook, Step
<1>3. ASSUME NEW c \in Commands, Register(c) PROVE ManagerTypes'
  BY <1>3 DEF Register, Step
<1>4. ASSUME NEW c \in Commands, Record(c) PROVE ManagerTypes'
  BY <1>4 DEF Record, Step, Current
<1>5. ASSUME NEW c \in Commands, Offer(c) PROVE ManagerTypes'
  BY <1>5 DEF Offer, Step, NobodyOffers, At
<1>6. ASSUME NEW c \in Commands, GiveUp(c) PROVE ManagerTypes'
  BY <1>6 DEF GiveUp, Connected
<1>7. ASSUME NEW c \in Commands, Offered(c) PROVE ManagerTypes'
  BY <1>7 DEF Offered, Step, Current
<1>8. ASSUME NEW c \in Commands, MountBegins(c) PROVE ManagerTypes'
  BY <1>8 DEF MountBegins, At, IsClosing
<1>9. ASSUME NEW c \in Commands, Setup(c) PROVE ManagerTypes'
  BY <1>9 DEF Setup, At
<1>10. ASSUME NEW c \in Commands, Mount(c) PROVE ManagerTypes'
  BY <1>10 DEF Mount, At, RemoveTree
<1>11. ASSUME NEW c \in Commands, MountReady(c) PROVE ManagerTypes'
  BY <1>11 DEF MountReady, At, IsClosing
<1>12. ASSUME NEW c \in Commands, DiscardMount(c) PROVE ManagerTypes'
  BY <1>12 DEF DiscardMount, At, Pop, Returned, Busy, Cancel
<1>13. ASSUME NEW c \in Commands, KeepMount(c) PROVE ManagerTypes'
  BY <1>13 DEF KeepMount, At
<1>14. ASSUME NEW c \in Commands, Finish(c) PROVE ManagerTypes'
  BY <1>14 DEF Finish
<1>15. ASSUME NEW c \in Commands, RequestEndsMount(c) PROVE ManagerTypes'
  BY <1>15 DEF RequestEndsMount, Cancel, Follows
<1>16. ASSUME NEW c \in Commands, LifetimeEnds(c) PROVE ManagerTypes'
  BY <1>16 DEF LifetimeEnds, Busy
<1>17. ASSUME NEW c \in Commands, Execute(c) PROVE ManagerTypes'
  BY <1>17 DEF Execute, Step
<1>18. ASSUME NEW c \in Commands, CommandEnds(c) PROVE ManagerTypes'
  BY <1>18 DEF CommandEnds, Step
<1>19. ASSUME NEW u \in Unmounters, UnmountLook(u) PROVE ManagerTypes'
  BY <1>19 DEF UnmountLook, Deleted
<1>20. ASSUME NEW u \in Unmounters, Unmount(u) PROVE ManagerTypes'
  BY <1>20 DEF Unmount, Pop, Returned, Busy, Cancel
<1>21. ASSUME NEW u \in Unmounters, UnmountRemoves(u) PROVE ManagerTypes'
  BY <1>21 DEF UnmountRemoves, RemoveTree
<1>22. ASSUME RemoveClient PROVE ManagerTypes'
  BY <1>22 DEF RemoveClient
<1>23. ASSUME ServerPeerCloses PROVE ManagerTypes'
  BY <1>23 DEF ServerPeerCloses
<1>24. ASSUME PeerGone PROVE ManagerTypes'
  BY <1>24 DEF PeerGone
<1>25. ASSUME PeerMeetsEnd PROVE ManagerTypes'
  BY <1>25 DEF PeerMeetsEnd, BeginClose
<1>26. ASSUME StopBegins PROVE ManagerTypes'
  BY <1>26 DEF StopBegins, BeginClose
<1>27. ASSUME StopCloses PROVE ManagerTypes'
  BY <1>27 DEF StopCloses, PeerClosed
<1>28. ASSUME UndoBegins PROVE ManagerTypes'
  BY <1>28 DEF UndoBegins
<1>29. ASSUME UndoEnds PROVE ManagerTypes'
  BY <1>29 DEF UndoEnds, BeginClose
<1>30. ASSUME CloseTakes PROVE ManagerTypes'
  BY <1>30 DEF CloseTakes, Idle, Active
<1>31. ASSUME CloseUnmounts PROVE ManagerTypes'
  BY <1>31 DEF CloseUnmounts, Pop, Returned, Busy
<1>32. ASSUME CloseRemoves PROVE ManagerTypes'
  BY <1>32 DEF CloseRemoves, RemoveTree, Cancel
<1>33. CASE UNCHANGED vars
  BY <1>33 DEF vars
<1> QED BY <1>1, <1>2, <1>3, <1>4, <1>5, <1>6, <1>7, <1>8, <1>9, <1>10, <1>11, <1>12, <1>13,
    <1>14, <1>15, <1>16, <1>17, <1>18, <1>19, <1>20, <1>21, <1>22, <1>23, <1>24, <1>25, <1>26,
    <1>27, <1>28, <1>29, <1>30, <1>31, <1>32, <1>33 DEF Next, ServerStep, Handler, Unmounting,
    Driver, Closing, Ends

LEMMA DriverTypesStep ==
  ASSUME Types, [Next]_vars
  PROVE  DriverTypes'
<1> USE UnmounterFacts DEF Types, ManagerTypes, DriverTypes, session, export, server, peer,
     manager, driver
<1>1. ASSUME NEW c \in Commands, Command(c) PROVE DriverTypes'
  BY <1>1 DEF Command, Step
<1>2. ASSUME NEW c \in Commands, ExportLook(c) PROVE DriverTypes'
  BY <1>2 DEF ExportLook, Step
<1>3. ASSUME NEW c \in Commands, Register(c) PROVE DriverTypes'
  BY <1>3 DEF Register, Step
<1>4. ASSUME NEW c \in Commands, Record(c) PROVE DriverTypes'
  BY <1>4 DEF Record, Step, Current
<1>5. ASSUME NEW c \in Commands, Offer(c) PROVE DriverTypes'
  BY <1>5 DEF Offer, Step, NobodyOffers, At
<1>6. ASSUME NEW c \in Commands, GiveUp(c) PROVE DriverTypes'
  BY <1>6 DEF GiveUp, Connected
<1>7. ASSUME NEW c \in Commands, Offered(c) PROVE DriverTypes'
  BY <1>7 DEF Offered, Step, Current
<1>8. ASSUME NEW c \in Commands, MountBegins(c) PROVE DriverTypes'
  BY <1>8 DEF MountBegins, At, IsClosing
<1>9. ASSUME NEW c \in Commands, Setup(c) PROVE DriverTypes'
  BY <1>9 DEF Setup, At
<1>10. ASSUME NEW c \in Commands, Mount(c) PROVE DriverTypes'
  <2>1. stack' = stack \/ stack' = Append(stack, c) BY <1>10 DEF Mount
  <2>2. stack' \in Seq(Commands) BY <2>1, AppendFacts
  <2> QED BY <1>10, <2>2 DEF Mount, RemoveTree
<1>11. ASSUME NEW c \in Commands, MountReady(c) PROVE DriverTypes'
  BY <1>11 DEF MountReady, At, IsClosing
<1>12. ASSUME NEW c \in Commands, DiscardMount(c) PROVE DriverTypes'
  <2>1. CASE stack' = Front(stack) /\ c \in Range(stack)
    BY <1>12, <2>1, FrontFacts, RangeTyped DEF DiscardMount, Pop, Returned, Busy, Cancel
  <2>2. CASE stack' = stack
    BY <1>12, <2>2, RangeTyped DEF DiscardMount, Pop, Returned, Busy, Cancel
  <2> QED BY <1>12, <2>1, <2>2 DEF DiscardMount, Pop, Returned, Busy, Cancel
<1>13. ASSUME NEW c \in Commands, KeepMount(c) PROVE DriverTypes'
  BY <1>13 DEF KeepMount, At
<1>14. ASSUME NEW c \in Commands, Finish(c) PROVE DriverTypes'
  BY <1>14 DEF Finish
<1>15. ASSUME NEW c \in Commands, RequestEndsMount(c) PROVE DriverTypes'
  BY <1>15 DEF RequestEndsMount, Cancel, Follows
<1>16. ASSUME NEW c \in Commands, LifetimeEnds(c) PROVE DriverTypes'
  <2>1. CASE stack' = Front(stack) /\ c \in Range(stack)
    BY <1>16, <2>1, FrontFacts, RangeTyped DEF LifetimeEnds, Busy
  <2>2. CASE stack' = stack
    BY <1>16, <2>2, RangeTyped DEF LifetimeEnds, Busy
  <2> QED BY <1>16, <2>1, <2>2 DEF LifetimeEnds, Busy
<1>17. ASSUME NEW c \in Commands, Execute(c) PROVE DriverTypes'
  BY <1>17 DEF Execute, Step
<1>18. ASSUME NEW c \in Commands, CommandEnds(c) PROVE DriverTypes'
  BY <1>18 DEF CommandEnds, Step
<1>19. ASSUME NEW u \in Unmounters, UnmountLook(u) PROVE DriverTypes'
  BY <1>19 DEF UnmountLook, Deleted
<1>20. ASSUME NEW u \in Unmounters, Unmount(u) PROVE DriverTypes'
  <2>1. CASE stack' = Front(stack) /\ taken[u] \in Range(stack)
    BY <1>20, <2>1, FrontFacts, RangeTyped DEF Unmount, Pop, Returned, Busy, Cancel
  <2>2. CASE stack' = stack
    BY <1>20, <2>2, RangeTyped DEF Unmount, Pop, Returned, Busy, Cancel
  <2> QED BY <1>20, <2>1, <2>2 DEF Unmount, Pop, Returned, Busy, Cancel
<1>21. ASSUME NEW u \in Unmounters, UnmountRemoves(u) PROVE DriverTypes'
  BY <1>21 DEF UnmountRemoves, RemoveTree
<1>22. ASSUME RemoveClient PROVE DriverTypes'
  BY <1>22 DEF RemoveClient
<1>23. ASSUME ServerPeerCloses PROVE DriverTypes'
  BY <1>23 DEF ServerPeerCloses
<1>24. ASSUME PeerGone PROVE DriverTypes'
  BY <1>24 DEF PeerGone
<1>25. ASSUME PeerMeetsEnd PROVE DriverTypes'
  BY <1>25 DEF PeerMeetsEnd, BeginClose
<1>26. ASSUME StopBegins PROVE DriverTypes'
  BY <1>26 DEF StopBegins, BeginClose
<1>27. ASSUME StopCloses PROVE DriverTypes'
  BY <1>27 DEF StopCloses, PeerClosed
<1>28. ASSUME UndoBegins PROVE DriverTypes'
  BY <1>28 DEF UndoBegins
<1>29. ASSUME UndoEnds PROVE DriverTypes'
  BY <1>29 DEF UndoEnds, BeginClose
<1>30. ASSUME CloseTakes PROVE DriverTypes'
  BY <1>30 DEF CloseTakes, Idle, Active
<1>31. ASSUME CloseUnmounts PROVE DriverTypes'
  <2>1. CASE stack' = Front(stack) /\ taken[Close] \in Range(stack)
    BY <1>31, <2>1, FrontFacts, RangeTyped DEF CloseUnmounts, Pop, Returned, Busy
  <2>2. CASE stack' = stack
    BY <1>31, <2>2, RangeTyped DEF CloseUnmounts, Pop, Returned, Busy
  <2> QED BY <1>31, <2>1, <2>2 DEF CloseUnmounts, Pop, Returned, Busy
<1>32. ASSUME CloseRemoves PROVE DriverTypes'
  BY <1>32 DEF CloseRemoves, RemoveTree, Cancel
<1>33. CASE UNCHANGED vars
  BY <1>33 DEF vars
<1> QED BY <1>1, <1>2, <1>3, <1>4, <1>5, <1>6, <1>7, <1>8, <1>9, <1>10, <1>11, <1>12, <1>13,
    <1>14, <1>15, <1>16, <1>17, <1>18, <1>19, <1>20, <1>21, <1>22, <1>23, <1>24, <1>25, <1>26,
    <1>27, <1>28, <1>29, <1>30, <1>31, <1>32, <1>33 DEF Next, ServerStep, Handler, Unmounting,
    Driver, Closing, Ends

(***************************************************************************)
(* A command that opens the working tree, or asks for the mount, holds     *)
(* Server.fsExporting or Server.fsOffering until it has dealt with the     *)
(* outcome; it records the outcome only for the session's peer;            *)
(* removeClient clears what is kept for the session.                       *)
(***************************************************************************)
LEMMA ServerStepInv ==
  ASSUME Types, Server, [Next]_vars
  PROVE  Server'
<1> USE ManagerAssumption DEF Types, ServerTypes, Server, session, export, server, peer,
     manager, driver
<1>1. ASSUME NEW c \in Commands, Command(c) PROVE Server'
  BY <1>1 DEF Command, Step
<1>2. ASSUME NEW c \in Commands, ExportLook(c) PROVE Server'
  BY <1>2 DEF ExportLook, Step
<1>3. ASSUME NEW c \in Commands, Register(c) PROVE Server'
  BY <1>3 DEF Register, Step
<1>4. ASSUME NEW c \in Commands, Record(c) PROVE Server'
  BY <1>4 DEF Record, Step, Current
<1>5. ASSUME NEW c \in Commands, Offer(c) PROVE Server'
  BY <1>5 DEF Offer, Step, NobodyOffers, At
<1>6. ASSUME NEW c \in Commands, GiveUp(c) PROVE Server'
  BY <1>6 DEF GiveUp, Connected
<1>7. ASSUME NEW c \in Commands, Offered(c) PROVE Server'
  BY <1>7 DEF Offered, Step, Current
<1>8. ASSUME NEW c \in Commands, MountBegins(c) PROVE Server'
  BY <1>8 DEF MountBegins, At, IsClosing
<1>9. ASSUME NEW c \in Commands, Setup(c) PROVE Server'
  BY <1>9 DEF Setup, At
<1>10. ASSUME NEW c \in Commands, Mount(c) PROVE Server'
  BY <1>10 DEF Mount, At, RemoveTree
<1>11. ASSUME NEW c \in Commands, MountReady(c) PROVE Server'
  BY <1>11 DEF MountReady, At, IsClosing
<1>12. ASSUME NEW c \in Commands, DiscardMount(c) PROVE Server'
  BY <1>12 DEF DiscardMount, At, Pop, Returned, Busy, Cancel
<1>13. ASSUME NEW c \in Commands, KeepMount(c) PROVE Server'
  BY <1>13 DEF KeepMount, At
<1>14. ASSUME NEW c \in Commands, Finish(c) PROVE Server'
  BY <1>14 DEF Finish
<1>15. ASSUME NEW c \in Commands, RequestEndsMount(c) PROVE Server'
  BY <1>15 DEF RequestEndsMount, Cancel, Follows
<1>16. ASSUME NEW c \in Commands, LifetimeEnds(c) PROVE Server'
  BY <1>16 DEF LifetimeEnds, Busy
<1>17. ASSUME NEW c \in Commands, Execute(c) PROVE Server'
  BY <1>17 DEF Execute, Step
<1>18. ASSUME NEW c \in Commands, CommandEnds(c) PROVE Server'
  BY <1>18 DEF CommandEnds, Step
<1>19. ASSUME NEW u \in Unmounters, UnmountLook(u) PROVE Server'
  BY <1>19 DEF UnmountLook, Deleted
<1>20. ASSUME NEW u \in Unmounters, Unmount(u) PROVE Server'
  BY <1>20 DEF Unmount, Pop, Returned, Busy, Cancel
<1>21. ASSUME NEW u \in Unmounters, UnmountRemoves(u) PROVE Server'
  BY <1>21 DEF UnmountRemoves, RemoveTree
<1>22. ASSUME RemoveClient PROVE Server'
  BY <1>22 DEF RemoveClient
<1>23. ASSUME ServerPeerCloses PROVE Server'
  BY <1>23 DEF ServerPeerCloses
<1>24. ASSUME PeerGone PROVE Server'
  BY <1>24 DEF PeerGone
<1>25. ASSUME PeerMeetsEnd PROVE Server'
  BY <1>25 DEF PeerMeetsEnd, BeginClose
<1>26. ASSUME StopBegins PROVE Server'
  BY <1>26 DEF StopBegins, BeginClose
<1>27. ASSUME StopCloses PROVE Server'
  BY <1>27 DEF StopCloses, PeerClosed
<1>28. ASSUME UndoBegins PROVE Server'
  BY <1>28 DEF UndoBegins
<1>29. ASSUME UndoEnds PROVE Server'
  BY <1>29 DEF UndoEnds, BeginClose
<1>30. ASSUME CloseTakes PROVE Server'
  BY <1>30 DEF CloseTakes, Idle, Active
<1>31. ASSUME CloseUnmounts PROVE Server'
  BY <1>31 DEF CloseUnmounts, Pop, Returned, Busy
<1>32. ASSUME CloseRemoves PROVE Server'
  BY <1>32 DEF CloseRemoves, RemoveTree, Cancel
<1>33. CASE UNCHANGED vars
  BY <1>33 DEF vars
<1> QED BY <1>1, <1>2, <1>3, <1>4, <1>5, <1>6, <1>7, <1>8, <1>9, <1>10, <1>11, <1>12, <1>13,
    <1>14, <1>15, <1>16, <1>17, <1>18, <1>19, <1>20, <1>21, <1>22, <1>23, <1>24, <1>25, <1>26,
    <1>27, <1>28, <1>29, <1>30, <1>31, <1>32, <1>33 DEF Next, ServerStep, Handler, Unmounting,
    Driver, Closing, Ends

(***************************************************************************)
(* The steps that begin something find it not begun: a command leaves      *)
(* "offer" for good when it sends its create, GiveUp records it in late,   *)
(* and BeginClose leaves the open stage.                                   *)
(***************************************************************************)
LEMMA OnceStep ==
  ASSUME Types, Server, Once, [Next]_vars
  PROVE  Once'
<1> USE UnmounterFacts DEF Types, ServerTypes, PeerTypes, ManagerTypes, DriverTypes, Server,
     Once, Early, session, export, server, peer, manager, driver
<1>1. ASSUME NEW c \in Commands, Command(c) PROVE Once'
  BY <1>1 DEF Command, Step
<1>2. ASSUME NEW c \in Commands, ExportLook(c) PROVE Once'
  BY <1>2 DEF ExportLook, Step
<1>3. ASSUME NEW c \in Commands, Register(c) PROVE Once'
  BY <1>3 DEF Register, Step
<1>4. ASSUME NEW c \in Commands, Record(c) PROVE Once'
  BY <1>4 DEF Record, Step, Current
<1>5. ASSUME NEW c \in Commands, Offer(c) PROVE Once'
  BY <1>5 DEF Offer, Step, NobodyOffers, At
<1>6. ASSUME NEW c \in Commands, GiveUp(c) PROVE Once'
  BY <1>6 DEF GiveUp, Connected
<1>7. ASSUME NEW c \in Commands, Offered(c) PROVE Once'
  BY <1>7 DEF Offered, Step, Current
<1>8. ASSUME NEW c \in Commands, MountBegins(c) PROVE Once'
  BY <1>8 DEF MountBegins, At, IsClosing
<1>9. ASSUME NEW c \in Commands, Setup(c) PROVE Once'
  BY <1>9 DEF Setup, At
<1>10. ASSUME NEW c \in Commands, Mount(c) PROVE Once'
  BY <1>10 DEF Mount, At, RemoveTree
<1>11. ASSUME NEW c \in Commands, MountReady(c) PROVE Once'
  BY <1>11 DEF MountReady, At, IsClosing
<1>12. ASSUME NEW c \in Commands, DiscardMount(c) PROVE Once'
  BY <1>12 DEF DiscardMount, At, Pop, Returned, Busy, Cancel
<1>13. ASSUME NEW c \in Commands, KeepMount(c) PROVE Once'
  BY <1>13 DEF KeepMount, At
<1>14. ASSUME NEW c \in Commands, Finish(c) PROVE Once'
  BY <1>14 DEF Finish
<1>15. ASSUME NEW c \in Commands, RequestEndsMount(c) PROVE Once'
  BY <1>15 DEF RequestEndsMount, Cancel, Follows
<1>16. ASSUME NEW c \in Commands, LifetimeEnds(c) PROVE Once'
  BY <1>16 DEF LifetimeEnds, Busy
<1>17. ASSUME NEW c \in Commands, Execute(c) PROVE Once'
  BY <1>17 DEF Execute, Step
<1>18. ASSUME NEW c \in Commands, CommandEnds(c) PROVE Once'
  BY <1>18 DEF CommandEnds, Step
<1>19. ASSUME NEW u \in Unmounters, UnmountLook(u) PROVE Once'
  BY SMTT(30), <1>19 DEF UnmountLook, Deleted
<1>20. ASSUME NEW u \in Unmounters, Unmount(u) PROVE Once'
  BY <1>20 DEF Unmount, Pop, Returned, Busy, Cancel
<1>21. ASSUME NEW u \in Unmounters, UnmountRemoves(u) PROVE Once'
  BY SMTT(30), <1>21 DEF UnmountRemoves, RemoveTree
<1>22. ASSUME RemoveClient PROVE Once'
  BY <1>22 DEF RemoveClient
<1>23. ASSUME ServerPeerCloses PROVE Once'
  BY <1>23 DEF ServerPeerCloses
<1>24. ASSUME PeerGone PROVE Once'
  BY <1>24 DEF PeerGone
<1>25. ASSUME PeerMeetsEnd PROVE Once'
  BY <1>25 DEF PeerMeetsEnd, BeginClose
<1>26. ASSUME StopBegins PROVE Once'
  BY <1>26 DEF StopBegins, BeginClose
<1>27. ASSUME StopCloses PROVE Once'
  BY <1>27 DEF StopCloses, PeerClosed
<1>28. ASSUME UndoBegins PROVE Once'
  BY <1>28 DEF UndoBegins
<1>29. ASSUME UndoEnds PROVE Once'
  BY <1>29 DEF UndoEnds, BeginClose
<1>30. ASSUME CloseTakes PROVE Once'
  BY <1>30 DEF CloseTakes, Idle, Active
<1>31. ASSUME CloseUnmounts PROVE Once'
  BY <1>31 DEF CloseUnmounts, Pop, Returned, Busy
<1>32. ASSUME CloseRemoves PROVE Once'
  BY <1>32 DEF CloseRemoves, RemoveTree, Cancel
<1>33. CASE UNCHANGED vars
  BY <1>33 DEF vars
<1> QED BY <1>1, <1>2, <1>3, <1>4, <1>5, <1>6, <1>7, <1>8, <1>9, <1>10, <1>11, <1>12, <1>13,
    <1>14, <1>15, <1>16, <1>17, <1>18, <1>19, <1>20, <1>21, <1>22, <1>23, <1>24, <1>25, <1>26,
    <1>27, <1>28, <1>29, <1>30, <1>31, <1>32, <1>33 DEF Next, ServerStep, Handler, Unmounting,
    Driver, Closing, Ends

(***************************************************************************)
(* A command goes on with the answer, or after GiveUp has cancelled the    *)
(* handler, or when the server's peer has closed; closing the client's     *)
(* peer cancels every handler.                                             *)
(***************************************************************************)
LEMMA AwaitedStep ==
  ASSUME Types, Server, Once, Awaited, [Next]_vars
  PROVE  Awaited'
<1> USE UnmounterFacts, ManagerAssumption DEF Types, ServerTypes, PeerTypes, Server, Once,
     Early, Awaited, Connected, session, export, server, peer, manager, driver
<1>1. ASSUME NEW c \in Commands, Command(c) PROVE Awaited'
  BY <1>1 DEF Command, Step
<1>2. ASSUME NEW c \in Commands, ExportLook(c) PROVE Awaited'
  BY <1>2 DEF ExportLook, Step
<1>3. ASSUME NEW c \in Commands, Register(c) PROVE Awaited'
  BY <1>3 DEF Register, Step
<1>4. ASSUME NEW c \in Commands, Record(c) PROVE Awaited'
  BY <1>4 DEF Record, Step, Current
<1>5. ASSUME NEW c \in Commands, Offer(c) PROVE Awaited'
  <2> USE DEF Early
  <2>0. cpc[c] = "offer" /\ UNCHANGED <<late, speer, stage>> BY <1>5, OfferCases
  <2>1. hpc[c] = "none" /\ c \notin late BY <2>0
  <2>2. CASE UNCHANGED <<hpc, result, ctxDone>>
    <3>1. \A d \in Commands \ {c} : cpc'[d] = cpc[d] BY <1>5, OfferCases
    <3>2. result[c] = None BY <2>0
    <3> QED BY <2>0, <2>1, <2>2, <3>1, <3>2
  <2>3. CASE /\ hpc' = [hpc EXCEPT ![c] = "onmount"] /\ UNCHANGED <<result, ctxDone>>
             /\ cpc' = [cpc EXCEPT ![c] = "offering"] /\ Connected
    BY <2>0, <2>1, <2>3
  <2> QED BY <1>5, <2>2, <2>3, OfferCases
<1>6. ASSUME NEW c \in Commands, GiveUp(c) PROVE Awaited'
  BY <1>6 DEF GiveUp, Connected
<1>7. ASSUME NEW c \in Commands, Offered(c) PROVE Awaited'
  <2>1. /\ cpc[c] = "offering" /\ \A d \in Commands \ {c} : cpc'[d] = cpc[d]
        /\ result' = [result EXCEPT ![c] = None] /\ UNCHANGED <<hpc, ctxDone, late, speer, stage>>
        /\ result[c] # None \/ c \in late \/ speer = "closed"
    BY <1>7 DEF Offered, Step, Current
  <2>2. ASSUME hpc[c] # "none", c \notin ctxDone, Connected PROVE FALSE BY <2>1, <2>2
  <2> QED BY <2>1, <2>2
<1>8. ASSUME NEW c \in Commands, MountBegins(c) PROVE Awaited'
  BY <1>8 DEF MountBegins, At, IsClosing
<1>9. ASSUME NEW c \in Commands, Setup(c) PROVE Awaited'
  BY <1>9 DEF Setup, At
<1>10. ASSUME NEW c \in Commands, Mount(c) PROVE Awaited'
  BY <1>10 DEF Mount, At, RemoveTree
<1>11. ASSUME NEW c \in Commands, MountReady(c) PROVE Awaited'
  BY <1>11 DEF MountReady, At, IsClosing
<1>12. ASSUME NEW c \in Commands, DiscardMount(c) PROVE Awaited'
  BY <1>12 DEF DiscardMount, At, Pop, Returned, Busy, Cancel
<1>13. ASSUME NEW c \in Commands, KeepMount(c) PROVE Awaited'
  BY <1>13 DEF KeepMount, At
<1>14. ASSUME NEW c \in Commands, Finish(c) PROVE Awaited'
  BY <1>14 DEF Finish
<1>15. ASSUME NEW c \in Commands, RequestEndsMount(c) PROVE Awaited'
  BY <1>15 DEF RequestEndsMount, Cancel, Follows
<1>16. ASSUME NEW c \in Commands, LifetimeEnds(c) PROVE Awaited'
  BY <1>16 DEF LifetimeEnds, Busy
<1>17. ASSUME NEW c \in Commands, Execute(c) PROVE Awaited'
  BY <1>17 DEF Execute, Step
<1>18. ASSUME NEW c \in Commands, CommandEnds(c) PROVE Awaited'
  BY <1>18 DEF CommandEnds, Step
<1>19. ASSUME NEW u \in Unmounters, UnmountLook(u) PROVE Awaited'
  BY <1>19 DEF UnmountLook, Deleted
<1>20. ASSUME NEW u \in Unmounters, Unmount(u) PROVE Awaited'
  BY <1>20 DEF Unmount, Pop, Returned, Busy, Cancel
<1>21. ASSUME NEW u \in Unmounters, UnmountRemoves(u) PROVE Awaited'
  BY <1>21 DEF UnmountRemoves, RemoveTree
<1>22. ASSUME RemoveClient PROVE Awaited'
  BY <1>22 DEF RemoveClient
<1>23. ASSUME ServerPeerCloses PROVE Awaited'
  BY <1>23 DEF ServerPeerCloses
<1>24. ASSUME PeerGone PROVE Awaited'
  BY <1>24 DEF PeerGone
<1>25. ASSUME PeerMeetsEnd PROVE Awaited'
  BY <1>25 DEF PeerMeetsEnd, BeginClose
<1>26. ASSUME StopBegins PROVE Awaited'
  BY <1>26 DEF StopBegins, BeginClose
<1>27. ASSUME StopCloses PROVE Awaited'
  BY <1>27 DEF StopCloses, PeerClosed
<1>28. ASSUME UndoBegins PROVE Awaited'
  BY <1>28 DEF UndoBegins
<1>29. ASSUME UndoEnds PROVE Awaited'
  BY <1>29 DEF UndoEnds, BeginClose
<1>30. ASSUME CloseTakes PROVE Awaited'
  BY <1>30 DEF CloseTakes, Idle, Active
<1>31. ASSUME CloseUnmounts PROVE Awaited'
  BY <1>31 DEF CloseUnmounts, Pop, Returned, Busy
<1>32. ASSUME CloseRemoves PROVE Awaited'
  BY <1>32 DEF CloseRemoves, RemoveTree, Cancel
<1>33. CASE UNCHANGED vars
  BY <1>33 DEF vars
<1> QED BY <1>1, <1>2, <1>3, <1>4, <1>5, <1>6, <1>7, <1>8, <1>9, <1>10, <1>11, <1>12, <1>13,
    <1>14, <1>15, <1>16, <1>17, <1>18, <1>19, <1>20, <1>21, <1>22, <1>23, <1>24, <1>25, <1>26,
    <1>27, <1>28, <1>29, <1>30, <1>31, <1>32, <1>33 DEF Next, ServerStep, Handler, Unmounting,
    Driver, Closing, Ends

(***************************************************************************)
(* An unmount takes one mount away and brings none.                        *)
(***************************************************************************)
LEMMA PopKeeps ==
  ASSUME Types, MountPoint, NEW c \in Range(stack), stack' = Front(stack), ended' = ended,
         \A d \in Commands : mctx[d] # "none" => mctx'[d] # "none"
  PROVE  MountPoint'
<1>1. \A i, j \in 1..Len(stack') : stack'[i] = stack'[j] => i = j
  BY FrontFacts DEF Types, DriverTypes, MountPoint
<1>2. Range(stack') \subseteq Range(stack) /\ Range(stack) \subseteq Commands
  BY FrontFacts, RangeTyped DEF Types, DriverTypes
<1> QED BY <1>1, <1>2 DEF Types, DriverTypes, MountPoint

(***************************************************************************)
(* Only Mount brings a mount, and its handler has not mounted before.      *)
(***************************************************************************)
LEMMA MountPointStep ==
  ASSUME Types, Once, MountPoint, [Next]_vars
  PROVE  MountPoint'
<1> USE RangeTyped DEF Types, ServerTypes, PeerTypes, ManagerTypes, DriverTypes, Once,
     MountPoint, session, export, server, peer, manager, driver
<1>1. ASSUME NEW c \in Commands, Command(c) PROVE MountPoint'
  BY <1>1 DEF Command, Step
<1>2. ASSUME NEW c \in Commands, ExportLook(c) PROVE MountPoint'
  BY <1>2 DEF ExportLook, Step
<1>3. ASSUME NEW c \in Commands, Register(c) PROVE MountPoint'
  BY <1>3 DEF Register, Step
<1>4. ASSUME NEW c \in Commands, Record(c) PROVE MountPoint'
  BY <1>4 DEF Record, Step, Current
<1>5. ASSUME NEW c \in Commands, Offer(c) PROVE MountPoint'
  BY <1>5 DEF Offer, Step, NobodyOffers, At
<1>6. ASSUME NEW c \in Commands, GiveUp(c) PROVE MountPoint'
  BY <1>6 DEF GiveUp, Connected
<1>7. ASSUME NEW c \in Commands, Offered(c) PROVE MountPoint'
  BY <1>7 DEF Offered, Step, Current
<1>8. ASSUME NEW c \in Commands, MountBegins(c) PROVE MountPoint'
  BY <1>8 DEF MountBegins, At, IsClosing
<1>9. ASSUME NEW c \in Commands, Setup(c) PROVE MountPoint'
  BY <1>9 DEF Setup, At
<1>10. ASSUME NEW c \in Commands, Mount(c) PROVE MountPoint'
  <2>1. CASE stack' = Append(stack, c) /\ mctx'[c] # "none"
               /\ \A d \in Commands \ {c} : mctx'[d] = mctx[d]
    <3>1. c \notin Range(stack) /\ c \notin ended BY <1>10 DEF Mount
    <3>2. \A i \in 1..Len(stack) : stack[i] # c BY <3>1 DEF Range
    <3>3. \A i, j \in 1..Len(stack') : stack'[i] = stack'[j] => i = j BY <2>1, <3>2, AppendFacts
    <3>4. Range(stack') = Range(stack) \cup {c} /\ ended' = ended
      BY <1>10, <2>1, AppendFacts DEF Mount
    <3> QED BY <2>1, <3>1, <3>3, <3>4
  <2>2. CASE stack' = stack /\ mctx' = mctx BY <1>10, <2>2 DEF Mount
  <2> QED BY <1>10, <2>1, <2>2 DEF Mount
<1>11. ASSUME NEW c \in Commands, MountReady(c) PROVE MountPoint'
  BY <1>11 DEF MountReady, At, IsClosing
<1>12. ASSUME NEW c \in Commands, DiscardMount(c) PROVE MountPoint'
  <2>1. CASE stack' = Front(stack) /\ c \in Range(stack)
    BY <1>12, <2>1, PopKeeps DEF DiscardMount, Pop, Returned, Busy, Cancel
  <2>2. CASE stack' = stack
    BY <1>12, <2>2 DEF DiscardMount, Pop, Returned, Busy, Cancel
  <2> QED BY <1>12, <2>1, <2>2 DEF DiscardMount, Pop, Returned, Busy, Cancel
<1>13. ASSUME NEW c \in Commands, KeepMount(c) PROVE MountPoint'
  BY <1>13 DEF KeepMount, At
<1>14. ASSUME NEW c \in Commands, Finish(c) PROVE MountPoint'
  BY <1>14 DEF Finish
<1>15. ASSUME NEW c \in Commands, RequestEndsMount(c) PROVE MountPoint'
  BY <1>15 DEF RequestEndsMount, Cancel, Follows
<1>16. ASSUME NEW c \in Commands, LifetimeEnds(c) PROVE MountPoint'
  <2>1. CASE stack' = Front(stack) /\ c \in Range(stack)
    BY <1>16, <2>1, PopKeeps DEF LifetimeEnds, Busy
  <2>2. CASE stack' = stack
    BY <1>16, <2>2 DEF LifetimeEnds, Busy
  <2> QED BY <1>16, <2>1, <2>2 DEF LifetimeEnds, Busy
<1>17. ASSUME NEW c \in Commands, Execute(c) PROVE MountPoint'
  BY <1>17 DEF Execute, Step
<1>18. ASSUME NEW c \in Commands, CommandEnds(c) PROVE MountPoint'
  BY <1>18 DEF CommandEnds, Step
<1>19. ASSUME NEW u \in Unmounters, UnmountLook(u) PROVE MountPoint'
  BY <1>19 DEF UnmountLook, Deleted
<1>20. ASSUME NEW u \in Unmounters, Unmount(u) PROVE MountPoint'
  <2>1. CASE stack' = Front(stack) /\ taken[u] \in Range(stack)
    BY <1>20, <2>1, PopKeeps DEF Unmount, Pop, Returned, Busy, Cancel
  <2>2. CASE stack' = stack
    BY <1>20, <2>2 DEF Unmount, Pop, Returned, Busy, Cancel
  <2> QED BY <1>20, <2>1, <2>2 DEF Unmount, Pop, Returned, Busy, Cancel
<1>21. ASSUME NEW u \in Unmounters, UnmountRemoves(u) PROVE MountPoint'
  BY <1>21 DEF UnmountRemoves, RemoveTree
<1>22. ASSUME RemoveClient PROVE MountPoint'
  BY <1>22 DEF RemoveClient
<1>23. ASSUME ServerPeerCloses PROVE MountPoint'
  BY <1>23 DEF ServerPeerCloses
<1>24. ASSUME PeerGone PROVE MountPoint'
  BY <1>24 DEF PeerGone
<1>25. ASSUME PeerMeetsEnd PROVE MountPoint'
  BY <1>25 DEF PeerMeetsEnd, BeginClose
<1>26. ASSUME StopBegins PROVE MountPoint'
  BY <1>26 DEF StopBegins, BeginClose
<1>27. ASSUME StopCloses PROVE MountPoint'
  BY <1>27 DEF StopCloses, PeerClosed
<1>28. ASSUME UndoBegins PROVE MountPoint'
  BY <1>28 DEF UndoBegins
<1>29. ASSUME UndoEnds PROVE MountPoint'
  BY <1>29 DEF UndoEnds, BeginClose
<1>30. ASSUME CloseTakes PROVE MountPoint'
  BY <1>30 DEF CloseTakes, Idle, Active
<1>31. ASSUME CloseUnmounts PROVE MountPoint'
  <2>1. CASE stack' = Front(stack) /\ taken[Close] \in Range(stack)
    BY <1>31, <2>1, PopKeeps DEF CloseUnmounts, Pop, Returned, Busy
  <2>2. CASE stack' = stack
    BY <1>31, <2>2 DEF CloseUnmounts, Pop, Returned, Busy
  <2> QED BY <1>31, <2>1, <2>2 DEF CloseUnmounts, Pop, Returned, Busy
<1>32. ASSUME CloseRemoves PROVE MountPoint'
  BY <1>32 DEF CloseRemoves, RemoveTree, Cancel
<1>33. CASE UNCHANGED vars
  BY <1>33 DEF vars
<1> QED BY <1>1, <1>2, <1>3, <1>4, <1>5, <1>6, <1>7, <1>8, <1>9, <1>10, <1>11, <1>12, <1>13,
    <1>14, <1>15, <1>16, <1>17, <1>18, <1>19, <1>20, <1>21, <1>22, <1>23, <1>24, <1>25, <1>26,
    <1>27, <1>28, <1>29, <1>30, <1>31, <1>32, <1>33 DEF Next, ServerStep, Handler, Unmounting,
    Driver, Closing, Ends

(***************************************************************************)
(* Creates that crossed have crossed for good.                             *)
(***************************************************************************)
LEMMA CrossedStays ==
  ASSUME ~crossed', [Next]_vars
  PROVE  ~crossed
<1> USE DEF session, export, server, peer, manager, driver
<1>1. ASSUME NEW c \in Commands, Command(c) PROVE ~crossed
  BY <1>1 DEF Command, Step
<1>2. ASSUME NEW c \in Commands, ExportLook(c) PROVE ~crossed
  BY <1>2 DEF ExportLook, Step
<1>3. ASSUME NEW c \in Commands, Register(c) PROVE ~crossed
  BY <1>3 DEF Register, Step
<1>4. ASSUME NEW c \in Commands, Record(c) PROVE ~crossed
  BY <1>4 DEF Record, Step, Current
<1>5. ASSUME NEW c \in Commands, Offer(c) PROVE ~crossed
  BY <1>5 DEF Offer, Step, NobodyOffers, At
<1>6. ASSUME NEW c \in Commands, GiveUp(c) PROVE ~crossed
  BY <1>6 DEF GiveUp, Connected
<1>7. ASSUME NEW c \in Commands, Offered(c) PROVE ~crossed
  BY <1>7 DEF Offered, Step, Current
<1>8. ASSUME NEW c \in Commands, MountBegins(c) PROVE ~crossed
  BY <1>8 DEF MountBegins, At, IsClosing
<1>9. ASSUME NEW c \in Commands, Setup(c) PROVE ~crossed
  BY <1>9 DEF Setup, At
<1>10. ASSUME NEW c \in Commands, Mount(c) PROVE ~crossed
  BY <1>10 DEF Mount, At, RemoveTree
<1>11. ASSUME NEW c \in Commands, MountReady(c) PROVE ~crossed
  BY <1>11 DEF MountReady, At, IsClosing
<1>12. ASSUME NEW c \in Commands, DiscardMount(c) PROVE ~crossed
  BY <1>12 DEF DiscardMount, At, Pop, Returned, Busy, Cancel
<1>13. ASSUME NEW c \in Commands, KeepMount(c) PROVE ~crossed
  BY <1>13 DEF KeepMount, At
<1>14. ASSUME NEW c \in Commands, Finish(c) PROVE ~crossed
  BY <1>14 DEF Finish
<1>15. ASSUME NEW c \in Commands, RequestEndsMount(c) PROVE ~crossed
  BY <1>15 DEF RequestEndsMount, Cancel, Follows
<1>16. ASSUME NEW c \in Commands, LifetimeEnds(c) PROVE ~crossed
  BY <1>16 DEF LifetimeEnds, Busy
<1>17. ASSUME NEW c \in Commands, Execute(c) PROVE ~crossed
  BY <1>17 DEF Execute, Step
<1>18. ASSUME NEW c \in Commands, CommandEnds(c) PROVE ~crossed
  BY <1>18 DEF CommandEnds, Step
<1>19. ASSUME NEW u \in Unmounters, UnmountLook(u) PROVE ~crossed
  BY <1>19 DEF UnmountLook, Deleted
<1>20. ASSUME NEW u \in Unmounters, Unmount(u) PROVE ~crossed
  BY <1>20 DEF Unmount, Pop, Returned, Busy, Cancel
<1>21. ASSUME NEW u \in Unmounters, UnmountRemoves(u) PROVE ~crossed
  BY <1>21 DEF UnmountRemoves, RemoveTree
<1>22. ASSUME RemoveClient PROVE ~crossed
  BY <1>22 DEF RemoveClient
<1>23. ASSUME ServerPeerCloses PROVE ~crossed
  BY <1>23 DEF ServerPeerCloses
<1>24. ASSUME PeerGone PROVE ~crossed
  BY <1>24 DEF PeerGone
<1>25. ASSUME PeerMeetsEnd PROVE ~crossed
  BY <1>25 DEF PeerMeetsEnd, BeginClose
<1>26. ASSUME StopBegins PROVE ~crossed
  BY <1>26 DEF StopBegins, BeginClose
<1>27. ASSUME StopCloses PROVE ~crossed
  BY <1>27 DEF StopCloses, PeerClosed
<1>28. ASSUME UndoBegins PROVE ~crossed
  BY <1>28 DEF UndoBegins
<1>29. ASSUME UndoEnds PROVE ~crossed
  BY <1>29 DEF UndoEnds, BeginClose
<1>30. ASSUME CloseTakes PROVE ~crossed
  BY <1>30 DEF CloseTakes, Idle, Active
<1>31. ASSUME CloseUnmounts PROVE ~crossed
  BY <1>31 DEF CloseUnmounts, Pop, Returned, Busy
<1>32. ASSUME CloseRemoves PROVE ~crossed
  BY <1>32 DEF CloseRemoves, RemoveTree, Cancel
<1>33. CASE UNCHANGED vars
  BY <1>33 DEF vars
<1> QED BY <1>1, <1>2, <1>3, <1>4, <1>5, <1>6, <1>7, <1>8, <1>9, <1>10, <1>11, <1>12, <1>13,
    <1>14, <1>15, <1>16, <1>17, <1>18, <1>19, <1>20, <1>21, <1>22, <1>23, <1>24, <1>25, <1>26,
    <1>27, <1>28, <1>29, <1>30, <1>31, <1>32, <1>33 DEF Next, ServerStep, Handler, Unmounting,
    Driver, Closing, Ends

(***************************************************************************)
(* A create is sent only when nothing is at work, or else it crosses; who  *)
(* begins an unmount has cancelled the create, or its command has given it *)
(* up.                                                                     *)
(***************************************************************************)
LEMMA InTurnStep ==
  ASSUME Types, Server, Once, Awaited, Shut, InTurn, OneMount, Reported, ~crossed', [Next]_vars
  PROVE  InTurn'
<1> USE UnmounterFacts, ManagerAssumption DEF Types, ServerTypes, PeerTypes, ManagerTypes,
     Server, Once, Early, Awaited, Connected, InTurn, Quiet, Asked, session, export, server,
     peer, manager, driver
<1>1. ASSUME NEW c \in Commands, Command(c) PROVE InTurn'
  BY <1>1 DEF Command, Step
<1>2. ASSUME NEW c \in Commands, ExportLook(c) PROVE InTurn'
  BY <1>2 DEF ExportLook, Step
<1>3. ASSUME NEW c \in Commands, Register(c) PROVE InTurn'
  BY <1>3 DEF Register, Step
<1>4. ASSUME NEW c \in Commands, Record(c) PROVE InTurn'
  BY <1>4 DEF Record, Step, Current
<1>5. ASSUME NEW c \in Commands, Offer(c) PROVE InTurn'
  <2>1. /\ cpc[c] = "offer" /\ hpc[c] = "none" /\ result[c] = None
        /\ UNCHANGED <<offered, late, stage, upc, result, ctxDone>>
    BY <1>5, OfferCases DEF Early
  <2>2. CASE hpc' = hpc BY <2>1, <2>2
  <2>3. CASE /\ hpc' = [hpc EXCEPT ![c] = "onmount"] /\ crossed' = (crossed \/ AtWork)
             /\ ~offered /\ offering = None
    <3>1. Quiet /\ \A d \in Commands : hpc[d] = "none" BY <2>3 DEF AtWork
    <3>2. \A d \in Commands : result[d] = None BY <2>3
    <3>3. Quiet' BY <2>1, <3>1
    <3> QED BY <2>1, <2>3, <3>1, <3>2, <3>3
  <2> QED BY <1>5, <2>2, <2>3, OfferCases
<1>6. ASSUME NEW c \in Commands, GiveUp(c) PROVE InTurn'
  BY <1>6 DEF GiveUp, Connected
<1>7. ASSUME NEW c \in Commands, Offered(c) PROVE InTurn'
  <2>1. /\ cpc[c] = "offering" /\ result' = [result EXCEPT ![c] = None]
        /\ UNCHANGED <<hpc, ctxDone, late, stage, upc>>
    BY <1>7, OfferedCases
  <2>2. CASE offered' = offered BY <2>1, <2>2
  <2>3. CASE c \notin late /\ result[c] # None
    <3>1. \A d \in Commands : hpc[d] = "none" BY <2>3
    <3>2. stage = "open" => Quiet BY <2>3
    <3> QED BY <2>1, <3>1, <3>2
  <2> QED BY <1>7, <2>2, <2>3, OfferedCases
<1>8. ASSUME NEW c \in Commands, MountBegins(c) PROVE InTurn'
  BY <1>8 DEF MountBegins, At, IsClosing
<1>9. ASSUME NEW c \in Commands, Setup(c) PROVE InTurn'
  BY <1>9 DEF Setup, At
<1>10. ASSUME NEW c \in Commands, Mount(c) PROVE InTurn'
  BY <1>10 DEF Mount, At, RemoveTree
<1>11. ASSUME NEW c \in Commands, MountReady(c) PROVE InTurn'
  BY <1>11 DEF MountReady, At, IsClosing
<1>12. ASSUME NEW c \in Commands, DiscardMount(c) PROVE InTurn'
  BY <1>12 DEF DiscardMount, At, Pop, Returned, Busy, Cancel
<1>13. ASSUME NEW c \in Commands, KeepMount(c) PROVE InTurn'
  <2>1. UNCHANGED <<offered, late, stage>> /\ hpc[c] # "none" BY <1>13, KeepMountCases
  <2>2. \A d \in Commands \ {c} : hpc[d] = "none" /\ result[d] = None BY <2>1
  <2>3. ~(offered /\ stage = "open") BY <2>1
  <2>4. CASE hpc[c] = "mounted" /\ stage = "open" /\ c \notin ctxDone /\ upc' = upc
    <3>1. \A d \in Commands : hpc'[d] = "none" BY <1>13, <2>2, <2>4 DEF KeepMount, At
    <3>2. \A d \in Commands \ {c} : result'[d] = None BY <1>13, <2>2, <2>4 DEF KeepMount, At
    <3>3. Quiet' BY <2>1, <2>4
    <3> QED BY <2>1, <2>3, <3>1, <3>2, <3>3
  <2>5. CASE /\ stage # "open" \/ c \in ctxDone
             /\ hpc' = [hpc EXCEPT ![c] = "undoing"] /\ UNCHANGED <<result, ctxDone>>
    <3>1. c \in ctxDone /\ result[c] = None BY <2>1, <2>5
    <3> QED BY <2>1, <2>2, <2>3, <2>5, <3>1
  <2>6. CASE hpc[c] = "undoing" /\ upc' = upc /\ hpc' = [hpc EXCEPT ![c] = "none"]
    <3>1. \A d \in Commands : hpc'[d] = "none" BY <2>2, <2>6
    <3>2. \A d \in Commands \ {c} : result'[d] = None BY <1>13, <2>2, <2>6 DEF KeepMount, At
    <3>0. result[c] = None BY <2>1
    <3>3. ASSUME c \in ctxDone PROVE result'[c] = None
      <4>1. result' = result BY <1>13, <2>6, <3>3 DEF KeepMount, At
      <4> QED BY <3>0, <4>1
    <3>4. c \notin ctxDone => Quiet' BY <2>1, <2>6
    <3> QED BY <2>1, <2>3, <3>1, <3>2, <3>3, <3>4
  <2> QED BY <1>13, <2>4, <2>5, <2>6, KeepMountCases
<1>14. ASSUME NEW c \in Commands, Finish(c) PROVE InTurn'
  BY <1>14 DEF Finish
<1>15. ASSUME NEW c \in Commands, RequestEndsMount(c) PROVE InTurn'
  BY <1>15 DEF RequestEndsMount, Cancel, Follows
<1>16. ASSUME NEW c \in Commands, LifetimeEnds(c) PROVE InTurn'
  BY <1>16 DEF LifetimeEnds, Busy
<1>17. ASSUME NEW c \in Commands, Execute(c) PROVE InTurn'
  BY <1>17 DEF Execute, Step
<1>18. ASSUME NEW c \in Commands, CommandEnds(c) PROVE InTurn'
  BY <1>18 DEF CommandEnds, Step
<1>19. ASSUME NEW u \in Unmounters, UnmountLook(u) PROVE InTurn'
  BY <1>19 DEF UnmountLook, Deleted
<1>20. ASSUME NEW u \in Unmounters, Unmount(u) PROVE InTurn'
  BY <1>20 DEF Unmount, Pop, Returned, Busy, Cancel
<1>21. ASSUME NEW u \in Unmounters, UnmountRemoves(u) PROVE InTurn'
  BY <1>21 DEF UnmountRemoves, RemoveTree
<1>22. ASSUME RemoveClient PROVE InTurn'
  BY <1>22 DEF RemoveClient
<1>23. ASSUME ServerPeerCloses PROVE InTurn'
  BY <1>23 DEF ServerPeerCloses
<1>24. ASSUME PeerGone PROVE InTurn'
  BY <1>24 DEF PeerGone
<1>25. ASSUME PeerMeetsEnd PROVE InTurn'
  BY <1>25 DEF PeerMeetsEnd, BeginClose
<1>26. ASSUME StopBegins PROVE InTurn'
  BY <1>26 DEF StopBegins, BeginClose
<1>27. ASSUME StopCloses PROVE InTurn'
  BY <1>27 DEF StopCloses, PeerClosed
<1>28. ASSUME UndoBegins PROVE InTurn'
  BY <1>28 DEF UndoBegins
<1>29. ASSUME UndoEnds PROVE InTurn'
  BY <1>29 DEF UndoEnds, BeginClose
<1>30. ASSUME CloseTakes PROVE InTurn'
  BY <1>30 DEF CloseTakes, Idle, Active
<1>31. ASSUME CloseUnmounts PROVE InTurn'
  BY <1>31 DEF CloseUnmounts, Pop, Returned, Busy
<1>32. ASSUME CloseRemoves PROVE InTurn'
  BY <1>32 DEF CloseRemoves, RemoveTree, Cancel
<1>33. CASE UNCHANGED vars
  BY <1>33 DEF vars
<1> QED BY <1>1, <1>2, <1>3, <1>4, <1>5, <1>6, <1>7, <1>8, <1>9, <1>10, <1>11, <1>12, <1>13,
    <1>14, <1>15, <1>16, <1>17, <1>18, <1>19, <1>20, <1>21, <1>22, <1>23, <1>24, <1>25, <1>26,
    <1>27, <1>28, <1>29, <1>30, <1>31, <1>32, <1>33 DEF Next, ServerStep, Handler, Unmounting,
    Driver, Closing, Ends

(***************************************************************************)
(* The handler that set out with an empty table and an empty path finds    *)
(* them so, and whoever takes the entry out empties the table first.       *)
(***************************************************************************)
LEMMA OneMountStep ==
  ASSUME Types, Server, Once, Awaited, Shut, InTurn, OneMount, Reported, ~crossed', [Next]_vars
  PROVE  OneMount'
<1> USE UnmounterFacts, ManagerAssumption DEF Types, ServerTypes, PeerTypes, ManagerTypes,
     DriverTypes, Once, Early, Shut, InTurn, Quiet, Asked, OneMount, session, export, server,
     peer, manager, driver
<1>1. ASSUME NEW c \in Commands, Command(c) PROVE OneMount'
  BY <1>1 DEF Command, Step
<1>2. ASSUME NEW c \in Commands, ExportLook(c) PROVE OneMount'
  BY <1>2 DEF ExportLook, Step
<1>3. ASSUME NEW c \in Commands, Register(c) PROVE OneMount'
  BY <1>3 DEF Register, Step
<1>4. ASSUME NEW c \in Commands, Record(c) PROVE OneMount'
  BY <1>4 DEF Record, Step, Current
<1>5. ASSUME NEW c \in Commands, Offer(c) PROVE OneMount'
  BY <1>5 DEF Offer, Step, NobodyOffers, At
<1>6. ASSUME NEW c \in Commands, GiveUp(c) PROVE OneMount'
  BY <1>6 DEF GiveUp, Connected
<1>7. ASSUME NEW c \in Commands, Offered(c) PROVE OneMount'
  BY <1>7 DEF Offered, Step, Current
<1>8. ASSUME NEW c \in Commands, MountBegins(c) PROVE OneMount'
  BY <1>8 DEF MountBegins, At, IsClosing
<1>9. ASSUME NEW c \in Commands, Setup(c) PROVE OneMount'
  BY <1>9 DEF Setup, At
<1>10. ASSUME NEW c \in Commands, Mount(c) PROVE OneMount'
  <2>1. stack = <<>> /\ entry = None /\ \A d \in Commands \ {c} : hpc[d] = "none"
    BY <1>10, MountCases
  <2>2. CASE stack' = Append(stack, c)
    <3>1. stack' = <<c>> BY <2>1, <2>2, Path
    <3>2. /\ UNCHANGED <<entry, upc, ctxDone, marker>> /\ hpc' = [hpc EXCEPT ![c] = "ready"]
          /\ c \notin ctxDone => mctx'[c] = "live"
      BY <1>10, <2>2, AppendFacts DEF Mount, At
    <3>3. hpc'[c] = "ready" /\ \A d \in Commands \ {c} : hpc'[d] = "none" BY <2>1, <3>2
    <3>4. c \notin ctxDone => marker' BY <1>10, <3>2 DEF Mount
    <3>5. entry' = None BY <2>1, <3>2
    <3> HIDE DEF OneMount
    <3> QED BY <3>1, <3>2, <3>3, <3>4, <3>5 DEF OneMount
  <2>3. CASE stack' = stack /\ hpc' = [hpc EXCEPT ![c] = "none"]
    <3>1. UNCHANGED <<entry, upc>> BY <1>10 DEF Mount
    <3> QED BY <2>1, <2>3, <3>1
  <2> QED BY <1>10, <2>2, <2>3, MountCases
<1>11. ASSUME NEW c \in Commands, MountReady(c) PROVE OneMount'
  BY <1>11 DEF MountReady, At, IsClosing
<1>12. ASSUME NEW c \in Commands, DiscardMount(c) PROVE OneMount'
  BY <1>12, Path DEF DiscardMount, At, Pop, Returned, Busy, Cancel
<1>13. ASSUME NEW c \in Commands, KeepMount(c) PROVE OneMount'
  BY <1>13 DEF KeepMount, At
<1>14. ASSUME NEW c \in Commands, Finish(c) PROVE OneMount'
  BY <1>14, Path DEF Finish
<1>15. ASSUME NEW c \in Commands, RequestEndsMount(c) PROVE OneMount'
  BY <1>15 DEF RequestEndsMount, Cancel, Follows
<1>16. ASSUME NEW c \in Commands, LifetimeEnds(c) PROVE OneMount'
  BY <1>16, Path DEF LifetimeEnds, Busy
<1>17. ASSUME NEW c \in Commands, Execute(c) PROVE OneMount'
  BY <1>17 DEF Execute, Step
<1>18. ASSUME NEW c \in Commands, CommandEnds(c) PROVE OneMount'
  BY <1>18 DEF CommandEnds, Step
<1>19. ASSUME NEW u \in Unmounters, UnmountLook(u) PROVE OneMount'
  BY <1>19 DEF UnmountLook, Deleted
<1>20. ASSUME NEW u \in Unmounters, Unmount(u) PROVE OneMount'
  BY <1>20, Path DEF Unmount, Pop, Returned, Busy, Cancel
<1>21. ASSUME NEW u \in Unmounters, UnmountRemoves(u) PROVE OneMount'
  BY <1>21 DEF UnmountRemoves, RemoveTree
<1>22. ASSUME RemoveClient PROVE OneMount'
  BY <1>22 DEF RemoveClient
<1>23. ASSUME ServerPeerCloses PROVE OneMount'
  BY <1>23 DEF ServerPeerCloses
<1>24. ASSUME PeerGone PROVE OneMount'
  BY <1>24 DEF PeerGone
<1>25. ASSUME PeerMeetsEnd PROVE OneMount'
  BY <1>25 DEF PeerMeetsEnd, BeginClose
<1>26. ASSUME StopBegins PROVE OneMount'
  BY <1>26 DEF StopBegins, BeginClose
<1>27. ASSUME StopCloses PROVE OneMount'
  BY <1>27 DEF StopCloses, PeerClosed
<1>28. ASSUME UndoBegins PROVE OneMount'
  BY <1>28 DEF UndoBegins
<1>29. ASSUME UndoEnds PROVE OneMount'
  BY <1>29 DEF UndoEnds, BeginClose
<1>30. ASSUME CloseTakes PROVE OneMount'
  BY <1>30 DEF CloseTakes, Idle, Active
<1>31. ASSUME CloseUnmounts PROVE OneMount'
  BY <1>31, Path DEF CloseUnmounts, Pop, Returned, Busy
<1>32. ASSUME CloseRemoves PROVE OneMount'
  BY <1>32 DEF CloseRemoves, RemoveTree, Cancel
<1>33. CASE UNCHANGED vars
  BY <1>33 DEF vars
<1> QED BY <1>1, <1>2, <1>3, <1>4, <1>5, <1>6, <1>7, <1>8, <1>9, <1>10, <1>11, <1>12, <1>13,
    <1>14, <1>15, <1>16, <1>17, <1>18, <1>19, <1>20, <1>21, <1>22, <1>23, <1>24, <1>25, <1>26,
    <1>27, <1>28, <1>29, <1>30, <1>31, <1>32, <1>33 DEF Next, ServerStep, Handler, Unmounting,
    Driver, Closing, Ends

(***************************************************************************)
(* Only an unmounter or Close takes the entry out, and there is none.      *)
(***************************************************************************)
LEMMA ReportedStep ==
  ASSUME Types, Server, Once, Awaited, Shut, InTurn, OneMount, Reported, ~crossed', [Next]_vars
  PROVE  Reported'
<1> USE UnmounterFacts, ManagerAssumption DEF Types, ServerTypes, PeerTypes, ManagerTypes,
     Server, Once, Early, Awaited, InTurn, Quiet, Asked, OneMount, Reported, session, export,
     server, peer, manager, driver
<1>1. ASSUME NEW c \in Commands, Command(c) PROVE Reported'
  BY <1>1 DEF Command, Step
<1>2. ASSUME NEW c \in Commands, ExportLook(c) PROVE Reported'
  BY <1>2 DEF ExportLook, Step
<1>3. ASSUME NEW c \in Commands, Register(c) PROVE Reported'
  BY <1>3 DEF Register, Step
<1>4. ASSUME NEW c \in Commands, Record(c) PROVE Reported'
  BY <1>4 DEF Record, Step, Current
<1>5. ASSUME NEW c \in Commands, Offer(c) PROVE Reported'
  BY <1>5 DEF Offer, Step, NobodyOffers, At
<1>6. ASSUME NEW c \in Commands, GiveUp(c) PROVE Reported'
  BY <1>6 DEF GiveUp, Connected
<1>7. ASSUME NEW c \in Commands, Offered(c) PROVE Reported'
  BY <1>7 DEF Offered, Step, Current
<1>8. ASSUME NEW c \in Commands, MountBegins(c) PROVE Reported'
  BY <1>8 DEF MountBegins, At, IsClosing
<1>9. ASSUME NEW c \in Commands, Setup(c) PROVE Reported'
  BY <1>9 DEF Setup, At
<1>10. ASSUME NEW c \in Commands, Mount(c) PROVE Reported'
  BY <1>10 DEF Mount, At, RemoveTree
<1>11. ASSUME NEW c \in Commands, MountReady(c) PROVE Reported'
  BY <1>11 DEF MountReady, At, IsClosing
<1>12. ASSUME NEW c \in Commands, DiscardMount(c) PROVE Reported'
  BY <1>12 DEF DiscardMount, At, Pop, Returned, Busy, Cancel
<1>13. ASSUME NEW c \in Commands, KeepMount(c) PROVE Reported'
  BY <1>13 DEF KeepMount, At
<1>14. ASSUME NEW c \in Commands, Finish(c) PROVE Reported'
  BY <1>14 DEF Finish
<1>15. ASSUME NEW c \in Commands, RequestEndsMount(c) PROVE Reported'
  BY <1>15 DEF RequestEndsMount, Cancel, Follows
<1>16. ASSUME NEW c \in Commands, LifetimeEnds(c) PROVE Reported'
  BY <1>16 DEF LifetimeEnds, Busy
<1>17. ASSUME NEW c \in Commands, Execute(c) PROVE Reported'
  BY <1>17 DEF Execute, Step
<1>18. ASSUME NEW c \in Commands, CommandEnds(c) PROVE Reported'
  BY <1>18 DEF CommandEnds, Step
<1>19. ASSUME NEW u \in Unmounters, UnmountLook(u) PROVE Reported'
  BY <1>19 DEF UnmountLook, Deleted
<1>20. ASSUME NEW u \in Unmounters, Unmount(u) PROVE Reported'
  BY <1>20 DEF Unmount, Pop, Returned, Busy, Cancel
<1>21. ASSUME NEW u \in Unmounters, UnmountRemoves(u) PROVE Reported'
  BY <1>21 DEF UnmountRemoves, RemoveTree
<1>22. ASSUME RemoveClient PROVE Reported'
  BY <1>22 DEF RemoveClient
<1>23. ASSUME ServerPeerCloses PROVE Reported'
  BY <1>23 DEF ServerPeerCloses
<1>24. ASSUME PeerGone PROVE Reported'
  BY <1>24 DEF PeerGone
<1>25. ASSUME PeerMeetsEnd PROVE Reported'
  BY <1>25 DEF PeerMeetsEnd, BeginClose
<1>26. ASSUME StopBegins PROVE Reported'
  BY <1>26 DEF StopBegins, BeginClose
<1>27. ASSUME StopCloses PROVE Reported'
  BY <1>27 DEF StopCloses, PeerClosed
<1>28. ASSUME UndoBegins PROVE Reported'
  BY <1>28 DEF UndoBegins
<1>29. ASSUME UndoEnds PROVE Reported'
  BY <1>29 DEF UndoEnds, BeginClose
<1>30. ASSUME CloseTakes PROVE Reported'
  BY <1>30 DEF CloseTakes, Idle, Active
<1>31. ASSUME CloseUnmounts PROVE Reported'
  BY <1>31 DEF CloseUnmounts, Pop, Returned, Busy
<1>32. ASSUME CloseRemoves PROVE Reported'
  BY <1>32 DEF CloseRemoves, RemoveTree, Cancel
<1>33. CASE UNCHANGED vars
  BY <1>33 DEF vars
<1> QED BY <1>1, <1>2, <1>3, <1>4, <1>5, <1>6, <1>7, <1>8, <1>9, <1>10, <1>11, <1>12, <1>13,
    <1>14, <1>15, <1>16, <1>17, <1>18, <1>19, <1>20, <1>21, <1>22, <1>23, <1>24, <1>25, <1>26,
    <1>27, <1>28, <1>29, <1>30, <1>31, <1>32, <1>33 DEF Next, ServerStep, Handler, Unmounting,
    Driver, Closing, Ends

(***************************************************************************)
(* MountBegins refuses once Close has begun, and CloseTakes waits for the  *)
(* others.                                                                 *)
(***************************************************************************)
LEMMA ShutStep ==
  ASSUME Types, Shut, [Next]_vars
  PROVE  Shut'
<1> USE DEF Types, ServerTypes, PeerTypes, ManagerTypes, DriverTypes, Shut, session, export,
     server, peer, manager, driver
<1>1. ASSUME NEW c \in Commands, Command(c) PROVE Shut'
  BY <1>1 DEF Command, Step
<1>2. ASSUME NEW c \in Commands, ExportLook(c) PROVE Shut'
  BY <1>2 DEF ExportLook, Step
<1>3. ASSUME NEW c \in Commands, Register(c) PROVE Shut'
  BY <1>3 DEF Register, Step
<1>4. ASSUME NEW c \in Commands, Record(c) PROVE Shut'
  BY <1>4 DEF Record, Step, Current
<1>5. ASSUME NEW c \in Commands, Offer(c) PROVE Shut'
  BY <1>5 DEF Offer, Step, NobodyOffers, At
<1>6. ASSUME NEW c \in Commands, GiveUp(c) PROVE Shut'
  BY <1>6 DEF GiveUp, Connected
<1>7. ASSUME NEW c \in Commands, Offered(c) PROVE Shut'
  BY <1>7 DEF Offered, Step, Current
<1>8. ASSUME NEW c \in Commands, MountBegins(c) PROVE Shut'
  BY <1>8 DEF MountBegins, At, IsClosing
<1>9. ASSUME NEW c \in Commands, Setup(c) PROVE Shut'
  BY <1>9 DEF Setup, At
<1>10. ASSUME NEW c \in Commands, Mount(c) PROVE Shut'
  BY <1>10 DEF Mount, At, RemoveTree
<1>11. ASSUME NEW c \in Commands, MountReady(c) PROVE Shut'
  BY <1>11 DEF MountReady, At, IsClosing
<1>12. ASSUME NEW c \in Commands, DiscardMount(c) PROVE Shut'
  BY <1>12 DEF DiscardMount, At, Pop, Returned, Busy, Cancel
<1>13. ASSUME NEW c \in Commands, KeepMount(c) PROVE Shut'
  BY <1>13 DEF KeepMount, At
<1>14. ASSUME NEW c \in Commands, Finish(c) PROVE Shut'
  BY <1>14 DEF Finish
<1>15. ASSUME NEW c \in Commands, RequestEndsMount(c) PROVE Shut'
  BY <1>15 DEF RequestEndsMount, Cancel, Follows
<1>16. ASSUME NEW c \in Commands, LifetimeEnds(c) PROVE Shut'
  BY <1>16 DEF LifetimeEnds, Busy
<1>17. ASSUME NEW c \in Commands, Execute(c) PROVE Shut'
  BY <1>17 DEF Execute, Step
<1>18. ASSUME NEW c \in Commands, CommandEnds(c) PROVE Shut'
  BY <1>18 DEF CommandEnds, Step
<1>19. ASSUME NEW u \in Unmounters, UnmountLook(u) PROVE Shut'
  BY <1>19 DEF UnmountLook, Deleted
<1>20. ASSUME NEW u \in Unmounters, Unmount(u) PROVE Shut'
  BY <1>20 DEF Unmount, Pop, Returned, Busy, Cancel
<1>21. ASSUME NEW u \in Unmounters, UnmountRemoves(u) PROVE Shut'
  BY <1>21 DEF UnmountRemoves, RemoveTree
<1>22. ASSUME RemoveClient PROVE Shut'
  BY <1>22 DEF RemoveClient
<1>23. ASSUME ServerPeerCloses PROVE Shut'
  BY <1>23 DEF ServerPeerCloses
<1>24. ASSUME PeerGone PROVE Shut'
  BY <1>24 DEF PeerGone
<1>25. ASSUME PeerMeetsEnd PROVE Shut'
  BY <1>25 DEF PeerMeetsEnd, BeginClose
<1>26. ASSUME StopBegins PROVE Shut'
  BY <1>26 DEF StopBegins, BeginClose
<1>27. ASSUME StopCloses PROVE Shut'
  BY <1>27 DEF StopCloses, PeerClosed
<1>28. ASSUME UndoBegins PROVE Shut'
  BY <1>28 DEF UndoBegins
<1>29. ASSUME UndoEnds PROVE Shut'
  BY <1>29 DEF UndoEnds, BeginClose
<1>30. ASSUME CloseTakes PROVE Shut'
  BY <1>30 DEF CloseTakes, Idle, Active
<1>31. ASSUME CloseUnmounts PROVE Shut'
  BY <1>31 DEF CloseUnmounts, Pop, Returned, Busy
<1>32. ASSUME CloseRemoves PROVE Shut'
  BY <1>32 DEF CloseRemoves, RemoveTree, Cancel
<1>33. CASE UNCHANGED vars
  BY <1>33 DEF vars
<1> QED BY <1>1, <1>2, <1>3, <1>4, <1>5, <1>6, <1>7, <1>8, <1>9, <1>10, <1>11, <1>12, <1>13,
    <1>14, <1>15, <1>16, <1>17, <1>18, <1>19, <1>20, <1>21, <1>22, <1>23, <1>24, <1>25, <1>26,
    <1>27, <1>28, <1>29, <1>30, <1>31, <1>32, <1>33 DEF Next, ServerStep, Handler, Unmounting,
    Driver, Closing, Ends

(***************************************************************************)
(* A step of a handler or an unmounter that is in charge of no mount       *)
(* leaves every mount with somebody who is in charge of it.                *)
(***************************************************************************)
LEMMA ChargeKept ==
  ASSUME Types, Owned, UNCHANGED <<entry, taken, stack, stuck>>,
         mstage = "unmount" => mstage' = mstage,
         \A u \in Unmounters : upc[u] = "unmount" => upc'[u] = "unmount",
         \A d \in Commands : hpc[d] \in Holding => hpc'[d] = hpc[d]
  PROVE  Owned'
BY RangeTyped DEF Types, DriverTypes, Owned, InCharge, Holding

(***************************************************************************)
(* A mount passes from its handler to the table and from there to whoever  *)
(* takes it out, who either sees its end or reports that it is busy.       *)
(***************************************************************************)
LEMMA OwnedStep ==
  ASSUME Types, Once, MountPoint, Owned, Shut, [Next]_vars
  PROVE  Owned'
<1> USE UnmounterFacts, RangeTyped DEF Types, PeerTypes, ManagerTypes, DriverTypes, Once,
     MountPoint, Owned, InCharge, Holding, Shut, session, export, server, peer, manager,
     driver
<1>1. ASSUME NEW c \in Commands, Command(c) PROVE Owned'
  BY <1>1 DEF Command, Step
<1>2. ASSUME NEW c \in Commands, ExportLook(c) PROVE Owned'
  BY <1>2 DEF ExportLook, Step
<1>3. ASSUME NEW c \in Commands, Register(c) PROVE Owned'
  BY <1>3 DEF Register, Step
<1>4. ASSUME NEW c \in Commands, Record(c) PROVE Owned'
  BY <1>4 DEF Record, Step, Current
<1>5. ASSUME NEW c \in Commands, Offer(c) PROVE Owned'
  <2>0. hpc[c] = "none" BY <1>5, OfferCases DEF Early
  <2>1. \A u \in Unmounters : upc[u] = "unmount" => upc'[u] = "unmount"
    BY <1>5, <2>0, OfferCases
  <2>2. \A d \in Commands : hpc[d] \in Holding => hpc'[d] = hpc[d] BY <1>5, <2>0, OfferCases
  <2>3. UNCHANGED <<entry, taken, stack, stuck>> /\ (mstage = "unmount" => mstage' = mstage)
    BY <1>5, OfferCases
  <2> QED BY <2>1, <2>2, <2>3, ChargeKept
<1>6. ASSUME NEW c \in Commands, GiveUp(c) PROVE Owned'
  <2>0. upc[<<"cancel", c>>] = "none" BY <1>6, GiveUpCases DEF Once
  <2>1. \A u \in Unmounters : upc[u] = "unmount" => upc'[u] = "unmount"
    <3>1. CASE upc' = upc BY <3>1
    <3>2. CASE upc' = [upc EXCEPT ![<<"cancel", c>>] = "look"] BY <2>0, <3>2
    <3> QED BY <1>6, <3>1, <3>2, GiveUpCases
  <2>2. \A d \in Commands : hpc[d] \in Holding => hpc'[d] = hpc[d] BY <1>6, <2>0, GiveUpCases
  <2>3. UNCHANGED <<entry, taken, stack, stuck>> /\ (mstage = "unmount" => mstage' = mstage)
    BY <1>6, GiveUpCases
  <2> QED BY <2>1, <2>2, <2>3, ChargeKept
<1>7. ASSUME NEW c \in Commands, Offered(c) PROVE Owned'
  BY <1>7 DEF Offered, Step, Current
<1>8. ASSUME NEW c \in Commands, MountBegins(c) PROVE Owned'
  BY <1>8 DEF MountBegins, At, IsClosing
<1>9. ASSUME NEW c \in Commands, Setup(c) PROVE Owned'
  BY <1>9 DEF Setup, At
<1>10. ASSUME NEW c \in Commands, Mount(c) PROVE Owned'
  <2>1. CASE stack' = Append(stack, c) /\ At(c, "ready")
    <3>1. Range(stack') = Range(stack) \cup {c} BY <2>1, AppendFacts
    <3>2. hpc'[c] = "ready" /\ \A d \in Commands \ {c} : hpc'[d] = hpc[d] BY <2>1 DEF At
    <3>3. UNCHANGED <<entry, taken, upc, mstage, stuck>> BY <1>10 DEF Mount
    <3> QED BY <3>1, <3>2, <3>3
  <2>2. CASE stack' = stack /\ At(c, "error")
    <3>1. \A d \in Commands \ {c} : hpc'[d] = hpc[d] BY <2>2 DEF At
    <3>2. UNCHANGED <<entry, taken, upc, mstage, stuck>> /\ hpc[c] = "mounting" BY <1>10 DEF Mount
    <3> QED BY <2>2, <3>1, <3>2
  <2> QED BY <1>10, <2>1, <2>2 DEF Mount
<1>11. ASSUME NEW c \in Commands, MountReady(c) PROVE Owned'
  <2>1. UNCHANGED <<taken, upc, mstage, stack, stuck>> BY <1>11 DEF MountReady
  <2>2. \A d \in Commands \ {c} : hpc'[d] = hpc[d] BY <1>11 DEF MountReady, At
  <2>3. entry # None => entry' = entry BY <1>11 DEF MountReady
  <2>4. hpc'[c] \in {"losing", "discard"} \/ entry' = c BY <1>11 DEF MountReady, At
  <2>5. \A d \in Commands : InCharge(d) => InCharge(d)'
    BY <2>1, <2>2, <2>3, <2>4, ManagerAssumption
  <2> QED BY <2>1, <2>5
<1>12. ASSUME NEW c \in Commands, DiscardMount(c) PROVE Owned'
  BY <1>12, FrontFacts DEF DiscardMount, At, Pop, Returned, Busy, Cancel
<1>13. ASSUME NEW c \in Commands, KeepMount(c) PROVE Owned'
  <2>0. hpc[c] = "mounted" => upc[<<"handler", c>>] = "none" BY <1>13 DEF KeepMount
  <2>1. \A u \in Unmounters : upc[u] = "unmount" => upc'[u] = "unmount"
    <3>1. CASE upc' = upc BY <3>1
    <3>2. CASE hpc[c] = "mounted" /\ upc' = [upc EXCEPT ![<<"handler", c>>] = "look"]
      BY <2>0, <3>2
    <3> QED BY <1>13, <3>1, <3>2 DEF KeepMount
  <2>2. \A d \in Commands : hpc[d] \in Holding => hpc'[d] = hpc[d]
    BY <1>13, <2>0 DEF KeepMount, At, Holding
  <2>3. UNCHANGED <<entry, taken, stack, stuck>> /\ (mstage = "unmount" => mstage' = mstage)
    BY <1>13 DEF KeepMount, At
  <2> QED BY <2>1, <2>2, <2>3, ChargeKept
<1>14. ASSUME NEW c \in Commands, Finish(c) PROVE Owned'
  BY <1>14 DEF Finish
<1>15. ASSUME NEW c \in Commands, RequestEndsMount(c) PROVE Owned'
  BY <1>15 DEF RequestEndsMount, Cancel, Follows
<1>16. ASSUME NEW c \in Commands, LifetimeEnds(c) PROVE Owned'
  BY <1>16, FrontFacts DEF LifetimeEnds, Busy
<1>17. ASSUME NEW c \in Commands, Execute(c) PROVE Owned'
  BY <1>17 DEF Execute, Step
<1>18. ASSUME NEW c \in Commands, CommandEnds(c) PROVE Owned'
  BY <1>18 DEF CommandEnds, Step
<1>19. ASSUME NEW u \in Unmounters, UnmountLook(u) PROVE Owned'
  BY <1>19 DEF UnmountLook, Deleted
<1>20. ASSUME NEW u \in Unmounters, Unmount(u) PROVE Owned'
  BY <1>20, FrontFacts DEF Unmount, Pop, Returned, Busy, Cancel
<1>21. ASSUME NEW u \in Unmounters, UnmountRemoves(u) PROVE Owned'
  BY <1>21 DEF UnmountRemoves, RemoveTree
<1>22. ASSUME RemoveClient PROVE Owned'
  BY <1>22 DEF RemoveClient
<1>23. ASSUME ServerPeerCloses PROVE Owned'
  BY <1>23 DEF ServerPeerCloses
<1>24. ASSUME PeerGone PROVE Owned'
  BY <1>24 DEF PeerGone
<1>25. ASSUME PeerMeetsEnd PROVE Owned'
  <2>1. \A u \in Unmounters : upc[u] = "unmount" => upc'[u] = "unmount"
    BY <1>25 DEF PeerMeetsEnd, BeginClose
  <2>2. \A d \in Commands : hpc[d] \in Holding => hpc'[d] = hpc[d]
    BY <1>25 DEF PeerMeetsEnd, BeginClose, Holding
  <2>3. UNCHANGED <<entry, taken, stack, stuck>> /\ (mstage = "unmount" => mstage' = mstage)
    BY <1>25 DEF PeerMeetsEnd, BeginClose
  <2> QED BY <2>1, <2>2, <2>3, ChargeKept
<1>26. ASSUME StopBegins PROVE Owned'
  <2>1. \A u \in Unmounters : upc[u] = "unmount" => upc'[u] = "unmount"
    <3>1. CASE upc' = upc BY <3>1
    <3>2. CASE stage = "open" /\ upc'[<<"close", None>>] \in {"look", "done"}
               /\ \A u \in Unmounters \ {<<"close", None>>} : upc'[u] = upc[u]
      BY <3>2
    <3> QED BY <1>26, <3>1, <3>2 DEF StopBegins, BeginClose
  <2>2. \A d \in Commands : hpc[d] \in Holding => hpc'[d] = hpc[d]
    BY <1>26 DEF StopBegins, BeginClose, Holding
  <2>3. UNCHANGED <<entry, taken, stack, stuck>> /\ (mstage = "unmount" => mstage' = mstage)
    BY <1>26 DEF StopBegins, BeginClose
  <2> QED BY <2>1, <2>2, <2>3, ChargeKept
<1>27. ASSUME StopCloses PROVE Owned'
  BY <1>27 DEF StopCloses, PeerClosed
<1>28. ASSUME UndoBegins PROVE Owned'
  BY <1>28 DEF UndoBegins
<1>29. ASSUME UndoEnds PROVE Owned'
  <2>1. \A u \in Unmounters : upc[u] = "unmount" => upc'[u] = "unmount"
    BY <1>29 DEF UndoEnds, BeginClose
  <2>2. \A d \in Commands : hpc[d] \in Holding => hpc'[d] = hpc[d]
    BY <1>29 DEF UndoEnds, BeginClose, Holding
  <2>3. UNCHANGED <<entry, taken, stack, stuck>> /\ (mstage = "unmount" => mstage' = mstage)
    BY <1>29 DEF UndoEnds, BeginClose
  <2> QED BY <2>1, <2>2, <2>3, ChargeKept
<1>30. ASSUME CloseTakes PROVE Owned'
  BY <1>30 DEF CloseTakes, Idle, Active
<1>31. ASSUME CloseUnmounts PROVE Owned'
  BY <1>31, FrontFacts DEF CloseUnmounts, Pop, Returned, Busy
<1>32. ASSUME CloseRemoves PROVE Owned'
  BY <1>32 DEF CloseRemoves, RemoveTree, Cancel
<1>33. CASE UNCHANGED vars
  BY <1>33 DEF vars
<1> QED BY <1>1, <1>2, <1>3, <1>4, <1>5, <1>6, <1>7, <1>8, <1>9, <1>10, <1>11, <1>12, <1>13,
    <1>14, <1>15, <1>16, <1>17, <1>18, <1>19, <1>20, <1>21, <1>22, <1>23, <1>24, <1>25, <1>26,
    <1>27, <1>28, <1>29, <1>30, <1>31, <1>32, <1>33 DEF Next, ServerStep, Handler, Unmounting,
    Driver, Closing, Ends


-----------------------------------------------------------------------------
LEMMA InitInv == Init => IInv
<1> SUFFICES ASSUME Init PROVE IInv OBVIOUS
<1> USE ManagerAssumption, UnmounterFacts DEF Init
<1>1. Types
  <2>1. ServerTypes BY DEF ServerTypes
  <2>2. PeerTypes BY DEF PeerTypes
  <2>3. ManagerTypes BY DEF ManagerTypes
  <2>4. DriverTypes
    <3>1. stack \in Seq(Commands) BY EmptySeq
    <3> QED BY <3>1 DEF DriverTypes
  <2> QED BY <2>1, <2>2, <2>3, <2>4 DEF Types
<1>2. Range(stack) = {} BY DEF Range
<1>3. Server /\ Once /\ Awaited BY DEF Server, Once, Early, Awaited
<1>4. MountPoint BY <1>2 DEF MountPoint
<1>5. Steady BY DEF Steady, InTurn, Quiet, Asked, OneMount, Reported
<1>6. Owned /\ Shut BY <1>2 DEF Owned, Shut
<1> QED BY <1>1, <1>3, <1>4, <1>5, <1>6 DEF IInv

LEMMA StepInv == IInv /\ [Next]_vars => IInv'
<1> SUFFICES ASSUME IInv, [Next]_vars PROVE IInv' OBVIOUS
<1>1. Types'
  BY ServerTypesStep, PeerTypesStep, ManagerTypesStep, DriverTypesStep DEF IInv, Types
<1>2. Server' /\ Once' BY ServerStepInv, OnceStep DEF IInv
<1>3. Awaited' /\ MountPoint' BY AwaitedStep, MountPointStep DEF IInv
<1>4. Steady'
  <2> SUFFICES ASSUME ~crossed' PROVE InTurn' /\ OneMount' /\ Reported' BY DEF Steady
  <2>1. ~crossed BY CrossedStays DEF IInv
  <2> QED BY <2>1, InTurnStep, OneMountStep, ReportedStep DEF IInv, Steady
<1>5. Owned' /\ Shut' BY OwnedStep, ShutStep DEF IInv
<1> QED BY <1>1, <1>2, <1>3, <1>4, <1>5 DEF IInv

LEMMA Inductive == Spec => []IInv
BY InitInv, StepInv, PTL DEF Spec

LEMMA StackFits ==
  ASSUME IsFiniteSet(Commands), NEW s \in Seq(Commands),
         \A i, j \in 1..Len(s) : s[i] = s[j] => i = j
  PROVE  Len(s) <= Cardinality(Commands)
<1>1. Len(s) \in Nat /\ s \in [1..Len(s) -> Commands] OBVIOUS
<1>2. s \in Injection(1..Len(s), Commands) BY <1>1 DEF Injection, IsInjective
<1>3. Cardinality(1..Len(s)) <= Cardinality(Commands) BY <1>2, FS_Injection
<1>4. Cardinality(1..Len(s)) = Len(s) BY <1>1, FS_Interval
<1> QED BY <1>3, <1>4

(***************************************************************************)
(* Every variable keeps its type; one command at a time opens the working  *)
(* tree and one asks for the mount; and the mounts at the mount point,     *)
(* none of which has ended, are never more than there are commands.        *)
(***************************************************************************)
THEOREM TypeCorrect == IsFiniteSet(Commands) => (Spec => []TypeOK)
<1> SUFFICES ASSUME IsFiniteSet(Commands) PROVE Spec => []TypeOK OBVIOUS
<1>1. IInv => TypeOK
  <2> SUFFICES ASSUME IInv PROVE TypeOK OBVIOUS
  <2>1. Len(stack) <= Cardinality(Commands) BY StackFits DEF IInv, Types, DriverTypes, MountPoint
  <2>2. Range(stack) \subseteq Commands \ ended
    BY RangeTyped DEF IInv, Types, DriverTypes, MountPoint
  <2>3. /\ {c \in Commands : cpc[c] \in {"exporting", "opened"}} = {exporting} \ {None}
        /\ {c \in Commands : cpc[c] = "offering"} = {offering} \ {None}
    BY ManagerAssumption DEF IInv, Types, ServerTypes, Server
  <2> QED BY <2>1, <2>2, <2>3
    DEF TypeOK, IInv, Types, ServerTypes, PeerTypes, ManagerTypes, DriverTypes
<1> QED BY <1>1, Inductive, PTL

(***************************************************************************)
(* ensureExportBackend, ensureClientMount and removeClient: what the       *)
(* server records of a session is gone with its client, however the steps  *)
(* of opening, recording and removing interleave; what is exported is      *)
(* served; and the mount it offers is registered and mounted, unless two   *)
(* creates crossed.                                                        *)
(***************************************************************************)
THEOREM OfferTrue == Spec => []OfferIsTrue
<1>1. IInv => OfferIsTrue
  <2> SUFFICES ASSUME IInv PROVE OfferIsTrue OBVIOUS
  <2>1. offered \/ exported => client BY DEF IInv, Server
  <2>2. exported /\ speer = "open" => serves BY DEF IInv, Server
  <2>3. ASSUME offered, stage = "open", ~IsClosing, ~crossed PROVE entry \in Range(stack)
    <3>1. mstage = "open" BY <2>3 DEF IInv, Once, Types, ManagerTypes, IsClosing
    <3>2. entry # None BY <2>3, <3>1 DEF IInv, Steady, Reported
    <3>3. stack = <<entry>> BY <2>3, <3>2 DEF IInv, Steady, OneMount
    <3> QED BY <3>2, <3>3, Path DEF IInv, Types, ManagerTypes
  <2> QED BY <2>1, <2>2, <2>3 DEF OfferIsTrue
<1> QED BY <1>1, Inductive, PTL

(***************************************************************************)
(* SetupMountPoint and the removals: the marker that the next session      *)
(* looks for is there as long as the mount is registered and mounted,      *)
(* unless two creates crossed.                                             *)
(***************************************************************************)
THEOREM EntryMarked == Spec => []EntryIsMarked
<1>1. IInv => EntryIsMarked
  <2> SUFFICES ASSUME IInv, entry \in Range(stack), ~crossed PROVE marker BY DEF EntryIsMarked
  <2>1. entry # None BY RangeTyped, ManagerAssumption DEF IInv, Types, DriverTypes
  <2> QED BY <2>1 DEF IInv, Steady, OneMount
<1> QED BY <1>1, Inductive, PTL

(***************************************************************************)
(* remoteMountManager.Close: a mount that is left when it has returned was *)
(* busy, or an OnUnmount that took it before is at work on it.             *)
(***************************************************************************)
THEOREM CloseComplete == Spec => []CloseLeavesNothing
<1>1. IInv => CloseLeavesNothing
  <2> SUFFICES ASSUME IInv, mstage = "closed", NEW c \in Range(stack) \ stuck
               PROVE  \E u \in Unmounters : taken[u] = c /\ upc[u] = "unmount"
    BY DEF CloseLeavesNothing
  <2>1. c \in Commands BY RangeTyped DEF IInv, Types, DriverTypes
  <2> QED BY <2>1, ManagerAssumption DEF IInv, Owned, InCharge, Holding, Shut
<1> QED BY <1>1, Inductive, PTL
=============================================================================
