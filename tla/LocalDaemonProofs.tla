------------------------- MODULE LocalDaemonProofs -------------------------
(***************************************************************************)
(* Proofs about LocalDaemon, for any number of connections, leases,        *)
(* targets and addresses.                                                  *)
(*                                                                         *)
(* The inductive invariant adds to the checked properties what the         *)
(* handlers know between two critical sections (HandlerOK), that the map   *)
(* of targets and the heap agree on keys (RecordOK), and who still owns a  *)
(* domain name while a cleanup has yet to unregister it (NamesOwned).      *)
(***************************************************************************)
EXTENDS LocalDaemon, FiniteSetTheorems, TLAPS

Holding == {"register", "session", "forwarder", "ensure"}

\* A handler past ensureTarget holds an allocated record of its own target,
\* whether or not the record is still registered; a session handler is the
\* one its lease is registered for.
HandlerOK ==
  \A c \in Conns :
    /\ pc[c] # "idle" => req[c] \in Request
    /\ pc[c] \in Holding => rec[c] # 0 /\ recs[rec[c]].key = KeyOf(c)
    /\ pc[c] \in {"ensure", "drop"} => fwd[c] # 0
    /\ pc[c] = "session" => sessions[req[c].lease] = c

\* A registered record belongs to the key it is registered under.
RecordOK == \A k \in Keys : targets[k] # 0 => recs[targets[k]].key = k

\* A cleanup that will shut the daemon down has already set draining, and a
\* cleanup that will not still has a name to unregister.
TailsDrain == \A t \in tails : (t.stop => draining) /\ (t.stop \/ t.rec # 0)

\* The name of a removed target is registered until its own cleanup
\* unregisters it: it is nobody else's name.
NamesOwned ==
  /\ \A t \in tails : t.rec # 0 =>
       /\ records[recs[t.rec].name] # 0
       /\ \A k \in Keys : targets[k] # 0 =>
            targets[k] # t.rec /\ recs[targets[k]].name # recs[t.rec].name
  /\ \A t, u \in tails : t # u /\ t.rec # 0 /\ u.rec # 0 =>
       t.rec # u.rec /\ recs[t.rec].name # recs[u.rec].name

Base == TypeOK /\ HandlerOK /\ RecordOK

-----------------------------------------------------------------------------
(* The handlers: typing, and what they hold.                                *)

\* The basic invariant holds at first.
LEMMA InitBase == Init => Base
  <1> USE LocalDaemonAssumption
  <1>1. Init => TypeLife BY DEF Init, TypeLife
  <1>2. Init => TypeTable BY DEF Init, TypeTable, Names, TargetRecord
  <1>3. Init => TypeForwards BY DEF Init, TypeForwards
  <1>4. Init => TypeGrace BY DEF Init, TypeGrace
  <1>5. Init => TypeConn BY DEF Init, TypeConn, PCs
  <1>6. Init => HandlerOK BY DEF Init, HandlerOK, Holding
  <1>7. Init => RecordOK BY DEF Init, RecordOK
  <1> QED BY <1>1, <1>2, <1>3, <1>4, <1>5, <1>6, <1>7 DEF Base, TypeOK

\* The labels are labels: cited instead of expanding PCs.
LEMMA Labels ==
  /\ "idle" \in PCs /\ "open" \in PCs /\ "check" \in PCs /\ "lookup" \in PCs
  /\ "domain" \in PCs /\ "create" \in PCs /\ "register" \in PCs /\ "session" \in PCs
  /\ "forwarder" \in PCs /\ "ensure" \in PCs /\ "remove" \in PCs /\ "drop" \in PCs
  /\ "shutdown" \in PCs
  BY DEF PCs

\* A handler that returns, or only moves on, keeps the types of its locals.
LEMMA ReturnConn ==
  ASSUME NEW c \in Conns, TypeConn, TypeTable, TypeForwards, Return(c), nrec' = nrec, nfwd' = nfwd
  PROVE  TypeConn'
  BY LocalDaemonAssumption, Labels DEF Return, Goto, TypeConn, TypeTable, TypeForwards

\* A handler that only moves on keeps the types of the connections.
LEMMA GotoConn ==
  ASSUME NEW c \in Conns, NEW p \in PCs, TypeConn, Goto(c, p), UNCHANGED <<req, rec, fwd>>,
         nrec' = nrec, nfwd' = nfwd
  PROVE  TypeConn'
  BY DEF Goto, TypeConn

\* A busy handler has a request, of a lease whose target is known.
LEMMA BusyRequest ==
  ASSUME NEW c \in Conns, Base, pc[c] # "idle"
  PROVE  /\ req[c] \in Request /\ req[c].lease \in Leases /\ req[c].type \in Kinds
         /\ KeyOf(c) \in Keys
  <1>1. req[c] \in Request BY DEF Base, HandlerOK
  <1> QED BY <1>1, LocalDaemonAssumption DEF Request, KeyOf

\* Counting a session changes nothing but the count.
LEMMA CountSession ==
  ASSUME NEW R \in TargetRecord, NEW m \in Nat
  PROVE  LET S == [R EXCEPT !.sessions = m]
         IN  /\ S \in TargetRecord /\ S.sessions = m
             /\ S.key = R.key /\ S.ip = R.ip /\ S.name = R.name
  BY DEF TargetRecord

\* The heap cells of a step that at most counts or uncounts one session.
SameTargets ==
  /\ recs' \in [1 .. nrec -> TargetRecord]
  /\ \A q \in 1 .. nrec :
       recs'[q].key = recs[q].key /\ recs'[q].ip = recs[q].ip /\ recs'[q].name = recs[q].name

\* Releasing a lease changes only the record it was counted on.
LEMMA DecrementSame ==
  ASSUME Base, NEW k \in Keys, recs' = Decrement(k)
  PROVE  /\ SameTargets
         /\ \A q \in 1 .. nrec :
              recs'[q].sessions = IF q = targets[k] /\ recs[q].sessions > 0
                                    THEN recs[q].sessions - 1 ELSE recs[q].sessions
  <1>0. /\ nrec \in Nat /\ recs \in [1 .. nrec -> TargetRecord] /\ targets[k] \in 0 .. nrec
        /\ \A q \in 1 .. nrec : recs[q].sessions \in Nat
    BY LocalDaemonAssumption DEF Base, TypeOK, TypeTable, TargetRecord
  <1>1. CASE targets[k] # 0 /\ recs[targets[k]].sessions > 0
    <2> DEFINE r == targets[k]
               m == recs[r].sessions - 1
    <2>1. r \in 1 .. nrec /\ m \in Nat BY <1>0, <1>1
    <2>2. recs' = [recs EXCEPT ![r].sessions = m] BY <1>1 DEF Decrement
    <2> HIDE DEF r, m
    <2>3. /\ recs' \in [1 .. nrec -> TargetRecord]
          /\ \A q \in 1 .. nrec :
              /\ recs'[q].key = recs[q].key /\ recs'[q].ip = recs[q].ip /\ recs'[q].name = recs[q].name
              /\ recs'[q].sessions = IF q = r THEN m ELSE recs[q].sessions
    <3>1. ASSUME NEW q \in 1 .. nrec
          PROVE  /\ recs'[q] \in TargetRecord
                 /\ recs'[q].key = recs[q].key /\ recs'[q].ip = recs[q].ip
                 /\ recs'[q].name = recs[q].name
                 /\ recs'[q].sessions = IF q = r THEN m ELSE recs[q].sessions
      <4>1. CASE q = r
        <5>1. recs'[q] = [recs[q] EXCEPT !.sessions = m] BY <4>1, <1>0, <2>1, <2>2
        <5> QED BY <4>1, <5>1, <1>0, <2>1, <2>2, CountSession
      <4>2. CASE q # r BY <4>2, <1>0, <2>1, <2>2
      <4> QED BY <4>1, <4>2
    <3>2. recs' = [q \in 1 .. nrec |-> recs'[q]] BY <1>0, <2>1, <2>2
    <3> QED BY <3>1, <3>2
    <2> QED BY <1>0, <1>1, <2>3 DEF r, m, SameTargets
  <1>2. CASE ~(targets[k] # 0 /\ recs[targets[k]].sessions > 0)
    <2>1. recs' = recs BY <1>2 DEF Decrement
    <2> QED BY <1>0, <1>2, <2>1 DEF SameTargets
  <1> QED BY <1>1, <1>2

\* Registering a session changes only the record it is counted on.
LEMMA RegisterSame ==
  ASSUME Base, NEW c \in Conns, pc[c] = "register", RegisterSession(c), Admits(req[c].lease)
  PROVE  /\ SameTargets
         /\ rec[c] \in 1 .. nrec
         /\ \A q \in 1 .. nrec :
              recs'[q].sessions = IF q = rec[c] THEN recs[q].sessions + 1 ELSE recs[q].sessions
  <1>0. /\ nrec \in Nat /\ recs \in [1 .. nrec -> TargetRecord] /\ rec[c] \in 1 .. nrec
        /\ \A q \in 1 .. nrec : recs[q].sessions \in Nat
    BY LocalDaemonAssumption
    DEF Base, TypeOK, TypeTable, TypeConn, TargetRecord, HandlerOK, Holding
  <1> DEFINE m == recs[rec[c]].sessions + 1
  <1>1. m \in Nat /\ recs' = [recs EXCEPT ![rec[c]].sessions = m]
    BY <1>0 DEF RegisterSession
  <1> HIDE DEF m
  <1>2. /\ recs' \in [1 .. nrec -> TargetRecord]
        /\ \A q \in 1 .. nrec :
            /\ recs'[q].key = recs[q].key /\ recs'[q].ip = recs[q].ip /\ recs'[q].name = recs[q].name
            /\ recs'[q].sessions = IF q = rec[c] THEN m ELSE recs[q].sessions
  <2>1. ASSUME NEW q \in 1 .. nrec
        PROVE  /\ recs'[q] \in TargetRecord
               /\ recs'[q].key = recs[q].key /\ recs'[q].ip = recs[q].ip
               /\ recs'[q].name = recs[q].name
               /\ recs'[q].sessions = IF q = rec[c] THEN m ELSE recs[q].sessions
    <3>1. CASE q = rec[c]
      <4>1. recs'[q] = [recs[q] EXCEPT !.sessions = m] BY <3>1, <1>0, <1>1
      <4> QED BY <3>1, <4>1, <1>0, <1>1, CountSession
    <3>2. CASE q # rec[c] BY <3>2, <1>0, <1>1
    <3> QED BY <3>1, <3>2
  <2>2. recs' = [q \in 1 .. nrec |-> recs'[q]] BY <1>0, <1>1
  <2> QED BY <2>1, <2>2
  <1> QED BY <1>0, <1>2 DEF m, SameTargets

\* A pending cleanup of allocated cells is well typed.
LEMMA TailTyped ==
  ASSUME NEW a, NEW b, NEW x \in 0 .. a, NEW y \in 0 .. b, NEW s \in BOOLEAN
  PROVE  [rec |-> x, fwd |-> y, stop |-> s] \in [rec : 0 .. a, fwd : 0 .. b, stop : BOOLEAN]
  OBVIOUS

\* Removing a target at most unmaps it and queues one typed cleanup.
LEMMA RemoveTyped ==
  ASSUME Base, NEW k \in Keys, NEW idle \in BOOLEAN, NEW stop \in BOOLEAN,
         idle => targets[k] # 0, RemoveTarget(k, idle, stop)
  PROVE  /\ draining' \in BOOLEAN
         /\ targets' \in [Keys -> 0 .. nrec] /\ forwarders' \in [Keys -> 0 .. nfwd]
         /\ tails' \subseteq [rec : 0 .. nrec, fwd : 0 .. nfwd, stop : BOOLEAN]
         /\ \A j \in Keys : targets'[j] # 0 => targets'[j] = targets[j]
  <1> USE LocalDaemonAssumption
  <1>1. draining' \in BOOLEAN BY DEF RemoveTarget
  <1>2. /\ targets \in [Keys -> 0 .. nrec] /\ forwarders \in [Keys -> 0 .. nfwd]
        /\ nrec \in Nat /\ nfwd \in Nat
    BY DEF Base, TypeOK, TypeTable, TypeForwards
  <1>3. targets' \in [Keys -> 0 .. nrec] /\ forwarders' \in [Keys -> 0 .. nfwd]
    BY <1>2 DEF RemoveTarget
  <1>4. \A j \in Keys : targets'[j] # 0 => targets'[j] = targets[j]
    BY <1>2 DEF RemoveTarget
  <1> DEFINE x == IF idle THEN targets[k] ELSE 0
             y == IF idle THEN forwarders[k] ELSE 0
  <1>5. x \in 0 .. nrec /\ y \in 0 .. nfwd BY <1>2
  <1>6. tails' \subseteq tails \cup {[rec |-> x, fwd |-> y, stop |-> stop]}
    BY DEF RemoveTarget
  <1> HIDE DEF x, y
  <1>7. [rec |-> x, fwd |-> y, stop |-> stop] \in [rec : 0 .. nrec, fwd : 0 .. nfwd, stop : BOOLEAN]
    BY <1>5, TailTyped
  <1>8. tails \subseteq [rec : 0 .. nrec, fwd : 0 .. nfwd, stop : BOOLEAN]
    BY DEF Base, TypeOK, TypeGrace
  <1> QED BY <1>1, <1>3, <1>4, <1>6, <1>7, <1>8

\* Accept keeps the basic invariant.
LEMMA AcceptBase == ASSUME NEW c \in Conns, NEW t \in Kinds, NEW l \in Leases, Base, Accept(c, t, l) PROVE Base'
  <1> USE LocalDaemonAssumption DEF Accept, Goto, FirstStep, life, table, fwds, grace, conn
  <1>1. TypeLife' BY DEF Base, TypeOK, TypeLife
  <1>2. TypeTable' BY DEF Base, TypeOK, TypeTable
  <1>3. TypeForwards' BY DEF Base, TypeOK, TypeForwards
  <1>4. TypeGrace' BY DEF Base, TypeOK, TypeGrace, TypeTable, TypeForwards
  <1>5. TypeConn' BY Labels DEF Base, TypeOK, TypeConn, TypeTable, TypeForwards, Request
  <1>6. HandlerOK' BY DEF Base, TypeOK, TypeConn, TypeTable, HandlerOK, Holding, KeyOf, Request
  <1>7. RecordOK' BY DEF Base, RecordOK, TypeTable, TypeOK
  <1> QED BY <1>1, <1>2, <1>3, <1>4, <1>5, <1>6, <1>7 DEF Base, TypeOK

\* CheckLease keeps the basic invariant.
LEMMA CheckLeaseBase == ASSUME NEW c \in Conns, Base, CheckLease(c) PROVE Base'
  <1> USE LocalDaemonAssumption DEF CheckLease, hasSession, Goto, Return, life, table, fwds, grace, conn
  <1>1. TypeLife' BY DEF Base, TypeOK, TypeLife
  <1>2. TypeTable' BY DEF Base, TypeOK, TypeTable
  <1>3. TypeForwards' BY DEF Base, TypeOK, TypeForwards
  <1>4. TypeGrace' BY DEF Base, TypeOK, TypeGrace, TypeTable, TypeForwards
  <1>5. TypeConn'
    <2>1. CASE Return(c) BY <2>1, ReturnConn DEF Base, TypeOK
    <2>2. CASE UNCHANGED <<req, rec, fwd>> BY <2>2, GotoConn, Labels DEF Base, TypeOK
    <2> QED BY <2>1, <2>2
  <1>6. HandlerOK' BY DEF Base, TypeOK, TypeConn, TypeTable, HandlerOK, Holding, KeyOf, Request
  <1>7. RecordOK' BY DEF Base, RecordOK, TypeTable, TypeOK
  <1> QED BY <1>1, <1>2, <1>3, <1>4, <1>5, <1>6, <1>7 DEF Base, TypeOK

\* ShutdownRequest keeps the basic invariant.
LEMMA ShutdownRequestBase == ASSUME NEW c \in Conns, Base, ShutdownRequest(c) PROVE Base'
  <1> USE LocalDaemonAssumption DEF ShutdownRequest, Goto, Return, life, table, fwds, grace, conn
  <1>1. TypeLife' BY DEF Base, TypeOK, TypeLife
  <1>2. TypeTable' BY DEF Base, TypeOK, TypeTable
  <1>3. TypeForwards' BY DEF Base, TypeOK, TypeForwards
  <1>4. TypeGrace' BY DEF Base, TypeOK, TypeGrace, TypeTable, TypeForwards
  <1>5. TypeConn' BY Labels DEF Base, TypeOK, TypeConn, TypeTable, TypeForwards
  <1>6. HandlerOK' BY DEF Base, TypeOK, TypeConn, TypeTable, HandlerOK, Holding, KeyOf, Request
  <1>7. RecordOK' BY DEF Base, RecordOK, TypeTable, TypeOK
  <1> QED BY <1>1, <1>2, <1>3, <1>4, <1>5, <1>6, <1>7 DEF Base, TypeOK

\* LookupTarget keeps the basic invariant.
LEMMA LookupTargetBase == ASSUME NEW c \in Conns, Base, LookupTarget(c) PROVE Base'
    <1> USE LocalDaemonAssumption DEF LookupTarget, Found, AfterEnsure, KeyOf, Goto, Return, life,
       table, fwds, grace, conn
  <1>0. req[c].lease \in Leases /\ req[c].type \in Kinds /\ KeyOf(c) \in Keys BY BusyRequest
  <1>1. TypeLife' BY DEF Base, TypeOK, TypeLife
  <1>2. TypeTable' BY DEF Base, TypeOK, TypeTable
  <1>3. TypeForwards' BY DEF Base, TypeOK, TypeForwards
  <1>4. TypeGrace' BY DEF Base, TypeOK, TypeGrace, TypeTable, TypeForwards
  <1>5. TypeConn'
    <2>1. CASE Found(c)
      BY <1>0, <2>1, Labels DEF Base, TypeOK, TypeConn, TypeTable
    <2>2. CASE UNCHANGED <<req, rec, fwd>> BY <2>2, GotoConn, Labels DEF Base, TypeOK, Found
    <2> QED BY <2>1, <2>2
  <1>6. HandlerOK' BY DEF Base, TypeOK, TypeConn, TypeTable, HandlerOK, Holding, KeyOf, Request, RecordOK
  <1>7. RecordOK' BY DEF Base, RecordOK, TypeTable, TypeOK
  <1> QED BY <1>1, <1>2, <1>3, <1>4, <1>5, <1>6, <1>7 DEF Base, TypeOK

\* EnsureDomain keeps the basic invariant.
LEMMA EnsureDomainBase == ASSUME NEW c \in Conns, Base, EnsureDomain(c) PROVE Base'
  <1> USE LocalDaemonAssumption DEF EnsureDomain, Goto, Return, life, table, fwds, grace, conn
  <1>1. TypeLife' BY DEF Base, TypeOK, TypeLife
  <1>2. TypeTable' BY DEF Base, TypeOK, TypeTable
  <1>3. TypeForwards' BY DEF Base, TypeOK, TypeForwards
  <1>4. TypeGrace' BY DEF Base, TypeOK, TypeGrace, TypeTable, TypeForwards
  <1>5. TypeConn'
    <2>1. CASE Return(c) BY <2>1, ReturnConn DEF Base, TypeOK
    <2>2. CASE UNCHANGED <<req, rec, fwd>> BY <2>2, GotoConn, Labels DEF Base, TypeOK
    <2> QED BY <2>1, <2>2
  <1>6. HandlerOK' BY DEF Base, TypeOK, TypeConn, TypeTable, HandlerOK, Holding, KeyOf, Request
  <1>7. RecordOK' BY DEF Base, RecordOK, TypeTable, TypeOK
  <1> QED BY <1>1, <1>2, <1>3, <1>4, <1>5, <1>6, <1>7 DEF Base, TypeOK

\* The third alternative of CreateTarget, for the address and suffix it takes.
CreatedAs(c, i, n) ==
  /\ targets[KeyOf(c)] = 0 /\ nrec < MaxRecs
  /\ FirstFree(i) /\ FreeName(Host[KeyOf(c)], n)
  /\ records' = [records EXCEPT ![<<Host[KeyOf(c)], n>>] = i]
  /\ recs' = [r \in 1 .. (nrec + 1) |->
                IF r = nrec + 1
                  THEN [key |-> KeyOf(c), ip |-> i, name |-> <<Host[KeyOf(c)], n>>, sessions |-> 0]
                  ELSE recs[r]]
  /\ nrec' = nrec + 1
  /\ targets' = [targets EXCEPT ![KeyOf(c)] = nrec + 1]
  /\ rec' = [rec EXCEPT ![c] = nrec + 1]
  /\ Goto(c, AfterEnsure(c))
  /\ UNCHANGED <<req, fwd>>
  /\ UNCHANGED <<life, sessions, domain, fwds, grace, opens>>

\* CreateTarget finds a record, gives up, or creates one.
LEMMA CreateCases ==
  ASSUME NEW c \in Conns, CreateTarget(c)
  PROVE  \/ targets[KeyOf(c)] # 0 /\ Found(c) /\ UNCHANGED <<targets, recs, nrec, records>>
         \/ Return(c) /\ UNCHANGED <<targets, recs, nrec, records>>
         \/ \E i \in Addr, n \in 0 .. MaxRecs : CreatedAs(c, i, n)
  BY DEF CreateTarget, CreatedAs

\* CreateTarget keeps the basic invariant.
LEMMA CreateTargetBase == ASSUME NEW c \in Conns, Base, CreateTarget(c) PROVE Base'
  <1> USE LocalDaemonAssumption
  <1>0. req[c].lease \in Leases /\ req[c].type \in Kinds /\ KeyOf(c) \in Keys
    BY BusyRequest DEF CreateTarget
  <1>a. /\ nrec \in Nat /\ targets \in [Keys -> 0 .. nrec] /\ records \in [Names -> 0 .. PoolSize]
        /\ recs \in [1 .. nrec -> TargetRecord] /\ pc[c] = "create"
    BY DEF Base, TypeOK, TypeTable, CreateTarget
  <1>b. CASE targets[KeyOf(c)] # 0 /\ Found(c) /\ UNCHANGED <<targets, recs, nrec, records>>
    <2> USE <1>b DEF Found, Goto
    <2>0. UNCHANGED <<life, sessions, domain, fwds, grace, opens>> BY DEF CreateTarget
    <2>1. TypeConn' BY <1>0, <1>a, <2>0, Labels DEF Base, TypeOK, TypeConn, AfterEnsure, fwds
    <2>2. HandlerOK'
      BY <1>0, <1>a, <2>0 DEF Base, TypeOK, TypeConn, HandlerOK, RecordOK, Holding, KeyOf, AfterEnsure
    <2>3. TypeLife' /\ TypeTable' /\ TypeForwards' /\ TypeGrace' /\ RecordOK'
      BY <2>0 DEF Base, TypeOK, TypeLife, TypeTable, TypeForwards, TypeGrace, RecordOK,
         life, fwds, grace
    <2> QED BY <2>1, <2>2, <2>3 DEF Base, TypeOK
  <1>c. CASE Return(c) /\ UNCHANGED <<targets, recs, nrec, records>>
    <2>0. UNCHANGED <<life, sessions, domain, fwds, grace, opens>> BY DEF CreateTarget
    <2>1. TypeConn' BY <1>c, <2>0, ReturnConn DEF Base, TypeOK, fwds
    <2>2. HandlerOK'
      BY <1>c, <2>0 DEF Base, TypeOK, TypeConn, HandlerOK, Holding, KeyOf, Return, Goto
    <2>3. TypeLife' /\ TypeTable' /\ TypeForwards' /\ TypeGrace' /\ RecordOK'
      BY <1>c, <2>0 DEF Base, TypeOK, TypeLife, TypeTable, TypeForwards, TypeGrace, RecordOK,
         life, fwds, grace
    <2> QED BY <2>1, <2>2, <2>3 DEF Base, TypeOK
  <1>d. ASSUME NEW i \in Addr, NEW n \in 0 .. MaxRecs, CreatedAs(c, i, n) PROVE Base'
    <2> USE <1>d DEF CreatedAs, Goto
    <2>0. UNCHANGED <<life, sessions, domain, fwds, grace, opens>> OBVIOUS
    <2> DEFINE new == [key |-> KeyOf(c), ip |-> i, name |-> <<Host[KeyOf(c)], n>>, sessions |-> 0]
    <2>1. new \in TargetRecord BY <1>0 DEF TargetRecord, Names
    <2>2. \A r \in 1 .. nrec' : recs'[r] = IF r = nrec + 1 THEN new ELSE recs[r] BY <1>a
    <2>3. recs' \in [1 .. nrec' -> TargetRecord]
      <3>1. \A r \in 1 .. nrec' : recs'[r] \in TargetRecord BY <1>a, <2>1, <2>2
      <3>2. recs' = [r \in 1 .. nrec' |-> recs'[r]] OBVIOUS
      <3> HIDE DEF CreatedAs, new
      <3> QED BY <3>1, <3>2
    <2>4. targets' \in [Keys -> 0 .. nrec'] /\ nrec' \in 0 .. MaxRecs BY <1>0, <1>a
    <2>5. records' \in [Names -> 0 .. PoolSize] BY <1>0, <1>a DEF Addr, Names
    <2>6. TypeTable' BY <2>0, <2>3, <2>4, <2>5 DEF Base, TypeOK, TypeTable
    <2>7. TypeConn' BY <1>0, <1>a, <2>0, Labels DEF Base, TypeOK, TypeConn, AfterEnsure, fwds
    <2>8. TypeGrace' BY <1>a, <2>0 DEF Base, TypeOK, TypeGrace, grace, fwds
    <2>9. RecordOK' BY <1>0, <1>a, <2>2 DEF Base, RecordOK
    <2>10. HandlerOK'
      <3>1. \A d \in Conns : rec[d] # 0 => recs'[rec[d]] = recs[rec[d]]
        BY <1>a, <2>2 DEF Base, TypeOK, TypeConn
      <3>2. recs'[nrec + 1].key = KeyOf(c) /\ nrec + 1 # 0 BY <1>a, <2>2
      <3>3. /\ pc' = [pc EXCEPT ![c] = AfterEnsure(c)] /\ rec' = [rec EXCEPT ![c] = nrec + 1]
            /\ req' = req /\ fwd' = fwd /\ sessions' = sessions
        BY <2>0
      <3> HIDE DEF CreatedAs
      <3> QED BY <1>0, <1>a, <3>1, <3>2, <3>3
              DEF Base, TypeOK, TypeConn, HandlerOK, Holding, KeyOf, AfterEnsure
    <2>11. TypeLife' /\ TypeForwards' BY <2>0 DEF Base, TypeOK, TypeLife, TypeForwards, life, fwds
    <2> QED BY <2>6, <2>7, <2>8, <2>9, <2>10, <2>11 DEF Base, TypeOK
  <1> QED BY <1>b, <1>c, <1>d, CreateCases

\* OpenSession keeps the basic invariant.
LEMMA OpenSessionBase == ASSUME NEW c \in Conns, Base, OpenSession(c) PROVE Base'
  <1> USE LocalDaemonAssumption DEF OpenSession, Goto, Return, life, table, fwds, grace, conn
  <1>1. TypeLife' BY DEF Base, TypeOK, TypeLife
  <1>2. TypeTable' BY DEF Base, TypeOK, TypeTable
  <1>3. TypeForwards' BY DEF Base, TypeOK, TypeForwards
  <1>4. TypeGrace' BY DEF Base, TypeOK, TypeGrace, TypeTable, TypeForwards
  <1>5. TypeConn'
    <2>1. CASE Return(c) BY <2>1, ReturnConn DEF Base, TypeOK
    <2>2. CASE UNCHANGED <<req, rec, fwd>> BY <2>2, GotoConn, Labels DEF Base, TypeOK
    <2> QED BY <2>1, <2>2
  <1>6. HandlerOK' BY DEF Base, TypeOK, TypeConn, TypeTable, HandlerOK, Holding, KeyOf, Request
  <1>7. RecordOK' BY DEF Base, RecordOK, TypeTable, TypeOK
  <1> QED BY <1>1, <1>2, <1>3, <1>4, <1>5, <1>6, <1>7 DEF Base, TypeOK

\* RegisterSession keeps the basic invariant.
LEMMA RegisterSessionBase == ASSUME NEW c \in Conns, Base, RegisterSession(c) PROVE Base'
  <1> USE LocalDaemonAssumption DEF RegisterSession, Admits, Goto, Return, life, table, fwds, grace, conn
  <1>0. req[c].lease \in Leases /\ req[c].type \in Kinds /\ KeyOf(c) \in Keys BY BusyRequest
  <1>1. TypeLife' BY DEF Base, TypeOK, TypeLife
  <1>2. TypeTable'
    <2>1. CASE Admits(req[c].lease)
      <3>1. recs' \in [1 .. nrec -> TargetRecord] BY <2>1, RegisterSame DEF SameTargets
      <3>2. sessions' \in [Leases -> Conns \cup {NoConn}]
        BY <1>0, <2>1 DEF Base, TypeOK, TypeTable
      <3> QED BY <3>1, <3>2 DEF Base, TypeOK, TypeTable
    <2>2. CASE ~Admits(req[c].lease)
      BY <2>2 DEF Base, TypeOK, TypeTable
    <2> QED BY <2>1, <2>2
  <1>3. TypeForwards' BY DEF Base, TypeOK, TypeForwards
  <1>4. TypeGrace' BY DEF Base, TypeOK, TypeGrace, TypeTable, TypeForwards
  <1>5. TypeConn'
    <2>1. CASE Return(c) BY <2>1, ReturnConn DEF Base, TypeOK
    <2>2. CASE Goto(c, "session") /\ UNCHANGED <<req, rec, fwd>>
      BY <2>2, GotoConn, Labels DEF Base, TypeOK
    <2> QED BY <2>1, <2>2
  <1>6. HandlerOK'
    <2>1. CASE Admits(req[c].lease)
      <3>1. \A q \in 1 .. nrec : recs'[q].key = recs[q].key BY <2>1, RegisterSame DEF SameTargets
      <3>2. \A d \in Conns : rec[d] # 0 => recs'[rec[d]].key = recs[rec[d]].key
        BY <3>1 DEF Base, TypeOK, TypeConn, TypeTable
      <3>3. /\ sessions' = [sessions EXCEPT ![req[c].lease] = c]
            /\ pc' = [pc EXCEPT ![c] = "session"] /\ req' = req /\ rec' = rec /\ fwd' = fwd
            /\ sessions[req[c].lease] = NoConn
        BY <2>1
      <3>4. \A d \in Conns : pc[d] = "session" => req[d].lease # req[c].lease
        BY <3>3 DEF Base, HandlerOK
      <3> QED BY <1>0, <3>2, <3>3, <3>4 DEF Base, TypeOK, TypeConn, TypeTable, HandlerOK, Holding, KeyOf
    <2>2. CASE ~Admits(req[c].lease)
      <3>1. Return(c) /\ UNCHANGED <<sessions, recs>> BY <2>2
      <3> HIDE DEF RegisterSession, Admits
      <3>2. pc'[c] = "idle" /\ \A d \in Conns \ {c} :
              pc'[d] = pc[d] /\ req'[d] = req[d] /\ rec'[d] = rec[d] /\ fwd'[d] = fwd[d]
        BY <3>1 DEF Base, TypeOK, TypeConn
      <3> HIDE DEF Return
      <3> QED BY <3>1, <3>2 DEF Base, HandlerOK, Holding, KeyOf
    <2> QED BY <2>1, <2>2
  <1>7. RecordOK'
    <2>1. CASE Admits(req[c].lease)
      <3>1. \A q \in 1 .. nrec : recs'[q].key = recs[q].key BY <2>1, RegisterSame DEF SameTargets
      <3> QED BY <3>1 DEF Base, TypeOK, TypeTable, RecordOK
    <2>2. CASE ~Admits(req[c].lease)
      BY <2>2 DEF Base, RecordOK
    <2> QED BY <2>1, <2>2
  <1> QED BY <1>1, <1>2, <1>3, <1>4, <1>5, <1>6, <1>7 DEF Base, TypeOK

\* ReleaseWithGrace keeps the basic invariant.
LEMMA ReleaseWithGraceBase == ASSUME NEW c \in Conns, Base, ReleaseWithGrace(c) PROVE Base'
  <1> USE LocalDaemonAssumption DEF ReleaseWithGrace, Goto, Return, life, table, fwds, grace, conn
  <1>0. req[c].lease \in Leases /\ req[c].type \in Kinds /\ KeyOf(c) \in Keys BY BusyRequest
  <1>a. SameTargets BY <1>0, DecrementSame DEF ReleaseWithGrace
  <1>1. TypeLife' BY DEF Base, TypeOK, TypeLife
  <1>2. TypeTable'
    <2>1. sessions' \in [Leases -> Conns \cup {NoConn}] BY <1>0 DEF Base, TypeOK, TypeTable
    <2>2. recs' \in [1 .. nrec -> TargetRecord] BY <1>a DEF SameTargets
    <2>3. targets' \in [Keys -> 0 .. nrec] BY <1>0 DEF Base, TypeOK, TypeTable
    <2> QED BY <2>1, <2>2, <2>3 DEF Base, TypeOK, TypeTable
  <1>3. TypeForwards' BY DEF Base, TypeOK, TypeForwards
  <1>4. TypeGrace' BY <1>0 DEF Base, TypeOK, TypeGrace
  <1>5. TypeConn' BY ReturnConn DEF Base, TypeOK
  <1>6. HandlerOK'
    <2>1. \A d \in Conns : rec[d] # 0 => recs'[rec[d]].key = recs[rec[d]].key
      BY <1>a DEF Base, TypeOK, TypeConn, TypeTable, SameTargets
    <2>2. /\ sessions' = [sessions EXCEPT ![req[c].lease] = NoConn]
          /\ pc' = [pc EXCEPT ![c] = "idle"] /\ req' = [req EXCEPT ![c] = NoLease]
          /\ rec' = [rec EXCEPT ![c] = 0] /\ fwd' = [fwd EXCEPT ![c] = 0]
      OBVIOUS
    <2>3. \A d \in Conns : d # c /\ pc[d] = "session" => req[d].lease # req[c].lease
      BY DEF Base, HandlerOK
    <2> QED BY <1>0, <2>1, <2>2, <2>3 DEF Base, TypeOK, TypeConn, TypeTable, HandlerOK, Holding, KeyOf
  <1>7. RecordOK'
    <2>1. \A q \in 1 .. nrec : recs'[q].key = recs[q].key BY <1>a DEF SameTargets
    <2> QED BY <1>0, <2>1 DEF Base, TypeOK, TypeTable, RecordOK
  <1> QED BY <1>1, <1>2, <1>3, <1>4, <1>5, <1>6, <1>7 DEF Base, TypeOK

\* ReleaseNow keeps the basic invariant.
LEMMA ReleaseNowBase == ASSUME NEW c \in Conns, Base, ReleaseNow(c) PROVE Base'
  <1> USE LocalDaemonAssumption DEF ReleaseNow, Goto, Return, life, table, fwds, grace, conn
  <1>0. req[c].lease \in Leases /\ req[c].type \in Kinds /\ KeyOf(c) \in Keys BY BusyRequest
  <1>a. SameTargets BY <1>0, DecrementSame DEF ReleaseNow
  <1>b. /\ draining' \in BOOLEAN
        /\ targets' \in [Keys -> 0 .. nrec] /\ forwarders' \in [Keys -> 0 .. nfwd]
        /\ tails' \subseteq [rec : 0 .. nrec, fwd : 0 .. nfwd, stop : BOOLEAN]
        /\ \A j \in Keys : targets'[j] # 0 => targets'[j] = targets[j]
    <2> DEFINE idle == targets[KeyOf(c)] # 0 /\ recs[targets[KeyOf(c)]].sessions <= 1
               last == \A m \in Leases \ {req[c].lease} : sessions[m] = NoConn
    <2>1. idle \in BOOLEAN /\ last \in BOOLEAN /\ (idle => targets[KeyOf(c)] # 0) OBVIOUS
    <2>2. RemoveTarget(KeyOf(c), idle, last) OBVIOUS
    <2> HIDE DEF idle, last
    <2> QED BY <1>0, <2>1, <2>2, RemoveTyped
  <1>1. TypeLife' BY <1>b DEF Base, TypeOK, TypeLife
  <1>2. TypeTable'
    <2>1. sessions' \in [Leases -> Conns \cup {NoConn}] BY <1>0 DEF Base, TypeOK, TypeTable
    <2>2. recs' \in [1 .. nrec -> TargetRecord] BY <1>a DEF SameTargets
    <2> QED BY <1>b, <2>1, <2>2 DEF Base, TypeOK, TypeTable
  <1>3. TypeForwards' BY <1>b DEF Base, TypeOK, TypeForwards
  <1>4. TypeGrace' BY <1>b DEF Base, TypeOK, TypeGrace
  <1>5. TypeConn' BY ReturnConn DEF Base, TypeOK
  <1>6. HandlerOK'
    <2>1. \A d \in Conns : rec[d] # 0 => recs'[rec[d]].key = recs[rec[d]].key
      BY <1>a DEF Base, TypeOK, TypeConn, TypeTable, SameTargets
    <2>2. /\ sessions' = [sessions EXCEPT ![req[c].lease] = NoConn]
          /\ pc' = [pc EXCEPT ![c] = "idle"] /\ req' = [req EXCEPT ![c] = NoLease]
          /\ rec' = [rec EXCEPT ![c] = 0] /\ fwd' = [fwd EXCEPT ![c] = 0]
      OBVIOUS
    <2>3. \A d \in Conns : d # c /\ pc[d] = "session" => req[d].lease # req[c].lease
      BY DEF Base, HandlerOK
    <2> QED BY SMTT(30), <1>0, <2>1, <2>2, <2>3 DEF Base, TypeOK, TypeConn, TypeTable, HandlerOK, Holding, KeyOf
  <1>7. RecordOK'
    <2> SUFFICES ASSUME NEW j \in Keys, targets'[j] # 0 PROVE recs'[targets'[j]].key = j
      BY DEF RecordOK
    <2>1. targets'[j] = targets[j] /\ targets[j] \in 1 .. nrec
      BY <1>b DEF Base, TypeOK, TypeTable
    <2> QED BY <1>a, <2>1 DEF Base, RecordOK, SameTargets
  <1> QED BY <1>1, <1>2, <1>3, <1>4, <1>5, <1>6, <1>7 DEF Base, TypeOK

\* LookupForwarder keeps the basic invariant.
LEMMA LookupForwarderBase == ASSUME NEW c \in Conns, Base, LookupForwarder(c) PROVE Base'
  <1> USE LocalDaemonAssumption DEF LookupForwarder, Goto, life, table, fwds, grace, conn
  <1>0. req[c].lease \in Leases /\ req[c].type \in Kinds /\ KeyOf(c) \in Keys BY BusyRequest
  <1>1. TypeLife' BY DEF Base, TypeOK, TypeLife
  <1>2. TypeTable' BY DEF Base, TypeOK, TypeTable
  <1>3. TypeForwards'
    <2>1. CASE forwarders[KeyOf(c)] # 0
      BY <1>0, <2>1 DEF Base, TypeOK, TypeForwards
    <2>2. CASE forwarders[KeyOf(c)] = 0
      <3>1. /\ nfwd' = nfwd + 1 /\ nfwd \in Nat /\ nfwd < MaxFwds
            /\ forwarders' = [forwarders EXCEPT ![KeyOf(c)] = nfwd + 1]
            /\ forwards' = forwards /\ stopped' = stopped /\ stopping' = stopping
        BY <1>0, <2>2 DEF Base, TypeOK, TypeForwards
      <3> HIDE DEF LookupForwarder
      <3>2. forwarders' \in [Keys -> 0 .. nfwd']
        BY <1>0, <3>1 DEF Base, TypeOK, TypeForwards
      <3> QED BY <3>1, <3>2 DEF Base, TypeOK, TypeForwards
    <2> QED BY <2>1, <2>2
  <1>4. TypeGrace' BY DEF Base, TypeOK, TypeGrace, TypeTable, TypeForwards
  <1>5. TypeConn'
    <2>1. CASE forwarders[KeyOf(c)] # 0
      BY <1>0, <2>1, Labels DEF Base, TypeOK, TypeConn, TypeForwards
    <2>2. CASE forwarders[KeyOf(c)] = 0
      BY <1>0, <2>2, Labels DEF Base, TypeOK, TypeConn, TypeForwards
    <2> QED BY <2>1, <2>2
  <1>6. HandlerOK'
    <2>1. nfwd \in Nat /\ forwarders[KeyOf(c)] \in 0 .. nfwd BY <1>0 DEF Base, TypeOK, TypeForwards
    <2>2. /\ pc' = [pc EXCEPT ![c] = "ensure"] /\ req' = req /\ rec' = rec
          /\ sessions' = sessions /\ recs' = recs
          /\ \E f \in Nat \ {0} : fwd' = [fwd EXCEPT ![c] = f]
      BY <1>0, <2>1
    <2>3. pc[c] = "forwarder" OBVIOUS
    <2> HIDE DEF LookupForwarder
    <2>4. rec[c] # 0 /\ recs[rec[c]].key = KeyOf(c) /\ req[c] \in Request
      BY <2>3 DEF Base, HandlerOK, Holding
    <2>5. \A d \in Conns : KeyOf(d)' = KeyOf(d) BY <2>2 DEF KeyOf
    <2>6. PICK f \in Nat \ {0} : fwd' = [fwd EXCEPT ![c] = f] BY <2>2
    <2>7. fwd'[c] # 0 /\ pc'[c] = "ensure"
      BY <2>2, <2>6 DEF Base, TypeOK, TypeConn
    <2>8. \A d \in Conns \ {c} : pc'[d] = pc[d] /\ fwd'[d] = fwd[d]
      BY <2>2, <2>6 DEF Base, TypeOK, TypeConn
    <2> QED BY <2>2, <2>4, <2>5, <2>7, <2>8 DEF Base, HandlerOK, Holding
  <1>7. RecordOK' BY DEF Base, RecordOK, TypeTable, TypeOK
  <1> QED BY <1>1, <1>2, <1>3, <1>4, <1>5, <1>6, <1>7 DEF Base, TypeOK

\* EnsureForward keeps the basic invariant.
LEMMA EnsureForwardBase == ASSUME NEW c \in Conns, Base, EnsureForward(c) PROVE Base'
  <1> USE LocalDaemonAssumption DEF EnsureForward, Goto, Return, life, table, fwds, grace, conn
  <1>1. TypeLife' BY DEF Base, TypeOK, TypeLife
  <1>2. TypeTable' BY DEF Base, TypeOK, TypeTable
  <1>3. TypeForwards'
    <2>1. rec[c] \in 1 .. nrec BY DEF Base, TypeOK, TypeConn, TypeTable, HandlerOK, Holding
    <2>2. recs[rec[c]].ip \in 0 .. PoolSize
      BY <2>1 DEF Base, TypeOK, TypeTable, TargetRecord, Addr
    <2> QED BY <2>2 DEF Base, TypeOK, TypeForwards
  <1>4. TypeGrace' BY DEF Base, TypeOK, TypeGrace, TypeTable, TypeForwards
  <1>5. TypeConn' BY Labels DEF Base, TypeOK, TypeConn, TypeTable, TypeForwards
  <1>6. HandlerOK' BY DEF Base, TypeOK, TypeConn, TypeTable, HandlerOK, Holding, KeyOf, Request
  <1>7. RecordOK' BY DEF Base, RecordOK, TypeTable, TypeOK
  <1> QED BY <1>1, <1>2, <1>3, <1>4, <1>5, <1>6, <1>7 DEF Base, TypeOK

\* LookupRemove keeps the basic invariant.
LEMMA LookupRemoveBase == ASSUME NEW c \in Conns, Base, LookupRemove(c) PROVE Base'
  <1> USE LocalDaemonAssumption DEF LookupRemove, KeyOf, Goto, Return, life, table, fwds, grace, conn
  <1>0. req[c].lease \in Leases /\ req[c].type \in Kinds /\ KeyOf(c) \in Keys BY BusyRequest
  <1>1. TypeLife' BY DEF Base, TypeOK, TypeLife
  <1>2. TypeTable' BY DEF Base, TypeOK, TypeTable
  <1>3. TypeForwards' BY DEF Base, TypeOK, TypeForwards
  <1>4. TypeGrace' BY DEF Base, TypeOK, TypeGrace, TypeTable, TypeForwards
  <1>5. TypeConn'
    <2>1. CASE Return(c) BY <2>1, ReturnConn DEF Base, TypeOK
    <2>2. CASE Goto(c, "drop") /\ fwd' = [fwd EXCEPT ![c] = forwarders[KeyOf(c)]] /\ UNCHANGED <<req, rec>>
      BY <1>0, <2>2, Labels DEF Base, TypeOK, TypeConn, TypeForwards
    <2> QED BY <2>1, <2>2
  <1>6. HandlerOK' BY DEF Base, TypeOK, TypeConn, TypeTable, HandlerOK, Holding, KeyOf, Request
  <1>7. RecordOK' BY DEF Base, RecordOK, TypeTable, TypeOK
  <1> QED BY <1>1, <1>2, <1>3, <1>4, <1>5, <1>6, <1>7 DEF Base, TypeOK

\* RemoveForward keeps the basic invariant.
LEMMA RemoveForwardBase == ASSUME NEW c \in Conns, Base, RemoveForward(c) PROVE Base'
  <1> USE LocalDaemonAssumption DEF RemoveForward, Goto, Return, life, table, fwds, grace, conn
  <1>1. TypeLife' BY DEF Base, TypeOK, TypeLife
  <1>2. TypeTable' BY DEF Base, TypeOK, TypeTable
  <1>3. TypeForwards' BY DEF Base, TypeOK, TypeForwards, TypeConn, HandlerOK
  <1>4. TypeGrace' BY DEF Base, TypeOK, TypeGrace, TypeTable, TypeForwards
  <1>5. TypeConn' BY Labels DEF Base, TypeOK, TypeConn, TypeTable, TypeForwards
  <1>6. HandlerOK' BY DEF Base, TypeOK, TypeConn, TypeTable, HandlerOK, Holding, KeyOf, Request
  <1>7. RecordOK' BY DEF Base, RecordOK, TypeTable, TypeOK
  <1> QED BY <1>1, <1>2, <1>3, <1>4, <1>5, <1>6, <1>7 DEF Base, TypeOK

\* GraceExpires keeps the basic invariant.
LEMMA GraceExpiresBase == ASSUME NEW l \in Leases, Base, GraceExpires(l) PROVE Base'
  <1> USE LocalDaemonAssumption DEF GraceExpires, life, table, fwds, grace, conn
  <1>b. /\ draining' \in BOOLEAN
        /\ targets' \in [Keys -> 0 .. nrec] /\ forwarders' \in [Keys -> 0 .. nfwd]
        /\ tails' \subseteq [rec : 0 .. nrec, fwd : 0 .. nfwd, stop : BOOLEAN]
        /\ \A j \in Keys : targets'[j] # 0 => targets'[j] = targets[j]
    <2> DEFINE k == LeaseKey[l]
               idle == IdleTarget(k)
               stop == NoSession /\ Registered \ (IF idle THEN {k} ELSE {}) = {}
    <2>1. idle \in BOOLEAN /\ stop \in BOOLEAN /\ (idle => targets[k] # 0) BY DEF IdleTarget
    <2>2. RemoveTarget(k, idle, stop) /\ k \in Keys OBVIOUS
    <2> HIDE DEF k, idle, stop
    <2> QED BY <2>1, <2>2, RemoveTyped
  <1>1. TypeLife' BY <1>b DEF Base, TypeOK, TypeLife
  <1>2. TypeTable' BY <1>b DEF Base, TypeOK, TypeTable
  <1>3. TypeForwards' BY <1>b DEF Base, TypeOK, TypeForwards
  <1>4. TypeGrace'
    <2>1. timers' \in [Leases -> Nat] BY DEF Base, TypeOK, TypeGrace
    <2> QED BY <1>b, <2>1 DEF Base, TypeOK, TypeGrace
  <1>5. TypeConn' BY Labels DEF Base, TypeOK, TypeConn, TypeTable, TypeForwards
  <1>6. HandlerOK' BY DEF Base, TypeOK, TypeConn, TypeTable, HandlerOK, Holding, KeyOf, Request
  <1>7. RecordOK' BY <1>b DEF Base, TypeOK, TypeTable, RecordOK
  <1> QED BY <1>1, <1>2, <1>3, <1>4, <1>5, <1>6, <1>7 DEF Base, TypeOK

\* CleanupTail keeps the basic invariant.
LEMMA CleanupTailBase == ASSUME NEW t \in tails, Base, CleanupTail(t) PROVE Base'
  <1> USE LocalDaemonAssumption DEF CleanupTail, StopManager, life, table, fwds, grace, conn
  <1>a. t \in [rec : 0 .. nrec, fwd : 0 .. nfwd, stop : BOOLEAN] BY DEF Base, TypeOK, TypeGrace
  <1>1. TypeLife' BY DEF Base, TypeOK, TypeLife
  <1>2. TypeTable'
    <2>1. t.rec # 0 => recs[t.rec].name \in Names
      BY <1>a DEF Base, TypeOK, TypeTable, TargetRecord
    <2>2. records' \in [Names -> 0 .. PoolSize]
      BY <2>1 DEF Base, TypeOK, TypeTable
    <2> QED BY <2>2 DEF Base, TypeOK, TypeTable
  <1>3. TypeForwards'
    <2>1. t.fwd \in 0 .. nfwd /\ nfwd \in Nat /\ nfwd <= MaxFwds
      BY <1>a DEF Base, TypeOK, TypeForwards
    <2>2. UNCHANGED <<forwarders, nfwd, stopping>> OBVIOUS
    <2>3. \/ t.fwd # 0 /\ StopManager(t.fwd)
          \/ UNCHANGED <<stopped, forwards>>
      OBVIOUS
    <2> HIDE DEF CleanupTail
    <2>4. CASE t.fwd # 0 /\ StopManager(t.fwd)
      <3>1. t.fwd \in 1 .. nfwd /\ t.fwd \in 1 .. MaxFwds BY <2>1, <2>4
      <3>2. forwards' \in [1 .. MaxFwds -> 0 .. PoolSize]
        BY <2>4, <3>1 DEF Base, TypeOK, TypeForwards
      <3>3. stopped' \subseteq 1 .. nfwd BY <2>4, <3>1 DEF Base, TypeOK, TypeForwards
      <3> QED BY <2>2, <3>2, <3>3 DEF Base, TypeOK, TypeForwards
    <2>5. CASE UNCHANGED <<stopped, forwards>> BY <2>2, <2>5 DEF Base, TypeOK, TypeForwards
    <2> QED BY <2>3, <2>4, <2>5
  <1>4. TypeGrace'
    <2>1. nrec \in Nat /\ nfwd \in Nat BY DEF Base, TypeOK, TypeForwards, TypeTable
    <2>2. /\ [t EXCEPT !.fwd = 0] = [rec |-> t.rec, fwd |-> 0, stop |-> t.stop]
          /\ [t EXCEPT !.rec = 0] = [rec |-> 0, fwd |-> t.fwd, stop |-> t.stop]
          /\ t.rec \in 0 .. nrec /\ t.fwd \in 0 .. nfwd /\ t.stop \in BOOLEAN
      BY <1>a
    <2>3. /\ [t EXCEPT !.fwd = 0] \in [rec : 0 .. nrec, fwd : 0 .. nfwd, stop : BOOLEAN]
          /\ [t EXCEPT !.rec = 0] \in [rec : 0 .. nrec, fwd : 0 .. nfwd, stop : BOOLEAN]
      BY <2>1, <2>2, TailTyped
    <2>4. tails' \subseteq tails \cup {[t EXCEPT !.fwd = 0], [t EXCEPT !.rec = 0]} OBVIOUS
    <2> QED BY <2>3, <2>4 DEF Base, TypeOK, TypeGrace
  <1>5. TypeConn' BY Labels DEF Base, TypeOK, TypeConn, TypeTable, TypeForwards
  <1>6. HandlerOK' BY DEF Base, TypeOK, TypeConn, TypeTable, HandlerOK, Holding, KeyOf, Request
  <1>7. RecordOK' BY DEF Base, RecordOK, TypeTable, TypeOK
  <1> QED BY <1>1, <1>2, <1>3, <1>4, <1>5, <1>6, <1>7 DEF Base, TypeOK

\* StopNext keeps the basic invariant.
LEMMA StopNextBase == ASSUME NEW f \in stopping, Base, StopNext(f) PROVE Base'
  <1> USE LocalDaemonAssumption DEF StopNext, StopManager, life, table, fwds, grace, conn
  <1>1. TypeLife' BY DEF Base, TypeOK, TypeLife
  <1>2. TypeTable' BY DEF Base, TypeOK, TypeTable
  <1>3. TypeForwards' BY DEF Base, TypeOK, TypeForwards
  <1>4. TypeGrace' BY DEF Base, TypeOK, TypeGrace, TypeTable, TypeForwards
  <1>5. TypeConn' BY Labels DEF Base, TypeOK, TypeConn, TypeTable, TypeForwards
  <1>6. HandlerOK' BY DEF Base, TypeOK, TypeConn, TypeTable, HandlerOK, Holding, KeyOf, Request
  <1>7. RecordOK' BY DEF Base, RecordOK, TypeTable, TypeOK
  <1> QED BY <1>1, <1>2, <1>3, <1>4, <1>5, <1>6, <1>7 DEF Base, TypeOK

\* StartupExpires keeps the basic invariant.
LEMMA StartupExpiresBase == ASSUME Base, StartupExpires PROVE Base'
  <1> USE LocalDaemonAssumption DEF StartupExpires, life, table, fwds, grace, conn
  <1>1. TypeLife' BY DEF Base, TypeOK, TypeLife
  <1>2. TypeTable' BY DEF Base, TypeOK, TypeTable
  <1>3. TypeForwards' BY DEF Base, TypeOK, TypeForwards
  <1>4. TypeGrace'
    <2>1. [rec |-> 0, fwd |-> 0, stop |-> TRUE] \in [rec : 0 .. nrec, fwd : 0 .. nfwd, stop : BOOLEAN]
      BY TailTyped DEF Base, TypeOK, TypeTable, TypeForwards
    <2>2. tails' \subseteq tails \cup {[rec |-> 0, fwd |-> 0, stop |-> TRUE]} OBVIOUS
    <2> QED BY <2>1, <2>2 DEF Base, TypeOK, TypeGrace
  <1>5. TypeConn' BY Labels DEF Base, TypeOK, TypeConn, TypeTable, TypeForwards
  <1>6. HandlerOK' BY DEF Base, TypeOK, TypeConn, TypeTable, HandlerOK, Holding, KeyOf, Request
  <1>7. RecordOK' BY DEF Base, RecordOK, TypeTable, TypeOK
  <1> QED BY <1>1, <1>2, <1>3, <1>4, <1>5, <1>6, <1>7 DEF Base, TypeOK

\* Signal keeps the basic invariant.
LEMMA SignalBase == ASSUME Base, Signal PROVE Base'
  <1> USE LocalDaemonAssumption DEF Signal, life, table, fwds, grace, conn
  <1>1. TypeLife' BY DEF Base, TypeOK, TypeLife
  <1>2. TypeTable' BY DEF Base, TypeOK, TypeTable
  <1>3. TypeForwards' BY DEF Base, TypeOK, TypeForwards
  <1>4. TypeGrace' BY DEF Base, TypeOK, TypeGrace, TypeTable, TypeForwards
  <1>5. TypeConn' BY Labels DEF Base, TypeOK, TypeConn, TypeTable, TypeForwards
  <1>6. HandlerOK' BY DEF Base, TypeOK, TypeConn, TypeTable, HandlerOK, Holding, KeyOf, Request
  <1>7. RecordOK' BY DEF Base, RecordOK, TypeTable, TypeOK
  <1> QED BY <1>1, <1>2, <1>3, <1>4, <1>5, <1>6, <1>7 DEF Base, TypeOK

\* StopResources keeps the basic invariant.
LEMMA StopResourcesBase == ASSUME Base, StopResources PROVE Base'
  <1> USE LocalDaemonAssumption DEF StopResources, life, table, fwds, grace, conn
  <1>1. TypeLife' BY DEF Base, TypeOK, TypeLife
  <1>2. TypeTable' BY DEF Base, TypeOK, TypeTable
  <1>3. TypeForwards' BY DEF Base, TypeOK, TypeForwards
  <1>4. TypeGrace' BY DEF Base, TypeOK, TypeGrace, TypeTable, TypeForwards
  <1>5. TypeConn' BY Labels DEF Base, TypeOK, TypeConn, TypeTable, TypeForwards
  <1>6. HandlerOK' BY DEF Base, TypeOK, TypeConn, TypeTable, HandlerOK, Holding, KeyOf, Request
  <1>7. RecordOK' BY DEF Base, RecordOK, TypeTable, TypeOK
  <1> QED BY <1>1, <1>2, <1>3, <1>4, <1>5, <1>6, <1>7 DEF Base, TypeOK

\* CloseConnections keeps the basic invariant.
LEMMA CloseConnectionsBase == ASSUME Base, CloseConnections PROVE Base'
  <1> USE LocalDaemonAssumption DEF CloseConnections, life, table, fwds, grace, conn
  <1>1. TypeLife' BY DEF Base, TypeOK, TypeLife
  <1>2. TypeTable' BY DEF Base, TypeOK, TypeTable
  <1>3. TypeForwards' BY DEF Base, TypeOK, TypeForwards
  <1>4. TypeGrace' BY DEF Base, TypeOK, TypeGrace, TypeTable, TypeForwards
  <1>5. TypeConn' BY Labels DEF Base, TypeOK, TypeConn, TypeTable, TypeForwards
  <1>6. HandlerOK' BY DEF Base, TypeOK, TypeConn, TypeTable, HandlerOK, Holding, KeyOf, Request
  <1>7. RecordOK' BY DEF Base, RecordOK, TypeTable, TypeOK
  <1> QED BY <1>1, <1>2, <1>3, <1>4, <1>5, <1>6, <1>7 DEF Base, TypeOK

\* Exit keeps the basic invariant.
LEMMA ExitBase == ASSUME Base, Exit PROVE Base'
  <1> USE LocalDaemonAssumption DEF Exit, life, table, fwds, grace, conn
  <1>1. TypeLife' BY DEF Base, TypeOK, TypeLife
  <1>2. TypeTable' BY DEF Base, TypeOK, TypeTable
  <1>3. TypeForwards' BY DEF Base, TypeOK, TypeForwards
  <1>4. TypeGrace' BY DEF Base, TypeOK, TypeGrace, TypeTable, TypeForwards
  <1>5. TypeConn' BY Labels DEF Base, TypeOK, TypeConn, TypeTable, TypeForwards
  <1>6. HandlerOK' BY DEF Base, TypeOK, TypeConn, TypeTable, HandlerOK, Holding, KeyOf, Request
  <1>7. RecordOK' BY DEF Base, RecordOK, TypeTable, TypeOK
  <1> QED BY <1>1, <1>2, <1>3, <1>4, <1>5, <1>6, <1>7 DEF Base, TypeOK

\* Every step keeps the basic invariant.
LEMMA NextBase == Base /\ [Next]_vars => Base'
  <1> SUFFICES ASSUME Base, [Next]_vars PROVE Base' OBVIOUS
  <1>1. CASE UNCHANGED vars
    BY <1>1 DEF vars, life, table, fwds, grace, conn, Base, TypeOK, TypeLife, TypeTable,
       TypeForwards, TypeGrace, TypeConn, HandlerOK, RecordOK, KeyOf
  <1>2. ASSUME NEW c \in Conns, Handler(c) PROVE Base'
    BY <1>2, CheckLeaseBase, ShutdownRequestBase, LookupTargetBase, EnsureDomainBase,
       CreateTargetBase, OpenSessionBase, RegisterSessionBase, LookupForwarderBase,
       EnsureForwardBase, LookupRemoveBase, RemoveForwardBase DEF Handler
  <1>3. ASSUME NEW c \in Conns, Release(c) PROVE Base'
    BY <1>3, ReleaseWithGraceBase, ReleaseNowBase DEF Release
  <1> QED BY <1>1, <1>2, <1>3, AcceptBase, GraceExpiresBase, CleanupTailBase, StopNextBase,
          StartupExpiresBase, SignalBase, StopResourcesBase, CloseConnectionsBase, ExitBase DEF Next

\* Type correctness: the maps, the handlers and the pending cleanups refer to
\* allocated cells only, for any number of clients and targets.
THEOREM TypeCorrect == Spec => []TypeOK
  <1>1. Base => TypeOK BY DEF Base
  <1> QED BY <1>1, InitBase, NextBase, PTL DEF Spec

-----------------------------------------------------------------------------
(* Draining.                                                                *)

\* The steps that touch draining, the leases or the cleanups; the others
\* leave all of them alone.
LEMMA QuietSteps ==
  ASSUME Next
  PROVE  \/ UNCHANGED <<draining, asked, sessions, tails>>
         \/ \E c \in Conns : ShutdownRequest(c) \/ RegisterSession(c) \/ Release(c)
         \/ \E l \in Leases : GraceExpires(l)
         \/ \E t \in tails : CleanupTail(t)
         \/ StartupExpires
  <1>1. ASSUME NEW c \in Conns, NEW t \in Kinds, NEW l \in Leases, Accept(c, t, l)
        PROVE  UNCHANGED <<draining, asked, sessions, tails>>
    BY <1>1 DEF Accept, life, table, grace
  <1>2. ASSUME NEW c \in Conns, Handler(c), ~ShutdownRequest(c), ~RegisterSession(c)
        PROVE  UNCHANGED <<draining, asked, sessions, tails>>
    <2> USE DEF life, table, grace
    <2>1. CASE CheckLease(c) BY <2>1 DEF CheckLease
    <2>2. CASE LookupTarget(c) BY <2>2 DEF LookupTarget
    <2>3. CASE EnsureDomain(c) BY <2>3 DEF EnsureDomain
    <2>4. CASE CreateTarget(c) BY <2>4 DEF CreateTarget
    <2>5. CASE OpenSession(c) BY <2>5 DEF OpenSession
    <2>6. CASE LookupForwarder(c) BY <2>6 DEF LookupForwarder
    <2>7. CASE EnsureForward(c) BY <2>7 DEF EnsureForward
    <2>8. CASE LookupRemove(c) BY <2>8 DEF LookupRemove
    <2>9. CASE RemoveForward(c) BY <2>9 DEF RemoveForward
    <2> QED BY <1>2, <2>1, <2>2, <2>3, <2>4, <2>5, <2>6, <2>7, <2>8, <2>9 DEF Handler
  <1>3. ASSUME NEW f \in stopping, StopNext(f) PROVE UNCHANGED <<draining, asked, sessions, tails>>
    BY <1>3 DEF StopNext, table, grace
  <1>4. Signal \/ StopResources \/ CloseConnections \/ Exit => UNCHANGED <<draining, asked, sessions, tails>>
    BY DEF Signal, StopResources, CloseConnections, Exit, table, grace
  <1> QED BY <1>1, <1>2, <1>3, <1>4 DEF Next

\* Every step keeps what the drain needs.
LEMMA DrainStep ==
  ASSUME Base, TailsDrain, DrainedIsIdle, Next
  PROVE  TailsDrain' /\ DrainedIsIdle'
  <1> USE DEF TailsDrain, DrainedIsIdle, NoSession
  <1>1. CASE UNCHANGED <<draining, asked, sessions, tails>> BY <1>1
  <1>2. ASSUME NEW c \in Conns, ShutdownRequest(c) PROVE TailsDrain' /\ DrainedIsIdle'
    BY <1>2 DEF ShutdownRequest, grace, table
  <1>3. ASSUME NEW c \in Conns, RegisterSession(c) PROVE TailsDrain' /\ DrainedIsIdle'
    BY <1>3 DEF RegisterSession, Admits, grace, life
  <1>4. ASSUME NEW c \in Conns, ReleaseWithGrace(c) PROVE TailsDrain' /\ DrainedIsIdle'
    <2>1. req[c].lease \in Leases BY <1>4, BusyRequest DEF ReleaseWithGrace
    <2> QED BY <1>4, <2>1 DEF ReleaseWithGrace, grace, life, Base, TypeOK, TypeTable
  <1>5. ASSUME NEW c \in Conns, ReleaseNow(c) PROVE TailsDrain' /\ DrainedIsIdle'
    <2>1. req[c].lease \in Leases BY <1>5, BusyRequest DEF ReleaseNow
    <2> DEFINE l == req[c].lease
               k == KeyOf(c)
               idle == targets[k] # 0 /\ recs[targets[k]].sessions <= 1
               last == \A m \in Leases \ {l} : sessions[m] = NoConn
    <2>2. /\ RemoveTarget(k, idle, last) /\ asked' = asked
          /\ sessions' = [sessions EXCEPT ![l] = NoConn]
      BY <1>5 DEF ReleaseNow
    <2>3. draining' = (draining \/ last) BY <2>2 DEF RemoveTarget
    <2>4. \A t \in tails' : t \in tails \/ (t.stop = last /\ (last \/ t.rec # 0))
      <3>1. idle => targets[k] # 0 OBVIOUS
      <3>2. RemoveTarget(k, idle, last) BY <2>2
      <3> HIDE DEF idle, last
      <3> QED BY <3>1, <3>2 DEF RemoveTarget
    <2>5. DrainedIsIdle' BY <2>1, <2>2, <2>3 DEF Base, TypeOK, TypeTable
    <2> HIDE DEF last, idle
    <2> QED BY <2>3, <2>4, <2>5
  <1>6. ASSUME NEW l \in Leases, GraceExpires(l) PROVE TailsDrain' /\ DrainedIsIdle'
    <2> DEFINE k == LeaseKey[l]
               idle == IdleTarget(k)
               stop == NoSession /\ Registered \ (IF idle THEN {k} ELSE {}) = {}
    <2>1. RemoveTarget(k, idle, stop) /\ asked' = asked /\ sessions' = sessions
      BY <1>6 DEF GraceExpires
    <2>2. draining' = (draining \/ stop) /\ (stop => NoSession) BY <2>1 DEF RemoveTarget
    <2>3. \A t \in tails' : t \in tails \/ (t.stop = stop /\ (stop \/ t.rec # 0))
      <3>1. idle => targets[k] # 0 BY DEF IdleTarget
      <3>2. RemoveTarget(k, idle, stop) BY <2>1
      <3> HIDE DEF idle, stop
      <3> QED BY <3>1, <3>2 DEF RemoveTarget
    <2> HIDE DEF stop, idle
    <2> QED BY <2>1, <2>2, <2>3
  <1>7. ASSUME NEW t \in tails, CleanupTail(t) PROVE TailsDrain' /\ DrainedIsIdle'
    <2>1. t \in [rec : 0 .. nrec, fwd : 0 .. nfwd, stop : BOOLEAN] BY DEF Base, TypeOK, TypeGrace
    <2>2. asked' = asked /\ sessions' = sessions BY <1>7 DEF CleanupTail
    <2>3. CASE t.fwd # 0 BY <1>7, <2>1, <2>2, <2>3 DEF CleanupTail
    <2>4. CASE t.fwd = 0 /\ t.rec # 0 BY <1>7, <2>1, <2>2, <2>4 DEF CleanupTail
    <2>5. CASE t.fwd = 0 /\ t.rec = 0
      <3>1. draining BY <2>5
      <3> QED BY <1>7, <2>2, <2>5, <3>1 DEF CleanupTail
    <2> QED BY <2>3, <2>4, <2>5
  <1>8. StartupExpires => TailsDrain' /\ DrainedIsIdle'
    BY DEF StartupExpires, table
  <1> QED BY <1>1, <1>2, <1>3, <1>4, <1>5, <1>6, <1>7, <1>8, QuietSteps DEF Release

\* Drain safety: a daemon that drains by itself has no lease and admits none.
THEOREM DrainSafe == Spec => []DrainedIsIdle
  <1> DEFINE I == Base /\ TailsDrain /\ DrainedIsIdle
  <1>1. Init => I
    BY InitBase DEF Init, TailsDrain, DrainedIsIdle
  <1>2. I /\ [Next]_vars => I'
    <2>1. I /\ Next => I' BY DrainStep, NextBase
    <2>2. I /\ UNCHANGED vars => I'
      <3> SUFFICES ASSUME I, UNCHANGED vars PROVE I' OBVIOUS
      <3>1. Base' BY NextBase
      <3>2. UNCHANGED <<draining, asked, sessions, tails>> BY DEF vars, life, table, grace
      <3> QED BY <3>1, <3>2 DEF TailsDrain, DrainedIsIdle, NoSession
    <2> QED BY <2>1, <2>2
  <1>3. I => DrainedIsIdle OBVIOUS
  <1> HIDE DEF I
  <1> QED BY <1>1, <1>2, <1>3, PTL DEF Spec

-----------------------------------------------------------------------------
(* Forwards.                                                                *)

\* Who will stop manager f: it is in the table, or a cleanup has it.
Kept(f) == (\E k \in Keys : forwarders[k] = f) \/ (\E t \in tails : t.fwd = f)

\* Every manager is stopped or will be, and a stopped one forwards nothing.
ManagersKept ==
  \A f \in 1 .. nfwd : /\ f \in stopped \/ Kept(f)
                       /\ f \in stopped => forwards[f] = 0

\* The steps that touch the managers; the others leave the table, the forwards
\* and the cleanups alone, or add a cleanup without a manager.
LEMMA ManagersQuiet ==
  ASSUME ManagersKept, Next
  PROVE  \/ ManagersKept'
         \/ \E c \in Conns : Release(c) \/ LookupForwarder(c) \/ EnsureForward(c) \/ RemoveForward(c)
         \/ \E l \in Leases : GraceExpires(l)
         \/ \E t \in tails : CleanupTail(t)
         \/ \E f \in stopping : StopNext(f)
  <1> USE DEF fwds, grace
  <1>1. ASSUME UNCHANGED fwds, tails \subseteq tails' PROVE ManagersKept'
    BY <1>1 DEF ManagersKept, Kept
  <1>2. ASSUME NEW c \in Conns, NEW t \in Kinds, NEW l \in Leases, Accept(c, t, l) PROVE ManagersKept'
    BY <1>1, <1>2 DEF Accept
  <1>3. ASSUME NEW c \in Conns, Handler(c), ~LookupForwarder(c), ~EnsureForward(c), ~RemoveForward(c)
        PROVE  ManagersKept'
    <2>1. CASE CheckLease(c) BY <1>1, <2>1 DEF CheckLease
    <2>2. CASE LookupTarget(c) BY <1>1, <2>2 DEF LookupTarget
    <2>3. CASE EnsureDomain(c) BY <1>1, <2>3 DEF EnsureDomain
    <2>4. CASE CreateTarget(c) BY <1>1, <2>4 DEF CreateTarget
    <2>5. CASE OpenSession(c) BY <1>1, <2>5 DEF OpenSession
    <2>6. CASE RegisterSession(c) BY <1>1, <2>6 DEF RegisterSession
    <2>7. CASE LookupRemove(c) BY <1>1, <2>7 DEF LookupRemove
    <2>8. CASE ShutdownRequest(c) BY <1>1, <2>8 DEF ShutdownRequest
    <2> QED BY <1>3, <2>1, <2>2, <2>3, <2>4, <2>5, <2>6, <2>7, <2>8 DEF Handler
  <1>4. StartupExpires => ManagersKept'
    BY <1>1 DEF StartupExpires
  <1>5. Signal \/ StopResources \/ CloseConnections \/ Exit => ManagersKept'
    BY <1>1 DEF Signal, StopResources, CloseConnections, Exit
  <1> QED BY <1>2, <1>3, <1>4, <1>5 DEF Next

\* Taking a target away hands its manager to the cleanup.
LEMMA RemoveKeepsManagers ==
  ASSUME Base, ManagersKept, NEW k \in Keys, NEW idle \in BOOLEAN, NEW stop \in BOOLEAN,
         RemoveTarget(k, idle, stop), UNCHANGED <<forwards, stopped, nfwd>>
  PROVE  ManagersKept'
  <1>1. forwarders \in [Keys -> 0 .. nfwd] BY DEF Base, TypeOK, TypeForwards
  <1>2. ASSUME NEW f \in 1 .. nfwd, Kept(f) PROVE Kept(f)'
    <2>1. CASE \E t \in tails : t.fwd = f BY <2>1 DEF RemoveTarget, Kept
    <2>2. CASE \E j \in Keys : forwarders[j] = f
      <3>1. PICK j \in Keys : forwarders[j] = f BY <2>2
      <3>2. CASE idle /\ j = k
        <4> DEFINE t == [rec |-> targets[k], fwd |-> forwarders[k], stop |-> stop]
        <4>1. t \in tails' BY <3>2 DEF RemoveTarget
        <4>2. t.fwd = f BY <3>1, <3>2
        <4> HIDE DEF t
        <4> QED BY <4>1, <4>2 DEF Kept
      <3>3. CASE ~(idle /\ j = k)
        <4>1. forwarders'[j] = f BY <1>1, <3>1, <3>3 DEF RemoveTarget
        <4> QED BY <4>1 DEF Kept
      <3> QED BY <3>2, <3>3
    <2> QED BY <1>2, <2>1, <2>2 DEF Kept
  <1> QED BY <1>2 DEF ManagersKept

\* Every step keeps the managers.
LEMMA ManagersStep ==
  ASSUME Base, ManagersKept, Next
  PROVE  ManagersKept'
  <1>0. /\ nfwd \in Nat /\ forwarders \in [Keys -> 0 .. nfwd] /\ stopped \subseteq 1 .. nfwd
        /\ MaxFwds \in Nat /\ forwards \in [1 .. MaxFwds -> 0 .. PoolSize] /\ nfwd <= MaxFwds
    BY LocalDaemonAssumption DEF Base, TypeOK, TypeForwards
  <1>1. ASSUME NEW c \in Conns, Release(c) PROVE ManagersKept'
    <2>1. CASE ReleaseWithGrace(c)
      BY <2>1 DEF ReleaseWithGrace, fwds, ManagersKept, Kept
    <2>2. CASE ReleaseNow(c)
      <3> DEFINE k == KeyOf(c)
                 l == req[c].lease
                 idle == targets[k] # 0 /\ recs[targets[k]].sessions <= 1
                 last == \A m \in Leases \ {l} : sessions[m] = NoConn
      <3>1. k \in Keys BY <2>2, BusyRequest DEF ReleaseNow
      <3>2. RemoveTarget(k, idle, last) /\ UNCHANGED <<forwards, stopped, nfwd>>
        BY <2>2 DEF ReleaseNow
      <3> HIDE DEF k, idle, last
      <3>3. idle \in BOOLEAN /\ last \in BOOLEAN BY DEF idle, last
      <3> QED BY <3>1, <3>2, <3>3, RemoveKeepsManagers
    <2> QED BY <1>1, <2>1, <2>2 DEF Release
  <1>2. ASSUME NEW l \in Leases, GraceExpires(l) PROVE ManagersKept'
    <2> DEFINE k == LeaseKey[l]
               idle == IdleTarget(k)
               stop == NoSession /\ Registered \ (IF idle THEN {k} ELSE {}) = {}
    <2>1. k \in Keys BY LocalDaemonAssumption
    <2>2. RemoveTarget(k, idle, stop) /\ UNCHANGED <<forwards, stopped, nfwd>>
      BY <1>2 DEF GraceExpires
    <2>3. idle \in BOOLEAN /\ stop \in BOOLEAN BY DEF IdleTarget
    <2> HIDE DEF k, idle, stop
    <2> QED BY <2>1, <2>2, <2>3, RemoveKeepsManagers
  <1>3. ASSUME NEW c \in Conns, LookupForwarder(c) PROVE ManagersKept'
    <2>1. CASE UNCHANGED fwds BY <1>3, <2>1 DEF LookupForwarder, fwds, grace, ManagersKept, Kept
    <2>2. CASE /\ forwarders[KeyOf(c)] = 0 /\ nfwd < MaxFwds /\ nfwd' = nfwd + 1
               /\ forwarders' = [forwarders EXCEPT ![KeyOf(c)] = nfwd + 1]
               /\ UNCHANGED <<forwards, stopped>>
      <3>1. KeyOf(c) \in Keys /\ tails' = tails BY <1>3, BusyRequest DEF LookupForwarder, grace
      <3>2. \A f \in 1 .. nfwd : Kept(f) => Kept(f)' BY <1>0, <2>2, <3>1 DEF Kept
      <3>3. ASSUME NEW f \in 1 .. nfwd', f \notin 1 .. nfwd PROVE Kept(f)' /\ f \notin stopped
        <4>1. f = nfwd + 1 BY <1>0, <2>2, <3>3
        <4>2. forwarders'[KeyOf(c)] = f BY <1>0, <2>2, <3>1, <4>1
        <4> QED BY <1>0, <3>1, <3>3, <4>2 DEF Kept
      <3> QED BY <2>2, <3>2, <3>3 DEF ManagersKept
    <2> QED BY <1>3, <2>1, <2>2 DEF LookupForwarder
  <1>4. ASSUME NEW c \in Conns, EnsureForward(c) PROVE ManagersKept'
    <2>1. UNCHANGED <<stopped, forwarders, nfwd, tails>> BY <1>4 DEF EnsureForward, grace
    <2>2. \/ forwards' = forwards
          \/ /\ fwd[c] \notin stopped
             /\ \E i : forwards' = [forwards EXCEPT ![fwd[c]] = i]
      BY <1>4 DEF EnsureForward
    <2>3. \A f \in stopped : forwards'[f] = forwards[f] BY <1>0, <2>2
    <2> QED BY <2>1, <2>3 DEF ManagersKept, Kept
  <1>5. ASSUME NEW c \in Conns, RemoveForward(c) PROVE ManagersKept'
    BY <1>0, <1>5 DEF RemoveForward, grace, ManagersKept, Kept
  <1>6. ASSUME NEW t \in tails, CleanupTail(t) PROVE ManagersKept'
    <2>0. t \in [rec : 0 .. nrec, fwd : 0 .. nfwd, stop : BOOLEAN] BY DEF Base, TypeOK, TypeGrace
    <2>1. CASE t.fwd # 0
      <3>1. /\ stopped' = stopped \cup {t.fwd} /\ forwards' = [forwards EXCEPT ![t.fwd] = 0]
            /\ tails \ {t} \subseteq tails' /\ UNCHANGED <<forwarders, nfwd>>
        BY <1>6, <2>1 DEF CleanupTail, StopManager
      <3>2. \A f \in 1 .. nfwd : Kept(f) => f = t.fwd \/ Kept(f)' BY <3>1 DEF Kept
      <3> QED BY <1>0, <2>0, <3>1, <3>2 DEF ManagersKept
    <2>2. CASE t.fwd = 0
      <3>1. /\ UNCHANGED <<stopped, forwards, forwarders, nfwd>> /\ tails \ {t} \subseteq tails'
        BY <1>6, <2>2 DEF CleanupTail
      <3>2. \A f \in 1 .. nfwd : Kept(f) => Kept(f)' BY <2>2, <3>1 DEF Kept
      <3> QED BY <3>1, <3>2 DEF ManagersKept
    <2> QED BY <2>1, <2>2
  <1>7. ASSUME NEW f \in stopping, StopNext(f) PROVE ManagersKept'
    <2>1. /\ stopped' = stopped \cup {f} /\ forwards' = [forwards EXCEPT ![f] = 0]
          /\ UNCHANGED <<tails, forwarders, nfwd>>
      BY <1>7 DEF StopNext, StopManager, grace
    <2> QED BY <1>0, <2>1 DEF ManagersKept, Kept
  <1> QED BY <1>1, <1>2, <1>3, <1>4, <1>5, <1>6, <1>7, ManagersQuiet

\* No forward is forgotten: whatever port requests, timers, cleanups and the
\* end of Serve do, a manager that forwards is in the table or with a cleanup
\* that will stop it.
THEOREM NoForwardForgotten == Spec => []ForwardsOwned
  <1> DEFINE I == Base /\ ManagersKept
  <1>1. Init => I
    BY InitBase DEF Init, ManagersKept
  <1>2. I /\ [Next]_vars => I'
    <2> SUFFICES ASSUME I, [Next]_vars PROVE I' OBVIOUS
    <2>1. Base' BY NextBase
    <2>2. CASE Next BY <2>1, <2>2, ManagersStep
    <2>3. CASE UNCHANGED vars
      BY <2>1, <2>3 DEF vars, fwds, grace, ManagersKept, Kept
    <2> QED BY <2>2, <2>3
  <1>3. I => ForwardsOwned BY DEF ManagersKept, Kept, ForwardsOwned
  <1> HIDE DEF I
  <1> QED BY <1>1, <1>2, <1>3, PTL DEF Spec

-----------------------------------------------------------------------------
(* Addresses and names.                                                     *)

\* The steps that touch a record, the maps or the resolver.
LEMMA QuietTable ==
  ASSUME Next
  PROVE  \/ UNCHANGED <<targets, recs, nrec, records, sessions, tails>>
         \/ \E c \in Conns : CreateTarget(c) \/ RegisterSession(c) \/ Release(c)
         \/ \E l \in Leases : GraceExpires(l)
         \/ \E t \in tails : CleanupTail(t)
         \/ StartupExpires
  <1> DEFINE Quiet == UNCHANGED <<targets, recs, nrec, records, sessions, tails>>
  <1>1. ASSUME NEW c \in Conns, NEW t \in Kinds, NEW l \in Leases, Accept(c, t, l) PROVE Quiet
    BY <1>1 DEF Accept, life, table, grace
  <1>2. ASSUME NEW c \in Conns, Handler(c), ~CreateTarget(c), ~RegisterSession(c) PROVE Quiet
    <2> USE DEF life, table, grace
    <2>1. CASE CheckLease(c) BY <2>1 DEF CheckLease
    <2>2. CASE LookupTarget(c) BY <2>2 DEF LookupTarget
    <2>3. CASE EnsureDomain(c) BY <2>3 DEF EnsureDomain
    <2>4. CASE ShutdownRequest(c) BY <2>4 DEF ShutdownRequest
    <2>5. CASE OpenSession(c) BY <2>5 DEF OpenSession
    <2>6. CASE LookupForwarder(c) BY <2>6 DEF LookupForwarder
    <2>7. CASE EnsureForward(c) BY <2>7 DEF EnsureForward
    <2>8. CASE LookupRemove(c) BY <2>8 DEF LookupRemove
    <2>9. CASE RemoveForward(c) BY <2>9 DEF RemoveForward
    <2> QED BY <1>2, <2>1, <2>2, <2>3, <2>4, <2>5, <2>6, <2>7, <2>8, <2>9 DEF Handler
  <1>3. ASSUME NEW f \in stopping, StopNext(f) PROVE Quiet
    BY <1>3 DEF StopNext, table, grace
  <1>4. Signal \/ StopResources \/ CloseConnections \/ Exit => Quiet
    BY DEF Signal, StopResources, CloseConnections, Exit, table, grace
  <1> HIDE DEF Quiet
  <1>5. Quiet => UNCHANGED <<targets, recs, nrec, records, sessions, tails>> BY DEF Quiet
  <1> QED BY <1>1, <1>2, <1>3, <1>4, <1>5 DEF Next

\* What the resolver must know, with the registered targets spelled out.
Resolved ==
  /\ \A k \in Keys : targets[k] # 0 => records[recs[targets[k]].name] = recs[targets[k]].ip
  /\ \A j, k \in Keys : j # k /\ targets[j] # 0 /\ targets[k] # 0 =>
       /\ recs[targets[j]].ip # recs[targets[k]].ip
       /\ recs[targets[j]].name # recs[targets[k]].name

\* The resolver's property, record by record.
LEMMA ResolvedIs == ResolverAgrees <=> Resolved
  BY DEF ResolverAgrees, Resolved, Registered

\* Counting sessions concerns neither names nor addresses.
LEMMA CountKeepsNames ==
  ASSUME Base, NamesOwned, Resolved, SameTargets, UNCHANGED <<targets, nrec, records, tails>>
  PROVE  NamesOwned' /\ Resolved'
  <1>1. /\ nrec \in Nat /\ \A k \in Keys : targets[k] # 0 => targets[k] \in 1 .. nrec
        /\ \A t \in tails : t.rec # 0 => t.rec \in 1 .. nrec
    BY LocalDaemonAssumption DEF Base, TypeOK, TypeTable, TypeGrace
  <1>2. \A q \in 1 .. nrec : recs'[q].ip = recs[q].ip /\ recs'[q].name = recs[q].name
    BY DEF SameTargets
  <1>3. NamesOwned' BY <1>1, <1>2 DEF NamesOwned
  <1>4. Resolved' BY <1>1, <1>2 DEF Resolved
  <1> QED BY <1>3, <1>4

\* Removing a target hands its name over to the cleanup.
LEMMA RemoveKeepsNames ==
  ASSUME Base, NamesOwned, Resolved, SameTargets, UNCHANGED <<nrec, records>>,
         NEW k \in Keys, NEW idle \in BOOLEAN, NEW stop \in BOOLEAN,
         idle => targets[k] # 0, RemoveTarget(k, idle, stop)
  PROVE  NamesOwned' /\ Resolved'
  <1>1. /\ nrec \in Nat /\ \A j \in Keys : targets[j] # 0 => targets[j] \in 1 .. nrec
        /\ \A t \in tails : t.rec # 0 => t.rec \in 1 .. nrec
        /\ targets \in [Keys -> 0 .. nrec] /\ recs \in [1 .. nrec -> TargetRecord]
    BY LocalDaemonAssumption DEF Base, TypeOK, TypeTable, TypeGrace
  <1>2. \A q \in 1 .. nrec : recs'[q].ip = recs[q].ip /\ recs'[q].name = recs[q].name
    BY DEF SameTargets
  <1>3. \A j \in Keys : targets'[j] # 0 => targets'[j] = targets[j] /\ (idle => j # k)
    BY <1>1 DEF RemoveTarget
  <1>4. \A t \in tails' : t.rec # 0 => t \in tails \/ (idle /\ t.rec = targets[k])
    BY DEF RemoveTarget
  <1>5. \A t, u \in tails' : t # u /\ t.rec # 0 /\ u.rec # 0 => t \in tails \/ u \in tails
    BY DEF RemoveTarget
  <1>6. Resolved' BY <1>1, <1>2, <1>3 DEF Resolved
  <1>7. \A j \in Keys : targets[j] # 0 => recs[targets[j]].ip # 0
    BY <1>1 DEF TargetRecord, Addr
  <1>8. ASSUME NEW t \in tails', t.rec # 0
        PROVE  /\ records'[recs'[t.rec].name] # 0
               /\ \A j \in Keys : targets'[j] # 0 =>
                    targets'[j] # t.rec /\ recs'[targets'[j]].name # recs'[t.rec].name
    <2>1. CASE t \in tails BY SMTT(30), <1>1, <1>2, <1>3, <1>8, <2>1 DEF NamesOwned
    <2>2. CASE idle /\ t.rec = targets[k]
      BY <1>1, <1>2, <1>3, <1>7, <1>8, <2>2 DEF Resolved
    <2> QED BY <1>4, <1>8, <2>1, <2>2
  <1>9. ASSUME NEW t \in tails', NEW u \in tails', t # u, t.rec # 0, u.rec # 0
        PROVE  t.rec # u.rec /\ recs'[t.rec].name # recs'[u.rec].name
    <2>1. CASE t \in tails /\ u \in tails BY <1>1, <1>2, <1>9, <2>1 DEF NamesOwned
    <2>2. CASE t \in tails /\ idle /\ u.rec = targets[k]
      BY <1>1, <1>2, <1>9, <2>2 DEF NamesOwned
    <2>3. CASE u \in tails /\ idle /\ t.rec = targets[k]
      BY <1>1, <1>2, <1>9, <2>3 DEF NamesOwned
    <2> QED BY <1>4, <1>5, <1>9, <2>1, <2>2, <2>3
  <1> QED BY <1>6, <1>8, <1>9 DEF NamesOwned

\* A new target gets a name and an address that nobody has.
LEMMA CreateKeepsNames ==
  ASSUME Base, NamesOwned, Resolved, NEW c \in Conns, KeyOf(c) \in Keys,
         NEW i \in Addr, NEW n \in 0 .. MaxRecs, CreatedAs(c, i, n)
  PROVE  NamesOwned' /\ Resolved'
  <1> DEFINE k == KeyOf(c)
             name == <<Host[k], n>>
  <1>1. /\ nrec \in Nat /\ targets \in [Keys -> 0 .. nrec] /\ recs \in [1 .. nrec -> TargetRecord]
        /\ records \in [Names -> 0 .. PoolSize]
        /\ \A t \in tails : t.rec # 0 => t.rec \in 1 .. nrec
    BY LocalDaemonAssumption DEF Base, TypeOK, TypeTable, TypeGrace
  <1>2. name \in Names /\ i # 0 BY LocalDaemonAssumption DEF Names, Addr
  <1>3. /\ records[name] = 0 /\ records' = [records EXCEPT ![name] = i]
        /\ tails' = tails /\ targets' = [targets EXCEPT ![k] = nrec + 1]
        /\ \A j \in Keys : targets[j] # 0 => recs[targets[j]].ip # i
    BY DEF CreatedAs, FreeName, FirstFree, UsedAddr, Registered, grace
  <1>4. /\ recs'[nrec + 1].name = name /\ recs'[nrec + 1].ip = i
        /\ \A q \in 1 .. nrec : recs'[q] = recs[q] /\ q # nrec + 1
    BY <1>1 DEF CreatedAs
  <1>5. \A q \in 1 .. nrec : recs[q].name \in Names /\ recs[q].ip # 0
    BY <1>1 DEF TargetRecord, Addr
  <1>6. /\ targets'[k] = nrec + 1
        /\ \A j \in Keys \ {k} : targets'[j] = targets[j]
        /\ \A j \in Keys : targets[j] # 0 => targets[j] \in 1 .. nrec
    BY <1>1, <1>3
  <1> HIDE DEF name, k
  <1>7. \A j \in Keys : targets[j] # 0 =>
          /\ recs[targets[j]].name # name
          /\ records'[recs[targets[j]].name] = records[recs[targets[j]].name]
    BY <1>1, <1>2, <1>3, <1>5, <1>6 DEF Resolved
  <1>8. \A t \in tails : t.rec # 0 =>
          /\ recs[t.rec].name # name
          /\ records'[recs[t.rec].name] = records[recs[t.rec].name]
    BY <1>1, <1>2, <1>3, <1>5 DEF NamesOwned
  <1>9. Resolved'
    <2>1. records'[name] = i BY <1>1, <1>2, <1>3
    <2>2. ASSUME NEW j \in Keys, targets'[j] # 0
          PROVE  records'[recs'[targets'[j]].name] = recs'[targets'[j]].ip
      <3>1. CASE j = k BY <2>1, <3>1, <1>4, <1>6
      <3>2. CASE j # k BY <2>2, <3>2, <1>4, <1>6, <1>7 DEF Resolved
      <3> QED BY <3>1, <3>2
    <2>3. ASSUME NEW j \in Keys, NEW m \in Keys, j # m, targets'[j] # 0, targets'[m] # 0
          PROVE  /\ recs'[targets'[j]].ip # recs'[targets'[m]].ip
                 /\ recs'[targets'[j]].name # recs'[targets'[m]].name
      <3>1. CASE j = k BY <2>3, <3>1, <1>3, <1>4, <1>6, <1>7
      <3>2. CASE m = k BY <2>3, <3>2, <1>3, <1>4, <1>6, <1>7
      <3>3. CASE j # k /\ m # k BY <2>3, <3>3, <1>4, <1>6 DEF Resolved
      <3> QED BY <3>1, <3>2, <3>3
    <2> QED BY <2>2, <2>3 DEF Resolved
  <1>10. NamesOwned'
    <2>1. ASSUME NEW t \in tails', t.rec # 0
          PROVE  /\ records'[recs'[t.rec].name] # 0
                 /\ \A j \in Keys : targets'[j] # 0 =>
                      targets'[j] # t.rec /\ recs'[targets'[j]].name # recs'[t.rec].name
      <3>1. t \in tails /\ t.rec \in 1 .. nrec BY <1>1, <1>3, <2>1
      <3>2. records'[recs'[t.rec].name] # 0 BY <2>1, <3>1, <1>4, <1>8 DEF NamesOwned
      <3>3. ASSUME NEW j \in Keys, targets'[j] # 0
            PROVE  targets'[j] # t.rec /\ recs'[targets'[j]].name # recs'[t.rec].name
        <4>1. CASE j = k BY <2>1, <3>1, <4>1, <1>4, <1>6, <1>8
        <4>2. CASE j # k BY <2>1, <3>1, <3>3, <4>2, <1>4, <1>6 DEF NamesOwned
        <4> QED BY <4>1, <4>2
      <3> QED BY <3>2, <3>3
    <2>2. \A t, u \in tails' : t # u /\ t.rec # 0 /\ u.rec # 0 =>
            t.rec # u.rec /\ recs'[t.rec].name # recs'[u.rec].name
      BY <1>1, <1>3, <1>4 DEF NamesOwned
    <2> QED BY <2>1, <2>2 DEF NamesOwned
  <1> QED BY <1>9, <1>10

\* A cleanup unregisters the name it owns and no other.
LEMMA CleanupKeepsNames ==
  ASSUME Base, NamesOwned, Resolved, NEW t \in tails, CleanupTail(t)
  PROVE  NamesOwned' /\ Resolved'
  <1>1. /\ t \in [rec : 0 .. nrec, fwd : 0 .. nfwd, stop : BOOLEAN]
        /\ recs \in [1 .. nrec -> TargetRecord] /\ nrec \in Nat
        /\ records \in [Names -> 0 .. PoolSize]
        /\ \A u \in tails : u.rec # 0 => u.rec \in 1 .. nrec
        /\ \A k \in Keys : targets[k] # 0 => targets[k] \in 1 .. nrec
    BY LocalDaemonAssumption DEF Base, TypeOK, TypeTable, TypeGrace
  <1>2. recs' = recs /\ targets' = targets BY DEF CleanupTail
  <1>3. CASE t.fwd # 0
    <2>1. /\ records' = records
          /\ tails' = (tails \ {t}) \cup {[t EXCEPT !.fwd = 0]}
      BY <1>3 DEF CleanupTail
    <2>2. [t EXCEPT !.fwd = 0].rec = t.rec BY <1>1
    <2>3. \A u \in tails' : u \in tails \ {t} \/ (u.rec = t.rec /\ u = [t EXCEPT !.fwd = 0])
      BY <2>1, <2>2
    <2>4. NamesOwned' BY <1>2, <2>1, <2>3 DEF NamesOwned
    <2>5. Resolved' BY <1>2, <2>1 DEF Resolved
    <2> QED BY <2>4, <2>5
  <1>4. CASE t.fwd = 0 /\ t.rec # 0
    <2>1. /\ records' = [records EXCEPT ![recs[t.rec].name] = 0]
          /\ tails' = (tails \ {t}) \cup (IF t.stop THEN {[t EXCEPT !.rec = 0]} ELSE {})
      BY <1>4 DEF CleanupTail
    <2>2. [t EXCEPT !.rec = 0].rec = 0 BY <1>1
    <2>3. \A u \in tails' : u.rec # 0 => u \in tails /\ u # t BY <2>1, <2>2
    <2>4. \A q \in 1 .. nrec : recs[q].name \in Names BY <1>1 DEF TargetRecord
    <2>5. \A q \in 1 .. nrec : recs[q].name # recs[t.rec].name =>
            records'[recs[q].name] = records[recs[q].name]
      BY <1>1, <1>4, <2>1, <2>4
    <2>6. NamesOwned' BY <1>1, <1>2, <1>4, <2>3, <2>5 DEF NamesOwned
    <2>7. Resolved' BY <1>1, <1>2, <1>4, <2>5 DEF Resolved, NamesOwned
    <2> QED BY <2>6, <2>7
  <1>5. CASE t.fwd = 0 /\ t.rec = 0
    <2>1. records' = records /\ tails' = tails \ {t} BY <1>5 DEF CleanupTail
    <2> QED BY <1>2, <2>1 DEF NamesOwned, Resolved
  <1> QED BY <1>3, <1>4, <1>5

\* Every step keeps the ownership of names and addresses.
LEMMA NamesStep ==
  ASSUME Base, NamesOwned, Resolved, Next
  PROVE  NamesOwned' /\ Resolved'
  <1>0. recs \in [1 .. nrec -> TargetRecord] BY DEF Base, TypeOK, TypeTable
  <1>a. recs' = recs => SameTargets BY <1>0 DEF SameTargets
  <1>1. CASE UNCHANGED <<targets, recs, nrec, records, sessions, tails>>
    BY <1>1, <1>a, CountKeepsNames
  <1>2. ASSUME NEW c \in Conns, CreateTarget(c) PROVE NamesOwned' /\ Resolved'
    <2>1. KeyOf(c) \in Keys BY <1>2, BusyRequest DEF CreateTarget
    <2>2. tails' = tails BY <1>2 DEF CreateTarget, grace
    <2> QED BY <1>2, <1>a, <2>1, <2>2, CreateCases, CreateKeepsNames, CountKeepsNames
  <1>3. ASSUME NEW c \in Conns, RegisterSession(c) PROVE NamesOwned' /\ Resolved'
    <2>1. UNCHANGED <<targets, nrec, records, tails>> BY <1>3 DEF RegisterSession, grace
    <2>2. SameTargets
      <3>1. CASE Admits(req[c].lease) BY <1>3, <3>1, RegisterSame DEF RegisterSession
      <3>2. CASE ~Admits(req[c].lease) BY <1>3, <1>a, <3>2 DEF RegisterSession
      <3> QED BY <3>1, <3>2
    <2> QED BY <2>1, <2>2, CountKeepsNames
  <1>4. ASSUME NEW c \in Conns, ReleaseWithGrace(c) PROVE NamesOwned' /\ Resolved'
    <2>1. KeyOf(c) \in Keys BY <1>4, BusyRequest DEF ReleaseWithGrace
    <2>2. SameTargets BY <1>4, <2>1, DecrementSame DEF ReleaseWithGrace
    <2>3. UNCHANGED <<targets, nrec, records, tails>> BY <1>4 DEF ReleaseWithGrace
    <2> QED BY <2>2, <2>3, CountKeepsNames
  <1>5. ASSUME NEW c \in Conns, ReleaseNow(c) PROVE NamesOwned' /\ Resolved'
    <2>1. KeyOf(c) \in Keys BY <1>5, BusyRequest DEF ReleaseNow
    <2>2. SameTargets BY <1>5, <2>1, DecrementSame DEF ReleaseNow
    <2> DEFINE idle == targets[KeyOf(c)] # 0 /\ recs[targets[KeyOf(c)]].sessions <= 1
               last == \A m \in Leases \ {req[c].lease} : sessions[m] = NoConn
    <2>3. RemoveTarget(KeyOf(c), idle, last) /\ UNCHANGED <<nrec, records>>
      BY <1>5 DEF ReleaseNow
    <2>4. idle \in BOOLEAN /\ last \in BOOLEAN /\ (idle => targets[KeyOf(c)] # 0) OBVIOUS
    <2> HIDE DEF idle, last
    <2> QED BY <2>1, <2>2, <2>3, <2>4, RemoveKeepsNames
  <1>6. ASSUME NEW l \in Leases, GraceExpires(l) PROVE NamesOwned' /\ Resolved'
    <2> DEFINE k == LeaseKey[l]
               idle == IdleTarget(k)
               stop == NoSession /\ Registered \ (IF idle THEN {k} ELSE {}) = {}
    <2>1. SameTargets /\ k \in Keys BY <1>6, <1>a, LocalDaemonAssumption DEF GraceExpires
    <2>2. RemoveTarget(k, idle, stop) /\ UNCHANGED <<nrec, records>> BY <1>6 DEF GraceExpires
    <2>3. idle \in BOOLEAN /\ stop \in BOOLEAN /\ (idle => targets[k] # 0) BY DEF IdleTarget
    <2> HIDE DEF k, idle, stop
    <2> QED BY <2>1, <2>2, <2>3, RemoveKeepsNames
  <1>7. ASSUME StartupExpires PROVE NamesOwned' /\ Resolved'
    <2>1. /\ UNCHANGED <<targets, recs, nrec, records>>
          /\ \A t \in tails' : t.rec # 0 => t \in tails
      BY <1>7 DEF StartupExpires, table
    <2> QED BY <2>1 DEF NamesOwned, Resolved
  <1> QED BY <1>1, <1>2, <1>3, <1>4, <1>5, <1>6, <1>7, CleanupKeepsNames, QuietTable DEF Release

\* The resolver: registered targets keep different names and addresses and
\* each name resolves to its target, however removals, their late
\* unregistrations and new registrations interleave.
THEOREM ResolverCorrect == Spec => []ResolverAgrees
  <1> DEFINE I == Base /\ NamesOwned /\ Resolved
  <1>1. Init => I
    BY InitBase DEF Init, NamesOwned, Resolved
  <1>2. I /\ [Next]_vars => I'
    <2> SUFFICES ASSUME I, [Next]_vars PROVE I' OBVIOUS
    <2>1. Base' BY NextBase
    <2>2. CASE Next BY <2>1, <2>2, NamesStep
    <2>3. CASE UNCHANGED vars
      <3>1. UNCHANGED <<targets, recs, nrec, records, tails>> BY <2>3 DEF vars, table, grace
      <3> QED BY <2>1, <3>1 DEF NamesOwned, Resolved
    <2> QED BY <2>2, <2>3
  <1>3. I => ResolverAgrees BY ResolvedIs
  <1> HIDE DEF I
  <1> QED BY <1>1, <1>2, <1>3, PTL DEF Spec

-----------------------------------------------------------------------------
(* Session counts.                                                          *)

\* The registered record of every key counts at most the key's leases.
Counted ==
  \A k \in Keys : targets[k] # 0 => recs[targets[k]].sessions <= Cardinality(LeasesOf(k))

\* A target has finitely many leases.
LEMMA LeasesFinite == \A k \in Keys : IsFiniteSet(LeasesOf(k)) /\ Cardinality(LeasesOf(k)) \in Nat
  <1> SUFFICES ASSUME NEW k \in Keys PROVE IsFiniteSet(LeasesOf(k)) /\ Cardinality(LeasesOf(k)) \in Nat
    OBVIOUS
  <1>1. LeasesOf(k) \subseteq Leases BY DEF LeasesOf
  <1> QED BY <1>1, LocalDaemonAssumption, FS_Subset, FS_CardinalityType

\* A released lease: the count falls with the number of leases.
LEMMA ReleaseCounts ==
  ASSUME Base, Counted, NEW c \in Conns, pc[c] = "session", recs' = Decrement(KeyOf(c)),
         sessions' = [sessions EXCEPT ![req[c].lease] = NoConn],
         \A j \in Keys : targets'[j] # 0 => targets'[j] = targets[j]
  PROVE  Counted'
  <1>0. PICK l \in Leases, k \in Keys : l = req[c].lease /\ k = KeyOf(c)
    BY BusyRequest
  <1>1. LeaseKey[l] = k BY <1>0 DEF KeyOf
  <1>2. sessions[l] # NoConn BY <1>0, LocalDaemonAssumption DEF Base, HandlerOK
  <1>3. /\ targets \in [Keys -> 0 .. nrec] /\ nrec \in Nat
        /\ \A q \in 1 .. nrec : recs[q].sessions \in Nat
        /\ sessions \in [Leases -> Conns \cup {NoConn}]
    BY LocalDaemonAssumption DEF Base, TypeOK, TypeTable, TargetRecord
  <1>4. \A q \in 1 .. nrec :
          recs'[q].sessions = IF q = targets[k] /\ recs[q].sessions > 0
                                THEN recs[q].sessions - 1 ELSE recs[q].sessions
    BY <1>0, DecrementSame
  <1>5. \A j \in Keys : LeasesOf(j)' = LeasesOf(j) \ {l}
    BY <1>0, <1>3 DEF LeasesOf
  <1>6. \A j \in Keys \ {k} : LeasesOf(j)' = LeasesOf(j)
    BY <1>1, <1>5 DEF LeasesOf
  <1>7. l \in LeasesOf(k) BY <1>1, <1>2 DEF LeasesOf
  <1>8. Cardinality(LeasesOf(k)') = Cardinality(LeasesOf(k)) - 1
    BY <1>1, <1>5, <1>7, LeasesFinite, FS_RemoveElement
  <1> SUFFICES ASSUME NEW j \in Keys, targets'[j] # 0
               PROVE  recs'[targets'[j]].sessions <= Cardinality(LeasesOf(j)')
    BY DEF Counted
  <1>9. targets'[j] = targets[j] /\ targets[j] \in 1 .. nrec BY <1>3
  <1>10. recs[targets[j]].sessions <= Cardinality(LeasesOf(j)) BY <1>9 DEF Counted
  <1>11. Cardinality(LeasesOf(j)) \in Nat BY LeasesFinite
  <1>12. CASE j = k
    <2>1. Cardinality(LeasesOf(k)') \in Nat
      <3>1. LeasesOf(k)' = LeasesOf(k) \ {l} BY <1>5
      <3>2. Cardinality(LeasesOf(k)) > 0
        BY <1>1, <1>7, LeasesFinite, FS_EmptySet
      <3> QED BY <1>8, <1>11, <1>12, <3>2
    <2> QED BY <1>3, <1>4, <1>8, <1>9, <1>10, <1>11, <1>12, <2>1
  <1>13. CASE j # k
    <2>1. targets[j] # targets[k] \/ targets[k] = 0
      BY <1>1, <1>9, <1>13 DEF Base, RecordOK
    <2> QED BY <1>3, <1>4, <1>6, <1>9, <1>10, <1>13, <2>1
  <1> QED BY <1>12, <1>13

\* A registered lease: the record the handler holds may be a removed one,
\* and then nothing is counted.
LEMMA RegisterCounts ==
  ASSUME Base, Counted, NEW c \in Conns, RegisterSession(c)
  PROVE  Counted'
  <1>0. pc[c] = "register" /\ targets' = targets BY DEF RegisterSession
  <1>a. PICK l \in Leases, k \in Keys : l = req[c].lease /\ k = KeyOf(c)
    BY <1>0, BusyRequest
  <1>1. LeaseKey[l] = k BY <1>a DEF KeyOf
  <1>2. CASE ~Admits(l) BY <1>0, <1>a, <1>2 DEF RegisterSession, Counted, LeasesOf
  <1>3. CASE Admits(l)
    <2>1. /\ targets \in [Keys -> 0 .. nrec] /\ nrec \in Nat
          /\ \A q \in 1 .. nrec : recs[q].sessions \in Nat
          /\ sessions \in [Leases -> Conns \cup {NoConn}]
      BY LocalDaemonAssumption DEF Base, TypeOK, TypeTable, TargetRecord
    <2>2. sessions' = [sessions EXCEPT ![l] = c] /\ sessions[l] = NoConn
      BY <1>a, <1>3 DEF RegisterSession, Admits
    <2>3. /\ rec[c] \in 1 .. nrec /\ recs[rec[c]].key = k
          /\ \A q \in 1 .. nrec :
               recs'[q].sessions = IF q = rec[c] THEN recs[q].sessions + 1 ELSE recs[q].sessions
      BY <1>0, <1>a, <1>3, RegisterSame DEF Base, HandlerOK, Holding
    <2>4. LeasesOf(k)' = LeasesOf(k) \cup {l} /\ l \notin LeasesOf(k)
      BY <1>1, <2>1, <2>2, LocalDaemonAssumption DEF LeasesOf
    <2>5. \A j \in Keys \ {k} : LeasesOf(j)' = LeasesOf(j)
      BY <1>1, <2>1, <2>2 DEF LeasesOf
    <2>6. Cardinality(LeasesOf(k)') = Cardinality(LeasesOf(k)) + 1
      BY <1>1, <2>4, LeasesFinite, FS_AddElement
    <2> SUFFICES ASSUME NEW j \in Keys, targets'[j] # 0
                 PROVE  recs'[targets'[j]].sessions <= Cardinality(LeasesOf(j)')
      BY DEF Counted
    <2>7. targets'[j] = targets[j] /\ targets[j] \in 1 .. nrec BY <1>0, <2>1
    <2>8. /\ recs[targets[j]].sessions <= Cardinality(LeasesOf(j))
          /\ Cardinality(LeasesOf(j)) \in Nat
      BY <2>7, LeasesFinite DEF Counted
    <2>9. CASE j = k BY <2>1, <2>3, <2>6, <2>7, <2>8, <2>9
    <2>10. CASE j # k
      <3>1. targets[j] # rec[c] BY <2>3, <2>7, <2>10 DEF Base, RecordOK
      <3> QED BY <2>3, <2>5, <2>7, <2>8, <2>10, <3>1
    <2> QED BY <2>9, <2>10
  <1> QED BY <1>2, <1>3

\* Every step keeps the count of sessions.
LEMMA CountStep ==
  ASSUME Base, Counted, Next
  PROVE  Counted'
  <1>1. ASSUME sessions' = sessions, \A j \in Keys : targets'[j] # 0 =>
               recs'[targets'[j]].sessions = 0 \/
               (targets'[j] = targets[j] /\ recs'[targets[j]].sessions = recs[targets[j]].sessions)
        PROVE  Counted'
    <2>1. \A j \in Keys : LeasesOf(j)' = LeasesOf(j) BY <1>1 DEF LeasesOf
    <2> QED BY <1>1, <2>1, LeasesFinite DEF Counted
  <1>2. CASE UNCHANGED <<targets, recs, nrec, records, sessions, tails>> BY <1>1, <1>2
  <1>3. ASSUME NEW c \in Conns, CreateTarget(c) PROVE Counted'
    <2>1. sessions' = sessions BY <1>3 DEF CreateTarget
    <2>2. CASE UNCHANGED <<targets, recs, nrec, records>> BY <1>1, <2>1, <2>2
    <2>3. ASSUME NEW i \in Addr, NEW n \in 0 .. MaxRecs, CreatedAs(c, i, n) PROVE Counted'
      <3>1. KeyOf(c) \in Keys BY <1>3, BusyRequest DEF CreateTarget
      <3>2. targets \in [Keys -> 0 .. nrec] /\ nrec \in Nat
        BY LocalDaemonAssumption DEF Base, TypeOK, TypeTable
      <3>3. /\ recs'[nrec + 1].sessions = 0
            /\ \A q \in 1 .. nrec : recs'[q] = recs[q]
            /\ targets' = [targets EXCEPT ![KeyOf(c)] = nrec + 1]
        BY <2>3, <3>2 DEF CreatedAs
      <3> QED BY <1>1, <2>1, <3>1, <3>2, <3>3
    <2> QED BY <1>3, <2>2, <2>3, CreateCases
  <1>4. ASSUME NEW c \in Conns, ReleaseWithGrace(c) PROVE Counted'
    BY <1>4, ReleaseCounts DEF ReleaseWithGrace
  <1>5. ASSUME NEW c \in Conns, ReleaseNow(c) PROVE Counted'
    <2>1. \A j \in Keys : targets'[j] # 0 => targets'[j] = targets[j]
      BY <1>5 DEF ReleaseNow, RemoveTarget, Base, TypeOK, TypeTable
    <2> QED BY <1>5, <2>1, ReleaseCounts DEF ReleaseNow
  <1>6. ASSUME NEW l \in Leases, GraceExpires(l) PROVE Counted'
    <2>1. \A j \in Keys : targets'[j] # 0 => targets'[j] = targets[j]
      BY <1>6 DEF GraceExpires, RemoveTarget, Base, TypeOK, TypeTable
    <2>2. recs' = recs /\ sessions' = sessions BY <1>6 DEF GraceExpires
    <2> QED BY <1>1, <2>1, <2>2
  <1>7. ASSUME NEW t \in tails, CleanupTail(t) PROVE Counted'
    <2>1. recs' = recs /\ sessions' = sessions /\ targets' = targets BY <1>7 DEF CleanupTail
    <2> QED BY <1>1, <2>1
  <1>8. StartupExpires => Counted' BY <1>1 DEF StartupExpires, table
  <1> QED BY <1>2, <1>3, <1>4, <1>5, <1>6, <1>7, <1>8, RegisterCounts, QuietTable DEF Release

\* No phantom sessions: a registered target never counts a session that has
\* ended, although sessions are counted on records that were removed and on
\* records that replaced them.
THEOREM NoPhantom == Spec => []NoPhantomSessions
  <1> DEFINE I == Base /\ Counted
  <1>1. Init => I BY InitBase DEF Init, Counted
  <1>2. I /\ [Next]_vars => I'
    <2> SUFFICES ASSUME I, [Next]_vars PROVE I' OBVIOUS
    <2>1. Base' BY NextBase
    <2>2. CASE Next BY <2>1, <2>2, CountStep
    <2>3. CASE UNCHANGED vars
      <3>1. targets' = targets /\ recs' = recs /\ sessions' = sessions BY <2>3 DEF vars, table
      <3> QED BY <2>1, <3>1 DEF Counted, LeasesOf
    <2> QED BY <2>2, <2>3
  <1>3. I => NoPhantomSessions BY DEF Counted, NoPhantomSessions, Registered
  <1> HIDE DEF I
  <1> QED BY <1>1, <1>2, <1>3, PTL DEF Spec

-----------------------------------------------------------------------------
(* Targets that nobody releases.                                            *)

\* Somebody releases lease l in time: its session ends, or its timer fires.
Serviced(l) == sessions[l] # NoConn \/ timers[l] > 0

\* A port request past its lease check works for a lease that is released
\* later: its timer waits for the request (Prompt).
PortsServed ==
  \A c \in Conns :
    /\ pc[c] = "open" => req[c].type = "open"
    /\ pc[c] \in {"lookup", "domain", "create"} => req[c].type \in {"open", "ensure"}
    /\ pc[c] \in {"forwarder", "ensure"} => req[c].type = "ensure"
    /\ /\ req[c].type = "ensure"
       /\ pc[c] \in {"lookup", "domain", "create", "forwarder"}
       => Serviced(req[c].lease)

\* Who will release target k.
Owned(k) ==
  \/ \E l \in Leases : LeaseKey[l] = k /\ Serviced(l)
  \/ \E c \in Conns : pc[c] = "register" /\ KeyOf(c) = k

NoneLeaked == ~draining => \A k \in Keys : targets[k] # 0 => Owned(k)

\* Every step of a daemon with a grace keeps the leases of the port requests.
LEMMA PortsStep ==
  ASSUME Base, PortsServed, Grace, Prompt, Next
  PROVE  PortsServed'
  <1> USE LocalDaemonAssumption
      DEF Base, TypeOK, TypeTable, TypeGrace, TypeConn, PortsServed, Serviced, Goto, life, table, fwds, grace, conn
  <1>0. \A c \in Conns : pc[c] # "idle" => req[c].lease \in Leases BY BusyRequest
  <1>1. ASSUME NEW c \in Conns, NEW t \in Kinds, NEW l \in Leases, Accept(c, t, l) PROVE PortsServed'
    BY <1>1 DEF Accept, FirstStep
  <1>2. ASSUME NEW c \in Conns, CheckLease(c) PROVE PortsServed'
    BY <1>0, <1>2 DEF CheckLease, hasSession, Return
  <1>3. ASSUME NEW c \in Conns, ShutdownRequest(c) PROVE PortsServed'
    BY <1>0, <1>3 DEF ShutdownRequest, Return
  <1>4. ASSUME NEW c \in Conns, LookupTarget(c) PROVE PortsServed'
    BY <1>0, <1>4 DEF LookupTarget, Found, AfterEnsure
  <1>5. ASSUME NEW c \in Conns, EnsureDomain(c) PROVE PortsServed'
    BY ZenonT(40), <1>0, <1>5 DEF EnsureDomain, Return
  <1>6. ASSUME NEW c \in Conns, CreateTarget(c) PROVE PortsServed'
    BY <1>0, <1>6 DEF CreateTarget, Found, AfterEnsure, Return
  <1>7. ASSUME NEW c \in Conns, OpenSession(c) PROVE PortsServed'
    BY ZenonT(40), <1>0, <1>7 DEF OpenSession, Return
  <1>8. ASSUME NEW c \in Conns, RegisterSession(c) PROVE PortsServed'
    <2>1. \A l \in Leases : Serviced(l) => Serviced(l)' BY <1>0, <1>8 DEF RegisterSession
    <2>2. pc'[c] \in {"idle", "session"} /\ \A d \in Conns \ {c} : pc'[d] = pc[d] /\ req'[d] = req[d]
      BY <1>8 DEF RegisterSession, Return
    <2> HIDE DEF Serviced
    <2> QED BY <1>0, <2>1, <2>2
  <1>9. ASSUME NEW c \in Conns, LookupForwarder(c) PROVE PortsServed'
    BY <1>0, <1>9 DEF LookupForwarder
  <1>10. ASSUME NEW c \in Conns, EnsureForward(c) PROVE PortsServed'
    BY <1>0, <1>10 DEF EnsureForward, Return
  <1>11. ASSUME NEW c \in Conns, LookupRemove(c) PROVE PortsServed'
    BY ZenonT(40), <1>0, <1>11 DEF LookupRemove, Return
  <1>12. ASSUME NEW c \in Conns, RemoveForward(c) PROVE PortsServed'
    BY <1>0, <1>12 DEF RemoveForward, Return
  <1>13. ASSUME NEW c \in Conns, Release(c) PROVE PortsServed'
    <2>1. ReleaseWithGrace(c) BY <1>13 DEF Release, ReleaseNow
    <2>2. \A l \in Leases : Serviced(l) => Serviced(l)' BY <1>0, <2>1 DEF ReleaseWithGrace
    <2>3. pc'[c] = "idle" /\ \A d \in Conns \ {c} : pc'[d] = pc[d] /\ req'[d] = req[d]
      BY <2>1 DEF ReleaseWithGrace, Return
    <2> HIDE DEF Serviced
    <2> QED BY <1>0, <2>2, <2>3
  <1>14. ASSUME NEW l \in Leases, GraceExpires(l) PROVE PortsServed'
    BY <1>0, <1>14 DEF GraceExpires, PortRequestOf
  <1>15. ASSUME NEW t \in tails, CleanupTail(t) PROVE PortsServed'
    BY <1>15 DEF CleanupTail
  <1>16. ASSUME NEW f \in stopping, StopNext(f) PROVE PortsServed'
    BY <1>16 DEF StopNext
  <1>17. CASE StartupExpires \/ Signal \/ StopResources \/ CloseConnections \/ Exit
    BY <1>17 DEF StartupExpires, Signal, StopResources, CloseConnections, Exit
  <1> QED
        BY <1>1, <1>2, <1>3, <1>4, <1>5, <1>6, <1>7, <1>8, <1>9, <1>10, <1>11, <1>12, <1>13, <1>14,
         <1>15, <1>16, <1>17
    DEF Next, Handler

\* A target that is not idle when a timer fires counts a session, and so it
\* has one.
LEMMA BusyHasLease ==
  ASSUME Base, Counted, NEW k \in Keys, targets[k] # 0, ~IdleTarget(k)
  PROVE  \E l \in Leases : LeaseKey[l] = k /\ sessions[l] # NoConn
  <1>1. targets[k] \in 1 .. nrec /\ recs[targets[k]].sessions \in Nat
    BY LocalDaemonAssumption DEF Base, TypeOK, TypeTable, TargetRecord
  <1>2. recs[targets[k]].sessions > 0 BY <1>1 DEF IdleTarget
  <1>3. Cardinality(LeasesOf(k)) > 0 BY <1>1, <1>2, LeasesFinite DEF Counted
  <1>4. LeasesOf(k) # {} BY <1>3, FS_EmptySet
  <1> QED BY <1>4 DEF LeasesOf

\* Every step of a daemon with a grace leaves each target somebody who will
\* release it.
LEMMA LeakStep ==
  ASSUME Base, Counted, PortsServed, NoneLeaked, Grace, Prompt, Next
  PROVE  NoneLeaked'
  <1> USE LocalDaemonAssumption
      DEF Base, TypeOK, TypeTable, TypeGrace, TypeConn, Serviced, Goto, life, table, fwds, grace, conn
  <1>0. \A c \in Conns : pc[c] # "idle" => req[c].lease \in Leases /\ KeyOf(c) = LeaseKey[req[c].lease]
    BY BusyRequest DEF KeyOf
  <1>1. ASSUME UNCHANGED <<targets, sessions, timers>>, draining => draining',
               \A c \in Conns : pc[c] = "register" => pc'[c] = "register" /\ req'[c] = req[c]
        PROVE  NoneLeaked'
    <2>1. \A c \in Conns : pc[c] = "register" => pc'[c] = "register" /\ KeyOf(c)' = KeyOf(c)
      BY <1>1 DEF KeyOf
    <2>2. \A l \in Leases : Serviced(l)' <=> Serviced(l) BY <1>1
    <2> HIDE DEF Serviced
    <2>3. \A k \in Keys : Owned(k) => Owned(k)' BY <2>1, <2>2 DEF Owned
    <2> QED BY <1>1, <2>3 DEF NoneLeaked
  <1>2. ASSUME NEW c \in Conns, NEW t \in Kinds, NEW l \in Leases, Accept(c, t, l) PROVE NoneLeaked'
    BY <1>1, <1>2 DEF Accept, FirstStep
  <1>3. ASSUME NEW c \in Conns, CheckLease(c) PROVE NoneLeaked'
    BY <1>1, <1>3 DEF CheckLease, hasSession, Return
  <1>4. ASSUME NEW c \in Conns, ShutdownRequest(c) PROVE NoneLeaked'
    BY <1>1, <1>4 DEF ShutdownRequest, Return
  <1>5. ASSUME NEW c \in Conns, LookupTarget(c) PROVE NoneLeaked'
    BY <1>1, <1>5 DEF LookupTarget, Found, AfterEnsure
  <1>6. ASSUME NEW c \in Conns, EnsureDomain(c) PROVE NoneLeaked'
    BY <1>1, <1>6 DEF EnsureDomain, Return
  <1>7. ASSUME NEW c \in Conns, OpenSession(c) PROVE NoneLeaked'
    BY <1>1, <1>7 DEF OpenSession, Return
  <1>8. ASSUME NEW c \in Conns, LookupForwarder(c) PROVE NoneLeaked'
    BY <1>1, <1>8 DEF LookupForwarder
  <1>9. ASSUME NEW c \in Conns, EnsureForward(c) PROVE NoneLeaked'
    BY <1>1, <1>9 DEF EnsureForward, Return
  <1>10. ASSUME NEW c \in Conns, LookupRemove(c) PROVE NoneLeaked'
    BY <1>1, <1>10 DEF LookupRemove, Return
  <1>11. ASSUME NEW c \in Conns, RemoveForward(c) PROVE NoneLeaked'
    BY <1>1, <1>11 DEF RemoveForward, Return
  <1>12. ASSUME NEW t \in tails, CleanupTail(t) PROVE NoneLeaked'
    BY <1>1, <1>12 DEF CleanupTail
  <1>13. ASSUME NEW f \in stopping, StopNext(f) PROVE NoneLeaked'
    BY <1>1, <1>13 DEF StopNext
  <1>14. CASE StartupExpires \/ Signal \/ StopResources \/ CloseConnections \/ Exit
    BY <1>1, <1>14 DEF StartupExpires, Signal, StopResources, CloseConnections, Exit
  <1>15. ASSUME NEW c \in Conns, CreateTarget(c) PROVE NoneLeaked'
    <2>1. pc[c] = "create" /\ UNCHANGED <<draining, sessions, timers>>
      BY <1>15 DEF CreateTarget
    <2>2. CASE UNCHANGED <<targets, recs, nrec, records>>
      BY <1>1, <1>15, <2>1, <2>2 DEF CreateTarget, Found, AfterEnsure, Return
    <2>3. ASSUME NEW i \in Addr, NEW n \in 0 .. MaxRecs, CreatedAs(c, i, n) PROVE NoneLeaked'
      <3>1. KeyOf(c) \in Keys /\ LeaseKey[req[c].lease] = KeyOf(c) /\ req[c].lease \in Leases
        BY <1>0, <2>1, BusyRequest
      <3>2. /\ targets' = [targets EXCEPT ![KeyOf(c)] = nrec + 1]
            /\ req' = req /\ pc' = [pc EXCEPT ![c] = AfterEnsure(c)]
        BY <2>3 DEF CreatedAs
      <3>3. PICK k \in Keys : k = KeyOf(c) /\ LeaseKey[req[c].lease] = k BY <3>1
      <3>5. Owned(k)'
        <4>1. CASE req[c].type = "open"
          <5>1. pc'[c] = "register" BY <3>2, <4>1 DEF AfterEnsure
          <5> QED BY <3>2, <3>3, <5>1 DEF Owned, KeyOf
        <4>2. CASE req[c].type # "open"
          <5>1. Serviced(req[c].lease) BY <2>1, <4>2 DEF PortsServed
          <5> QED BY <2>1, <3>1, <3>3, <5>1 DEF Owned
        <4> QED BY <4>1, <4>2
      <3>4. \A j \in Keys : Owned(j) => Owned(j)'
        BY <2>1, <3>2 DEF Owned, KeyOf
      <3> HIDE DEF Serviced
      <3> QED BY <2>1, <3>1, <3>2, <3>3, <3>4, <3>5 DEF NoneLeaked
    <2> QED BY <1>15, <2>2, <2>3, CreateCases
  <1>16. ASSUME NEW c \in Conns, RegisterSession(c) PROVE NoneLeaked'
    <2>1. PICK l \in Leases : l = req[c].lease /\ KeyOf(c) = LeaseKey[l]
      BY <1>0, <1>16 DEF RegisterSession
    <2>2. UNCHANGED <<draining, targets, timers>> /\ pc[c] = "register" BY <1>16 DEF RegisterSession
    <2>3. /\ \A m \in Leases : Serviced(m) => Serviced(m)'
          /\ ~draining => Serviced(l)'
      BY <1>16, <2>1, <2>2 DEF RegisterSession, Admits
    <2>4. \A d \in Conns \ {c} : pc'[d] = pc[d] /\ KeyOf(d)' = KeyOf(d)
      BY <1>16 DEF RegisterSession, Return, KeyOf
    <2> HIDE DEF Serviced
    <2>5. ASSUME ~draining, NEW k \in Keys, Owned(k) PROVE Owned(k)'
      BY <2>1, <2>2, <2>3, <2>4, <2>5 DEF Owned
    <2> QED BY <2>2, <2>5 DEF NoneLeaked
  <1>17. ASSUME NEW c \in Conns, Release(c) PROVE NoneLeaked'
    <2>1. ReleaseWithGrace(c) BY <1>17 DEF Release, ReleaseNow
    <2>2. \A l \in Leases : Serviced(l) => Serviced(l)' BY <1>0, <2>1 DEF ReleaseWithGrace
    <2>3. \A d \in Conns : pc[d] = "register" => pc'[d] = "register" /\ KeyOf(d)' = KeyOf(d)
      BY <2>1 DEF ReleaseWithGrace, Return, KeyOf
    <2>4. UNCHANGED <<targets, draining>> BY <2>1 DEF ReleaseWithGrace
    <2> HIDE DEF Serviced
    <2>5. \A k \in Keys : Owned(k) => Owned(k)' BY <2>2, <2>3 DEF Owned
    <2> QED BY <2>4, <2>5 DEF NoneLeaked
  <1>18. ASSUME NEW l \in Leases, GraceExpires(l) PROVE NoneLeaked'
    <2> DEFINE k == LeaseKey[l]
    <2>1. /\ timers' = [timers EXCEPT ![l] = @ - 1] /\ UNCHANGED <<sessions, pc, req>>
          /\ draining => draining'
          /\ targets' = IF IdleTarget(k) THEN [targets EXCEPT ![k] = 0] ELSE targets
      BY <1>18 DEF GraceExpires, RemoveTarget
    <2> SUFFICES ASSUME ~draining', NEW j \in Keys, targets'[j] # 0 PROVE Owned(j)'
      BY DEF NoneLeaked
    <2>2. k \in Keys /\ targets[j] # 0 /\ Owned(j) BY <2>1 DEF NoneLeaked
    <2>3. CASE j = k
      <3>1. ~IdleTarget(k) BY <2>1, <2>2, <2>3
      <3>2. \E m \in Leases : LeaseKey[m] = k /\ sessions[m] # NoConn BY <2>2, <2>3, <3>1, BusyHasLease
      <3> QED BY <2>1, <2>3, <3>2 DEF Owned
    <2>4. CASE j # k
      <3>1. \A m \in Leases : LeaseKey[m] = j => timers'[m] = timers[m] BY <2>1, <2>4
      <3> QED BY <2>1, <2>2, <3>1 DEF Owned, KeyOf
    <2> QED BY <2>3, <2>4
  <1> QED
        BY <1>2, <1>3, <1>4, <1>5, <1>6, <1>7, <1>8, <1>9, <1>10, <1>11, <1>12, <1>13, <1>14, <1>15,
         <1>16, <1>17, <1>18
    DEF Next, Handler

\* No target is leaked: with a hand-off grace, and port requests that are
\* served within it, every target of a daemon that does not drain has a
\* session, a timer or an open request that will release it.
THEOREM NoLeak ==
  ASSUME Grace, Prompt
  PROVE  Spec => []NoLeakedTarget
  <1> DEFINE I == Base /\ Counted /\ PortsServed /\ NoneLeaked
  <1>1. Init => I
    BY InitBase DEF Init, Counted, PortsServed, NoneLeaked, NoLease
  <1>2. I /\ [Next]_vars => I'
    <2> SUFFICES ASSUME I, [Next]_vars PROVE I' OBVIOUS
    <2>1. Base' BY NextBase
    <2>2. CASE Next BY <2>1, <2>2, CountStep, PortsStep, LeakStep
    <2>3. CASE UNCHANGED vars
      <3>1. UNCHANGED <<targets, recs, sessions, timers, draining, pc, req>>
        BY <2>3 DEF vars, table, life, grace, conn
      <3> QED BY <2>1, <3>1 DEF Counted, LeasesOf, PortsServed, NoneLeaked, Serviced, Owned, KeyOf
    <2> QED BY <2>2, <2>3
  <1>3. I => NoLeakedTarget
    BY DEF NoneLeaked, Owned, Serviced, NoLeakedTarget, Registered
  <1> HIDE DEF I
  <1> QED BY <1>1, <1>2, <1>3, PTL DEF Spec
=============================================================================
