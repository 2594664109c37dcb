------------------------- MODULE BridgeServerProofs -------------------------
(***************************************************************************)
(* Proofs about BridgeServer, for any sets of connections, sessions and    *)
(* contexts.                                                               *)
(***************************************************************************)
EXTENDS BridgeServer, SequenceTheorems, TLAPS

Unique(s) == \A i, j \in 1 .. Len(s) : SessionOf[s[i]] = SessionOf[s[j]] => i = j

\* Removing one place of a list without repeated sessions removes one client.
LEMMA RemoveAtFacts ==
  ASSUME NEW s \in Seq(ClientConns), NEW i \in 1 .. Len(s), Unique(s)
  PROVE  /\ RemoveAt(s, i) \in Seq(ClientConns)
         /\ Unique(RemoveAt(s, i))
         /\ ToSet(RemoveAt(s, i)) = ToSet(s) \ {s[i]}
<1> DEFINE t == RemoveAt(s, i)
<1> DEFINE a == SubSeq(s, 1, i - 1)
           b == SubSeq(s, i + 1, Len(s))
<1>a. a \in Seq(ClientConns) /\ Len(a) = i - 1 /\ \A j \in 1 .. i - 1 : a[j] = s[j]
  <2>1. \A j \in 1 .. i - 1 : s[j] \in ClientConns
    OBVIOUS
  <2>2. 1 \in Int /\ i - 1 \in Int /\ i \in 1 .. Len(s)
    OBVIOUS
  <2> HIDE DEF a
  <2>3. /\ a \in Seq(ClientConns)
        /\ Len(a) = IF 1 <= i - 1 THEN i - 1 - 1 + 1 ELSE 0
        /\ \A j \in 1 .. i - 1 - 1 + 1 : a[j] = s[1 + j - 1]
    <3> DEFINE n == i - 1
    <3>1. n \in Int /\ 1 \in Int /\ \A j \in 1 .. n : s[j] \in ClientConns
      BY <2>1, <2>2
    <3> HIDE DEF n
    <3>2. /\ SubSeq(s, 1, n) \in Seq(ClientConns)
          /\ Len(SubSeq(s, 1, n)) = IF 1 <= n THEN n - 1 + 1 ELSE 0
          /\ \A j \in 1 .. n - 1 + 1 : SubSeq(s, 1, n)[j] = s[1 + j - 1]
      BY <3>1, SubSeqProperties, SMTT(30)
    <3>3. QED
      BY <3>2, Zenon DEF n, a
  <2>4. QED
    BY <2>2, <2>3
<1>b. b \in Seq(ClientConns) /\ Len(b) = Len(s) - i /\ \A j \in 1 .. Len(s) - i : b[j] = s[i + j]
  <2>1. \A j \in i + 1 .. Len(s) : s[j] \in ClientConns
    OBVIOUS
  <2>2. i + 1 \in Int /\ Len(s) \in Int /\ i \in 1 .. Len(s)
    OBVIOUS
  <2> HIDE DEF b
  <2>3. /\ b \in Seq(ClientConns)
        /\ Len(b) = IF i + 1 <= Len(s) THEN Len(s) - (i + 1) + 1 ELSE 0
        /\ \A j \in 1 .. Len(s) - (i + 1) + 1 : b[j] = s[i + 1 + j - 1]
    <3> DEFINE m == i + 1
              n == Len(s)
    <3>1. n \in Int /\ m \in Int /\ \A j \in m .. n : s[j] \in ClientConns
      BY <2>1, <2>2
    <3> HIDE DEF m, n
    <3>2. /\ SubSeq(s, m, n) \in Seq(ClientConns)
          /\ Len(SubSeq(s, m, n)) = IF m <= n THEN n - m + 1 ELSE 0
          /\ \A j \in 1 .. n - m + 1 : SubSeq(s, m, n)[j] = s[m + j - 1]
      BY <3>1, SubSeqProperties, SMTT(30)
    <3>3. QED
      BY <3>2, Zenon DEF m, n, b
  <2>4. QED
    BY <2>2, <2>3
<1>c. t = a \o b
  BY DEF RemoveAt
<1> HIDE DEF t, a, b
<1>d. /\ t \in Seq(ClientConns)
      /\ Len(t) = Len(a) + Len(b)
      /\ \A j \in 1 .. Len(a) + Len(b) : t[j] = IF j <= Len(a) THEN a[j] ELSE b[j - Len(a)]
  BY <1>a, <1>b, <1>c, ConcatProperties, Zenon
<1>1. t \in Seq(ClientConns) /\ Len(t) = Len(s) - 1
  BY <1>a, <1>b, <1>d
<1>2. \A j \in 1 .. Len(t) : t[j] = IF j < i THEN s[j] ELSE s[j + 1]
  <2> TAKE j \in 1 .. Len(t)
  <2>1. CASE j < i
    BY <1>a, <1>b, <1>d, <2>1
  <2>2. CASE ~(j < i)
    <3>1. t[j] = b[j - Len(a)] /\ j - Len(a) \in 1 .. Len(s) - i
      BY <1>a, <1>b, <1>d, <2>2
    <3>2. b[j - Len(a)] = s[i + (j - Len(a))] /\ i + (j - Len(a)) = j + 1
      BY <1>a, <1>b, <3>1
    <3>3. QED
      BY <2>2, <3>1, <3>2
  <2>3. QED
    BY <2>1, <2>2
<1>3. ToSet(s) = {s[j] : j \in 1 .. Len(s)} /\ ToSet(t) = {t[j] : j \in 1 .. Len(t)}
  BY <1>1 DEF ToSet
<1>4. Unique(t)
  BY SMTT(30), <1>1, <1>2 DEF Unique
<1>5. ToSet(t) \subseteq ToSet(s) \ {s[i]}
  BY <1>1, <1>2, <1>3 DEF Unique
<1>6. ASSUME NEW j \in 1 .. Len(s), s[j] # s[i] PROVE s[j] \in ToSet(t)
  <2>1. CASE j < i
    BY <1>1, <1>2, <1>3, <2>1
  <2>2. CASE j > i
    <3>1. j - 1 \in 1 .. Len(t) /\ t[j - 1] = s[j]
      BY <1>1, <1>2, <2>2
    <3>2. QED
      BY <1>3, <3>1
  <2>3. QED
    BY <1>6, <2>1, <2>2
<1>7. QED
  BY <1>1, <1>3, <1>4, <1>5, <1>6 DEF t

Uniq == Unique(clients)

\* What removeClient leaves in the list.
LEMMA WithoutFacts ==
  ASSUME clients \in Seq(ClientConns), Uniq, NEW c
  PROVE  /\ Without(c) \in Seq(ClientConns)
         /\ Unique(Without(c))
         /\ ToSet(Without(c)) = ToSet(clients) \ {c}
<1>1. CASE c \notin ToSet(clients)
  BY <1>1 DEF Without, Uniq
<1>2. CASE c \in ToSet(clients)
  <2> DEFINE i == CHOOSE k \in 1 .. Len(clients) : clients[k] = c
  <2>1. i \in 1 .. Len(clients) /\ clients[i] = c
    BY <1>2 DEF ToSet
  <2>2. Without(c) = RemoveAt(clients, i)
    BY <1>2 DEF Without
  <2> HIDE DEF i
  <2>3. QED
    BY <2>1, <2>2, RemoveAtFacts DEF Uniq
<1>3. QED
  BY <1>1, <1>2

\* A client that is admitted joins the end of the list.
LEMMA AppendFacts ==
  ASSUME clients \in Seq(ClientConns), Uniq, NEW c \in ClientConns, Admits(c)
  PROVE  /\ Append(clients, c) \in Seq(ClientConns)
         /\ Unique(Append(clients, c))
         /\ ToSet(Append(clients, c)) = ToSet(clients) \cup {c}
<1> DEFINE t == Append(clients, c)
<1>1. /\ t \in Seq(ClientConns) /\ Len(t) = Len(clients) + 1
      /\ t[Len(clients) + 1] = c
      /\ \A i \in 1 .. Len(clients) : t[i] = clients[i]
  OBVIOUS
<1>2. /\ ToSet(clients) = {clients[i] : i \in 1 .. Len(clients)}
      /\ ToSet(t) = {t[i] : i \in 1 .. Len(t)}
  BY DEF ToSet
<1> HIDE DEF t
<1>3. \A i \in 1 .. Len(clients) : SessionOf[clients[i]] # SessionOf[c]
  BY <1>2 DEF Admits
<1>4. Unique(t)
  BY <1>1, <1>3 DEF Unique, Uniq
<1>5. ToSet(t) = ToSet(clients) \cup {c}
  <2>1. ToSet(t) \subseteq ToSet(clients) \cup {c}
    BY <1>1, <1>2
  <2>2. c \in ToSet(t) /\ ToSet(clients) \subseteq ToSet(t)
    BY <1>1, <1>2
  <2>3. QED
    BY <2>1, <2>2
<1>6. QED
  BY <1>1, <1>4, <1>5 DEF t

-----------------------------------------------------------------------------
(* The drain.                                                               *)

\* A draining server stays idle: nothing is accepted, and what happens to an
\* empty list of clients leaves it empty.
LEMMA DrainStep ==
  ASSUME DrainedIsIdle, Next
  PROVE  DrainedIsIdle'
<1> USE DEF DrainedIsIdle, Idle, Connections, server
<1>1. CASE draining
  <2>1. /\ clients = <<>> /\ ToSet(clients) = {}
        /\ \A c \in Conns : pc[c] \in {"new", "closed"}
    BY <1>1 DEF ToSet
  <2>2. \A c : removeClient(c) => clients' = clients
    BY <2>1 DEF removeClient, Without
  <2>3. clients' = clients /\ pc' = pc
    <3>1. ASSUME NEW c \in Conns, Accept(c) \/ PeerLeaves(c) \/ PeerSpeaks(c)
          PROVE  clients' = clients /\ pc' = pc
      BY <1>1, <2>1, <3>1 DEF Accept, PeerLeaves, PeerSpeaks, HelloClient, HelloRequester, ReadRequest, Conns
    <3>2. ASSUME NEW c \in Conns, Handler(c)
          PROVE  clients' = clients /\ pc' = pc
      BY <2>1, <3>2 DEF Handler, HelloFails, Greet, ReadEnds, DataEnds, RequestFails, Pick, Send, Wait, Failed
    <3>3. ASSUME NEW c \in Conns, FallsSilent(c) \/ Heartbeat(c) \/ PrepareFails(c) \/ DataActive(c)
          PROVE  clients' = clients /\ pc' = pc
      BY <2>1, <3>3 DEF FallsSilent, Heartbeat, PrepareFails, DataActive
    <3>4. ASSUME Monitor PROVE clients' = clients /\ pc' = pc
      BY <2>2, <3>4 DEF Monitor, Tick, MonitorLook, MonitorDrain, MonitorShutdown, SweepClient, SweepRemoves
    <3>5. QED
      BY <3>1, <3>2, <3>3, <3>4 DEF Next, Run, Deliver, TimePasses, Signal, CloseConnections, Exit
  <2>4. QED
    BY <1>1, <2>1, <2>3
<1>2. CASE ~draining /\ draining'
  <2>1. MonitorDrain
    BY <1>2 DEF Next, Accept, PeerLeaves, PeerSpeaks, HelloClient, HelloRequester, ReadRequest,
                Handler, HelloFails, Greet, ReadEnds, DataEnds, RequestFails, Pick, Send, Wait, Failed,
                FallsSilent, Heartbeat, PrepareFails, DataActive, Run, Deliver, TimePasses,
                Monitor, Tick, MonitorLook, MonitorShutdown, SweepClient, SweepRemoves, Signal, CloseConnections, Exit
  <2>2. QED
    BY <1>2, <2>1 DEF MonitorDrain, StillIdle
<1>3. QED
  BY <1>1, <1>2

\* A server that drains holds no client and no connection, and lets none in.
THEOREM DrainSafe == Spec => []DrainedIsIdle
<1>1. Init => DrainedIsIdle
  BY DEF Init, DrainedIsIdle
<1>2. DrainedIsIdle /\ [Next]_vars => DrainedIsIdle'
  BY DrainStep DEF vars, server, DrainedIsIdle, Idle, Connections
<1>3. QED
  BY <1>1, <1>2, PTL DEF Spec

-----------------------------------------------------------------------------
(* Types, and the list of clients.                                          *)

\* Where a handler can be depends on the kind of its connection.
Kinds ==
  /\ \A c \in ClientConns : pc[c] \in {"new", "hello", "greet", "reading", "closed"}
  /\ \A r \in RequestConns : pc[r] \in {"new", "hello", "request", "pick", "send", "wait", "failed", "closed"}

\* A requester that has picked a client knows it.
Aimed == \A r \in RequestConns : pc[r] \in {"send", "wait", "failed"} => target[r] \in ClientConns

Base == TypeOK /\ Kinds /\ Aimed /\ Uniq

\* What removeClient changes.
LEMMA RemoveFacts ==
  ASSUME Base, NEW c \in ClientConns, removeClient(c)
  PROVE  /\ clients' \in Seq(ClientConns) /\ Uniq'
         /\ ToSet(clients') = ToSet(clients) \ {c}
         /\ shut \subseteq shut' /\ shut' \subseteq shut \cup {c}
         /\ done \subseteq done' /\ done' \subseteq done \cup {c}
         /\ c \in ToSet(clients) => c \in shut' /\ c \in done'
         /\ quiet' \in BOOLEAN
<1>1. clients \in Seq(ClientConns) /\ Uniq
  BY DEF Base, TypeOK
<1>2. clients' = Without(c)
  BY DEF removeClient
<1>3. clients' \in Seq(ClientConns) /\ Unique(clients') /\ ToSet(clients') = ToSet(clients) \ {c}
  BY <1>1, <1>2, WithoutFacts
<1>4. QED
  BY <1>3 DEF removeClient, Woken, Uniq, Unique

\* The conjunct of TypeOK about who expects a reply.
Expected == pending \subseteq {<<target[r], r>> : r \in {q \in RequestConns : pc[q] = "wait"}}

\* A requester that keeps waiting for its client may keep its entry.
LEMMA ExpectedKept ==
  ASSUME Expected, pending' \subseteq pending,
         \A r \in RequestConns : pc[r] = "wait" =>
           \/ pc'[r] = "wait" /\ target'[r] = target[r]
           \/ <<target[r], r>> \notin pending'
  PROVE  Expected'
<1> SUFFICES ASSUME NEW x \in pending'
             PROVE  \E r \in RequestConns : pc'[r] = "wait" /\ x = <<target'[r], r>>
  BY DEF Expected
<1>1. PICK r \in RequestConns : pc[r] = "wait" /\ x = <<target[r], r>>
  BY DEF Expected
<1>2. QED
  BY <1>1

\* Every action keeps the types.
LEMMA TypeStep ==
  ASSUME Base, Next
  PROVE  TypeOK'
<1> USE DEF Conns, server, monitor, sockets, routing
<1>0. /\ TypeOK /\ Kinds /\ Aimed /\ Uniq /\ Expected
      /\ \A c \in ClientConns : c \notin RequestConns
  BY BridgeAssumption DEF Base, TypeOK, Expected
<1>a. ASSUME pending' \subseteq pending, target' = target,
             pc' = pc \/ \E c \in Conns : \E q : pc[c] # "wait" /\ pc' = [pc EXCEPT ![c] = q]
      PROVE  Expected'
  BY <1>0, <1>a, ExpectedKept DEF TypeOK
<1>1. ASSUME NEW c \in Conns, Accept(c) PROVE TypeOK'
  <2>1. Expected'
    BY <1>a, <1>1 DEF Accept, Goto
  <2>2. QED
    BY <1>0, <1>1, <2>1 DEF TypeOK, Expected, Accept, Goto
<1>2. ASSUME NEW c \in Conns, PeerLeaves(c) PROVE TypeOK'
  <2>1. Expected'
    BY <1>a, <1>2 DEF PeerLeaves
  <2>2. QED
    BY <1>0, <1>2, <2>1 DEF TypeOK, Expected, PeerLeaves
<1>3. ASSUME NEW c \in Conns, HelloRequester(c) PROVE TypeOK'
  <2>1. Expected'
    BY <1>a, <1>3 DEF HelloRequester, Goto
  <2>2. QED
    BY <1>0, <1>3, <2>1 DEF TypeOK, Expected, HelloRequester, Goto
<1>4. ASSUME NEW c \in Conns, ReadRequest(c) PROVE TypeOK'
  <2>1. Expected'
    BY <1>a, <1>4 DEF ReadRequest, Goto
  <2>2. QED
    BY <1>0, <1>4, <2>1 DEF TypeOK, Expected, ReadRequest, Goto
<1>5. ASSUME NEW c \in Conns, HelloFails(c) PROVE TypeOK'
  <2>1. Expected'
    BY <1>a, <1>5 DEF HelloFails, Goto
  <2>2. QED
    BY <1>0, <1>5, <2>1 DEF TypeOK, Expected, HelloFails, Goto
<1>6. ASSUME NEW c \in Conns, DataEnds(c) PROVE TypeOK'
  <2>1. Expected'
    BY <1>a, <1>6 DEF DataEnds, Goto
  <2>2. QED
    BY <1>0, <1>6, <2>1 DEF TypeOK, Expected, DataEnds, Goto
<1>7. ASSUME NEW c \in Conns, RequestFails(c) PROVE TypeOK'
  <2>1. Expected'
    BY <1>a, <1>7 DEF RequestFails, Answer, Goto
  <2>2. QED
    BY <1>0, <1>7, <2>1 DEF TypeOK, Expected, RequestFails, Answer, Goto
<1>8. ASSUME NEW c \in Conns, FallsSilent(c) PROVE TypeOK'
  <2>1. Expected'
    BY <1>a, <1>8 DEF FallsSilent
  <2>2. QED
    BY <1>0, <1>8, <2>1, DisturbanceAssumption DEF TypeOK, Expected, FallsSilent
<1>9. ASSUME NEW c \in Conns, Heartbeat(c) PROVE TypeOK'
  <2>1. Expected'
    BY <1>a, <1>9 DEF Heartbeat
  <2>2. QED
    BY <1>0, <1>9, <2>1 DEF TypeOK, Expected, Heartbeat
<1>10. ASSUME NEW c \in Conns, PrepareFails(c) PROVE TypeOK'
  <2>1. Expected'
    BY <1>a, <1>10 DEF PrepareFails, Answer, Goto
  <2>2. QED
    BY <1>0, <1>10, <2>1 DEF TypeOK, Expected, PrepareFails, Answer, Goto
<1>11. ASSUME NEW c \in Conns, DataActive(c) PROVE TypeOK'
  <2>1. Expected'
    BY <1>a, <1>11 DEF DataActive
  <2>2. QED
    BY <1>0, <1>11, <2>1 DEF TypeOK, Expected, DataActive
<1>12. ASSUME NEW c \in Conns, HelloClient(c) PROVE TypeOK'
  <2>1. Expected'
    BY <1>a, <1>12 DEF HelloClient, Goto
  <2>2. clients' \in Seq(ClientConns)
    BY <1>0, <1>12, AppendFacts DEF TypeOK, HelloClient
  <2>3. QED
    BY ZenonT(40), <1>0, <1>12, <2>1, <2>2 DEF TypeOK, Expected, HelloClient, Goto
<1>13. ASSUME NEW c \in Conns, Greet(c) PROVE TypeOK'
  <2>1. Expected'
    BY <1>a, <1>13 DEF Greet, Goto
  <2>2. CASE removeClient(c)
    BY <1>0, <1>13, <2>1, <2>2, RemoveFacts DEF TypeOK, Expected, Greet, Goto
  <2>3. QED
    BY <1>0, <1>13, <2>1, <2>2 DEF TypeOK, Expected, Greet, Goto
<1>14. ASSUME NEW c \in Conns, ReadEnds(c) PROVE TypeOK'
  <2>1. Expected'
    BY <1>a, <1>14 DEF ReadEnds, Goto
  <2>2. QED
    BY <1>0, <1>14, <2>1, RemoveFacts DEF TypeOK, Expected, ReadEnds, Goto
<1>15. ASSUME NEW r \in Conns, Pick(r) PROVE TypeOK'
  <2>1. \A q \in RequestConns : pc[q] = "wait" => pc'[q] = "wait" /\ target'[q] = target[q]
    BY <1>0, <1>15 DEF TypeOK, Pick, Answer, Goto
  <2>2. Expected'
    BY <1>0, <1>15, <2>1, ExpectedKept DEF Pick
  <2>3. \A i \in 1 .. Len(clients) : clients[i] \in ClientConns
    BY <1>0 DEF TypeOK
  <2>4. QED
    BY <1>0, <1>15, <2>2, <2>3 DEF TypeOK, Expected, Pick, Answer, Goto
<1>16. ASSUME NEW r \in Conns, Send(r) PROVE TypeOK'
  <2>1. target[r] \in ClientConns
    BY <1>0, <1>16 DEF Aimed, Send
  <2>2. Expected'
    <3>1. CASE pending' = pending
      BY <1>0, <1>16, <3>1, ExpectedKept DEF TypeOK, Send, Goto
    <3>2. CASE pending' = pending \cup {<<target[r], r>>} /\ Goto(r, "wait")
      <4>1. \A q \in RequestConns : (pc[q] = "wait" \/ q = r) => pc'[q] = "wait" /\ target'[q] = target[q]
        BY <1>0, <1>16, <3>2 DEF TypeOK, Send, Goto
      <4>2. SUFFICES ASSUME NEW x \in pending'
                     PROVE  \E q \in RequestConns : pc'[q] = "wait" /\ x = <<target'[q], q>>
        BY DEF Expected
      <4>3. PICK q \in RequestConns : (pc[q] = "wait" \/ q = r) /\ x = <<target[q], q>>
        BY <1>0, <1>16, <3>2 DEF Expected, Send
      <4>4. QED
        BY <4>1, <4>3
    <3>3. QED
      BY <1>16, <3>1, <3>2 DEF Send
  <2>3. QED
    BY <1>0, <1>16, <2>1, <2>2 DEF TypeOK, Expected, Send, Goto
<1>17. ASSUME NEW r \in Conns, Wait(r) PROVE TypeOK'
  <2>1. \A q \in RequestConns : pc[q] = "wait" =>
          (pc'[q] = "wait" /\ target'[q] = target[q]) \/ <<target[q], q>> \notin pending'
    BY <1>0, <1>17 DEF TypeOK, Wait, Forget, Answer, Goto
  <2>2. Expected'
    BY <1>0, <1>17, <2>1, ExpectedKept DEF Wait, Forget
  <2>3. resp' \in [Attempts -> Reply \cup {None}]
    BY <1>0, <1>17 DEF TypeOK, Wait
  <2>4. QED
    BY <1>0, <1>17, <2>2, <2>3 DEF TypeOK, Expected, Wait, Answer, Goto
<1>18. ASSUME NEW r \in Conns, Failed(r) PROVE TypeOK'
  <2>1. target[r] \in ClientConns
    BY <1>0, <1>18 DEF Aimed, Failed
  <2>2. \A q \in RequestConns : pc[q] = "wait" => pc'[q] = "wait" /\ target'[q] = target[q]
    BY <1>0, <1>18 DEF TypeOK, Failed, Goto
  <2>3. Expected'
    BY <1>0, <1>18, <2>2, ExpectedKept DEF Failed
  <2>4. /\ clients' \in Seq(ClientConns) /\ quiet' \in BOOLEAN
        /\ shut' \subseteq Conns /\ done' \subseteq ClientConns
    BY <1>0, <1>18, <2>1, RemoveFacts DEF TypeOK, Failed, GiveUp
  <2>5. QED
    BY <1>0, <1>18, <2>1, <2>3, <2>4 DEF TypeOK, Expected, Failed, Goto
<1>19. ASSUME NEW c \in ClientConns, NEW r \in RequestConns, Run(c, r) PROVE TypeOK'
  <2>1. Expected'
    BY <1>a, <1>19 DEF Run
  <2>2. QED
    BY <1>0, <1>19, <2>1 DEF TypeOK, Expected, Run, Reply
<1>20. ASSUME NEW m \in replies, Deliver(m) PROVE TypeOK'
  <2>1. Expected'
    BY <1>a, <1>20 DEF Deliver
  <2>2. resp' \in [Attempts -> Reply \cup {None}]
    BY <1>0, <1>20 DEF TypeOK, Deliver
  <2>3. QED
    BY <1>0, <1>20, <2>1, <2>2 DEF TypeOK, Expected, Deliver
<1>21. ASSUME SweepRemoves PROVE TypeOK'
  <2>1. Expected'
    BY <1>a, <1>21 DEF SweepRemoves
  <2>2. doomed \in ClientConns
    BY <1>0, <1>21 DEF TypeOK, SweepRemoves
  <2>3. /\ clients' \in Seq(ClientConns) /\ quiet' \in BOOLEAN
        /\ shut' \subseteq Conns /\ done' \subseteq ClientConns
    BY <1>0, <1>21, <2>2, RemoveFacts DEF TypeOK, SweepRemoves
  <2>4. QED
    BY <1>0, <1>21, <2>1, <2>3 DEF TypeOK, Expected, SweepRemoves
<1>22. ASSUME Tick \/ MonitorLook \/ MonitorDrain \/ MonitorShutdown \/ \E c \in sweep : SweepClient(c)
       PROVE  TypeOK'
  <2>1. Expected'
    BY <1>a, <1>22 DEF Tick, MonitorLook, MonitorDrain, MonitorShutdown, SweepClient
  <2>2. ToSet(clients) \subseteq ClientConns
    BY <1>0 DEF TypeOK, ToSet
  <2>3. QED
    BY ZenonT(40), <1>0, <1>22, <2>1, <2>2 DEF TypeOK, Expected, Tick, MonitorLook, MonitorDrain, MonitorShutdown, SweepClient
<1>23. ASSUME TimePasses \/ Signal \/ CloseConnections \/ Exit PROVE TypeOK'
  <2>1. Expected'
    BY <1>a, <1>23 DEF TimePasses, Signal, CloseConnections, Exit
  <2>2. QED
    BY ZenonT(40), <1>0, <1>23, <2>1 DEF TypeOK, Expected, TimePasses, Signal, CloseConnections, Exit, Connections
<1>24. QED
  BY <1>1, <1>2, <1>3, <1>4, <1>5, <1>6, <1>7, <1>8, <1>9, <1>10, <1>11, <1>12, <1>13, <1>14,
     <1>15, <1>16, <1>17, <1>18, <1>19, <1>20, <1>21, <1>22, <1>23
     DEF Next, PeerSpeaks, Handler, Monitor

\* Which client a requester may be sent to, and where handlers may be.
LEMMA PlaceStep ==
  ASSUME Base, Next
  PROVE  Kinds' /\ Aimed'
<1> USE BridgeAssumption DEF Conns, server, monitor, sockets, routing
<1>0. TypeOK /\ Kinds /\ Aimed /\ \A c \in ClientConns : c \notin RequestConns
  BY DEF Base
<1>1. CASE pc' = pc /\ target' = target
  BY <1>0, <1>1 DEF Kinds, Aimed
<1>2. ASSUME NEW c \in Conns, Accept(c) \/ PeerSpeaks(c) PROVE Kinds' /\ Aimed'
  <2>1. target' = target
    BY <1>2 DEF Accept, PeerSpeaks, HelloClient, HelloRequester, ReadRequest
  <2>2. \/ pc' = [pc EXCEPT ![c] = "hello"]
        \/ c \in DataConns /\ pc' = [pc EXCEPT ![c] = "data"]
        \/ c \in ClientConns /\ pc' = [pc EXCEPT ![c] = "greet"]
        \/ c \in ClientConns /\ pc' = [pc EXCEPT ![c] = "closed"]
        \/ c \in RequestConns /\ pc' = [pc EXCEPT ![c] = "request"]
        \/ c \in RequestConns /\ pc' = [pc EXCEPT ![c] = "pick"]
    BY <1>2 DEF Accept, PeerSpeaks, HelloClient, HelloRequester, ReadRequest, Goto
  <2>3. \A d \in Conns : d # c => pc'[d] = pc[d]
    BY <1>0, <2>2 DEF TypeOK
  <2>4. /\ c \in ClientConns => pc'[c] \in {"hello", "greet", "closed"}
        /\ c \in RequestConns => pc'[c] \in {"hello", "request", "pick"}
    BY <1>0, <2>2 DEF TypeOK
  <2>5. QED
    BY <1>0, <2>1, <2>3, <2>4 DEF Kinds, Aimed
<1>3. ASSUME NEW c \in Conns, HelloFails(c) \/ Greet(c) \/ ReadEnds(c) \/ DataEnds(c)
                              \/ RequestFails(c) \/ PrepareFails(c)
      PROVE  Kinds' /\ Aimed'
  <2>1. target' = target
    BY <1>3 DEF HelloFails, Greet, ReadEnds, DataEnds, RequestFails, PrepareFails
  <2>2. \/ pc' = [pc EXCEPT ![c] = "closed"]
        \/ c \in ClientConns /\ pc' = [pc EXCEPT ![c] = "reading"]
    BY <1>3 DEF HelloFails, Greet, ReadEnds, DataEnds, RequestFails, PrepareFails, Answer, Goto
  <2>3. QED
    BY <1>0, <2>1, <2>2 DEF TypeOK, Kinds, Aimed
<1>4. ASSUME NEW r \in Conns, Pick(r) PROVE Kinds' /\ Aimed'
  <2>1. \A i \in 1 .. Len(clients) : clients[i] \in ClientConns
    BY <1>0 DEF TypeOK
  <2>2. r \in RequestConns
    BY <1>4 DEF Pick
  <2>3. CASE Answer(r) /\ UNCHANGED target
    BY <1>0, <2>2, <2>3 DEF TypeOK, Kinds, Aimed, Answer, Goto
  <2>4. ASSUME NEW c \in ClientConns, target' = [target EXCEPT ![r] = c], Goto(r, "send")
        PROVE  Kinds' /\ Aimed'
    BY <1>0, <2>2, <2>4 DEF TypeOK, Kinds, Aimed, Goto
  <2>5. QED
    BY <1>4, <2>1, <2>3, <2>4 DEF Pick
<1>5. ASSUME NEW r \in Conns, Send(r) \/ Wait(r) PROVE Kinds' /\ Aimed'
  <2>1. /\ r \in RequestConns /\ pc[r] \in {"send", "wait"} /\ target' = target
        /\ \E q \in {"wait", "failed", "closed"} : pc' = [pc EXCEPT ![r] = q]
    BY <1>5 DEF Send, Wait, Answer, Goto
  <2>2. QED
    BY <1>0, <2>1 DEF TypeOK, Kinds, Aimed
<1>6. ASSUME NEW r \in Conns, Failed(r) PROVE Kinds' /\ Aimed'
  <2>1. /\ r \in RequestConns /\ pc' = [pc EXCEPT ![r] = "pick"]
        /\ target' = [target EXCEPT ![r] = None]
    BY <1>6 DEF Failed, Goto
  <2>2. QED
    BY <1>0, <2>1 DEF TypeOK, Kinds, Aimed
<1>7. QED
  BY <1>1, <1>2, <1>3, <1>4, <1>5, <1>6
     DEF Next, Handler, PeerLeaves, FallsSilent, Heartbeat, DataActive, Run, Deliver, TimePasses,
         Monitor, Tick, MonitorLook, MonitorDrain, MonitorShutdown, SweepClient, SweepRemoves,
         Signal, CloseConnections, Exit

\* What a step does to the registered clients: nothing, one that is admitted
\* joins, or removeClient takes one out.
LEMMA ListChange ==
  ASSUME Base, Next
  PROVE  \/ UNCHANGED <<clients, done>> /\ shut \subseteq shut'
         \/ \E c \in ClientConns : HelloClient(c)
         \/ \E c \in ClientConns : /\ c \in gone \cup shut /\ Goto(c, "closed") /\ removeClient(c)
                                   /\ UNCHANGED <<target, tried, gone>>
         \/ doomed \in ClientConns /\ removeClient(doomed) /\ UNCHANGED <<pc, target, tried, gone>>
         \/ \E r \in RequestConns : Failed(r)
<1> USE DEF server, monitor, sockets, routing
<1>1. ASSUME NEW c \in Conns, Greet(c) \/ ReadEnds(c)
      PROVE  \/ UNCHANGED <<clients, done>> /\ shut \subseteq shut'
             \/ \E d \in ClientConns : /\ d \in gone \cup shut /\ Goto(d, "closed") /\ removeClient(d)
                                       /\ UNCHANGED <<target, tried, gone>>
  BY <1>1 DEF Greet, ReadEnds
<1>2. ASSUME SweepRemoves
      PROVE  doomed \in ClientConns /\ removeClient(doomed) /\ UNCHANGED <<pc, target, tried, gone>>
  BY <1>2 DEF SweepRemoves, Base, TypeOK
<1>3. ASSUME NEW c \in Conns, HelloClient(c) \/ Failed(c)
      PROVE  (\E d \in ClientConns : HelloClient(d)) \/ \E r \in RequestConns : Failed(r)
  BY <1>3 DEF HelloClient, Failed
<1>4. QED
  BY ZenonT(40), <1>1, <1>2, <1>3
     DEF Next, Accept, PeerLeaves, PeerSpeaks, HelloRequester, ReadRequest,
         Handler, HelloFails, DataEnds, RequestFails, Pick, Send, Wait, Answer,
         FallsSilent, Heartbeat, PrepareFails, DataActive, Run, Deliver, TimePasses,
         Monitor, Tick, MonitorLook, MonitorDrain, MonitorShutdown, SweepClient, Signal, CloseConnections, Exit

\* No step registers a session a second time.
LEMMA UniqStep ==
  ASSUME Base, Next
  PROVE  Uniq'
<1>0. TypeOK /\ Aimed /\ Uniq /\ sweep \subseteq ClientConns
  BY DEF Base, TypeOK
<1>1. CASE UNCHANGED clients
  BY <1>0, <1>1 DEF Uniq, Unique
<1>2. ASSUME NEW c \in ClientConns, HelloClient(c) PROVE Uniq'
  BY <1>0, <1>2, AppendFacts DEF TypeOK, HelloClient, Uniq, Unique
<1>3. ASSUME NEW c \in ClientConns, removeClient(c) PROVE Uniq'
  BY <1>3, RemoveFacts
<1>4. ASSUME NEW r \in RequestConns, Failed(r) PROVE Uniq'
  BY <1>0, <1>3, <1>4 DEF Aimed, Failed, GiveUp
<1>5. QED
  BY <1>0, <1>1, <1>2, <1>3, <1>4, ListChange

\* The basic invariant holds at first.
LEMMA BaseInit == Init => Base
<1> SUFFICES ASSUME Init PROVE Base
  OBVIOUS
<1>a. clients \in Seq(ClientConns)
  BY DEF Init
<1>b. /\ tried \in [RequestConns -> SUBSET ClientConns]
      /\ target \in [RequestConns -> ClientConns \cup {None}]
      /\ resp \in [Attempts -> Reply \cup {None}]
  BY Zenon DEF Init
<1>c. pc \in [Conns -> {"new", "hello", "greet", "reading", "data", "request",
                        "pick", "send", "wait", "failed", "closed"}]
  BY DEF Init
<1>1. TypeOK
  BY <1>a, <1>b, <1>c DEF Init, TypeOK
<1>2. Kinds /\ Aimed
  BY DEF Init, Kinds, Aimed, Conns
<1>3. Uniq
  BY DEF Init, Uniq, Unique
<1>4. QED
  BY <1>1, <1>2, <1>3 DEF Base

\* Every step keeps the basic invariant.
LEMMA BaseStep == Base /\ [Next]_vars => Base'
<1>1. CASE Next
  BY <1>1, TypeStep, PlaceStep, UniqStep DEF Base
<1>2. ASSUME Base, UNCHANGED vars PROVE Base'
  BY <1>2 DEF Base, TypeOK, Kinds, Aimed, Uniq, Unique, vars, server, monitor, sockets, routing
<1>3. QED
  BY <1>1, <1>2

\* The basic invariant always holds.
LEMMA BaseHolds == Spec => []Base
  BY BaseInit, BaseStep, PTL DEF Spec

\* Every variable keeps its type, for any sets of connections and sessions.
THEOREM TypeCorrect == Spec => []TypeOK
<1>1. Base => TypeOK
  BY DEF Base
<1>2. QED
  BY <1>1, BaseHolds, PTL

-----------------------------------------------------------------------------
(* The fail-over.                                                           *)

Met == {"greet", "reading", "closed"}

\* Registered clients have a handler; whoever was picked has been registered
\* once, which happens to a connection only once; a client is given up only
\* when its connection is over.
Routed ==
  /\ \A c \in ToSet(clients) : pc[c] \in {"greet", "reading"}
  /\ \A r \in RequestConns : \A c \in tried[r] : c \notin ToSet(clients) /\ pc[c] \in Met
  /\ \A r \in RequestConns : target[r] # None => pc[target[r]] \in Met
  /\ \A r \in RequestConns : pc[r] = "failed" => target[r] \in gone \cup shut
  /\ done \subseteq shut

\* A connection that was registered is never new again, and a handler that
\* returns takes its client out of the list first.
LEMMA PcStep ==
  ASSUME Base, Routed, Next
  PROVE  /\ \A c \in ClientConns : pc[c] \in Met => pc'[c] \in Met
         /\ \A c \in ToSet(clients') : pc'[c] \in {"greet", "reading"}
         /\ gone \subseteq gone' /\ shut \subseteq shut'
<1> USE BridgeAssumption DEF Conns, Met, server, monitor, sockets, routing
<1>0. /\ TypeOK /\ Kinds /\ Aimed /\ ToSet(clients) \subseteq ClientConns
      /\ \A c \in ClientConns : c \notin RequestConns /\ c \notin DataConns
      /\ \A c \in ToSet(clients) : pc[c] \in {"greet", "reading"}
  BY DEF Base, TypeOK, ToSet, Routed
<1> DEFINE Goal == /\ \A c \in ClientConns : pc[c] \in Met => pc'[c] \in Met
                   /\ \A c \in ToSet(clients') : pc'[c] \in {"greet", "reading"}
                   /\ gone \subseteq gone' /\ shut \subseteq shut'
<1>1. CASE UNCHANGED <<pc, clients>> /\ gone \subseteq gone' /\ shut \subseteq shut'
  BY <1>0, <1>1
<1>2. ASSUME NEW c \in Conns, Accept(c) \/ HelloRequester(c) \/ ReadRequest(c) \/ HelloFails(c)
                              \/ DataEnds(c) \/ RequestFails(c) \/ PrepareFails(c)
      PROVE  Goal
  <2>1. /\ clients' = clients /\ gone' = gone /\ shut \subseteq shut'
        /\ c \in ToSet(clients) => pc[c] # "hello" /\ pc[c] # "new"
    BY <1>0, <1>2 DEF Accept, HelloRequester, ReadRequest, HelloFails, DataEnds, RequestFails, PrepareFails, Answer
  <2>2. /\ \E q : pc' = [pc EXCEPT ![c] = q]
        /\ c \in ClientConns => pc[c] \in {"hello", "new"}
    BY <1>0, <1>2 DEF Accept, HelloRequester, ReadRequest, HelloFails, DataEnds, RequestFails, PrepareFails, Answer, Goto
  <2>3. QED
    BY <1>0, <2>1, <2>2 DEF TypeOK
<1>3. ASSUME NEW c \in Conns, HelloClient(c) PROVE Goal
  <2>1. ToSet(clients') \subseteq ToSet(clients) \cup {c}
    BY <1>0, <1>3, AppendFacts DEF Base, TypeOK, HelloClient
  <2>2. CASE Admits(c) /\ Goto(c, "greet")
    BY <1>0, <1>3, <2>1, <2>2 DEF TypeOK, HelloClient, Goto
  <2>3. CASE clients' = clients /\ Goto(c, "closed")
    BY <1>0, <1>3, <2>3 DEF TypeOK, HelloClient, Goto
  <2>4. QED
    BY <1>3, <2>2, <2>3 DEF HelloClient
<1>4. ASSUME NEW c \in Conns, Greet(c) \/ ReadEnds(c) PROVE Goal
  <2>1. CASE clients' = clients /\ shut' = shut /\ Goto(c, "reading")
    BY <1>0, <1>4, <2>1 DEF TypeOK, Greet, ReadEnds, Goto
  <2>2. CASE removeClient(c) /\ Goto(c, "closed")
    <3>1. ToSet(clients') = ToSet(clients) \ {c} /\ shut \subseteq shut'
      BY <1>4, <2>2, RemoveFacts DEF Greet, ReadEnds
    <3>2. QED
      BY <1>0, <1>4, <2>2, <3>1 DEF TypeOK, Greet, ReadEnds, Goto
  <2>3. QED
    BY <1>4, <2>1, <2>2 DEF Greet, ReadEnds
<1>5. ASSUME NEW r \in Conns, Pick(r) \/ Send(r) \/ Wait(r) PROVE Goal
  <2>1. /\ r \in RequestConns /\ clients' = clients /\ gone' = gone /\ shut \subseteq shut'
        /\ \E q : pc' = [pc EXCEPT ![r] = q]
    BY <1>5 DEF Pick, Send, Wait, Answer, Goto
  <2>2. QED
    BY <1>0, <2>1 DEF TypeOK
<1>6. ASSUME NEW r \in Conns, Failed(r) PROVE Goal
  <2>1. r \in RequestConns /\ target[r] \in ClientConns /\ removeClient(target[r])
    BY <1>0, <1>6 DEF Aimed, Failed, GiveUp
  <2>2. ToSet(clients') = ToSet(clients) \ {target[r]} /\ shut \subseteq shut'
    BY <2>1, RemoveFacts
  <2>3. QED
    BY <1>0, <1>6, <2>1, <2>2 DEF TypeOK, Failed, Goto
<1>7. ASSUME SweepRemoves PROVE Goal
  <2>1. doomed \in ClientConns
    BY <1>0, <1>7 DEF TypeOK, SweepRemoves
  <2>2. ToSet(clients') = ToSet(clients) \ {doomed} /\ shut \subseteq shut'
    BY <1>7, <2>1, RemoveFacts DEF SweepRemoves
  <2>3. QED
    BY <1>0, <1>7, <2>2 DEF SweepRemoves
<1>8. QED
  BY <1>1, <1>2, <1>3, <1>4, <1>5, <1>6, <1>7
     DEF Next, Handler, PeerSpeaks, PeerLeaves, FallsSilent, Heartbeat, DataActive, Run, Deliver, TimePasses,
         Monitor, Tick, MonitorLook, MonitorDrain, MonitorShutdown, SweepClient, Signal, CloseConnections, Exit

\* A client that was given up is out of the list, for good.
LEMMA TriedStep ==
  ASSUME Base, Routed, Next
  PROVE  /\ \A r \in RequestConns : \A c \in tried'[r] : c \notin ToSet(clients') /\ pc'[c] \in Met
         /\ done' \subseteq shut'
<1> USE DEF server, monitor, sockets, routing
<1>0. /\ TypeOK /\ Aimed /\ sweep \subseteq ClientConns /\ tried \in [RequestConns -> SUBSET ClientConns]
      /\ done \subseteq shut
      /\ \A r \in RequestConns : \A c \in tried[r] : c \notin ToSet(clients) /\ pc[c] \in Met
  BY DEF Base, TypeOK, Routed
<1>a. \A c \in ClientConns : pc[c] \in Met => pc'[c] \in Met
  BY PcStep
<1>b. (\E r \in RequestConns : Failed(r)) \/ tried' = tried
  BY ZenonT(40) DEF Next, Accept, PeerLeaves, PeerSpeaks, HelloClient, HelloRequester, ReadRequest,
         Handler, HelloFails, Greet, ReadEnds, DataEnds, RequestFails, Pick, Send, Wait, Failed,
         FallsSilent, Heartbeat, PrepareFails, DataActive, Run, Deliver, TimePasses,
         Monitor, Tick, MonitorLook, MonitorDrain, MonitorShutdown, SweepClient, SweepRemoves, Signal, CloseConnections, Exit
<1> DEFINE Goal == /\ \A r \in RequestConns : \A c \in tried'[r] : c \notin ToSet(clients') /\ pc'[c] \in Met
                   /\ done' \subseteq shut'
<1>1. ASSUME UNCHANGED <<clients, done>>, shut \subseteq shut', tried' = tried PROVE Goal
  BY <1>0, <1>a, <1>1
<1>2. ASSUME NEW c \in ClientConns, HelloClient(c) PROVE Goal
  <2>1. ToSet(clients') \subseteq ToSet(clients) \cup {c} /\ pc[c] \notin Met
    BY <1>0, <1>2, AppendFacts DEF Base, TypeOK, HelloClient, Met
  <2>2. done' \subseteq shut' /\ tried' = tried
    BY <1>0, <1>2 DEF HelloClient
  <2>3. QED
    BY <1>0, <1>a, <2>1, <2>2
<1>3. ASSUME NEW c \in ClientConns, removeClient(c), tried' = tried PROVE Goal
  <2>1. ToSet(clients') = ToSet(clients) \ {c} /\ done' \subseteq shut'
    BY <1>0, <1>3, RemoveFacts DEF removeClient, Woken
  <2>2. QED
    BY <1>0, <1>a, <1>3, <2>1
<1>4. ASSUME NEW r \in RequestConns, Failed(r) PROVE Goal
  <2>1. target[r] \in ClientConns /\ removeClient(target[r])
    BY <1>0, <1>4 DEF Aimed, Failed, GiveUp
  <2>2. ToSet(clients') = ToSet(clients) \ {target[r]} /\ done' \subseteq shut'
    BY <1>0, <2>1, RemoveFacts DEF removeClient, Woken
  <2>3. pc[target[r]] \in Met
    BY <2>1, BridgeAssumption DEF Routed, Conns
  <2>4. tried' = [tried EXCEPT ![r] = @ \cup {target[r]}]
    BY <1>4 DEF Failed
  <2>5. \A q \in RequestConns : \A c \in tried'[q] : c \in tried[q] \/ c = target[r]
    BY <1>0, <2>4
  <2>6. QED
    BY <1>0, <1>a, <2>1, <2>2, <2>3, <2>5
<1>5. QED
  BY <1>0, <1>b, <1>1, <1>2, <1>3, <1>4, ListChange

\* The client of a requester is one that has been registered, and a requester
\* fails only on a client whose connection is over.
LEMMA TargetStep ==
  ASSUME Base, Routed, Next
  PROVE  /\ \A r \in RequestConns : target'[r] # None => pc'[target'[r]] \in Met
         /\ \A r \in RequestConns : pc'[r] = "failed" => target'[r] \in gone' \cup shut'
<1> USE BridgeAssumption DEF Conns, server, monitor, sockets, routing
<1>0. /\ TypeOK /\ Aimed /\ done \subseteq shut
      /\ \A c \in ClientConns : c \notin RequestConns /\ c # None
      /\ \A r \in RequestConns : target[r] # None => pc[target[r]] \in Met
      /\ \A r \in RequestConns : pc[r] = "failed" => target[r] \in gone \cup shut
  BY DEF Base, TypeOK, Routed
<1>a. /\ \A c \in ClientConns : pc[c] \in Met => pc'[c] \in Met
      /\ gone \subseteq gone' /\ shut \subseteq shut'
  BY PcStep
<1>b. /\ target \in [RequestConns -> ClientConns \cup {None}]
      /\ pc \in [Conns -> {"new", "hello", "greet", "reading", "data", "request",
                           "pick", "send", "wait", "failed", "closed"}]
  BY <1>0 DEF TypeOK
<1> DEFINE Goal == /\ \A r \in RequestConns : target'[r] # None => pc'[target'[r]] \in Met
                   /\ \A r \in RequestConns : pc'[r] = "failed" => target'[r] \in gone' \cup shut'
<1>1. ASSUME target' = target, \A r \in RequestConns : pc'[r] = "failed" => pc[r] = "failed" PROVE Goal
  BY <1>0, <1>a, <1>b, <1>1
<1>2. ASSUME NEW r \in Conns, Pick(r) PROVE Goal
  <2>1. r \in RequestConns /\ \A i \in 1 .. Len(clients) : clients[i] \in ClientConns /\ pc[clients[i]] \in Met
    BY <1>0, <1>2 DEF TypeOK, Pick, Routed, Met, ToSet
  <2>2. CASE UNCHANGED target
    BY <1>1, <1>2, <1>b, <2>2 DEF Pick, Answer, Goto
  <2>3. ASSUME NEW c \in ClientConns, pc[c] \in Met, target' = [target EXCEPT ![r] = c], Goto(r, "send") PROVE Goal
    BY <1>0, <1>a, <1>b, <2>1, <2>3 DEF Goto
  <2>4. QED
    BY <1>2, <2>1, <2>2, <2>3 DEF Pick
<1>3. ASSUME NEW r \in Conns, Send(r) \/ Wait(r) PROVE Goal
  <2>1. /\ target' = target /\ \E q : pc' = [pc EXCEPT ![r] = q]
        /\ pc' = [pc EXCEPT ![r] = "failed"] => target[r] \in gone \cup shut
    BY <1>0, <1>3 DEF Send, Wait, Answer, Goto, TypeOK
  <2>2. QED
    BY <1>0, <1>a, <1>b, <2>1
<1>4. ASSUME NEW r \in Conns, Failed(r) PROVE Goal
  BY <1>0, <1>a, <1>b, <1>4 DEF Failed, Goto
<1>5. ASSUME NEW c \in Conns, Accept(c) \/ PeerSpeaks(c) \/ HelloFails(c) \/ Greet(c) \/ ReadEnds(c)
                              \/ DataEnds(c) \/ RequestFails(c) \/ PrepareFails(c)
      PROVE  Goal
  BY <1>1, <1>5, <1>b DEF Accept, PeerSpeaks, HelloClient, HelloRequester, ReadRequest, HelloFails, Greet,
                   ReadEnds, DataEnds, RequestFails, PrepareFails, Answer, Goto
<1>6. QED
  BY <1>1, <1>2, <1>3, <1>4, <1>5
     DEF Next, Handler, PeerLeaves, FallsSilent, Heartbeat, DataActive, Run, Deliver, TimePasses,
         Monitor, Tick, MonitorLook, MonitorDrain, MonitorShutdown, SweepClient, SweepRemoves, Signal, CloseConnections, Exit

\* The list, the fail-over and the targets together are inductive.
LEMMA RoutedHolds == Spec => [](Base /\ Routed)
<1>1. Init => Routed
  BY BridgeAssumption DEF Init, Routed, ToSet, Conns
<1>2. Base /\ Routed /\ [Next]_vars => Routed'
  <2>1. ASSUME Base, Routed, Next PROVE Routed'
    BY <2>1, PcStep, TriedStep, TargetStep DEF Routed
  <2>2. ASSUME Routed, UNCHANGED vars PROVE Routed'
    BY <2>2 DEF Routed, vars, server, monitor, sockets, routing
  <2>3. QED
    BY <2>1, <2>2
<1>3. QED
  BY <1>1, <1>2, BaseInit, BaseStep, PTL DEF Spec

\* A requester never tries a client again that it gave up: the fail-over ends.
THEOREM NoRetry == Spec => []NoSecondAttempt
<1>1. Base /\ Routed => NoSecondAttempt
  BY DEF Routed, NoSecondAttempt
<1>2. QED
  BY <1>1, RoutedHolds, PTL

\* Only the end of its own connection, or a look of the sweep at this very
\* connection, unregisters a client.
THEOREM OnlyDead == Spec => OnlyDeadClientsLeave
<1> DEFINE A == /\ \A c \in ToSet(clients) : c \in ToSet(clients') \cup gone \cup shut \cup {doomed}
                /\ doomed' \in silent \cup {doomed, None}
<1>1. Base /\ Routed /\ [Next]_vars => [A]_vars
  <2> SUFFICES ASSUME Base, Routed, Next PROVE A
    OBVIOUS
  <2>0. TypeOK /\ Aimed
    BY DEF Base
  <2>1. ASSUME NEW c \in ClientConns, HelloClient(c) PROVE ToSet(clients) \subseteq ToSet(clients')
    BY <2>0, <2>1, AppendFacts DEF Base, TypeOK, HelloClient
  <2>2. ASSUME NEW c \in ClientConns, removeClient(c) PROVE ToSet(clients) \ {c} \subseteq ToSet(clients')
    BY <2>2, RemoveFacts
  <2>3. ASSUME NEW r \in RequestConns, Failed(r)
        PROVE  target[r] \in gone \cup shut /\ ToSet(clients) \ {target[r]} \subseteq ToSet(clients')
    BY <2>0, <2>2, <2>3 DEF Routed, Aimed, Failed, GiveUp
  <2>4. \A c \in ToSet(clients) : c \in ToSet(clients') \cup gone \cup shut \cup {doomed}
    BY <2>0, <2>1, <2>2, <2>3, ListChange
  <2>5. doomed' \in silent \cup {doomed, None}
    BY DEF Next, Accept, PeerLeaves, PeerSpeaks, HelloClient, HelloRequester, ReadRequest,
         Handler, HelloFails, Greet, ReadEnds, DataEnds, RequestFails, Pick, Send, Wait, Failed,
         FallsSilent, Heartbeat, PrepareFails, DataActive, Run, Deliver, TimePasses, monitor,
         Monitor, Tick, MonitorLook, MonitorDrain, MonitorShutdown, SweepClient, SweepRemoves,
         Signal, CloseConnections, Exit
  <2>6. QED
    BY <2>4, <2>5
<1> HIDE DEF A
<1>2. Spec => [][A]_vars
  BY <1>1, RoutedHolds, PTL DEF Spec
<1>3. QED
  BY <1>2 DEF A, OnlyDeadClientsLeave

-----------------------------------------------------------------------------
(* Replies.                                                                 *)

\* Commands go only where they may run, a result follows a run, and the channel
\* of an attempt only ever holds a reply to it.
Answers ==
  /\ \A c, r : <<c, r>> \in inbox => Serves(c, r)
  /\ \A r \in RequestConns : target[r] # None => Serves(target[r], r)
  /\ \A m \in replies : m.kind = "result" => <<m.for, m.by>> \in ran
  /\ \A c \in ClientConns, r \in RequestConns :
       LET m == resp[<<c, r>>] IN
       m # None => m.by = c /\ m.for = r /\ (m.kind = "result" => <<r, c>> \in ran)
  /\ \A x \in ran : Serves(x[2], x[1])

\* What a reply says was true when it was sent, and stays true.
LEMMA AnswerStep ==
  ASSUME Base, Answers, Next
  PROVE  Answers'
<1> USE BridgeAssumption DEF Conns, server, monitor, sockets, routing
<1>0. TypeOK /\ Aimed /\ resp \in [Attempts -> Reply \cup {None}]
  BY DEF Base, TypeOK
<1>1. CASE UNCHANGED <<target, inbox, replies, resp, ran>>
  BY <1>1 DEF Answers, Serves
<1>2. ASSUME NEW c \in Conns, Accept(c) \/ PeerSpeaks(c) \/ HelloFails(c) \/ Greet(c) \/ ReadEnds(c)
                              \/ DataEnds(c) \/ RequestFails(c) \/ PrepareFails(c)
      PROVE  Answers'
  BY <1>1, <1>2 DEF Accept, PeerSpeaks, HelloClient, HelloRequester, ReadRequest, HelloFails, Greet,
                ReadEnds, DataEnds, RequestFails, PrepareFails
<1>3. ASSUME NEW r \in Conns, Pick(r) PROVE Answers'
  <2>1. r \in RequestConns /\ UNCHANGED <<inbox, replies, resp, ran>>
    BY <1>3 DEF Pick
  <2>2. CASE UNCHANGED target
    BY <1>1, <2>1, <2>2
  <2>3. ASSUME NEW i \in 1 .. Len(clients), Serves(clients[i], r),
               target' = [target EXCEPT ![r] = clients[i]]
        PROVE  Answers'
    <3>1. \A q \in RequestConns : target'[q] = IF q = r THEN clients[i] ELSE target[q]
      BY <1>0, <2>1, <2>3 DEF TypeOK
    <3>2. QED
      BY <2>1, <2>3, <3>1 DEF Answers, Serves
  <2>4. QED
    BY <1>3, <2>2, <2>3 DEF Pick
<1>4. ASSUME NEW r \in Conns, Send(r) PROVE Answers'
  <2>1. /\ r \in RequestConns /\ target[r] # None /\ Serves(target[r], r)
        /\ UNCHANGED <<target, replies, resp, ran>>
        /\ inbox' \subseteq inbox \cup {<<target[r], r>>}
    BY <1>0, <1>4 DEF Send, Answers, Aimed
  <2>2. QED
    BY <2>1 DEF Answers, Serves
<1>5. ASSUME NEW r \in Conns, Wait(r) PROVE Answers'
  <2>1. /\ UNCHANGED <<target, inbox, replies, ran>>
        /\ resp' = [resp EXCEPT ![<<target[r], r>>] = None]
    BY <1>5 DEF Wait
  <2>2. \A c \in ClientConns, q \in RequestConns : resp'[<<c, q>>] \in {None, resp[<<c, q>>]}
    BY <1>0, <2>1 DEF Attempts
  <2>3. QED
    BY <2>1, <2>2 DEF Answers, Serves
<1>6. ASSUME NEW r \in Conns, Failed(r) PROVE Answers'
  <2>1. /\ r \in RequestConns /\ UNCHANGED <<inbox, replies, resp, ran>>
        /\ target' = [target EXCEPT ![r] = None]
    BY <1>6 DEF Failed
  <2>2. \A q \in RequestConns : target'[q] \in {None, target[q]}
    BY <1>0, <2>1 DEF TypeOK
  <2>3. QED
    BY <2>1, <2>2 DEF Answers, Serves
<1>7. ASSUME NEW c \in ClientConns, NEW r \in RequestConns, Run(c, r) PROVE Answers'
  <2>1. /\ UNCHANGED <<target, resp>> /\ inbox' \subseteq inbox /\ Serves(c, r)
        /\ ran \subseteq ran' /\ ran' \subseteq ran \cup {<<r, c>>}
        /\ \A m \in replies' : m \in replies \/ (m.kind = "result" => <<m.for, m.by>> \in ran')
    BY <1>7 DEF Run, Answers
  <2>2. QED
    BY <2>1 DEF Answers, Serves
<1>8. ASSUME NEW m \in replies, Deliver(m) PROVE Answers'
  <2>1. UNCHANGED <<target, inbox, ran>> /\ replies' \subseteq replies /\ m \in Reply
    BY <1>0, <1>8 DEF Deliver, TypeOK
  <2>2. CASE UNCHANGED resp
    BY <2>1, <2>2 DEF Answers, Serves
  <2>3. ASSUME NEW r \in ExpectedBy(m), resp' = [resp EXCEPT ![<<m.by, r>>] = IF @ = None THEN m ELSE @]
        PROVE  Answers'
    <3>1. r = m.for
      BY DEF ExpectedBy
    <3>2. \A c \in ClientConns, q \in RequestConns :
            resp'[<<c, q>>] = resp[<<c, q>>] \/ (c = m.by /\ q = r /\ resp'[<<c, q>>] = m)
      BY <1>0, <2>3 DEF Attempts
    <3>3. QED
      BY <2>1, <3>1, <3>2 DEF Answers, Serves
  <2>4. QED
    BY <1>8, <2>2, <2>3 DEF Deliver
<1>9. QED
  BY <1>1, <1>2, <1>3, <1>4, <1>5, <1>6, <1>7, <1>8
     DEF Next, Handler, PeerLeaves, FallsSilent, Heartbeat, DataActive, TimePasses,
         Monitor, Tick, MonitorLook, MonitorDrain, MonitorShutdown, SweepClient, SweepRemoves,
         Signal, CloseConnections, Exit

\* A requester is answered with the reply to its own command, from a client
\* that may serve it and that ran the command if the reply is a result.
THEOREM RepliesOwn == Spec => []OwnReply
<1>1. Init => Answers
  BY BridgeAssumption DEF Init, Answers, Attempts
<1>2. Base /\ Answers /\ [Next]_vars => Answers'
  <2>1. ASSUME Answers, UNCHANGED vars PROVE Answers'
    BY <2>1 DEF Answers, Serves, vars, server, monitor, sockets, routing
  <2>2. QED
    BY <2>1, AnswerStep
<1>3. Base /\ Answers => OwnReply
  <2>1. Base => \A r \in RequestConns : pc[r] = "wait" => target[r] \in ClientConns
    BY DEF Base, Aimed
  <2>2. QED
    BY <2>1 DEF Answers, OwnReply
<1>4. QED
  BY <1>1, <1>2, <1>3, BaseInit, BaseStep, PTL DEF Spec
=============================================================================
