--------------------------- MODULE PortScanProofs ---------------------------
(***************************************************************************)
(* Proofs about PortScan: what the clients know of the ports, for any      *)
(* number of ports and clients, and the debouncing of gone ports.          *)
(***************************************************************************)
EXTENDS PortScan, TLAPS

On(p)  == [port |-> p, gone |-> FALSE]
Off(p) == [port |-> p, gone |-> TRUE]

\* A frame for p is still to be written to client c.
Due(c, f) == f \in frames \/ <<c, f>> \in out

\* Frames are pending only in the last part of a scan, and they say what the
\* scan found; the replay of a client is over when it is ready.
Basic ==
  /\ scanner # "send" => frames = {} /\ out = {}
  /\ \A f \in frames : f.gone <=> f.port \notin observedPorts
  /\ \A o \in out : /\ o[2].gone <=> o[2].port \notin observedPorts
                    /\ st[o[1]] # "new"
  /\ \A c \in Clients : st[c] # "replay" => todo[c] = {}
  /\ \A c \in Clients : st[c] = "new" => view[c] = {}

\* An observed port has reached a client, or is due.
Reached ==
  \A c \in Clients : st[c] \in {"replay", "ready"} =>
    \A p \in observedPorts : p \in view[c] \cup todo[c] \/ Due(c, On(p))

\* A port that a client knows, or will be told by its replay, is observed, or
\* its end is due, or it is one of the replays that came too late.
Founded ==
  \A c \in Clients : \A p \in view[c] \cup todo[c] :
    p \in observedPorts \cup stale[c] \/ Due(c, Off(p))

\* A port with a miss was not in the scan before the one at work.
Counted ==
  \A p \in Ports : portMisses[p] > 0 =>
    IF scanner = "apply" THEN p \notin last ELSE p \notin scan

-----------------------------------------------------------------------------
\* The types: every action of the scanner and of a client's handler keeps them.
LEMMA TypeStep == TypeOK /\ [Next]_vars => TypeOK'
<1> SUFFICES ASSUME TypeOK, [Next]_vars PROVE TypeOK'
  OBVIOUS
<1> USE PortScanAssumption DEF TypeOK, scanning
<1>1. ASSUME NEW p \in Ports, Toggle(p) PROVE TypeOK'
  BY <1>1 DEF Toggle
<1>2. CASE Scan
  BY <1>2 DEF Scan
<1>3. CASE Apply
  <2>1. portMisses' \in [Ports -> 0 .. (portGoneMissingScans - 1)]
    BY <1>3 DEF Apply, Misses, Gone
  <2>2. frames' \subseteq Frame
    BY <1>3 DEF Apply, Appeared, Gone, Frame
  <2>3. QED
    BY <1>3, <2>1, <2>2 DEF Apply
<1>4. CASE ScanDone
  BY <1>4 DEF ScanDone
<1>5. ASSUME NEW f \in frames, Broadcast(f) PROVE TypeOK'
  BY <1>5 DEF Broadcast, Recipients
<1>6. ASSUME NEW o \in out, Send(o[1], o[2]) PROVE TypeOK'
  <2>1. PICK c \in Clients, f \in Frame : o = <<c, f>>
    OBVIOUS
  <2>2. o[1] = c /\ o[2] = f /\ f.port \in Ports
    BY <2>1 DEF Frame
  <2>3. QED
    BY <1>6, <2>2 DEF Send
<1>7. ASSUME NEW c \in Clients, Join(c) PROVE TypeOK'
  BY <1>7 DEF Join
<1>8. ASSUME NEW c \in Clients, Replay(c) PROVE TypeOK'
  BY <1>8 DEF Replay
<1>9. ASSUME NEW c \in Clients, NEW p \in todo[c], ReplayPort(c, p) PROVE TypeOK'
  BY <1>9 DEF ReplayPort
<1>10. ASSUME NEW c \in Clients, ReplayDone(c) PROVE TypeOK'
  BY <1>10 DEF ReplayDone
<1>11. CASE UNCHANGED vars
  BY <1>11 DEF vars
<1>12. QED
  BY <1>1, <1>2, <1>3, <1>4, <1>5, <1>6, <1>7, <1>8, <1>9, <1>10, <1>11
     DEF Next, Scanner, Client

\* The variables of the port scan keep their types, and no port is kept with
\* as many misses as portGoneMissingScans (applyPortScan).
THEOREM TypeCorrect == Spec => []TypeOK
<1>1. Init => TypeOK
  BY PortScanAssumption DEF Init, TypeOK
<1>2. QED
  BY <1>1, TypeStep, PTL DEF Spec

-----------------------------------------------------------------------------
\* Frames and recipients by their parts.
LEMMA Parts ==
  ASSUME TypeOK
  PROVE  /\ \A f \in Frame : f.port \in Ports /\ f = (IF f.gone THEN Off(f.port) ELSE On(f.port))
         /\ \A p \in Ports : /\ On(p) \in Frame /\ Off(p) \in Frame
                            /\ On(p).port = p /\ ~On(p).gone /\ Off(p).port = p /\ Off(p).gone
         /\ \A o \in out : o = <<o[1], o[2]>> /\ o[1] \in Clients /\ o[2] \in Frame
BY DEF TypeOK, Frame, On, Off

\* What is due is consistent with the ports that are observed.
LEMMA BasicStep == TypeOK /\ Basic /\ [Next]_vars => Basic'
<1> SUFFICES ASSUME TypeOK, Basic, [Next]_vars PROVE Basic'
  OBVIOUS
<1> USE DEF TypeOK, Basic, scanning
<1>1. ASSUME NEW p \in Ports, Toggle(p) PROVE Basic'
  BY <1>1 DEF Toggle
<1>2. CASE Scan
  BY <1>2 DEF Scan
<1>3. CASE Apply
  BY <1>3 DEF Apply, Appeared, Gone
<1>4. CASE ScanDone
  BY <1>4 DEF ScanDone
<1>5. ASSUME NEW f \in frames, Broadcast(f) PROVE Basic'
  BY <1>5 DEF Broadcast, Recipients
<1>6. ASSUME NEW o \in out, Send(o[1], o[2]) PROVE Basic'
  BY <1>6 DEF Send
<1>7. ASSUME NEW c \in Clients, Join(c) PROVE Basic'
  BY <1>7 DEF Join
<1>8. ASSUME NEW c \in Clients, Replay(c) PROVE Basic'
  BY <1>8 DEF Replay
<1>9. ASSUME NEW c \in Clients, NEW p \in todo[c], ReplayPort(c, p) PROVE Basic'
  BY <1>9 DEF ReplayPort
<1>10. ASSUME NEW c \in Clients, ReplayDone(c) PROVE Basic'
  BY <1>10 DEF ReplayDone
<1>11. CASE UNCHANGED vars
  BY <1>11 DEF vars
<1>12. QED
  BY <1>1, <1>2, <1>3, <1>4, <1>5, <1>6, <1>7, <1>8, <1>9, <1>10, <1>11
     DEF Next, Scanner, Client
-----------------------------------------------------------------------------
\* No observed port is forgotten on its way to a client.
LEMMA ReachedStep == TypeOK /\ Basic /\ Reached /\ [Next]_vars => Reached'
<1> SUFFICES ASSUME TypeOK, Basic, Reached, [Next]_vars,
                    NEW c \in Clients, st'[c] \in {"replay", "ready"},
                    NEW p \in observedPorts'
             PROVE  p \in view'[c] \cup todo'[c] \/ Due(c, On(p))'
  BY DEF Reached
<1> DEFINE Goal == p \in view'[c] \cup todo'[c] \/ Due(c, On(p))'
<1> USE DEF Due, scanning
<1>1. ASSUME NEW q \in Ports, Toggle(q) PROVE Goal
  BY <1>1 DEF Toggle, Reached
<1>2. CASE Scan
  BY <1>2 DEF Scan, Reached
<1>3. CASE Apply
  <2>1. p \in observedPorts \/ On(p) \in frames'
    BY <1>3 DEF Apply, Appeared, On
  <2>2. p \in observedPorts => p \in view[c] \cup todo[c]
    BY <1>3 DEF Apply, Reached, Basic
  <2>3. QED
    BY <1>3, <2>1, <2>2 DEF Apply
<1>4. CASE ScanDone
  BY <1>4 DEF ScanDone, Reached
<1>5. ASSUME NEW f \in frames, Broadcast(f) PROVE Goal
  BY <1>5 DEF Broadcast, Recipients, Reached
<1>6. ASSUME NEW o \in out, Send(o[1], o[2]) PROVE Goal
  <2>1. p \in Ports /\ p \in observedPorts
    BY <1>6 DEF Send, TypeOK
  <2>2. o[1] \in Clients /\ o[2] \in Frame /\ o = <<o[1], o[2]>>
    BY Parts
  <2>3. p \in view[c] \cup todo[c] \/ Due(c, On(p))
    BY <1>6, <2>1 DEF Send, Reached
  <2>4. o[2].gone => o[2].port # p
    BY <2>1 DEF Basic
  <2>5. o[2] = On(p) => ~o[2].gone /\ o[2].port = p
    BY DEF On
  <2>6. view' = [view EXCEPT ![o[1]] = IF o[2].gone THEN @ \ {o[2].port} ELSE @ \cup {o[2].port}]
    BY <1>6 DEF Send
  <2>7. p \in view[c] => p \in view'[c]
    BY <2>2, <2>4, <2>6 DEF TypeOK
  <2>8. o = <<c, On(p)>> => p \in view'[c]
    BY <2>2, <2>5, <2>6 DEF TypeOK
  <2>9. QED
    BY <1>6, <2>3, <2>7, <2>8, <2>2 DEF Send
<1>7. ASSUME NEW d \in Clients, Join(d) PROVE Goal
  BY <1>7 DEF Join, Reached, TypeOK
<1>8. ASSUME NEW d \in Clients, Replay(d) PROVE Goal
  BY <1>8 DEF Replay, Reached, TypeOK
<1>9. ASSUME NEW d \in Clients, NEW q \in todo[d], ReplayPort(d, q) PROVE Goal
  BY <1>9 DEF ReplayPort, Reached, TypeOK
<1>10. ASSUME NEW d \in Clients, ReplayDone(d) PROVE Goal
  BY <1>10 DEF ReplayDone, Reached, TypeOK
<1>11. CASE UNCHANGED vars
  BY <1>11 DEF vars, Reached
<1>12. QED
  BY <1>1, <1>2, <1>3, <1>4, <1>5, <1>6, <1>7, <1>8, <1>9, <1>10, <1>11
     DEF Next, Scanner, Client

\* No client keeps a port without a reason.
LEMMA FoundedStep == TypeOK /\ Basic /\ Founded /\ [Next]_vars => Founded'
<1> SUFFICES ASSUME TypeOK, Basic, Founded, [Next]_vars,
                    NEW c \in Clients, NEW p \in view'[c] \cup todo'[c]
             PROVE  p \in observedPorts' \cup stale'[c] \/ Due(c, Off(p))'
  BY DEF Founded
<1> DEFINE Goal == p \in observedPorts' \cup stale'[c] \/ Due(c, Off(p))'
<1> USE DEF Due, scanning
<1>1. ASSUME NEW q \in Ports, Toggle(q) PROVE Goal
  BY <1>1 DEF Toggle, Founded
<1>2. CASE Scan
  BY <1>2 DEF Scan, Founded
<1>3. CASE Apply
  <2>1. p \in observedPorts \cup stale[c]
    BY <1>3 DEF Apply, Founded, Basic
  <2>2. p \in observedPorts => p \in observedPorts' \/ Off(p) \in frames'
    BY <1>3 DEF Apply, Gone, Off
  <2>3. QED
    BY <1>3, <2>1, <2>2 DEF Apply
<1>4. CASE ScanDone
  BY <1>4 DEF ScanDone, Founded
<1>5. ASSUME NEW f \in frames, Broadcast(f) PROVE Goal
  <2>1. st[c] # "new"
    BY <1>5 DEF Broadcast, Basic
  <2>2. QED
    BY <1>5, <2>1 DEF Broadcast, Recipients, Founded
<1>6. ASSUME NEW o \in out, Send(o[1], o[2]) PROVE Goal
  <2>1. o[1] \in Clients /\ o[2] \in Frame /\ o = <<o[1], o[2]>> /\ o[2].port \in Ports
    BY Parts
  <2>2. CASE o[1] # c
    BY <1>6, <2>1, <2>2 DEF Send, Founded, TypeOK
  <2>3. CASE o[1] = c /\ o[2].port # p
    <3>1. o[2] # Off(p)
      BY <2>3 DEF Off
    <3>2. p \in view[c] \cup todo[c]
      BY <1>6, <2>1, <2>3 DEF Send, TypeOK
    <3>3. p \in stale[c] => p \in stale'[c]
      BY <1>6, <2>1, <2>3 DEF Send, TypeOK
    <3>4. QED
      BY <1>6, <3>1, <3>2, <3>3 DEF Send, Founded
  <2>4. CASE o[1] = c /\ o[2].port = p /\ o[2].gone
    <3>1. p \in todo[c]
      BY <1>6, <2>1, <2>4 DEF Send, TypeOK
    <3>2. QED
      BY <1>6, <2>1, <2>4, <3>1 DEF Send, TypeOK
  <2>5. CASE o[1] = c /\ o[2].port = p /\ ~o[2].gone
    BY <1>6, <2>5 DEF Send, Basic
  <2>6. QED
    BY <2>2, <2>3, <2>4, <2>5
<1>7. ASSUME NEW d \in Clients, Join(d) PROVE Goal
  BY <1>7 DEF Join, Founded, TypeOK
<1>8. ASSUME NEW d \in Clients, Replay(d) PROVE Goal
  BY <1>8 DEF Replay, Founded, TypeOK
<1>9. ASSUME NEW d \in Clients, NEW q \in todo[d], ReplayPort(d, q) PROVE Goal
  BY <1>9 DEF ReplayPort, Founded, TypeOK
<1>10. ASSUME NEW d \in Clients, ReplayDone(d) PROVE Goal
  BY <1>10 DEF ReplayDone, Founded, TypeOK
<1>11. CASE UNCHANGED vars
  BY <1>11 DEF vars, Founded
<1>12. QED
  BY <1>1, <1>2, <1>3, <1>4, <1>5, <1>6, <1>7, <1>8, <1>9, <1>10, <1>11
     DEF Next, Scanner, Client

\* The misses of a port agree with the scans.
LEMMA CountedStep == TypeOK /\ Counted /\ [Next]_vars => Counted'
<1> SUFFICES ASSUME TypeOK, Counted, [Next]_vars PROVE Counted'
  OBVIOUS
<1>1. CASE Scan
  BY <1>1 DEF Scan, Counted
<1>2. CASE Apply
  BY <1>2 DEF Apply, Misses, Counted, TypeOK
<1>3. CASE ScanDone
  BY <1>3 DEF ScanDone, Counted
<1>4. CASE UNCHANGED <<scanner, scan, last, portMisses>>
  BY <1>4 DEF Counted
<1>5. QED
  BY <1>1, <1>2, <1>3, <1>4
     DEF Next, Scanner, Client, Toggle, Broadcast, Send, Join, Replay, ReplayPort, ReplayDone,
         vars, scanning

-----------------------------------------------------------------------------
\* Between scans a client that had its replay knows every observed port,
\* whenever it registered (broadcast and sendCurrentPorts).
THEOREM NoPortMissed == Spec => []NoMissedPort
<1>1. Init => TypeOK /\ Basic /\ Reached
  BY PortScanAssumption DEF Init, TypeOK, Basic, Reached
<1>2. TypeOK /\ Basic /\ Reached => NoMissedPort
  BY DEF Basic, Reached, NoMissedPort, Due
<1>3. QED
  BY <1>1, <1>2, TypeStep, BasicStep, ReachedStep, PTL DEF Spec

\* A client keeps a port that is gone only when its replay overtook the report
\* (sendCurrentPorts).
THEOREM StaleByReplay == Spec => []OnlyReplayIsStale
<1>1. Init => TypeOK /\ Basic /\ Founded
  BY PortScanAssumption DEF Init, TypeOK, Basic, Founded
<1>2. TypeOK /\ Basic /\ Founded => OnlyReplayIsStale
  BY DEF Basic, Founded, OnlyReplayIsStale, Due
<1>3. QED
  BY <1>1, <1>2, TypeStep, BasicStep, FoundedStep, PTL DEF Spec

\* With portGoneMissingScans = 2, as in the code, a port is dropped only after
\* two scans in a row without it (applyPortScan).
THEOREM Debounced == portGoneMissingScans >= 2 => (Spec => GoneIsDebounced)
<1> SUFFICES ASSUME portGoneMissingScans >= 2 PROVE Spec => GoneIsDebounced
  OBVIOUS
<1>1. Init => TypeOK /\ Counted
  BY PortScanAssumption DEF Init, TypeOK, Counted
<1>2. TypeOK /\ Counted /\ [Next]_vars
        => [\A p \in observedPorts \ observedPorts' : p \notin scan /\ p \notin last]_vars
  <2> SUFFICES ASSUME TypeOK, Counted, [Next]_vars, NEW p \in observedPorts, p \notin observedPorts'
               PROVE  p \notin scan /\ p \notin last
    OBVIOUS
  <2>1. Apply
    BY DEF Next, Scanner, Client, Toggle, Scan, ScanDone, Broadcast, Send, Join, Replay,
           ReplayPort, ReplayDone, vars, scanning
  <2>2. p \in Ports /\ p \in Gone /\ p \notin scan
    BY <2>1 DEF Apply, Gone, TypeOK
  <2>3. portMisses[p] > 0
    BY <2>2, PortScanAssumption DEF Gone, Misses, TypeOK
  <2>4. QED
    BY <2>1, <2>2, <2>3 DEF Apply, Counted
<1>3. QED
  BY <1>1, <1>2, TypeStep, CountedStep, PTL DEF Spec, GoneIsDebounced
=============================================================================
