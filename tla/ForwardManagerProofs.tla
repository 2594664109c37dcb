----------------------- MODULE ForwardManagerProofs -----------------------
(***************************************************************************)
(* Proofs about ForwardManager: it implements ForwardTable, no Ensure      *)
(* takes the socket of a listed forward, and no listening socket is        *)
(* forgotten, for any number of calls, ports, hosts and control masters.   *)
(***************************************************************************)
EXTENDS ForwardManager, TLAPS

\* A running Ensure knows its port and its forward.
CallOK ==
  \A c \in Calls : pc[c] \in {"exec", "commit"} => port[c] \in Ports /\ fwd[c] \in Forwards

Inv == TypeOK /\ CallOK

\* The invariant holds at first.
LEMMA InitInv == Init => Inv
  BY DEF Init, Inv, TypeOK, CallOK, Forwards

\* A call that returns keeps the invariant.
LEMMA ReturnInv ==
  ASSUME Inv, NEW c \in Calls, Return(c)
  PROVE  /\ pc' \in [Calls -> {"idle", "exec", "commit", "drop", "stop"}]
         /\ port' \in [Calls -> Ports \cup {None}]
         /\ fwd' \in [Calls -> Forwards \cup {None}]
         /\ drops' \in [Calls -> SUBSET (Ports \X Forwards)]
         /\ CallOK'
  BY DEF Inv, TypeOK, CallOK, Return

\* Dropping listed entries keeps the invariant.
LEMMA DroppingInv ==
  ASSUME Inv, NEW c \in Calls, NEW q \in {"drop", "stop"},
         NEW D \in SUBSET (Ports \X Forwards), Dropping(c, q, D)
  PROVE  /\ pc' \in [Calls -> {"idle", "exec", "commit", "drop", "stop"}]
         /\ port' \in [Calls -> Ports \cup {None}]
         /\ fwd' \in [Calls -> Forwards \cup {None}]
         /\ drops' \in [Calls -> SUBSET (Ports \X Forwards)]
         /\ CallOK'
  BY DEF Inv, TypeOK, CallOK, Dropping

\* Every step keeps the invariant.
LEMMA NextInv == Inv /\ [Next]_vars => Inv'
  <1> SUFFICES ASSUME Inv, [Next]_vars PROVE Inv' OBVIOUS
  <1> USE ForwardAssumption
  <1>1. ASSUME NEW c \in Calls, NEW p \in Ports, NEW f \in Forwards, EnsureStart(c, p, f) PROVE Inv'
    BY <1>1 DEF EnsureStart, manager, outside, Inv, TypeOK, CallOK
  <1>2. ASSUME NEW c \in Calls, NEW p \in Ports, Remove(c, p) PROVE Inv'
    <2>1. {<<p, byRemote[p]>>} \in SUBSET (Ports \X Forwards)
      BY <1>2 DEF Remove, Inv, TypeOK
    <2> QED BY <1>2, <2>1, DroppingInv DEF Remove, outside, Inv, TypeOK
  <1>3. ASSUME NEW c \in Calls, EnsureExec(c) PROVE Inv'
    <2>1. port[c] \in Ports /\ fwd[c] \in Forwards BY <1>3 DEF EnsureExec, Inv, CallOK
    <2>2. /\ bound' \in [Ports -> Forwards \cup {None}] /\ lost' \in BOOLEAN
          /\ UNCHANGED <<byRemote, stopped, cancelled, alive>>
      BY <1>3, <2>1 DEF EnsureExec, Inv, TypeOK, manager
    <2>3. CASE Return(c) BY <2>2, <2>3, ReturnInv DEF Inv, TypeOK
    <2>4. CASE pc' = [pc EXCEPT ![c] = "commit"] /\ UNCHANGED <<port, fwd, drops>>
      BY <2>1, <2>2, <2>4 DEF Inv, TypeOK, CallOK
    <2> QED BY <1>3, <2>3, <2>4 DEF EnsureExec
  <1>4. ASSUME NEW c \in Calls, EnsureCommit(c) PROVE Inv'
    <2>1. port[c] \in Ports /\ fwd[c] \in Forwards BY <1>4 DEF EnsureCommit, Inv, CallOK
    <2>2. /\ bound' \in [Ports -> Forwards \cup {None}] /\ byRemote' \in [Ports -> Forwards \cup {None}]
          /\ UNCHANGED <<stopped, cancelled, alive>> /\ lost' \in BOOLEAN
      BY <1>4, <2>1 DEF EnsureCommit, Abandon, Inv, TypeOK
    <2>3. CASE Return(c) BY <2>2, <2>3, ReturnInv DEF Inv, TypeOK
    <2>4. CASE Dropping(c, "drop", Refused(port[c], fwd[c]))
      BY <2>1, <2>2, <2>4, DroppingInv DEF Inv, TypeOK, Refused
    <2> QED BY <1>4, <2>3, <2>4 DEF EnsureCommit
  <1>5. ASSUME NEW c \in Calls, Stop(c) PROVE Inv'
    <2> DEFINE D == {<<p, byRemote[p]>> : p \in {q \in Ports : byRemote[q] # None}}
    <2>1. D \in SUBSET (Ports \X Forwards) BY DEF Inv, TypeOK
    <2>2. Dropping(c, "stop", D) BY <1>5 DEF Stop
    <2> HIDE DEF D
    <2>3. /\ CallOK'
          /\ pc' \in [Calls -> {"idle", "exec", "commit", "drop", "stop"}]
          /\ port' \in [Calls -> Ports \cup {None}]
          /\ fwd' \in [Calls -> Forwards \cup {None}]
          /\ drops' \in [Calls -> SUBSET (Ports \X Forwards)]
      BY <2>1, <2>2, DroppingInv
    <2> QED BY <1>5, <2>3 DEF Stop, outside, Inv, TypeOK
  <1>6. ASSUME NEW c \in Calls, DropDone(c) PROVE Inv'
    BY <1>6, ReturnInv DEF DropDone, outside, Inv, TypeOK
  <1>7. ASSUME NEW c \in Calls, NEW d \in drops[c], Drop(c, d) PROVE Inv'
    <2>1. d \in Ports \X Forwards BY DEF Inv, TypeOK
    <2>2. bound' \in [Ports -> Forwards \cup {None}] /\ lost' \in BOOLEAN
      BY <1>7, <2>1 DEF Drop, Inv, TypeOK
    <2>3. drops' \in [Calls -> SUBSET (Ports \X Forwards)] BY <1>7 DEF Drop, Inv, TypeOK
    <2> QED BY <1>7, <2>2, <2>3 DEF Drop, manager, Inv, TypeOK, CallOK
  <1>8. ASSUME NEW m \in Masters, MasterDies(m) PROVE Inv'
    BY <1>8 DEF MasterDies, manager, call, Inv, TypeOK, CallOK
  <1>9. CASE UNCHANGED vars BY <1>9 DEF vars, Inv, TypeOK, CallOK
  <1> QED BY <1>1, <1>2, <1>3, <1>4, <1>5, <1>6, <1>7, <1>8, <1>9 DEF Next

-----------------------------------------------------------------------------
(* The table.                                                               *)

\* The manager implements the table the daemon relies on: calls that look,
\* run ssh and look again appear to add, remove and stop in one step.
THEOREM ImplementsTable == Spec => TableSpec
  <1>1. Init => Table!Init BY DEF Init, Table!Init
  <1>2. Inv /\ [Next]_vars => [Table!Next]_Table!vars
    <2> SUFFICES ASSUME Inv, [Next]_vars
                 PROVE  Table!Next \/ UNCHANGED <<byRemote, stopped>>
      BY DEF Table!vars
    <2>1. ASSUME NEW c \in Calls, NEW p \in Ports, NEW f \in Forwards, EnsureStart(c, p, f)
          PROVE  UNCHANGED <<byRemote, stopped>>
      BY <2>1 DEF EnsureStart, manager
    <2>2. ASSUME NEW c \in Calls, NEW p \in Ports, Remove(c, p) PROVE Table!Next
      BY <2>2 DEF Remove, Table!Next, Table!Remove
    <2>3. ASSUME NEW c \in Calls, EnsureExec(c) PROVE UNCHANGED <<byRemote, stopped>>
      BY <2>3 DEF EnsureExec, manager
    <2>4. ASSUME NEW c \in Calls, EnsureCommit(c)
          PROVE  Table!Next \/ UNCHANGED <<byRemote, stopped>>
      <3>1. port[c] \in Ports /\ fwd[c] \in Forwards BY <2>4 DEF EnsureCommit, Inv, CallOK
      <3>2. CASE MayCommit(port[c]) /\ byRemote' = [byRemote EXCEPT ![port[c]] = fwd[c]]
        BY <2>4, <3>1, <3>2 DEF EnsureCommit, MayCommit, Table!Next, Table!Add
      <3> QED BY <2>4, <3>2 DEF EnsureCommit
    <2>5. ASSUME NEW c \in Calls, Stop(c) PROVE Table!Next
      BY <2>5 DEF Stop, Table!Next, Table!Stop
    <2>6. ASSUME NEW c \in Calls, DropDone(c) PROVE UNCHANGED <<byRemote, stopped>>
      BY <2>6 DEF DropDone
    <2>7. ASSUME NEW c \in Calls, NEW d \in drops[c], Drop(c, d) PROVE UNCHANGED <<byRemote, stopped>>
      BY <2>7 DEF Drop, manager
    <2>8. ASSUME NEW m \in Masters, MasterDies(m) PROVE UNCHANGED <<byRemote, stopped>>
      BY <2>8 DEF MasterDies, manager
    <2>9. CASE UNCHANGED vars BY <2>9 DEF vars
    <2> QED BY <2>1, <2>2, <2>3, <2>4, <2>5, <2>6, <2>7, <2>8, <2>9 DEF Next
  <1> QED BY <1>1, <1>2, InitInv, NextInv, PTL DEF Spec, Table!Spec, TableSpec

-----------------------------------------------------------------------------
(* Ensure among all other calls.                                            *)

\* Forward f is an in-process listener.
InProcess(f) == f # None /\ f.via = Local

\* An in-process listener has one owner at a time, the table, an Ensure about
\* to register it or a call about to drop it, and its owner has the socket.
LocalOwner ==
  /\ \A p \in Ports : InProcess(byRemote[p]) => bound[p] = byRemote[p]
  /\ \A c \in Calls : pc[c] = "commit" /\ fwd[c].via = Local =>
       /\ bound[port[c]] = fwd[c] /\ ~InProcess(byRemote[port[c]])
       /\ \A d \in Calls \ {c} : pc[d] = "commit" /\ port[d] = port[c] => fwd[d].via # Local
  /\ \A c \in Calls : \A x \in drops[c] : x[2].via = Local =>
       /\ bound[x[1]] = x[2] /\ ~InProcess(byRemote[x[1]])
       /\ \A d \in Calls : pc[d] = "commit" /\ port[d] = x[1] => fwd[d].via # Local
       /\ \A d \in Calls \ {c} : \A y \in drops[d] : y[1] = x[1] => y[2].via # Local
       /\ \A y \in drops[c] : y[1] = x[1] /\ y[2].via = Local => y = x

\* A port that is free, or that a master listens on, has no in-process owner.
LEMMA NoOwner ==
  ASSUME Inv, LocalOwner, NEW p \in Ports, ~InProcess(bound[p])
  PROVE  /\ ~InProcess(byRemote[p])
         /\ \A c \in Calls : pc[c] = "commit" /\ port[c] = p => fwd[c].via # Local
         /\ \A c \in Calls : \A x \in drops[c] : x[1] = p => x[2].via # Local
  <1> USE ForwardAssumption DEF Inv, TypeOK, CallOK, InProcess, Forwards
  <1>1. ~InProcess(byRemote[p])
    BY DEF LocalOwner
  <1>2. ASSUME NEW c \in Calls, pc[c] = "commit", port[c] = p PROVE fwd[c].via # Local
    BY <1>2 DEF LocalOwner
  <1>3. ASSUME NEW c \in Calls, NEW x \in drops[c], x[1] = p PROVE x[2].via # Local
    <2>1. x[2] \in Forwards
      OBVIOUS
    <2> QED BY <1>3, <2>1 DEF LocalOwner
  <1> QED BY <1>1, <1>2, <1>3

\* Every step keeps the ownership of in-process listeners.
LEMMA OwnerStep ==
  ASSUME Inv, LocalOwner, [Next]_vars
  PROVE  LocalOwner'
  <1> USE ForwardAssumption DEF Inv, TypeOK
  <1>0. /\ None \notin Forwards
        /\ \A c \in Calls : \A x \in drops[c] : x[1] \in Ports /\ x[2] \in Forwards /\ x = <<x[1], x[2]>>
        /\ \A c \in Calls : pc[c] = "commit" => port[c] \in Ports /\ fwd[c] \in Forwards
    BY DEF Forwards, CallOK
  <1>1. ASSUME NEW c \in Calls, NEW p \in Ports, NEW f \in Forwards, EnsureStart(c, p, f) PROVE LocalOwner'
    <2>1. /\ UNCHANGED <<byRemote, bound, drops>> /\ pc'[c] = "exec"
          /\ \A d \in Calls \ {c} : pc'[d] = pc[d] /\ port'[d] = port[d] /\ fwd'[d] = fwd[d]
      BY <1>1 DEF EnsureStart, manager, outside
    <2> QED BY <2>1 DEF LocalOwner, InProcess
  <1>2. ASSUME NEW c \in Calls, EnsureExec(c) PROVE LocalOwner'
    <2>1. port[c] \in Ports /\ fwd[c] \in Forwards /\ byRemote' = byRemote
      BY <1>2 DEF EnsureExec, CallOK, manager
    <2>2. CASE Return(c) /\ UNCHANGED bound
      <3>1. /\ pc'[c] = "idle" /\ drops'[c] = {}
            /\ \A d \in Calls \ {c} : pc'[d] = pc[d] /\ port'[d] = port[d] /\ fwd'[d] = fwd[d] /\ drops'[d] = drops[d]
        BY <2>2 DEF Return
      <3> QED BY <2>1, <2>2, <3>1 DEF LocalOwner, InProcess
    <2>3. CASE CanListen(port[c], fwd[c]) /\ bound' = [bound EXCEPT ![port[c]] = fwd[c]]
      <3>1. ~InProcess(bound[port[c]])
        BY <2>3 DEF CanListen, InProcess
      <3>2. /\ ~InProcess(byRemote[port[c]])
            /\ \A d \in Calls : pc[d] = "commit" /\ port[d] = port[c] => fwd[d].via # Local
            /\ \A d \in Calls : \A x \in drops[d] : x[1] = port[c] => x[2].via # Local
        BY <2>1, <3>1, NoOwner
      <3>3. \A d \in Calls : drops'[d] \subseteq drops[d]
        BY <1>2 DEF EnsureExec, Return
      <3>4. /\ \A d \in Calls \ {c} : pc'[d] = pc[d] /\ port'[d] = port[d] /\ fwd'[d] = fwd[d]
            /\ pc'[c] = "commit" => port'[c] = port[c] /\ fwd'[c] = fwd[c]
        BY <1>2 DEF EnsureExec, Return
      <3>5. bound'[port[c]] = fwd[c] /\ \A q \in Ports \ {port[c]} : bound'[q] = bound[q]
        BY <2>1, <2>3
      <3>6. \A p \in Ports : InProcess(byRemote'[p]) => bound'[p] = byRemote'[p]
        BY <2>1, <3>2, <3>5 DEF LocalOwner
      <3>7. \A d \in Calls : pc'[d] = "commit" /\ fwd'[d].via = Local =>
              /\ bound'[port'[d]] = fwd'[d] /\ ~InProcess(byRemote'[port'[d]])
              /\ \A e \in Calls \ {d} : pc'[e] = "commit" /\ port'[e] = port'[d] => fwd'[e].via # Local
        BY <1>0, <2>1, <3>2, <3>4, <3>5 DEF LocalOwner
      <3>8. ASSUME NEW d \in Calls, NEW x \in drops'[d], x[2].via = Local
            PROVE  /\ bound'[x[1]] = x[2] /\ ~InProcess(byRemote'[x[1]])
                   /\ \A e \in Calls : pc'[e] = "commit" /\ port'[e] = x[1] => fwd'[e].via # Local
                   /\ \A e \in Calls \ {d} : \A y \in drops'[e] : y[1] = x[1] => y[2].via # Local
                   /\ \A y \in drops'[d] : y[1] = x[1] /\ y[2].via = Local => y = x
        <4>1. x \in drops[d] /\ x[1] # port[c] /\ x[1] \in Ports
          BY <1>0, <3>2, <3>3, <3>8
        <4> QED BY <2>1, <3>3, <3>4, <3>5, <3>8, <4>1 DEF LocalOwner
      <3> QED BY <3>6, <3>7, <3>8 DEF LocalOwner, InProcess
    <2> QED BY <1>2, <2>2, <2>3, Zenon DEF EnsureExec
  <1>3. ASSUME NEW c \in Calls, EnsureCommit(c) PROVE LocalOwner'
    <2>0. pc[c] = "commit" /\ port[c] \in Ports /\ fwd[c] \in Forwards /\ stopped' = stopped
      BY <1>3 DEF EnsureCommit, CallOK
    <2>1. ASSUME Return(c)
          PROVE  /\ pc'[c] = "idle" /\ drops'[c] = {}
                 /\ \A d \in Calls \ {c} : pc'[d] = pc[d] /\ port'[d] = port[d] /\ fwd'[d] = fwd[d] /\ drops'[d] = drops[d]
      BY <2>1 DEF Return
    <2>2. CASE Return(c) /\ byRemote' = [byRemote EXCEPT ![port[c]] = fwd[c]] /\ bound' = bound
      <3>1. byRemote'[port[c]] = fwd[c] /\ \A q \in Ports \ {port[c]} : byRemote'[q] = byRemote[q]
        BY <2>0, <2>2
      <3>2. \A q \in Ports : InProcess(byRemote'[q]) => bound'[q] = byRemote'[q]
        BY <1>0, <2>0, <2>2, <3>1 DEF LocalOwner, InProcess
      <3>3. fwd[c].via # Local => ~InProcess(byRemote'[port[c]])
        BY <3>1 DEF InProcess
      <3> QED BY <1>0, <2>0, <2>1, <2>2, <3>1, <3>2, <3>3 DEF LocalOwner, InProcess
    <2>3. CASE Dropping(c, "drop", Refused(port[c], fwd[c])) /\ byRemote' = byRemote /\ bound' = bound
      <3>1. /\ pc'[c] = "drop" /\ drops'[c] = {<<port[c], fwd[c]>>} /\ UNCHANGED <<port, fwd>>
            /\ \A d \in Calls \ {c} : pc'[d] = pc[d] /\ drops'[d] = drops[d]
        BY <2>3 DEF Dropping, Refused
      <3> QED BY <1>0, <2>0, <2>3, <3>1 DEF LocalOwner, InProcess
    <2>4. CASE Return(c) /\ byRemote' = byRemote /\ bound' = bound
      BY <2>1, <2>4 DEF LocalOwner, InProcess
    <2>5. CASE Return(c) /\ byRemote' = byRemote /\ fwd[c].via = Local /\ bound' = [bound EXCEPT ![port[c]] = None]
      <3>1. \A q \in Ports \ {port[c]} : bound'[q] = bound[q]
        BY <2>0, <2>5
      <3>2. /\ ~InProcess(byRemote[port[c]])
            /\ \A d \in Calls \ {c} : pc[d] = "commit" /\ port[d] = port[c] => fwd[d].via # Local
            /\ \A d \in Calls : \A x \in drops[d] : x[1] = port[c] => x[2].via # Local
        BY <2>0, <2>5 DEF LocalOwner
      <3> QED BY SMTT(30), <1>0, <2>1, <2>5, <3>1, <3>2 DEF LocalOwner, InProcess
    <2> QED BY <1>3, <2>2, <2>3, <2>4, <2>5 DEF EnsureCommit, Abandon
  <1>4. ASSUME NEW c \in Calls, NEW p \in Ports, Remove(c, p) PROVE LocalOwner'
    <2>1. /\ pc[c] = "idle" /\ pc'[c] = "drop" /\ drops'[c] = {<<p, byRemote[p]>>} /\ UNCHANGED <<port, fwd, bound>>
          /\ \A d \in Calls \ {c} : pc'[d] = pc[d] /\ drops'[d] = drops[d]
          /\ byRemote'[p] = None /\ \A q \in Ports \ {p} : byRemote'[q] = byRemote[q]
          /\ byRemote[p] # None
      BY <1>4 DEF Remove, Dropping, outside
    <2> QED BY <1>0, <2>1 DEF LocalOwner, InProcess
  <1>5. ASSUME NEW c \in Calls, Stop(c) PROVE LocalOwner'
    <2>1. /\ pc[c] = "idle" /\ pc'[c] = "stop" /\ UNCHANGED <<port, fwd, bound>>
          /\ \A d \in Calls \ {c} : pc'[d] = pc[d] /\ drops'[d] = drops[d]
          /\ \A q \in Ports : byRemote'[q] = None
          /\ \A x \in drops'[c] : x[1] \in Ports /\ x[2] = byRemote[x[1]] /\ x = <<x[1], x[2]>> /\ x[2] # None
      BY <1>5 DEF Stop, Dropping, outside
    <2> QED BY <1>0, <2>1 DEF LocalOwner, InProcess
  <1>6. ASSUME NEW c \in Calls, DropDone(c) PROVE LocalOwner'
    <2>1. /\ pc'[c] = "idle" /\ drops'[c] = {} /\ UNCHANGED <<byRemote, bound>>
          /\ \A d \in Calls \ {c} : pc'[d] = pc[d] /\ port'[d] = port[d] /\ fwd'[d] = fwd[d] /\ drops'[d] = drops[d]
      BY <1>6 DEF DropDone, Return, outside
    <2> QED BY <2>1 DEF LocalOwner, InProcess
  <1>7. ASSUME NEW c \in Calls, NEW d \in drops[c], Drop(c, d) PROVE LocalOwner'
    <2>1. /\ UNCHANGED <<byRemote, pc, port, fwd>> /\ d[1] \in Ports
          /\ drops'[c] = drops[c] \ {d} /\ \A e \in Calls \ {c} : drops'[e] = drops[e]
      BY <1>0, <1>7 DEF Drop, manager
    <2>2. CASE bound' = bound
      BY <2>1, <2>2 DEF LocalOwner, InProcess
    <2>3. CASE bound[d[1]] = d[2] /\ bound' = [bound EXCEPT ![d[1]] = None]
      <3>1. \A q \in Ports \ {d[1]} : bound'[q] = bound[q]
        BY <2>1, <2>3
      <3>2. CASE d[2].via = Local
        <4>1. /\ ~InProcess(byRemote[d[1]])
              /\ \A e \in Calls : pc[e] = "commit" /\ port[e] = d[1] => fwd[e].via # Local
              /\ \A e \in Calls : \A x \in drops'[e] : x[1] = d[1] => x[2].via # Local
          BY <1>0, <2>1, <3>2 DEF LocalOwner
        <4> QED BY <1>0, <2>1, <3>1, <4>1 DEF LocalOwner, InProcess
      <3>3. CASE d[2].via # Local
        <4>1. ~InProcess(bound[d[1]])
          BY <2>3, <3>3 DEF InProcess
        <4>2. /\ ~InProcess(byRemote[d[1]])
              /\ \A e \in Calls : pc[e] = "commit" /\ port[e] = d[1] => fwd[e].via # Local
              /\ \A e \in Calls : \A x \in drops[e] : x[1] = d[1] => x[2].via # Local
          BY <2>1, <4>1, NoOwner
        <4> QED BY <1>0, <2>1, <3>1, <4>2 DEF LocalOwner, InProcess
      <3> QED BY <3>2, <3>3
    <2> QED BY <1>7, <2>2, <2>3 DEF Drop
  <1>8. ASSUME NEW m \in Masters, MasterDies(m) PROVE LocalOwner'
    <2>1. UNCHANGED <<byRemote, pc, port, fwd, drops>> /\ m # Local
      BY <1>8 DEF MasterDies, manager, call
    <2>2. \A q \in Ports, f \in Forwards : f.via = Local /\ bound[q] = f => bound'[q] = f
      BY <1>0, <1>8, <2>1 DEF MasterDies
    <2> QED BY <1>0, <2>1, <2>2 DEF LocalOwner, InProcess
  <1>9. CASE UNCHANGED vars
    BY <1>9 DEF vars, LocalOwner, InProcess
  <1> QED BY <1>1, <1>2, <1>3, <1>4, <1>5, <1>6, <1>7, <1>8, <1>9 DEF Next

\* For any calls, ports, hosts and masters, and whatever is removed, stopped
\* or disconnected meanwhile, an Ensure leaves the sockets of listed forwards.
THEOREM EnsureSafe == Spec => EnsureKeepsWinner
  <1> DEFINE I == Inv /\ LocalOwner
             A == \A c \in Calls, p \in Ports :
                    /\ pc[c] \in {"exec", "commit"} /\ pc'[c] # pc[c]
                    /\ byRemote[p] # None /\ bound[p] = byRemote[p]
                    => bound'[p] = bound[p]
  <1>1. Init => I
    BY InitInv DEF Init, LocalOwner, InProcess
  <1>2. I /\ [Next]_vars => I'
    BY NextInv, OwnerStep
  <1>3. I /\ Next => A
    <2> SUFFICES ASSUME I, Next, NEW c \in Calls, NEW p \in Ports,
                        pc[c] \in {"exec", "commit"}, pc'[c] # pc[c],
                        byRemote[p] # None, bound[p] = byRemote[p]
                 PROVE  bound'[p] = bound[p]
      OBVIOUS
    <2> USE ForwardAssumption DEF Inv, TypeOK
    <2>1. EnsureExec(c) \/ EnsureCommit(c)
      <3>1. ASSUME NEW d \in Calls, NEW q \in Ports, NEW f \in Forwards, EnsureStart(d, q, f) PROVE FALSE
        BY <3>1 DEF EnsureStart
      <3>2. ASSUME NEW d \in Calls, NEW q \in Ports, Remove(d, q) PROVE FALSE
        BY <3>2 DEF Remove, Dropping
      <3>3. ASSUME NEW d \in Calls, EnsureExec(d) \/ EnsureCommit(d) PROVE d = c
        BY <3>3 DEF EnsureExec, EnsureCommit, Return, Dropping
      <3>4. ASSUME NEW d \in Calls, Stop(d) \/ DropDone(d) PROVE FALSE
        BY <3>4 DEF Stop, DropDone, Dropping, Return
      <3>5. ASSUME NEW d \in Calls, NEW x \in drops[d], Drop(d, x) PROVE FALSE
        BY <3>5 DEF Drop
      <3>6. ASSUME NEW m \in Masters, MasterDies(m) PROVE FALSE
        BY <3>6 DEF MasterDies, call
      <3> QED BY <3>1, <3>2, <3>3, <3>4, <3>5, <3>6 DEF Next
    <2>2. CASE EnsureExec(c)
      <3>1. port[c] \in Ports /\ fwd[c] \in Forwards
        BY <2>2 DEF EnsureExec, CallOK
      <3>2. bound' = bound \/ (CanListen(port[c], fwd[c]) /\ bound' = [bound EXCEPT ![port[c]] = fwd[c]])
        BY <2>2, Zenon DEF EnsureExec
      <3> QED BY <3>1, <3>2 DEF CanListen
    <2>3. CASE EnsureCommit(c)
      <3>1. port[c] \in Ports /\ fwd[c] \in Forwards /\ pc[c] = "commit" /\ byRemote[p] \in Forwards
        BY <2>3 DEF EnsureCommit, CallOK
      <3>2. bound' = bound \/ (fwd[c].via = Local /\ bound' = [bound EXCEPT ![port[c]] = None])
        BY <2>3 DEF EnsureCommit, Abandon
      <3>3. fwd[c].via = Local => p # port[c]
        BY <3>1 DEF LocalOwner, InProcess
      <3> QED BY <3>1, <3>2, <3>3
    <2> QED BY <2>1, <2>2, <2>3
  <1> HIDE DEF I
  <1>4. I /\ [Next]_vars => [A]_vars
    BY <1>3
  <1> QED BY <1>1, <1>2, <1>4, PTL DEF Spec, EnsureKeepsWinner

-----------------------------------------------------------------------------
(* Sockets that nobody knows of.                                            *)

\* Only a call in its last part has forwards to drop.
DropsLast == \A c \in Calls : drops[c] # {} => pc[c] \in {"drop", "stop"}

\* Whoever knows of the socket of port p.
Known(p) ==
  \/ byRemote[p] = bound[p]
  \/ \E c \in Calls : \/ pc[c] = "commit" /\ port[c] = p /\ fwd[c] = bound[p]
                      \/ <<p, bound[p]>> \in drops[c]

\* A step leaves every socket known, unless ssh was killed or hung, or a
\* forward was abandoned to a winner with another spec.
LEMMA KnownStep ==
  ASSUME Inv, DropsLast, NoOrphanForward, [Next]_vars
  PROVE  DropsLast' /\ NoOrphanForward'
  <1> USE ForwardAssumption DEF Inv, TypeOK
  <1> DEFINE Goal == DropsLast' /\ (~lost' => \A p \in Ports : bound'[p] # None => Known(p)')
  <1>0. lost \/ \A p \in Ports : bound[p] # None => Known(p)
    BY DEF NoOrphanForward, Known
  <1>a. ASSUME Goal PROVE DropsLast' /\ NoOrphanForward'
    BY <1>a DEF NoOrphanForward, Known
  <1>1. ASSUME NEW c \in Calls, NEW p \in Ports, NEW f \in Forwards, EnsureStart(c, p, f) PROVE Goal
    <2>1. /\ UNCHANGED <<byRemote, bound, lost, drops>> /\ pc[c] = "idle" /\ pc'[c] = "exec"
          /\ \A d \in Calls \ {c} : pc'[d] = pc[d] /\ port'[d] = port[d] /\ fwd'[d] = fwd[d]
      BY <1>1 DEF EnsureStart, manager, outside
    <2> QED BY <1>0, <2>1 DEF DropsLast, Known
  <1>2. ASSUME NEW c \in Calls, EnsureExec(c) PROVE Goal
    <2>1. /\ port[c] \in Ports /\ fwd[c] \in Forwards /\ byRemote' = byRemote /\ pc[c] = "exec"
          /\ drops[c] = {}
      BY <1>2 DEF EnsureExec, CallOK, manager, DropsLast
    <2>2. CASE Return(c) /\ UNCHANGED <<bound, lost>>
      <3>1. /\ pc'[c] = "idle" /\ drops'[c] = {}
            /\ \A d \in Calls \ {c} : pc'[d] = pc[d] /\ port'[d] = port[d] /\ fwd'[d] = fwd[d] /\ drops'[d] = drops[d]
        BY <2>2 DEF Return
      <3> QED BY <1>0, <2>1, <2>2, <3>1 DEF DropsLast, Known
    <2>3. CASE /\ pc' = [pc EXCEPT ![c] = "commit"] /\ UNCHANGED <<lost, port, fwd, drops>>
               /\ bound' = [bound EXCEPT ![port[c]] = fwd[c]]
      <3>1. bound'[port[c]] = fwd[c] /\ \A q \in Ports \ {port[c]} : bound'[q] = bound[q]
        BY <2>1, <2>3
      <3>2. pc'[c] = "commit" /\ \A d \in Calls \ {c} : pc'[d] = pc[d]
        BY <2>3
      <3>3. Known(port[c])'
        BY <2>3, <3>1, <3>2 DEF Known
      <3>4. ASSUME NEW q \in Ports, q # port[c], Known(q) PROVE Known(q)'
        BY <2>1, <2>3, <3>1, <3>2, <3>4 DEF Known
      <3>5. DropsLast'
        BY <2>1, <2>3, <3>2 DEF DropsLast
      <3> QED BY <1>0, <2>3, <3>1, <3>3, <3>4, <3>5
    <2>4. CASE Return(c) /\ lost'
      BY <2>4 DEF Return, DropsLast
    <2> QED BY <1>2, <2>2, <2>3, <2>4, Zenon DEF EnsureExec
  <1>3. ASSUME NEW c \in Calls, EnsureCommit(c) PROVE Goal
    <2>1. pc[c] = "commit" /\ port[c] \in Ports /\ fwd[c] \in Forwards /\ drops[c] = {}
      BY <1>3 DEF EnsureCommit, CallOK, DropsLast
    <2>2. ASSUME Return(c)
          PROVE  /\ pc'[c] = "idle" /\ drops'[c] = {}
                 /\ \A d \in Calls \ {c} : pc'[d] = pc[d] /\ port'[d] = port[d] /\ fwd'[d] = fwd[d] /\ drops'[d] = drops[d]
      BY <2>2 DEF Return
    <2>3. CASE /\ MayCommit(port[c]) /\ byRemote' = [byRemote EXCEPT ![port[c]] = fwd[c]]
               /\ Return(c) /\ UNCHANGED <<bound, lost>>
      <3>1. /\ byRemote[port[c]] = None /\ byRemote'[port[c]] = fwd[c]
            /\ \A q \in Ports \ {port[c]} : byRemote'[q] = byRemote[q]
        BY <2>1, <2>3 DEF MayCommit
      <3> QED BY <1>0, <2>1, <2>2, <2>3, <3>1 DEF DropsLast, Known
    <2>4. CASE Dropping(c, "drop", Refused(port[c], fwd[c])) /\ UNCHANGED <<byRemote, bound, lost>>
      <3>1. /\ pc'[c] = "drop" /\ drops'[c] = {<<port[c], fwd[c]>>} /\ UNCHANGED <<port, fwd>>
            /\ \A d \in Calls \ {c} : pc'[d] = pc[d] /\ drops'[d] = drops[d]
        BY <2>4 DEF Dropping, Refused
      <3> QED BY <1>0, <2>1, <2>4, <3>1 DEF DropsLast, Known
    <2>5. CASE /\ bound' = Abandon(port[c], fwd[c])
               /\ lost' = (lost \/ (fwd[c].via # Local /\ byRemote[port[c]] # fwd[c]))
               /\ Return(c) /\ UNCHANGED byRemote
      <3>1. CASE fwd[c].via = Local
        <4>1. bound'[port[c]] = None /\ \A q \in Ports \ {port[c]} : bound'[q] = bound[q]
          BY <2>1, <2>5, <3>1 DEF Abandon
        <4>2. lost' => lost
          BY <2>5, <3>1
        <4>3. lost => lost'
          BY <2>5
        <4> QED BY <1>0, <2>1, <2>2, <2>5, <4>1, <4>2, <4>3 DEF DropsLast, Known
      <3>2. CASE fwd[c].via # Local
        <4>1. bound' = bound /\ (~lost' => ~lost /\ byRemote[port[c]] = fwd[c])
          BY <2>5, <3>2 DEF Abandon
        <4> QED BY <1>0, <2>1, <2>2, <2>5, <4>1 DEF DropsLast, Known
      <3> QED BY <3>1, <3>2
    <2> QED BY <1>3, <2>3, <2>4, <2>5, Zenon DEF EnsureCommit
  <1>4. ASSUME NEW c \in Calls, NEW p \in Ports, Remove(c, p) PROVE Goal
    <2>1. /\ pc[c] = "idle" /\ pc'[c] = "drop" /\ drops'[c] = {<<p, byRemote[p]>>} /\ UNCHANGED <<port, fwd, bound, lost>>
          /\ \A d \in Calls \ {c} : pc'[d] = pc[d] /\ drops'[d] = drops[d]
          /\ byRemote'[p] = None /\ \A q \in Ports \ {p} : byRemote'[q] = byRemote[q]
          /\ drops[c] = {}
      BY <1>4 DEF Remove, Dropping, outside, DropsLast
    <2> QED BY <1>0, <2>1 DEF DropsLast, Known
  <1>5. ASSUME NEW c \in Calls, Stop(c) PROVE Goal
    <2>1. /\ pc[c] = "idle" /\ pc'[c] = "stop" /\ UNCHANGED <<port, fwd, bound, lost>> /\ drops[c] = {}
          /\ \A d \in Calls \ {c} : pc'[d] = pc[d] /\ drops'[d] = drops[d]
          /\ \A q \in Ports : byRemote[q] # None => <<q, byRemote[q]>> \in drops'[c]
      BY <1>5 DEF Stop, Dropping, outside, DropsLast
    <2> QED BY <1>0, <2>1 DEF DropsLast, Known
  <1>6. ASSUME NEW c \in Calls, DropDone(c) PROVE Goal
    <2>1. /\ pc[c] # "commit" /\ pc'[c] = "idle" /\ drops'[c] = {} /\ drops[c] = {} /\ UNCHANGED <<byRemote, bound, lost>>
          /\ \A d \in Calls \ {c} : pc'[d] = pc[d] /\ port'[d] = port[d] /\ fwd'[d] = fwd[d] /\ drops'[d] = drops[d]
      BY <1>6 DEF DropDone, Return, outside
    <2> QED BY <1>0, <2>1 DEF DropsLast, Known
  <1>7. ASSUME NEW c \in Calls, NEW d \in drops[c], Drop(c, d) PROVE Goal
    <2>1. /\ UNCHANGED <<byRemote, pc, port, fwd>> /\ d[1] \in Ports /\ d = <<d[1], d[2]>>
          /\ drops'[c] = drops[c] \ {d} /\ \A e \in Calls \ {c} : drops'[e] = drops[e]
          /\ pc[c] \in {"drop", "stop"}
      BY <1>7 DEF Drop, manager
    <2>2. DropsLast'
      BY <2>1 DEF DropsLast
    <2>3. CASE lost'
      BY <2>2, <2>3
    <2>4. CASE UNCHANGED lost /\ bound[d[1]] = d[2] /\ bound' = [bound EXCEPT ![d[1]] = None]
      <3>1. bound'[d[1]] = None /\ \A q \in Ports \ {d[1]} : bound'[q] = bound[q]
        BY <2>1, <2>4
      <3> QED BY <1>0, <2>1, <2>2, <2>4, <3>1 DEF Known
    <2>5. CASE UNCHANGED lost /\ bound[d[1]] # d[2] /\ bound' = bound
      BY <1>0, <2>1, <2>2, <2>5 DEF Known
    <2> QED BY <1>7, <2>3, <2>4, <2>5 DEF Drop
  <1>8. ASSUME NEW m \in Masters, MasterDies(m) PROVE Goal
    <2>1. UNCHANGED <<byRemote, pc, port, fwd, drops, lost>> /\ \A q \in Ports : bound'[q] \in {None, bound[q]}
      BY <1>8 DEF MasterDies, manager, call
    <2> QED BY <1>0, <2>1 DEF DropsLast, Known
  <1>9. ASSUME UNCHANGED vars PROVE Goal
    <2>1. UNCHANGED <<byRemote, bound, lost, pc, port, fwd, drops>>
      BY <1>9 DEF vars, manager, call
    <2> QED BY <1>0, <2>1 DEF DropsLast, Known
  <1> HIDE DEF Goal
  <1>10. Goal
    BY <1>1, <1>2, <1>3, <1>4, <1>5, <1>6, <1>7, <1>8, <1>9 DEF Next
  <1> QED BY <1>a, <1>10 DEF Goal

\* No socket is forgotten, for any calls, ports, hosts and masters, except
\* through an ssh that was killed or hung or a winner with another spec.
THEOREM NoOrphan == Spec => []NoOrphanForward
  <1>1. Init => Inv /\ DropsLast /\ NoOrphanForward
    BY InitInv DEF Init, DropsLast, NoOrphanForward
  <1>2. Inv /\ DropsLast /\ NoOrphanForward /\ [Next]_vars => (Inv /\ DropsLast /\ NoOrphanForward)'
    BY NextInv, KnownStep
  <1> QED BY <1>1, <1>2, PTL DEF Spec
=============================================================================
