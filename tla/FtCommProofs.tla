---------------------------- MODULE FtCommProofs ----------------------------
(***************************************************************************)
(* The safety properties of FtComm for every number of processes, every    *)
(* set of communicators and any number of crashes.                         *)
(***************************************************************************)
EXTENDS FtComm, TLAPS

(* The legs of a broadcast lead at most once around the communicator.      *)
LEMMA LegRange ==
  ASSUME NEW p \in Procs, NEW c \in Comms
  PROVE  RbcastLegs(c, p) \subseteq (1 - NP)..(NP - 1)
<1>1. Strides(NP) \subseteq 1..(NP - 1)
  <2> SUFFICES ASSUME NEW i \in Strides(NP) PROVE i \in 1..(NP - 1)
    OBVIOUS
  <2>1. i \in 1..(NP \div 2)
    BY DEF Strides
  <2>2. NP \in Nat /\ NP # 0
    BY SizeAssumption
  <2> QED BY <2>1, <2>2
<1>2. Legs(NP) \subseteq (1 - NP)..(NP - 1)
  BY <1>1, SizeAssumption DEF Legs
<1>3. N2Legs(c, p) \subseteq (1 - NP)..(NP - 1)
  BY SizeAssumption DEF N2Legs, LocalGroup, Procs
<1> QED BY <1>2, <1>3 DEF RbcastLegs

(* So do those sent before an allocation fails.                            *)
LEMMA PrefixRange ==
  ASSUME NEW p \in Procs, NEW c \in Comms, NEW legs \in LegPrefixes(c, p)
  PROVE  legs \subseteq (1 - NP)..(NP - 1)
BY LegRange DEF LegPrefixes

(* The two orders that are broadcast, a revoke and the news of a failure.  *)
LEMMA OrderTypes ==
  /\ \A c \in Comms : RevokeOrder(c) \in Orders
  /\ \A q \in Procs : FailureOrder(q) \in Orders
  /\ \A o \in Orders : o.cid \in Comms /\ o.subject \in Procs /\ o.type \in {"revoke", "failure"}
  /\ \A o \in Orders : o.type = "failure" => o = FailureOrder(o.subject)
  /\ \A o \in Orders : o.type = "revoke" => o = RevokeOrder(o.cid)
BY CommAssumption, SizeAssumption DEF Orders, RevokeOrder, FailureOrder, Procs

(* What a broadcast sends are messages.                                    *)
LEMMA RbcastType ==
  ASSUME NEW p \in Procs, NEW c \in Comms, NEW legs \in LegPrefixes(c, p), NEW order \in Orders
  PROVE  Rbcast(p, order, legs) \subseteq Messages
BY PrefixRange DEF Rbcast, Messages

(* Every step keeps the variables in their types.                          *)
LEMMA TypeStep == TypeOK /\ [Next]_vars => TypeOK'
<1> SUFFICES ASSUME TypeOK, [Next]_vars PROVE TypeOK'
  OBVIOUS
<1> USE DEF TypeOK
<1>1. ASSUME NEW p \in Procs \ crashed, Crash(p) PROVE TypeOK'
  BY <1>1 DEF Crash
<1>2. ASSUME NEW p \in Procs \ crashed, NEW q \in Procs, RteCallback(p, q) PROVE TypeOK'
  <2>1. PICK legs \in LegPrefixes(World, p) : net' = net \cup Rbcast(p, FailureOrder(q), legs)
    BY <1>2 DEF RteCallback
  <2>2. net' \subseteq Messages
    BY <2>1, RbcastType, OrderTypes, CommAssumption
  <2> QED BY <1>2, <2>2 DEF RteCallback, MarkFailedPeer, Table
<1>3. ASSUME NEW p \in Procs \ crashed, NEW c \in Comms, CommRevoke(p, c) PROVE TypeOK'
  <2>1. PICK legs \in LegPrefixes(c, p) : net' = net \cup Rbcast(p, RevokeOrder(c), legs)
    BY <1>3 DEF CommRevoke
  <2>2. net' \subseteq Messages
    BY <2>1, RbcastType, OrderTypes
  <2> QED BY <1>3, <2>2 DEF CommRevoke, RevokeLocal
<1>4. ASSUME NEW p \in Procs \ crashed, NEW c \in Comms, FailureAck(p, c) PROVE TypeOK'
  BY <1>4 DEF FailureAck
<1>5. ASSUME NEW p \in Procs \ crashed, NEW c \in Comms, CommFree(p, c) PROVE TypeOK'
  BY <1>5 DEF CommFree
<1>6. ASSUME NEW p \in Procs \ crashed, Receive(p) PROVE TypeOK'
  <2>1. PICK m \in net : DropOrder(p, m) \/ ReceiveRevoke(p, m) \/ ReceiveFailure(p, m)
    BY <1>6 DEF Receive
  <2>2. m.order \in Orders
    BY DEF Messages
  <2>3. CASE DropOrder(p, m)
    BY <2>3 DEF DropOrder
  <2>4. ASSUME Forward(p, m) PROVE net' \subseteq Messages
    <3>1. PICK legs \in LegPrefixes(m.order.cid, p) :
             net' = (net \ {m}) \cup Rbcast(p, m.order, legs)
      BY <2>4 DEF Forward
    <3> QED BY <3>1, <2>2, RbcastType, OrderTypes
  <2>5. CASE ReceiveRevoke(p, m)
    BY <2>2, <2>4, <2>5, OrderTypes DEF ReceiveRevoke, RevokeLocal
  <2>6. CASE ReceiveFailure(p, m)
    BY <2>2, <2>4, <2>6, OrderTypes DEF ReceiveFailure, MarkFailedPeer, Table
  <2> QED BY <2>1, <2>3, <2>5, <2>6
<1>7. CASE UNCHANGED vars
  BY <1>7 DEF vars
<1> QED BY <1>1, <1>2, <1>3, <1>4, <1>5, <1>6, <1>7 DEF Next

(* Every variable keeps its type: in particular acknowledgements never     *)
(* produce a negative offset and every message has a rank as destination.  *)
THEOREM TypeCorrect == Spec => []TypeOK
<1>1. Init => TypeOK
  BY SizeAssumption, CommAssumption, RunAssumption DEF Init, TypeOK
<1> QED BY <1>1, TypeStep, PTL DEF Spec

-----------------------------------------------------------------------------
(* What a receipt does, apart from the messages it forwards.               *)
LEMMA ReceiveCases ==
  ASSUME TypeOK, NEW p \in Procs \ crashed, Receive(p)
  PROVE  \E m \in net :
           /\ m \in Messages
           /\ m.order \in Orders
           /\ Destination(m) = p
           /\ \/ DropOrder(p, m)
              \/ /\ ReceiveRevoke(p, m)
                 /\ \E legs \in LegPrefixes(m.order.cid, p) :
                      net' = (net \ {m}) \cup Rbcast(p, m.order, legs)
              \/ /\ ReceiveFailure(p, m)
                 /\ \E legs \in LegPrefixes(m.order.cid, p) :
                      net' = (net \ {m}) \cup Rbcast(p, m.order, legs)
BY Zenon DEF Receive, TypeOK, Messages, ReceiveRevoke, ReceiveFailure, Forward

(* All messages of a broadcast carry its order.                            *)
LEMMA RbcastOrders ==
  ASSUME NEW p, NEW order, NEW legs, NEW m \in Rbcast(p, order, legs)
  PROVE  m.order = order
BY DEF Rbcast

(* A revocation order in flight stems from a call of MPI_Comm_revoke.      *)
RevokeSound ==
  /\ RevokeIntegrity
  /\ \A m \in net : m.order.type = "revoke" => m.order.cid \in called

(* MPI_Comm_revoke is the only source of revocations: a communicator that  *)
(* nobody revoked is never found revoked, whatever is received or lost.    *)
THEOREM Integrity == Spec => []RevokeIntegrity
<1>1. Init => RevokeSound
  BY DEF Init, RevokeSound, RevokeIntegrity
<1>2. TypeOK /\ RevokeSound /\ [Next]_vars => RevokeSound'
  <2> SUFFICES ASSUME TypeOK, RevokeSound, [Next]_vars PROVE RevokeSound'
    OBVIOUS
  <2> USE DEF RevokeSound, RevokeIntegrity
  <2>1. ASSUME NEW p \in Procs \ crashed, Crash(p) PROVE RevokeSound'
    BY <2>1 DEF Crash
  <2>2. ASSUME NEW p \in Procs \ crashed, NEW q \in Procs, RteCallback(p, q) PROVE RevokeSound'
    <3>1. PICK legs \in LegPrefixes(World, p) : net' = net \cup Rbcast(p, FailureOrder(q), legs)
      BY <2>2 DEF RteCallback
    <3> QED BY <2>2, <3>1, RbcastOrders DEF RteCallback, MarkFailedPeer, FailureOrder
  <2>3. ASSUME NEW p \in Procs \ crashed, NEW c \in Comms, CommRevoke(p, c) PROVE RevokeSound'
    <3>1. PICK legs \in LegPrefixes(c, p) : net' = net \cup Rbcast(p, RevokeOrder(c), legs)
      BY <2>3 DEF CommRevoke
    <3>2. \A m \in net' : m.order.type = "revoke" => m.order.cid \in called'
      BY <2>3, <3>1, RbcastOrders DEF CommRevoke, RevokeOrder
    <3> QED BY <2>3, <3>2 DEF CommRevoke, RevokeLocal, TypeOK
  <2>4. ASSUME NEW p \in Procs \ crashed, NEW c \in Comms, FailureAck(p, c) PROVE RevokeSound'
    BY <2>4 DEF FailureAck
  <2>5. ASSUME NEW p \in Procs \ crashed, NEW c \in Comms, CommFree(p, c) PROVE RevokeSound'
    BY <2>5 DEF CommFree
  <2>6. ASSUME NEW p \in Procs \ crashed, Receive(p) PROVE RevokeSound'
    <3>1. PICK m \in net :
            \/ DropOrder(p, m)
            \/ /\ ReceiveRevoke(p, m)
               /\ \E legs \in LegPrefixes(m.order.cid, p) :
                    net' = (net \ {m}) \cup Rbcast(p, m.order, legs)
            \/ /\ ReceiveFailure(p, m)
               /\ \E legs \in LegPrefixes(m.order.cid, p) :
                    net' = (net \ {m}) \cup Rbcast(p, m.order, legs)
      BY <2>6, ReceiveCases
    <3>2. CASE DropOrder(p, m)
      BY <3>2 DEF DropOrder
    <3>3. ASSUME NEW legs, net' = (net \ {m}) \cup Rbcast(p, m.order, legs), called' = called
          PROVE  \A n \in net' : n.order.type = "revoke" => n.order.cid \in called'
      BY <3>3, RbcastOrders
    <3>4. CASE ReceiveRevoke(p, m) /\ ~DropOrder(p, m)
      <4>1. revoked'[p] \subseteq called /\ \A q \in Procs \ {p} : revoked'[q] = revoked[q]
        BY <3>4 DEF ReceiveRevoke, RevokeLocal, TypeOK
      <4> QED BY <3>1, <3>3, <3>4, <4>1 DEF ReceiveRevoke, ReceiveFailure
    <3>5. CASE ReceiveFailure(p, m) /\ ~DropOrder(p, m)
      BY <3>1, <3>3, <3>5 DEF ReceiveFailure, MarkFailedPeer, ReceiveRevoke
    <3> QED BY <3>1, <3>2, <3>4, <3>5
  <2>7. CASE UNCHANGED vars
    BY <2>7 DEF vars
  <2> QED BY <2>1, <2>2, <2>3, <2>4, <2>5, <2>6, <2>7 DEF Next
<1>3. RevokeSound => RevokeIntegrity
  BY DEF RevokeSound
<1> QED BY <1>1, <1>2, <1>3, TypeCorrect, PTL DEF Spec

-----------------------------------------------------------------------------
(* An announcement in flight names a process that has crashed.             *)
FailureSound ==
  /\ FailureAccuracy
  /\ \A m \in net : m.order.type = "failure" => m.order.subject \in crashed

(* Marking a peer as failed (ompi_errmgr_mark_failed_peer) makes nobody    *)
(* known as failed but that peer.                                          *)
LEMMA MarkFailedKnown ==
  ASSUME TypeOK, FailureAccuracy, NEW p \in Procs, NEW q \in crashed \ Known(p), MarkFailedPeer(p, q)
  PROVE  FailureAccuracy'
<1>1. failed'[p] = Append(failed[p], q) /\ \A r \in Procs \ {p} : failed'[r] = failed[r]
  BY DEF MarkFailedPeer, TypeOK
<1>2. crashed' = crashed /\ failed[p] \in Seq(Procs) /\ q \in Procs
  BY DEF MarkFailedPeer, TypeOK
<1>3. \A i \in 1..Len(failed[p]) : failed[p][i] # q
  BY DEF Known
<1>4. /\ Len(failed'[p]) = Len(failed[p]) + 1
      /\ \A i \in 1..Len(failed[p]) : failed'[p][i] = failed[p][i]
      /\ failed'[p][Len(failed[p]) + 1] = q
      /\ Len(failed[p]) \in Nat
  BY <1>1, <1>2
<1>5. \A i \in 1..Len(failed[p]) : failed[p][i] \in crashed
  BY DEF FailureAccuracy, Known
<1>6. \A i \in 1..Len(failed'[p]) : failed'[p][i] \in crashed
  BY <1>4, <1>5
<1>7. \A i, j \in 1..Len(failed'[p]) : failed'[p][i] = failed'[p][j] => i = j
  <2>1. \A i, j \in 1..Len(failed[p]) : failed[p][i] = failed[p][j] => i = j
    BY DEF FailureAccuracy
  <2> QED BY <1>3, <1>4, <2>1
<1>8. \A r \in Procs \ {p} : /\ \A i \in 1..Len(failed'[r]) : failed'[r][i] \in crashed
                             /\ \A i, j \in 1..Len(failed'[r]) : failed'[r][i] = failed'[r][j] => i = j
  BY <1>1 DEF FailureAccuracy, Known
<1> QED BY <1>2, <1>6, <1>7, <1>8 DEF FailureAccuracy, Known

(* Failure notification is accurate and happens once per failure, for any  *)
(* interleaving of the runtime's reports with the announcements of peers.  *)
THEOREM Accuracy == Spec => []FailureAccuracy
<1>1. Init => FailureSound
  BY RunAssumption DEF Init, FailureSound, FailureAccuracy, Known
<1>2. TypeOK /\ FailureSound /\ [Next]_vars => FailureSound'
  <2> SUFFICES ASSUME TypeOK, FailureSound, [Next]_vars PROVE FailureSound'
    OBVIOUS
  <2> USE DEF FailureSound
  <2>1. ASSUME NEW p \in Procs \ crashed, Crash(p) PROVE FailureSound'
    BY <2>1 DEF Crash, FailureAccuracy, Known
  <2>2. ASSUME NEW p \in Procs \ crashed, NEW q \in Procs, RteCallback(p, q) PROVE FailureSound'
    <3>1. PICK legs \in LegPrefixes(World, p) : net' = net \cup Rbcast(p, FailureOrder(q), legs)
      BY <2>2 DEF RteCallback
    <3>2. q \in crashed \ Known(p) /\ MarkFailedPeer(p, q) /\ crashed' = crashed
      BY <2>2 DEF RteCallback, MarkFailedPeer
    <3>3. \A m \in net' : m.order.type = "failure" => m.order.subject \in crashed'
      BY <3>1, <3>2, RbcastOrders DEF FailureOrder
    <3> QED BY <3>2, <3>3, MarkFailedKnown
  <2>3. ASSUME NEW p \in Procs \ crashed, NEW c \in Comms, CommRevoke(p, c) PROVE FailureSound'
    <3>1. PICK legs \in LegPrefixes(c, p) : net' = net \cup Rbcast(p, RevokeOrder(c), legs)
      BY <2>3 DEF CommRevoke
    <3> QED BY <2>3, <3>1, RbcastOrders
            DEF CommRevoke, RevokeLocal, RevokeOrder, FailureAccuracy, Known
  <2>4. ASSUME NEW p \in Procs \ crashed, NEW c \in Comms, FailureAck(p, c) PROVE FailureSound'
    BY <2>4 DEF FailureAck, FailureAccuracy, Known
  <2>5. ASSUME NEW p \in Procs \ crashed, NEW c \in Comms, CommFree(p, c) PROVE FailureSound'
    BY <2>5 DEF CommFree, FailureAccuracy, Known
  <2>6. ASSUME NEW p \in Procs \ crashed, Receive(p) PROVE FailureSound'
    <3>1. PICK m \in net :
            \/ DropOrder(p, m)
            \/ /\ ReceiveRevoke(p, m)
               /\ \E legs \in LegPrefixes(m.order.cid, p) :
                    net' = (net \ {m}) \cup Rbcast(p, m.order, legs)
            \/ /\ ReceiveFailure(p, m)
               /\ \E legs \in LegPrefixes(m.order.cid, p) :
                    net' = (net \ {m}) \cup Rbcast(p, m.order, legs)
      BY <2>6, ReceiveCases
    <3>2. CASE DropOrder(p, m)
      BY <3>2 DEF DropOrder, FailureAccuracy, Known
    <3>3. ASSUME NEW legs, net' = (net \ {m}) \cup Rbcast(p, m.order, legs), crashed' = crashed
          PROVE  \A n \in net' : n.order.type = "failure" => n.order.subject \in crashed'
      BY <3>3, RbcastOrders
    <3>4. CASE ReceiveRevoke(p, m) /\ ~DropOrder(p, m)
      <4>1. UNCHANGED <<crashed, failed>> /\ m.order.type # "failure"
        BY <3>4 DEF ReceiveRevoke, RevokeLocal
      <4>2. FailureAccuracy'
        BY <4>1 DEF FailureAccuracy, Known
      <4> QED BY <3>1, <3>3, <3>4, <4>1, <4>2 DEF ReceiveFailure
    <3>5. CASE ReceiveFailure(p, m) /\ ~DropOrder(p, m)
      <4>1. /\ m.order.subject \in crashed \ Known(p)
            /\ MarkFailedPeer(p, m.order.subject)
            /\ crashed' = crashed
            /\ m.order.type # "revoke"
        BY <3>5 DEF ReceiveFailure, MarkFailedPeer, Stale
      <4>2. FailureAccuracy'
        BY <4>1, MarkFailedKnown
      <4> QED BY <3>1, <3>3, <3>5, <4>1, <4>2 DEF ReceiveRevoke
    <3> QED BY <3>1, <3>2, <3>4, <3>5
  <2>7. CASE UNCHANGED vars
    BY <2>7 DEF vars, FailureAccuracy, Known
  <2> QED BY <2>1, <2>2, <2>3, <2>4, <2>5, <2>6, <2>7 DEF Next
<1>3. FailureSound => FailureAccuracy
  BY DEF FailureSound
<1> QED BY <1>1, <1>2, <1>3, TypeCorrect, PTL DEF Spec

-----------------------------------------------------------------------------
(* The effect of one step on what the acknowledgements of a process see.   *)
LEMMA FailedGrows ==
  ASSUME TypeOK, [Next]_vars, NEW r \in Procs
  PROVE  \/ failed'[r] = failed[r]
         \/ /\ \E q \in Procs : failed'[r] = Append(failed[r], q)
            /\ anySource'[r] = anySource[r] \ Table(r)
            /\ collRevoked'[r] = collRevoked[r] \cup Table(r)
            /\ UNCHANGED <<offset, freed>>
<1> USE DEF TypeOK
<1>1. ASSUME NEW p \in Procs, NEW q \in Procs, MarkFailedPeer(p, q)
      PROVE  \/ failed'[r] = failed[r]
             \/ /\ failed'[r] = Append(failed[r], q)
                /\ anySource'[r] = anySource[r] \ Table(r)
                /\ collRevoked'[r] = collRevoked[r] \cup Table(r)
                /\ UNCHANGED <<offset, freed>>
  BY <1>1 DEF MarkFailedPeer
<1>2. ASSUME NEW p \in Procs \ crashed, Receive(p)
      PROVE  failed' = failed \/ \E q \in Procs : MarkFailedPeer(p, q)
  <2>1. PICK m \in net : DropOrder(p, m) \/ ReceiveRevoke(p, m) \/ ReceiveFailure(p, m)
    BY <1>2 DEF Receive
  <2>2. m.order \in Orders
    BY DEF Messages
  <2>3. m.order.subject \in Procs
    BY <2>2, OrderTypes
  <2> QED BY <2>1, <2>3 DEF DropOrder, ReceiveRevoke, ReceiveFailure, RevokeLocal
<1>3. ASSUME NEW p \in Procs \ crashed, Next, ~Receive(p),
             \/ Crash(p)
             \/ \E c \in Comms : CommRevoke(p, c) \/ FailureAck(p, c) \/ CommFree(p, c)
      PROVE  failed' = failed
  BY <1>3 DEF Crash, CommRevoke, RevokeLocal, FailureAck, CommFree
<1>4. ASSUME NEW p \in Procs \ crashed, NEW q \in Procs, RteCallback(p, q) PROVE MarkFailedPeer(p, q)
  BY <1>4 DEF RteCallback
<1>5. CASE UNCHANGED vars
  BY <1>5 DEF vars
<1>6. CASE Next
  <2>1. PICK p \in Procs \ crashed :
          \/ Crash(p)
          \/ Receive(p)
          \/ \E q \in Procs : RteCallback(p, q)
          \/ \E c \in Comms : CommRevoke(p, c) \/ FailureAck(p, c) \/ CommFree(p, c)
    BY <1>6 DEF Next
  <2>2. failed' = failed \/ \E q \in Procs : MarkFailedPeer(p, q)
    BY <1>2, <1>3, <1>4, <1>6, <2>1
  <2> QED BY <1>1, <2>2
<1> QED BY <1>5, <1>6

(* The offset lies within the list, and reaches its end where wildcard     *)
(* receives are enabled.                                                   *)
AckInv ==
  \A p \in Procs, c \in Comms :
    /\ offset[p][c] <= Len(failed[p])
    /\ c \in Table(p) \cap anySource[p] => offset[p][c] = Len(failed[p])

(* The invariant implies that wildcard receives are safe.                  *)
LEMMA AckInvImplies == AckInv => WildcardSafe
BY DEF AckInv, WildcardSafe, GetAcked, Known, Table

(* Every step preserves it.                                                *)
LEMMA AckStep == TypeOK /\ AckInv /\ [Next]_vars => AckInv'
<1> SUFFICES ASSUME TypeOK, AckInv, [Next]_vars, NEW r \in Procs, NEW d \in Comms
             PROVE  /\ offset'[r][d] <= Len(failed'[r])
                    /\ d \in (Comms \ freed'[r]) \cap anySource'[r] => offset'[r][d] = Len(failed'[r])
  BY DEF AckInv, Table
<1>1. /\ failed[r] \in Seq(Procs) /\ offset[r][d] \in Nat
      /\ offset[r][d] <= Len(failed[r])
      /\ d \in (Comms \ freed[r]) \cap anySource[r] => offset[r][d] = Len(failed[r])
  BY DEF TypeOK, AckInv, Table
<1>2. CASE failed'[r] # failed[r]
  <2>1. PICK q \in Procs : failed'[r] = Append(failed[r], q)
    BY <1>2, FailedGrows
  <2>2. /\ anySource'[r] = anySource[r] \ (Comms \ freed[r])
        /\ UNCHANGED <<offset, freed>>
    BY <1>2, FailedGrows DEF Table
  <2> QED BY <1>1, <2>1, <2>2
<1>3. CASE failed'[r] = failed[r]
  <2>1. ASSUME NEW p \in Procs \ crashed, NEW c \in Comms, FailureAck(p, c)
        PROVE  \/ offset'[r][d] = Len(failed[r])
               \/ offset'[r][d] = offset[r][d] /\ (d \in anySource'[r] => d \in anySource[r]) /\ freed' = freed
    BY <2>1 DEF FailureAck, TypeOK
  <2>2. ASSUME \A p \in Procs \ crashed, c \in Comms : ~FailureAck(p, c)
        PROVE  /\ offset' = offset
               /\ d \in anySource'[r] => d \in anySource[r]
               /\ freed[r] \subseteq freed'[r]
    <3> USE DEF TypeOK
    <3>1. ASSUME NEW p \in Procs \ crashed, Crash(p) PROVE UNCHANGED <<offset, anySource, freed>>
      BY <3>1 DEF Crash
    <3>2. ASSUME NEW p \in Procs \ crashed, NEW q \in Procs, RteCallback(p, q)
          PROVE  UNCHANGED <<offset, freed>> /\ anySource'[r] \subseteq anySource[r]
      BY <3>2 DEF RteCallback, MarkFailedPeer
    <3>3. ASSUME NEW p \in Procs \ crashed, NEW c \in Comms, CommRevoke(p, c)
          PROVE  UNCHANGED <<offset, freed>> /\ anySource'[r] \subseteq anySource[r]
      BY <3>3 DEF CommRevoke, RevokeLocal
    <3>4. ASSUME NEW p \in Procs \ crashed, NEW c \in Comms, CommFree(p, c)
          PROVE  UNCHANGED <<offset, anySource>> /\ freed[r] \subseteq freed'[r]
      BY <3>4 DEF CommFree
    <3>5. ASSUME NEW p \in Procs \ crashed, Receive(p)
          PROVE  UNCHANGED <<offset, freed>> /\ anySource'[r] \subseteq anySource[r]
      <4>1. PICK m \in net : DropOrder(p, m) \/ ReceiveRevoke(p, m) \/ ReceiveFailure(p, m)
        BY <3>5 DEF Receive
      <4>2. CASE DropOrder(p, m)
        BY <4>2 DEF DropOrder
      <4>3. CASE ReceiveRevoke(p, m)
        BY <4>3 DEF ReceiveRevoke, RevokeLocal
      <4>4. CASE ReceiveFailure(p, m)
        BY <4>4 DEF ReceiveFailure, MarkFailedPeer
      <4> QED BY <4>1, <4>2, <4>3, <4>4
    <3>6. CASE UNCHANGED vars
      BY <3>6 DEF vars
    <3> QED BY <2>2, <3>1, <3>2, <3>3, <3>4, <3>5, <3>6 DEF Next
  <2> QED BY <1>1, <1>3, <2>1, <2>2
<1> QED BY <1>2, <1>3

(* Wildcard receives are never enabled over an unacknowledged failure: the *)
(* reset of any_source_enabled and the growth of the list are one step.    *)
THEOREM Wildcards == Spec => []WildcardSafe
<1>1. Init => AckInv
  BY RunAssumption DEF Init, AckInv, Table
<1> QED BY <1>1, AckStep, AckInvImplies, TypeCorrect, PTL DEF Spec

(* The acknowledged group grows with acknowledgements only: a failure      *)
(* discovered later never slips into it.                                   *)
THEOREM AcknowledgedGroup == Spec => AckedStable
<1> DEFINE Stable == \A p \in Procs, c \in Comms :
                       /\ GetAcked(p, c) \subseteq GetAcked(p, c)'
                       /\ failed'[p] # failed[p] => GetAcked(p, c)' = GetAcked(p, c)
<1>1. Init => AckInv
  BY RunAssumption DEF Init, AckInv, Table
<1>2. TypeOK /\ AckInv /\ [Next]_vars => [Stable]_vars
  <2> SUFFICES ASSUME TypeOK, AckInv, [Next]_vars, NEW p \in Procs, NEW c \in Comms
               PROVE  /\ GetAcked(p, c) \subseteq GetAcked(p, c)'
                      /\ failed'[p] # failed[p] => GetAcked(p, c)' = GetAcked(p, c)
    OBVIOUS
  <2>1. failed[p] \in Seq(Procs) /\ offset[p][c] \in Nat /\ offset[p][c] <= Len(failed[p])
    BY DEF TypeOK, AckInv
  <2>2. CASE failed'[p] # failed[p]
    <3>1. PICK q \in Procs : failed'[p] = Append(failed[p], q)
      BY <2>2, FailedGrows
    <3>2. offset' = offset
      BY <2>2, FailedGrows
    <3>3. \A i \in 1..offset[p][c] : failed'[p][i] = failed[p][i]
      BY <2>1, <3>1
    <3> QED BY <3>2, <3>3 DEF GetAcked
  <2>3. CASE failed'[p] = failed[p]
    <3>1. offset'[p][c] = offset[p][c] \/ offset'[p][c] = Len(failed[p])
      <4>1. ASSUME NEW r \in Procs \ crashed, NEW d \in Comms, FailureAck(r, d)
            PROVE  offset'[p][c] = offset[p][c] \/ offset'[p][c] = Len(failed[p])
        BY <4>1 DEF FailureAck, TypeOK
      <4>2. CASE UNCHANGED vars
        BY <4>2 DEF vars
      <4>3. ASSUME NEW r \in Procs \ crashed, Receive(r) PROVE offset' = offset
        BY <4>3 DEF Receive, DropOrder, ReceiveRevoke, ReceiveFailure, RevokeLocal, MarkFailedPeer
      <4>4. ASSUME NEW r \in Procs \ crashed,
                   \/ Crash(r)
                   \/ \E q \in Procs : RteCallback(r, q)
                   \/ \E d \in Comms : CommRevoke(r, d) \/ CommFree(r, d)
            PROVE  offset' = offset
        BY <4>4 DEF Crash, RteCallback, MarkFailedPeer, CommRevoke, RevokeLocal, CommFree
      <4> QED BY <4>1, <4>2, <4>3, <4>4 DEF Next
    <3>2. offset[p][c] <= offset'[p][c] /\ offset'[p][c] \in Nat
      BY <2>1, <3>1
    <3> QED BY <2>1, <2>3, <3>2 DEF GetAcked
  <2> QED BY <2>2, <2>3
<1>3. Spec => [][Stable]_vars
  BY <1>1, <1>2, AckStep, TypeCorrect, PTL DEF Spec
<1> QED BY <1>3 DEF AckedStable

(* Collectives stay disabled once a failure is known: nothing resets       *)
(* coll_revoked, and every discovery sets it throughout the table.         *)
THEOREM Collectives == Spec => []CollectivesSafe
<1>1. Init => CollectivesSafe
  BY RunAssumption DEF Init, CollectivesSafe, Known, Table
<1>2. TypeOK /\ CollectivesSafe /\ [Next]_vars => CollectivesSafe'
  <2> SUFFICES ASSUME TypeOK, CollectivesSafe, [Next]_vars, NEW r \in Procs, Known(r)' # {}
               PROVE  Table(r)' \subseteq collRevoked'[r]
    BY DEF CollectivesSafe
  <2>1. freed[r] \subseteq freed'[r] /\ collRevoked[r] \subseteq collRevoked'[r]
    <3> USE DEF TypeOK
    <3>1. ASSUME NEW p \in Procs \ crashed, Receive(p)
          PROVE  freed' = freed /\ collRevoked[r] \subseteq collRevoked'[r]
      <4>1. PICK m \in net : DropOrder(p, m) \/ ReceiveRevoke(p, m) \/ ReceiveFailure(p, m)
        BY <3>1 DEF Receive
      <4>2. CASE DropOrder(p, m)
        BY <4>2 DEF DropOrder
      <4>3. CASE ReceiveRevoke(p, m)
        BY <4>3 DEF ReceiveRevoke, RevokeLocal
      <4>4. CASE ReceiveFailure(p, m)
        BY <4>4 DEF ReceiveFailure, MarkFailedPeer
      <4> QED BY <4>1, <4>2, <4>3, <4>4
    <3>2. ASSUME NEW p \in Procs \ crashed, NEW q \in Procs, RteCallback(p, q)
          PROVE  freed' = freed /\ collRevoked[r] \subseteq collRevoked'[r]
      BY <3>2 DEF RteCallback, MarkFailedPeer
    <3>3. ASSUME NEW p \in Procs \ crashed, NEW c \in Comms, CommRevoke(p, c)
          PROVE  freed' = freed /\ collRevoked[r] \subseteq collRevoked'[r]
      BY <3>3 DEF CommRevoke, RevokeLocal
    <3>4. ASSUME NEW p \in Procs \ crashed,
                 Crash(p) \/ \E c \in Comms : FailureAck(p, c) \/ CommFree(p, c)
          PROVE  freed[r] \subseteq freed'[r] /\ collRevoked' = collRevoked
      BY <3>4, ZenonT(40) DEF Crash, FailureAck, CommFree
    <3>5. CASE UNCHANGED vars
      BY <3>5 DEF vars
    <3> QED BY <3>1, <3>2, <3>3, <3>4, <3>5 DEF Next
  <2>2. CASE failed'[r] = failed[r]
    BY <2>1, <2>2, Zenon DEF CollectivesSafe, Known, Table
  <2>3. CASE failed'[r] # failed[r]
    BY <2>1, <2>3, FailedGrows DEF Table
  <2> QED BY <2>2, <2>3
<1> QED BY <1>1, <1>2, TypeCorrect, PTL DEF Spec

-----------------------------------------------------------------------------
(* Nothing that a process has learnt stays with it: the forwarding of the  *)
(* reliable broadcasts.                                                    *)

(* The reliable broadcast proper, for the binomial graph and sends that    *)
(* find a descriptor.                                                      *)
Reliable == Algorithm = "bmg" /\ AllocMayFail = FALSE

(* Without failing allocations a broadcast is sent on every leg.           *)
LEMMA AllLegs ==
  ASSUME Reliable, NEW p \in Procs, NEW c \in Comms
  PROVE  LegPrefixes(c, p) = {Legs(NP)}
BY DEF Reliable, LegPrefixes, RbcastLegs

(* A leg leads to a process of the communicator.                           *)
LEMMA TargetRange ==
  ASSUME NEW p \in Procs, NEW l \in Legs(NP)
  PROVE  Target(NP, p, l) \in Procs
<1>1. NP \in Nat /\ NP > 0 /\ p \in Int
  BY SizeAssumption DEF Procs
<1>2. l \in Int
  BY <1>1 DEF Legs, Strides
<1>3. NP + p + l \in Int
  BY <1>1, <1>2
<1>4. (NP + p + l) % NP \in 0..(NP - 1)
  BY <1>1, <1>3
<1> QED BY <1>4 DEF Target, Procs

(* Whoever learns something has it on the wire along every leg at the end  *)
(* of the same step.                                                       *)
LEMMA LearnSends ==
  ASSUME Reliable, TypeOK, [Next]_vars, NEW r \in Procs
  PROVE  /\ \A c \in Comms : c \in revoked'[r] \ revoked[r] =>
              Rbcast(r, RevokeOrder(c), Legs(NP)) \subseteq net' /\ crashed' = crashed
         /\ \A d \in Procs : d \in Known(r)' \ Known(r) =>
              Rbcast(r, FailureOrder(d), Legs(NP)) \subseteq net' /\ crashed' = crashed
<1> USE DEF TypeOK
<1>1. ASSUME NEW p \in Procs, NEW q \in Procs, MarkFailedPeer(p, q)
      PROVE  /\ revoked' = revoked /\ crashed' = crashed
             /\ Known(r)' \subseteq Known(r) \cup (IF r = p THEN {q} ELSE {})
  <2>1. revoked' = revoked /\ crashed' = crashed
    BY <1>1 DEF MarkFailedPeer
  <2>2. failed'[r] = IF r = p THEN Append(failed[r], q) ELSE failed[r]
    BY <1>1 DEF MarkFailedPeer
  <2>3. CASE r = p
    <3>1. failed'[r] = Append(failed[r], q) /\ failed[r] \in Seq(Procs)
      BY <2>2, <2>3
    <3>2. \A i \in 1..Len(failed'[r]) : failed'[r][i] = q \/ (i \in 1..Len(failed[r]) /\ failed'[r][i] = failed[r][i])
      BY <3>1
    <3> QED BY <2>1, <2>3, <3>2, Zenon DEF Known
  <2>4. CASE r # p
    BY <2>1, <2>2, <2>4 DEF Known
  <2> QED BY <2>3, <2>4
<1>2. ASSUME NEW p \in Procs, NEW c \in Comms, RevokeLocal(p, c)
      PROVE  /\ failed' = failed /\ crashed' = crashed
             /\ revoked'[r] = revoked[r] \cup (IF r = p THEN {c} ELSE {})
  BY <1>2 DEF RevokeLocal
<1>3. ASSUME NEW p \in Procs \ crashed, NEW q \in Procs, RteCallback(p, q)
      PROVE  MarkFailedPeer(p, q) /\ Rbcast(p, FailureOrder(q), Legs(NP)) \subseteq net'
  BY <1>3, AllLegs, CommAssumption DEF RteCallback
<1>4. ASSUME NEW p \in Procs \ crashed, NEW c \in Comms, CommRevoke(p, c)
      PROVE  RevokeLocal(p, c) /\ Rbcast(p, RevokeOrder(c), Legs(NP)) \subseteq net'
  BY <1>4, AllLegs DEF CommRevoke
<1>5. ASSUME NEW p \in Procs \ crashed, Receive(p)
      PROVE  \/ UNCHANGED <<failed, revoked>>
             \/ \E q \in Procs : MarkFailedPeer(p, q) /\ Rbcast(p, FailureOrder(q), Legs(NP)) \subseteq net'
             \/ \E c \in Comms : RevokeLocal(p, c) /\ Rbcast(p, RevokeOrder(c), Legs(NP)) \subseteq net'
  <2>1. PICK m \in net : DropOrder(p, m) \/ ReceiveRevoke(p, m) \/ ReceiveFailure(p, m)
    BY <1>5 DEF Receive
  <2>2. m.order \in Orders
    BY DEF Messages
  <2>3. m.order.cid \in Comms /\ m.order.subject \in Procs
    BY <2>2, OrderTypes
  <2>4. CASE DropOrder(p, m)
    BY <2>4 DEF DropOrder
  <2>5. CASE ReceiveRevoke(p, m)
    <3>1. m.order = RevokeOrder(m.order.cid)
      BY <2>2, <2>5, OrderTypes DEF ReceiveRevoke
    <3>2. Rbcast(p, m.order, Legs(NP)) \subseteq net'
      BY <2>3, <2>5, AllLegs DEF ReceiveRevoke, Forward
    <3> QED BY <2>3, <2>5, <3>1, <3>2 DEF ReceiveRevoke
  <2>6. CASE ReceiveFailure(p, m)
    <3>1. m.order = FailureOrder(m.order.subject)
      BY <2>2, <2>6, OrderTypes DEF ReceiveFailure
    <3>2. Rbcast(p, m.order, Legs(NP)) \subseteq net'
      BY <2>3, <2>6, AllLegs DEF ReceiveFailure, Forward
    <3> QED BY <2>3, <2>6, <3>1, <3>2 DEF ReceiveFailure
  <2> QED BY <2>1, <2>4, <2>5, <2>6
<1>6. ASSUME NEW p \in Procs \ crashed, Crash(p) \/ \E c \in Comms : FailureAck(p, c) \/ CommFree(p, c)
      PROVE  UNCHANGED <<failed, revoked>>
  BY <1>6 DEF Crash, FailureAck, CommFree
<1>7. \/ UNCHANGED <<failed, revoked>>
      \/ \E p, q \in Procs : MarkFailedPeer(p, q) /\ Rbcast(p, FailureOrder(q), Legs(NP)) \subseteq net'
      \/ \E p \in Procs, c \in Comms : RevokeLocal(p, c) /\ Rbcast(p, RevokeOrder(c), Legs(NP)) \subseteq net'
  <2>1. CASE UNCHANGED vars
    BY <2>1 DEF vars
  <2> QED BY <1>3, <1>4, <1>5, <1>6, <2>1, Zenon DEF Next
<1>8. CASE UNCHANGED <<failed, revoked>>
  BY <1>8, Zenon DEF Known
<1>9. CASE \E p, q \in Procs : MarkFailedPeer(p, q) /\ Rbcast(p, FailureOrder(q), Legs(NP)) \subseteq net'
  BY <1>1, <1>9
<1>10. CASE \E p \in Procs, c \in Comms : RevokeLocal(p, c) /\ Rbcast(p, RevokeOrder(c), Legs(NP)) \subseteq net'
  BY <1>2, <1>10 DEF Known
<1> QED BY <1>7, <1>8, <1>9, <1>10

(* A message leaves the network between two living processes only by being *)
(* handled.                                                                *)
LEMMA LeavesHandled ==
  ASSUME TypeOK, [Next]_vars, NEW m \in net, m \notin net', m.src \notin crashed',
         Destination(m) \notin crashed'
  PROVE  LET q == Destination(m) IN
           DropOrder(q, m) \/ ReceiveRevoke(q, m) \/ ReceiveFailure(q, m)
<1> USE DEF TypeOK
<1>1. ASSUME NEW p \in Procs \ crashed, Crash(p) PROVE FALSE
  BY <1>1 DEF Crash
<1>2. ASSUME NEW p \in Procs \ crashed, NEW q \in Procs, RteCallback(p, q) PROVE FALSE
  BY <1>2 DEF RteCallback
<1>3. ASSUME NEW p \in Procs \ crashed, NEW c \in Comms,
             CommRevoke(p, c) \/ FailureAck(p, c) \/ CommFree(p, c)
      PROVE  FALSE
  BY <1>3 DEF CommRevoke, FailureAck, CommFree
<1>4. CASE UNCHANGED vars
  BY <1>4 DEF vars
<1>5. ASSUME NEW p \in Procs \ crashed, Receive(p)
      PROVE  LET q == Destination(m) IN
               DropOrder(q, m) \/ ReceiveRevoke(q, m) \/ ReceiveFailure(q, m)
  <2>1. PICK n \in net : /\ Destination(n) = p
                         /\ DropOrder(p, n) \/ ReceiveRevoke(p, n) \/ ReceiveFailure(p, n)
    BY <1>5 DEF Receive
  <2>2. net \ {n} \subseteq net'
    BY <2>1 DEF DropOrder, ReceiveRevoke, ReceiveFailure, Forward
  <2> QED BY <2>1, <2>2
<1> QED BY <1>1, <1>2, <1>3, <1>4, <1>5 DEF Next

(* What is known is never forgotten.                                       *)
LEMMA NeverForgets ==
  ASSUME TypeOK, [Next]_vars, NEW r \in Procs
  PROVE  /\ revoked[r] \subseteq revoked'[r] /\ Known(r) \subseteq Known(r)'
         /\ freed[r] \subseteq freed'[r] /\ crashed \subseteq crashed'
<1>1. Known(r) \subseteq Known(r)'
  <2>1. CASE failed'[r] = failed[r]
    BY <2>1 DEF Known
  <2>2. CASE failed'[r] # failed[r]
    <3>1. PICK q \in Procs : failed'[r] = Append(failed[r], q)
      BY <2>2, FailedGrows
    <3>2. failed[r] \in Seq(Procs)
      BY DEF TypeOK
    <3>3. \A i \in 1..Len(failed[r]) : i \in 1..Len(failed'[r]) /\ failed'[r][i] = failed[r][i]
      BY <3>1, <3>2
    <3> QED BY <3>3 DEF Known
  <2> QED BY <2>1, <2>2
<1>2. /\ revoked[r] \subseteq revoked'[r]
      /\ freed[r] \subseteq freed'[r] /\ crashed \subseteq crashed'
  <2> USE DEF TypeOK
  <2>1. ASSUME NEW p \in Procs \ crashed, Receive(p)
        PROVE  UNCHANGED <<freed, crashed>> /\ revoked[r] \subseteq revoked'[r]
    <3>1. PICK m \in net : DropOrder(p, m) \/ ReceiveRevoke(p, m) \/ ReceiveFailure(p, m)
      BY <2>1 DEF Receive
    <3>2. CASE DropOrder(p, m)
      BY <3>2 DEF DropOrder
    <3>3. CASE ReceiveRevoke(p, m)
      BY <3>3 DEF ReceiveRevoke, RevokeLocal
    <3>4. CASE ReceiveFailure(p, m)
      BY <3>4 DEF ReceiveFailure, MarkFailedPeer
    <3> QED BY <3>1, <3>2, <3>3, <3>4
  <2>2. ASSUME NEW p \in Procs \ crashed, NEW q \in Procs, RteCallback(p, q)
        PROVE  UNCHANGED <<freed, crashed, revoked>>
    BY <2>2 DEF RteCallback, MarkFailedPeer
  <2>3. ASSUME NEW p \in Procs \ crashed, NEW c \in Comms, CommRevoke(p, c)
        PROVE  UNCHANGED <<freed, crashed>> /\ revoked[r] \subseteq revoked'[r]
    BY <2>3 DEF CommRevoke, RevokeLocal
  <2>4. ASSUME NEW p \in Procs \ crashed,
               Crash(p) \/ \E c \in Comms : FailureAck(p, c) \/ CommFree(p, c)
        PROVE  revoked' = revoked /\ freed[r] \subseteq freed'[r] /\ crashed \subseteq crashed'
    BY <2>4 DEF Crash, FailureAck, CommFree
  <2>5. CASE UNCHANGED vars
    BY <2>5 DEF vars
  <2> QED BY <2>1, <2>2, <2>3, <2>4, <2>5 DEF Next
<1> QED BY <1>1, <1>2

(* A revocation is never lost between two living neighbours: it has        *)
(* arrived, is on its way, or the neighbour has freed the communicator.    *)
THEOREM RevokeDiffuses == Reliable /\ Spec => []RevokeForwarded
<1> SUFFICES ASSUME Reliable PROVE Spec => []RevokeForwarded
  OBVIOUS
<1>1. Init => RevokeForwarded
  BY DEF Init, RevokeForwarded
<1>2. TypeOK /\ RevokeForwarded /\ [Next]_vars => RevokeForwarded'
  <2> SUFFICES ASSUME TypeOK, RevokeForwarded, [Next]_vars,
                      NEW p \in Procs \ crashed', NEW c \in revoked'[p], NEW l \in Legs(NP)
               PROVE  \/ Target(NP, p, l) \in crashed'
                      \/ c \in freed'[Target(NP, p, l)] \cup revoked'[Target(NP, p, l)]
                      \/ [src |-> p, leg |-> l, order |-> RevokeOrder(c)] \in net'
    BY DEF RevokeForwarded
  <2> DEFINE q == Target(NP, p, l)
             m == [src |-> p, leg |-> l, order |-> RevokeOrder(c)]
  <2>0. Destination(m) = q
    BY DEF Destination
  <2>1. CASE c \notin revoked[p]
    <3>1. c \in Comms
      BY TypeStep DEF TypeOK
    <3>2. Rbcast(p, RevokeOrder(c), Legs(NP)) \subseteq net' /\ crashed' = crashed
      BY <2>1, <3>1, LearnSends
    <3> QED BY <2>0, <3>2 DEF Rbcast
  <2>2. CASE c \in revoked[p]
    <3>1. p \notin crashed /\ q \in Procs
      BY NeverForgets, TargetRange, Zenon
    <3>2. q \in crashed \/ c \in freed[q] \cup revoked[q] \/ m \in net
      BY <2>2, <3>1 DEF RevokeForwarded
    <3>3. CASE q \in crashed \/ c \in freed[q] \cup revoked[q]
      BY <3>1, <3>3, NeverForgets, Zenon
    <3>4. CASE m \in net /\ m \notin net' /\ q \notin crashed'
      <4>1. DropOrder(q, m) \/ ReceiveRevoke(q, m) \/ ReceiveFailure(q, m)
        BY <2>0, <3>4, LeavesHandled, Zenon
      <4>2. CASE DropOrder(q, m)
        <5>1. c \in freed[q] \cup revoked[q]
          BY <4>2, <2>2, Zenon DEF DropOrder, Stale, RevokeOrder, Table, TypeOK
        <5> QED BY <3>1, <5>1, NeverForgets, Zenon
      <4>3. CASE ReceiveRevoke(q, m)
        BY <3>1, <4>3, Zenon DEF ReceiveRevoke, RevokeLocal, RevokeOrder, TypeOK
      <4>4. CASE ReceiveFailure(q, m)
        BY <4>4, Zenon DEF ReceiveFailure, RevokeOrder
      <4> QED BY <4>1, <4>2, <4>3, <4>4
    <3> QED BY <3>2, <3>3, <3>4
  <2> QED BY <2>1, <2>2
<1> QED BY <1>1, <1>2, TypeCorrect, PTL DEF Spec

(* The same for failures; the world, which carries them, is never freed.   *)
THEOREM FailureDiffuses == Reliable /\ Spec => []FailureForwarded
<1> SUFFICES ASSUME Reliable PROVE Spec => []FailureForwarded
  OBVIOUS
<1> DEFINE WorldStays == \A p \in Procs : World \notin freed[p]
           Inv == FailureForwarded /\ WorldStays
<1>1. Init => Inv
  <2> SUFFICES ASSUME Init PROVE Inv
    OBVIOUS
  <2>1. \A p, q \in Procs : Known(p) = Known(q)
    BY DEF Init, Known
  <2>2. FailureForwarded
    BY <2>1, TargetRange DEF FailureForwarded
  <2> QED BY <2>2 DEF Init
<1>2. TypeOK /\ [Next]_vars /\ WorldStays => WorldStays'
  <2> SUFFICES ASSUME TypeOK, [Next]_vars, WorldStays, NEW r \in Procs PROVE World \notin freed'[r]
    OBVIOUS
  <2> USE DEF TypeOK
  <2>1. ASSUME NEW p \in Procs \ crashed, NEW c \in Comms, CommFree(p, c) PROVE World \notin freed'[r]
    BY <2>1 DEF CommFree
  <2>2. ASSUME NEW p \in Procs \ crashed, Receive(p) PROVE freed' = freed
    BY <2>2 DEF Receive, DropOrder, ReceiveRevoke, ReceiveFailure, RevokeLocal, MarkFailedPeer
  <2>3. ASSUME NEW p \in Procs \ crashed,
               \/ Crash(p)
               \/ \E q \in Procs : RteCallback(p, q)
               \/ \E c \in Comms : CommRevoke(p, c) \/ FailureAck(p, c)
        PROVE  freed' = freed
    BY <2>3 DEF Crash, RteCallback, MarkFailedPeer, CommRevoke, RevokeLocal, FailureAck
  <2>4. CASE UNCHANGED vars
    BY <2>4 DEF vars
  <2> QED BY <2>1, <2>2, <2>3, <2>4, Zenon DEF Next
<1>3. TypeOK /\ Inv /\ [Next]_vars => FailureForwarded'
  <2> SUFFICES ASSUME TypeOK, FailureForwarded, WorldStays, [Next]_vars,
                      NEW p \in Procs \ crashed', NEW d \in Known(p)', NEW l \in Legs(NP)
               PROVE  \/ Target(NP, p, l) \in crashed'
                      \/ d \in Known(Target(NP, p, l))'
                      \/ [src |-> p, leg |-> l, order |-> FailureOrder(d)] \in net'
    BY DEF FailureForwarded
  <2> DEFINE q == Target(NP, p, l)
             m == [src |-> p, leg |-> l, order |-> FailureOrder(d)]
  <2>0. Destination(m) = q
    BY DEF Destination
  <2>1. CASE d \notin Known(p)
    <3>1. d \in Procs
      BY TypeStep DEF TypeOK, Known
    <3>2. Rbcast(p, FailureOrder(d), Legs(NP)) \subseteq net' /\ crashed' = crashed
      BY <2>1, <3>1, LearnSends
    <3> QED BY <2>0, <3>2 DEF Rbcast
  <2>2. CASE d \in Known(p)
    <3>1. p \notin crashed /\ q \in Procs
      BY NeverForgets, TargetRange, Zenon
    <3>2. q \in crashed \/ d \in Known(q) \/ m \in net
      BY <2>2, <3>1 DEF FailureForwarded
    <3>3. CASE q \in crashed \/ d \in Known(q)
      BY <3>1, <3>3, NeverForgets, Zenon
    <3>4. CASE m \in net /\ m \notin net' /\ q \notin crashed'
      <4>1. DropOrder(q, m) \/ ReceiveRevoke(q, m) \/ ReceiveFailure(q, m)
        BY <2>0, <3>4, LeavesHandled, Zenon
      <4>2. CASE DropOrder(q, m)
        <5>1. d \in Known(q)
          BY <3>1, <4>2, CommAssumption DEF DropOrder, Stale, FailureOrder, Table
        <5> QED BY <3>1, <5>1, NeverForgets, Zenon
      <4>3. CASE ReceiveRevoke(q, m)
        BY <4>3, Zenon DEF ReceiveRevoke, FailureOrder
      <4>4. CASE ReceiveFailure(q, m)
        <5>1. MarkFailedPeer(q, d)
          BY <4>4 DEF ReceiveFailure, FailureOrder
        <5>2. failed[q] \in Seq(Procs) /\ d \in Procs
          BY <2>2, <3>1 DEF TypeOK, Known
        <5>3. failed'[q] = Append(failed[q], d)
          BY <3>1, <5>1 DEF MarkFailedPeer, TypeOK
        <5>4. /\ Len(failed'[q]) = Len(failed[q]) + 1 /\ Len(failed[q]) \in Nat
              /\ failed'[q][Len(failed[q]) + 1] = d
          BY <5>2, <5>3
        <5>5. Len(failed[q]) + 1 \in 1..Len(failed'[q])
          BY <5>4
        <5> QED BY <5>4, <5>5 DEF Known
      <4> QED BY <4>1, <4>2, <4>3, <4>4
    <3> QED BY <3>2, <3>3, <3>4
  <2> QED BY <2>1, <2>2
<1> QED BY <1>1, <1>2, <1>3, TypeCorrect, PTL DEF Spec

=============================================================================
