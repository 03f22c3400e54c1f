------------------------------ MODULE FtComm ------------------------------
(***************************************************************************)
(* Failure notification, failure acknowledgement and revocation of the     *)
(* communicators of one job.                                               *)
(*                                                                         *)
(*   errhandler/errhandler_rte.c        a failed peer is marked            *)
(*   communicator/comm_ft_propagate.c   and announced to the job           *)
(*   communicator/comm_ft_revoke.c      MPI_Comm_revoke                    *)
(*   communicator/comm_ft_reliable_bcast.c  the transport of both          *)
(*   communicator/comm_ft.c             failure_ack, failure_get_acked     *)
(*                                                                         *)
(* Every communicator spans the NP processes of the job (the world and its *)
(* duplicates), so a rank names a process.  Split[c] = 0 says that c is an *)
(* intracommunicator; otherwise c is an intercommunicator whose low group  *)
(* is 0..Split[c]-1.  Callbacks run from the progress engine of a single   *)
(* threaded process, so a handler is one action.                           *)
(*                                                                         *)
(* A process stops by crashing; what it had handed to the network and was  *)
(* not yet received may be lost, which also covers a crash in the middle   *)
(* of a broadcast.  The BTLs do not order messages across links, so the    *)
(* messages in flight are a set.  A process broadcasts a given order at    *)
(* most once, so <<src, leg, order>> identifies a message, and duplicates  *)
(* (two legs that reach the same rank) are different messages.             *)
(***************************************************************************)
EXTENDS BinomialGraph, Sequences

CONSTANTS
  NP,            \* number of processes of the job
  Comms,         \* the communicators
  World,         \* MPI_COMM_WORLD, which carries the failure announcements
  Split,         \* [Comms -> 0..NP-1], see above
  Algorithm,     \* "bmg" or "n2": the parameter ompi_ft_reliable_bcast
  AllocMayFail,  \* may the allocation of a BTL descriptor fail?
  Revocable,     \* the communicators the application may revoke
  Ackers,        \* the processes whose application acknowledges failures
  Dead0,         \* the processes that crashed earlier, in the order all discovered them
  MaxCrashes,    \* bound on the number of later crashes
  MaxFrees       \* bound on the number of communicators each process frees

Procs == 0..(NP - 1)

ASSUME SizeAssumption == NP \in Nat \ {0}
ASSUME CommAssumption ==
  /\ World \in Comms /\ Revocable \subseteq Comms /\ Ackers \subseteq Procs
  /\ Split \in [Comms -> Procs] /\ Split[World] = 0
ASSUME RunAssumption ==
  /\ Algorithm \in {"bmg", "n2"}
  /\ AllocMayFail \in BOOLEAN
  /\ Dead0 \in Seq(Procs)
  /\ \A i, j \in 1..Len(Dead0) : Dead0[i] = Dead0[j] => i = j
  /\ MaxCrashes \in Nat /\ MaxFrees \in Nat

VARIABLES
  crashed,     \* the processes that have stopped
  failed,      \* failed[p]: p's ompi_group_all_failed_procs, in order of discovery
  revoked,     \* revoked[p]: communicators with comm_revoked set at p
  collRevoked, \* the same for coll_revoked
  anySource,   \* the same for any_source_enabled
  offset,      \* offset[p][c]: any_source_offset
  freed,       \* freed[p]: communicators p has removed from its table
  net,         \* the rbcast messages in flight
  called       \* the communicators some process has called MPI_Comm_revoke on

vars == <<crashed, failed, revoked, collRevoked, anySource, offset, freed, net, called>>

-----------------------------------------------------------------------------
(* An order is what a rbcast message carries: revoke its communicator, or  *)
(* mark the process "subject" as failed.                                   *)
RevokeOrder(c) == [type |-> "revoke", cid |-> c, subject |-> 0]
FailureOrder(q) == [type |-> "failure", cid |-> World, subject |-> q]
Orders == {RevokeOrder(c) : c \in Comms} \cup {FailureOrder(q) : q \in Procs}

Destination(m) == Target(NP, m.src, m.leg)

LocalGroup(c, p) ==
  IF Split[c] = 0 THEN Procs ELSE {q \in Procs : (q < Split[c]) <=> (p < Split[c])}

RemoteGroup(c, p) ==
  IF Split[c] = 0 THEN Procs ELSE Procs \ LocalGroup(c, p)

(* ompi_comm_rbcast_n2: the loop over the groups is                        *)
(*   for(grp = local; grp == local && grp != remote; grp = remote)         *)
N2Legs(c, p) ==
  IF LocalGroup(c, p) = RemoteGroup(c, p) THEN {}
  ELSE {q - p : q \in LocalGroup(c, p) \ {p}}

RbcastLegs(c, p) == IF Algorithm = "bmg" THEN Legs(NP) ELSE N2Legs(c, p)

(* Both algorithms return at the first send that fails with anything but   *)
(* OMPI_ERR_UNREACH; the allocation of a descriptor is the one that can.   *)
LegOrder(l, m) == IF Algorithm = "bmg" THEN Earlier(l, m) ELSE l < m
LegPrefixes(c, p) ==
  IF AllocMayFail
  THEN {L \in SUBSET RbcastLegs(c, p) :
          \A m \in L, l \in RbcastLegs(c, p) : LegOrder(l, m) => l \in L}
  ELSE {RbcastLegs(c, p)}

(* What p's broadcast of an order on the given legs puts on the wire.  A   *)
(* message for a dead process is lost, reported as UNREACH or not.         *)
Rbcast(p, order, legs) ==
  {m \in {[src |-> p, leg |-> l, order |-> order] : l \in legs} : Destination(m) \notin crashed}

Known(p) == {failed[p][i] : i \in 1..Len(failed[p])}
Table(p) == Comms \ freed[p]

-----------------------------------------------------------------------------
Init ==
  /\ crashed = {Dead0[i] : i \in 1..Len(Dead0)}
  /\ failed = [p \in Procs |-> Dead0]
  /\ revoked = [p \in Procs |-> {}]
  /\ collRevoked = [p \in Procs |-> IF Dead0 = <<>> THEN {} ELSE Comms]
  /\ anySource = [p \in Procs |-> IF Dead0 = <<>> THEN Comms ELSE {}]
  /\ offset = [p \in Procs |-> [c \in Comms |-> 0]]
  /\ freed = [p \in Procs |-> {}]
  /\ net = {}
  /\ called = {}

(* p stops.  Any of its messages still in flight may be lost with it.      *)
Crash(p) ==
  /\ Cardinality(crashed) < Len(Dead0) + MaxCrashes
  /\ crashed' = crashed \cup {p}
  /\ \E lost \in SUBSET {m \in net : m.src = p} :
       net' = {m \in net \ lost : Destination(m) # p}
  /\ UNCHANGED <<failed, revoked, collRevoked, anySource, offset, freed, called>>

(* Deliberate faults: a failure revokes the communicators outright; only   *)
(* the world learns of it; the newest failure goes first in the list.      *)
MarkFailedPeerRevokes(p, q) ==
  /\ failed' = [failed EXCEPT ![p] = Append(@, q)]
  /\ anySource' = [anySource EXCEPT ![p] = @ \ Table(p)]
  /\ collRevoked' = [collRevoked EXCEPT ![p] = @ \cup Table(p)]
  /\ revoked' = [revoked EXCEPT ![p] = @ \cup Table(p)]
  /\ UNCHANGED <<crashed, offset, freed, called>>

MarkFailedPeerInWorldOnly(p, q) ==
  /\ failed' = [failed EXCEPT ![p] = Append(@, q)]
  /\ anySource' = [anySource EXCEPT ![p] = @ \ {World}]
  /\ collRevoked' = [collRevoked EXCEPT ![p] = @ \cup {World}]
  /\ UNCHANGED <<crashed, revoked, offset, freed, called>>

MarkFailedPeerFirst(p, q) ==
  /\ failed' = [failed EXCEPT ![p] = <<q>> \o @]
  /\ anySource' = [anySource EXCEPT ![p] = @ \ Table(p)]
  /\ collRevoked' = [collRevoked EXCEPT ![p] = @ \cup Table(p)]
  /\ UNCHANGED <<crashed, revoked, offset, freed, called>>

(* ompi_errmgr_mark_failed_peer_fw for a peer that is still active: every  *)
(* communicator of the table that has the peer loses its collectives and   *)
(* its wildcard receives (ompi_comm_set_rank_failed), then the peer joins  *)
(* the global list of failed processes.                                    *)
MarkFailedPeer(p, q) ==
  /\ failed' = [failed EXCEPT ![p] = Append(@, q)]
  /\ anySource' = [anySource EXCEPT ![p] = @ \ Table(p)]
  /\ collRevoked' = [collRevoked EXCEPT ![p] = @ \cup Table(p)]
  /\ UNCHANGED <<crashed, revoked, offset, freed, called>>

(* Deliberate fault: the failure is not announced.                         *)
RteCallbackSilent(p, q) ==
  /\ q \in crashed \ Known(p)
  /\ MarkFailedPeer(p, q)
  /\ UNCHANGED net

(* ompi_errmgr_rte_callback: the runtime, or a broken link, reports a      *)
(* failure; it is announced to the job.                                    *)
RteCallback(p, q) ==
  /\ q \in crashed \ Known(p)
  /\ MarkFailedPeer(p, q)
  /\ \E legs \in LegPrefixes(World, p) : net' = net \cup Rbcast(p, FailureOrder(q), legs)

(* ompi_comm_revoke_local for a communicator that is not revoked yet.      *)
RevokeLocal(p, c) ==
  /\ revoked' = [revoked EXCEPT ![p] = @ \cup {c}]
  /\ collRevoked' = [collRevoked EXCEPT ![p] = @ \cup {c}]
  /\ anySource' = [anySource EXCEPT ![p] = @ \ {c}]
  /\ UNCHANGED <<crashed, failed, offset, freed>>

(* MPI_Comm_revoke; on a communicator that is already revoked it does     *)
(* nothing.                                                                *)
CommRevoke(p, c) ==
  /\ c \in Table(p) \cap Revocable
  /\ c \notin revoked[p]
  /\ called' = called \cup {c}
  /\ RevokeLocal(p, c)
  /\ \E legs \in LegPrefixes(c, p) : net' = net \cup Rbcast(p, RevokeOrder(c), legs)

(* Deliberate fault: the test of proc_active is missing.                   *)
StaleNoActiveTest(p, order) ==
  \/ order.cid \notin Table(p)
  \/ order.type = "revoke" /\ order.cid \in revoked[p]

(* ompi_comm_rbcast_bml_recv_cb: what the callback of the message's type   *)
(* would find nothing to do for, and what names a communicator that is not *)
(* in the table, is dropped.                                               *)
Stale(p, order) ==
  \/ order.cid \notin Table(p)
  \/ order.type = "revoke" /\ order.cid \in revoked[p]
  \/ order.type = "failure" /\ order.subject \in Known(p)

DropOrder(p, m) ==
  /\ Stale(p, m.order)
  /\ net' = net \ {m}
  /\ UNCHANGED <<crashed, failed, revoked, collRevoked, anySource, offset, freed, called>>

(* Deliberate fault: the order is consumed and not forwarded.              *)
ForwardNothing(p, m) == net' = net \ {m}

(* The callback returned true: the order is forwarded.                     *)
Forward(p, m) ==
  \E legs \in LegPrefixes(m.order.cid, p) :
    net' = (net \ {m}) \cup Rbcast(p, m.order, legs)

ReceiveRevoke(p, m) ==
  /\ m.order.type = "revoke"
  /\ ~Stale(p, m.order)
  /\ RevokeLocal(p, m.order.cid)
  /\ UNCHANGED called
  /\ Forward(p, m)

ReceiveFailure(p, m) ==
  /\ m.order.type = "failure"
  /\ ~Stale(p, m.order)
  /\ MarkFailedPeer(p, m.order.subject)
  /\ Forward(p, m)

(* Deliberate faults: the offset is the index of the last failure; the     *)
(* offset is not updated.                                                  *)
FailureAckLastIndex(p, c) ==
  /\ p \in Ackers
  /\ c \in Table(p)
  /\ anySource' = [anySource EXCEPT ![p] = @ \cup {c}]
  /\ offset' = [offset EXCEPT ![p][c] = Len(failed[p]) - 1]
  /\ UNCHANGED <<crashed, failed, revoked, collRevoked, freed, net, called>>

FailureAckNoOffset(p, c) ==
  /\ p \in Ackers
  /\ c \in Table(p)
  /\ anySource' = [anySource EXCEPT ![p] = @ \cup {c}]
  /\ UNCHANGED <<crashed, failed, revoked, collRevoked, offset, freed, net, called>>

(* MPI_Comm_failure_ack                                                    *)
FailureAck(p, c) ==
  /\ p \in Ackers
  /\ c \in Table(p)
  /\ anySource' = [anySource EXCEPT ![p] = @ \cup {c}]
  /\ offset' = [offset EXCEPT ![p][c] = Len(failed[p])]
  /\ UNCHANGED <<crashed, failed, revoked, collRevoked, freed, net, called>>

(* MPI_Comm_failure_get_acked: the first any_source_offset processes of    *)
(* the global list.                                                        *)
GetAcked(p, c) == {failed[p][i] : i \in 1..offset[p][c]}

(* MPI_Comm_free of any communicator but the world.                        *)
CommFree(p, c) ==
  /\ c \in Table(p) \ {World}
  /\ Cardinality(freed[p]) < MaxFrees
  /\ freed' = [freed EXCEPT ![p] = @ \cup {c}]
  /\ UNCHANGED <<crashed, failed, revoked, collRevoked, anySource, offset, net, called>>

Receive(p) ==
  \E m \in net :
    /\ Destination(m) = p
    /\ DropOrder(p, m) \/ ReceiveRevoke(p, m) \/ ReceiveFailure(p, m)

Next ==
  \E p \in Procs \ crashed :
    \/ Crash(p)
    \/ Receive(p)
    \/ \E q \in Procs : RteCallback(p, q)
    \/ \E c \in Comms : CommRevoke(p, c) \/ FailureAck(p, c) \/ CommFree(p, c)

Spec == Init /\ [][Next]_vars

(* opal_progress polls the network as long as the process is in MPI calls; *)
(* nothing is assumed about crashes, failure detection or the application. *)
Fairness == \A p \in Procs : WF_vars(p \notin crashed /\ Receive(p))
FairSpec == Spec /\ Fairness

-----------------------------------------------------------------------------
Messages == [src : Procs, leg : (1 - NP)..(NP - 1), order : Orders]

TypeOK ==
  /\ crashed \subseteq Procs
  /\ failed \in [Procs -> Seq(Procs)]
  /\ revoked \in [Procs -> SUBSET Comms]
  /\ collRevoked \in [Procs -> SUBSET Comms]
  /\ anySource \in [Procs -> SUBSET Comms]
  /\ offset \in [Procs -> [Comms -> Nat]]
  /\ freed \in [Procs -> SUBSET Comms]
  /\ net \subseteq Messages
  /\ called \subseteq Comms

(* No spurious revocation: a communicator is revoked somewhere only if     *)
(* some process called MPI_Comm_revoke on that very communicator.          *)
RevokeIntegrity ==
  \A p \in Procs : revoked[p] \subseteq called

(* A process is marked failed at most once, and only if it has crashed,    *)
(* however the announcement travelled (the test of proc_active guards both *)
(* the runtime's callback and the receipt of an announcement).             *)
FailureAccuracy ==
  \A p \in Procs :
    /\ Known(p) \subseteq crashed
    /\ \A i, j \in 1..Len(failed[p]) : failed[p][i] = failed[p][j] => i = j

(* Wildcard receives are enabled on a communicator only while every        *)
(* failure its process knows of has been acknowledged there: a receive     *)
(* from MPI_ANY_SOURCE never waits on an unacknowledged dead sender.       *)
WildcardSafe ==
  \A p \in Procs : \A c \in Table(p) \cap anySource[p] : GetAcked(p, c) = Known(p)

(* Collectives are off on every communicator of the table of a process     *)
(* that knows of a failure, and stay off when failures are acknowledged.   *)
CollectivesSafe ==
  \A p \in Procs : Known(p) # {} => Table(p) \subseteq collRevoked[p]

(* Reliable broadcast, as a state property: once a process that is still   *)
(* alive has revoked c, each of its neighbours in the binomial graph has   *)
(* revoked c, has freed it, is dead, or is about to receive the order.     *)
RevokeForwarded ==
  \A p \in Procs \ crashed : \A c \in revoked[p] : \A l \in Legs(NP) :
    LET q == Target(NP, p, l) IN
      \/ q \in crashed
      \/ c \in freed[q] \cup revoked[q]
      \/ [src |-> p, leg |-> l, order |-> RevokeOrder(c)] \in net

(* The same for the announcements of failures, which travel on the world.  *)
FailureForwarded ==
  \A p \in Procs \ crashed : \A d \in Known(p) : \A l \in Legs(NP) :
    LET q == Target(NP, p, l) IN
      \/ q \in crashed
      \/ d \in Known(q)
      \/ [src |-> p, leg |-> l, order |-> FailureOrder(d)] \in net

(* MPI_Comm_failure_get_acked is stable: the acknowledged group never      *)
(* loses a process, and the discovery of a failure does not change it (the *)
(* group is a prefix of a list that only grows at its end).                *)
AckedStable ==
  [][\A p \in Procs, c \in Comms :
       /\ GetAcked(p, c) \subseteq GetAcked(p, c)'
       /\ failed'[p] # failed[p] => GetAcked(p, c)' = GetAcked(p, c)]_vars

(* MPI_Comm_revoke interrupts everybody: sooner or later, and for good, a  *)
(* communicator revoked by a living process is revoked by all the living   *)
(* that have not freed it.                                                 *)
RevokeReachesAll ==
  <>[](\A p, q \in Procs \ crashed : revoked[p] \subseteq revoked[q] \cup freed[q])

(* One notification is enough: a failure known to a living process becomes *)
(* known to all the living, without any other detection.                   *)
FailureReachesAll ==
  <>[](\A p, q \in Procs \ crashed : Known(p) \subseteq Known(q))
=============================================================================
