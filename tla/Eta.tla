-------------------------------- MODULE Eta --------------------------------
(***************************************************************************)
(* The early terminating agreement, mca_coll_ftbasic_agreement_eta_intra:  *)
(* processes exchange their estimates in rounds, until they know that      *)
(* nobody can know more.                                                   *)
(*                                                                         *)
(* The estimate is the set of the processes whose contribution is in it    *)
(* (the code combines values with an idempotent operation).  A message is  *)
(* short: it is copied when it is sent, and a send that goes out completes *)
(* at once.  One step of a process goes from one return of                 *)
(* ompi_request_wait_all to the next call of it, or out of the operation.  *)
(***************************************************************************)
EXTENDS Integers, Sequences, FiniteSets

CONSTANTS
  Procs,          \* the members of the communicator (no rank plays a role)
  MaxCrashes,     \* crashes at most
  MaxInterrupts   \* early returns of wait_all for the sake of other requests

NP == Cardinality(Procs)

ASSUME EtaAssumption ==
  IsFiniteSet(Procs) /\ MaxCrashes \in Nat /\ MaxInterrupts \in Nat

VARIABLES
  st,           \* st[p]: the local variables of p
  chan,         \* chan[i][p]: messages from i that p has not received
  known,        \* known[p]: the failures p has been notified of
  crashed,      \* the processes that have crashed
  interrupts    \* interruptions so far

vars == <<st, chan, known, crashed, interrupts>>

Here(p) == p \notin crashed
Others(p) == Procs \ {p}
Running(p) == Here(p) /\ st[p].at = "wait"

(* dead, told and iknow are the processes with STATUS_CRASHED,             *)
(* STATUS_TOLD_ME_HE_KNOWS and STATUS_KNOWS_I_KNOW; recvs those without    *)
(* STATUS_RECV_COMPLETE; unsent those whose send is not going out.         *)
Start(p, acked) ==
  [at |-> "wait", round |-> 1, est |-> {p}, knows |-> FALSE, pf |-> FALSE,
   dead |-> acked, told |-> {}, iknow |-> {}, recvs |-> {}, unsent |-> {}]

Init ==
  /\ st = [p \in Procs |-> [Start(p, {}) EXCEPT !.at = "before"]]
  /\ chan = [i \in Procs |-> [p \in Procs |-> <<>>]]
  /\ known = [p \in Procs |-> {}]
  /\ crashed = {}
  /\ interrupts = 0

-----------------------------------------------------------------------------
(* The round: who is posted a receive, who is sent the estimate.           *)
NeedToRecv(p, s) == Others(p) \ (s.dead \cup s.told)
NeedToSend(p, s) == Others(p) \ (s.dead \cup s.iknow)

(* Post the requests of a round.  A send to a process known to have failed *)
(* goes out or not.                                                        *)
PostRound(p, s, ch) ==
  \E unsent \in SUBSET (NeedToSend(p, s) \cap known[p]) :
    LET sent == NeedToSend(p, s) \ unsent IN
    /\ st' = [st EXCEPT ![p] =
         [s EXCEPT !.recvs = NeedToRecv(p, s), !.unsent = unsent,
                   !.iknow = IF s.knows THEN @ \cup sent ELSE @]]
    /\ chan' = [ch EXCEPT ![p] = [i \in Procs |->
         IF i \in sent \ crashed
         THEN Append(ch[p][i], [knows |-> s.knows, pf |-> s.pf, est |-> s.est])
         ELSE ch[p][i]]]

(* MPI_Comm_agree: the failures acknowledged before are ignored.           *)
Enter(p) ==
  /\ Here(p) /\ st[p].at = "before"
  /\ \E acked \in SUBSET known[p] : PostRound(p, Start(p, acked), chan)
  /\ UNCHANGED <<known, crashed, interrupts>>

-----------------------------------------------------------------------------
(* One pass over the statuses: got have completed, failed are in error,    *)
(* the others remain pending.                                              *)
Absorb(p, s, got, failed) ==
  LET in(i) == Head(chan[i][p]) IN
  [s EXCEPT !.est = @ \cup UNION {in(i).est : i \in got},
            !.pf = @ \/ failed # {} \/ \E i \in got : in(i).pf,
            !.told = @ \cup {i \in got : in(i).knows},
            !.dead = @ \cup failed,
            !.recvs = @ \ (got \cup failed),
            !.unsent = {}]

(* Deliberate faults: it is enough to know, or that the others know.       *)
SatisfiedAlone(s) == s.knows
SatisfiedByOthers(s) == Cardinality(s.told \cup s.dead) >= NP - 1

(* A process leaves when it has told everyone that it knows, and has been  *)
(* told so by everyone.                                                    *)
Satisfied(s) == s.knows /\ Cardinality(s.told \cup s.dead) >= NP - 1

(* Deliberate fault: two messages fewer are enough.                        *)
LearnsEarly(s, nbrecv) == s.told \ s.dead # {} \/ nbrecv >= NP - s.round - 1

(* nbrecv is what the last pass has received, not the whole round.         *)
Learns(s, nbrecv) == s.told \ s.dead # {} \/ nbrecv >= NP - s.round + 1

EndOfRound(p, s, nbrecv, ch) ==
  LET next == [s EXCEPT !.knows = Learns(s, nbrecv), !.round = @ + 1] IN
  \/ /\ Satisfied(s)
     /\ st' = [st EXCEPT ![p] = [s EXCEPT !.at = "left"]]
     /\ chan' = ch
  \/ /\ ~Satisfied(s) /\ s.round = NP + 1
     /\ st' = [st EXCEPT ![p] = [next EXCEPT !.at = "left"]]
     /\ chan' = ch
  \/ /\ ~Satisfied(s) /\ s.round <= NP
     /\ PostRound(p, next, ch)

(* What ompi_request_wait_all finds: a message that has arrived completes  *)
(* its request, also when its sender has failed since; without one, the    *)
(* requests of a process known to have failed are in error.                *)
Arrived(p) == {i \in st[p].recvs : chan[i][p] # <<>>}

(* Deliberate fault: after a failure, what is pending counts as failed.    *)
FailedOrPending(p) ==
  IF st[p].recvs \cap known[p] = {} THEN st[p].unsent
  ELSE (st[p].recvs \ Arrived(p)) \cup st[p].unsent

Failed(p) == ((st[p].recvs \ Arrived(p)) \cap known[p]) \cup st[p].unsent

(* It returns when everything has completed or something has failed: a     *)
(* request of another communicator too, as ompi_request_failed counts all. *)
Wait(p) ==
  /\ Running(p)
  /\ \E got \in SUBSET Arrived(p) :
       LET now == Absorb(p, st[p], got, Failed(p))
           ch == [i \in Procs |-> IF i \in got THEN [chan[i] EXCEPT ![p] = Tail(@)]
                                  ELSE chan[i]] IN
       /\ Arrived(p) \cap known[p] \subseteq got
       /\ IF got = st[p].recvs \/ Failed(p) # {} THEN interrupts' = interrupts
          ELSE interrupts < MaxInterrupts /\ interrupts' = interrupts + 1
       /\ IF now.recvs = {} THEN EndOfRound(p, now, Cardinality(got), ch)
          ELSE st' = [st EXCEPT ![p] = now] /\ chan' = ch
  /\ UNCHANGED <<known, crashed>>

-----------------------------------------------------------------------------
(* Crashes, and their notification: of the messages in flight from the     *)
(* failed process, those that have not arrived by then are lost.  What a   *)
(* crashed process has returned is kept, the rest of its state is gone.    *)
Crash(p) ==
  /\ Here(p) /\ Cardinality(crashed) < MaxCrashes
  /\ crashed' = crashed \cup {p}
  /\ st' = IF st[p].at = "left" THEN st ELSE [st EXCEPT ![p] = Start(p, {})]
  /\ chan' = [i \in Procs |-> [chan[i] EXCEPT ![p] = <<>>]]
  /\ known' = [known EXCEPT ![p] = {}]
  /\ UNCHANGED interrupts

Notify(p, i) ==
  /\ Here(p) /\ i \in crashed \ known[p]
  /\ known' = [known EXCEPT ![p] = @ \cup {i}]
  /\ \E n \in 0..Len(chan[i][p]) : chan' = [chan EXCEPT ![i][p] = SubSeq(@, 1, n)]
  /\ UNCHANGED <<st, crashed, interrupts>>

Next ==
  \/ \E p \in Procs : Enter(p) \/ Wait(p) \/ Crash(p)
  \/ \E p, i \in Procs : Notify(p, i)

Spec == Init /\ [][Next]_vars

-----------------------------------------------------------------------------
Left(p) == st[p].at = "left"

(* All the processes that return from the agreement, those included that   *)
(* crash afterwards, return the same value.                                *)
SameValue == \A p, q \in Procs : Left(p) /\ Left(q) => st[p].est = st[q].est

(* The value takes in the contribution of every process that is alive, as  *)
(* Agreement promises.                                                     *)
EveryoneCounted == \A p \in Procs : Left(p) => Procs \ crashed \subseteq st[p].est

(* Two processes that have returned leave no message between them: the     *)
(* next agreement on the communicator uses the same tag, and would take it *)
(* for a contribution.                                                     *)
NothingLeftOver ==
  \A p, i \in Procs \ crashed : Left(p) /\ Left(i) => chan[i][p] = <<>>

(* When no process can take a step, all that live have returned: nobody    *)
(* waits for a message of a process that has left.  As a process goes      *)
(* through NP + 1 rounds at most, every agreement ends.                    *)
NobodyStuck ==
  \/ \A p \in Procs \ crashed : Left(p)
  \/ \E p \in Procs \ crashed :
       \/ st[p].at = "before" \/ crashed # known[p]
       \/ Running(p) /\ (Arrived(p) = st[p].recvs \/ Failed(p) # {})
=============================================================================
