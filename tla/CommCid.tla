------------------------------ MODULE CommCid ------------------------------
(***************************************************************************)
(* The identity of communicators: the context id and the epoch that        *)
(* ompi_comm_nextcid picks, the activation that follows                    *)
(* (ompi_comm_activate), the table of communicators every process keeps    *)
(* (ompi_mpi_communicators, ompi_mpi_comm_epoch), and the use of both by   *)
(* the reliable broadcast to find the communicator a message is about.     *)
(*                                                                         *)
(* Communicator 0 is MPI_COMM_WORLD; the k-th creation makes communicator  *)
(* k, one per colour when it is a split.  Processes have one thread: they  *)
(* handle messages and notifications only while they wait in a reduction   *)
(* or run user code.                                                       *)
(***************************************************************************)
EXTENDS Integers, Sequences, FiniteSets, FiniteSetsExt

CONSTANTS
  Procs,       \* the processes
  Colours,     \* the splits the program makes: functions on the processes
  Width,       \* context ids offered in a reduction: cid_redux_size - 1
  MaxCid,      \* pml_max_contextid: the context ids are below it
  MaxComms,    \* communicators created at most
  MaxRounds,   \* reductions in one creation at most
  Revocable,   \* the communicators the program may revoke
  MaxRevokes,  \* and how many at most
  MaxCrashes   \* crashes at most

Cids == 0..(MaxCid - 1)
Created == 1..MaxComms
Rounds == 0..MaxRounds   \* 0 is the reduction of the activation
Null == -1               \* an empty slot

ASSUME CommCidAssumption ==
  /\ IsFiniteSet(Procs) /\ Width \in Nat \ {0} /\ MaxCid \in Nat \ {0}
  /\ MaxComms \in Nat /\ MaxRounds \in Nat \ {0}
  /\ Revocable \subseteq Nat /\ MaxRevokes \in Nat /\ MaxCrashes \in Nat
  /\ Colours \subseteq [Procs -> Nat]

VARIABLES
  plan,       \* the creations: parent, members, group of each, and mode
  call,       \* call[p]: the creation p is in (0: none), phase and round
  done,       \* done[p]: the last creation p has returned from
  have,       \* have[p]: the communicators the user of p holds
  slot,       \* slot[p][c]: ompi_mpi_communicators
  epoch,      \* epoch[p][c]: ompi_mpi_comm_epoch
  id,         \* id[p][k]: c_contextid and c_epoch of p's communicator k
  given,      \* given[k][r][p]: what p put into reduction r of creation k
  agreed,     \* agreed[k][r]: the processes an agreement has counted
  revoked,    \* revoked[p]: the communicators with comm_revoked
  coll,       \* coll[p]: the communicators with coll_revoked
  known,      \* known[p]: the failures p has been notified of
  crashed,    \* the processes that have crashed
  asked,      \* the communicators somebody has called MPI_Comm_revoke on
  msgs        \* revoke messages on their way

creation == <<call, done, have, slot, epoch, id, given, agreed>>
faults == <<revoked, coll, known, crashed, asked, msgs>>
vars == <<plan, creation, faults>>

NoId == <<>>
Nothing == [last |-> 0, epochs |-> <<>>]     \* no contribution yet
Idle == [comm |-> 0, phase |-> "user", round |-> 0, doomed |-> FALSE]

Group(k, p) == IF k = 0 THEN Procs ELSE plan[k].group[p]
Id(p, k) == IF k = 0 THEN <<0, 0>> ELSE id[p][k]
Here(p) == p \notin crashed

Init ==
  /\ plan = <<>>
  /\ call = [p \in Procs |-> Idle] /\ done = [p \in Procs |-> 0]
  /\ have = [p \in Procs |-> {0}]
  /\ slot = [p \in Procs |-> [c \in Cids |-> IF c = 0 THEN 0 ELSE Null]]
  /\ epoch = [p \in Procs |-> [c \in Cids |-> 0]]
  /\ id = [p \in Procs |-> [k \in Created |-> NoId]]
  /\ given = [k \in Created |-> [r \in Rounds |-> [p \in Procs |-> Nothing]]]
  /\ agreed = [k \in Created |-> [r \in Rounds |-> {}]]
  /\ revoked = [p \in Procs |-> {}] /\ coll = [p \in Procs |-> {}]
  /\ known = [p \in Procs |-> {}]
  /\ crashed = {} /\ asked = {} /\ msgs = {}

-----------------------------------------------------------------------------
(* The program.  Creations are called in one order by everybody.           *)
Pending(p) ==
  {k \in DOMAIN plan : /\ k > done[p] /\ p \in plan[k].on
                       /\ plan[k].parent \in have[p]}
InUserCode(p) == Here(p) /\ call[p] = Idle /\ Pending(p) = {}

-----------------------------------------------------------------------------
(* ompi_comm_nextcid.                                                      *)

(* The slots from start on that p reserves; HighestTaken of its table t.   *)
HighestTaken(t) == Max({c \in Cids : t[c] # Null})
Candidates(t, start) ==
  LET empty == {c \in Cids : c >= start /\ t[c] = Null}
  IN  {c \in empty : Cardinality({d \in empty : d < c}) < Width}
Offer(t, e, start) ==
  LET mine == Candidates(t, start)
  IN  [last |-> IF Cardinality(mine) = Width THEN Max(mine) ELSE MaxCid,
       epochs |-> [c \in mine |-> e[c]]]
Release(t, cs) == [c \in Cids |-> IF c \in cs THEN Null ELSE t[c]]

(* The state of p once it is in reduction r of creation k, on the parent   *)
(* j: an ordinary reduction that starts on a broken communicator fails,    *)
(* as its messages are thrown away.                                        *)
Waiting(p, k, j, ft, phase, r) ==
  [comm |-> k, phase |-> phase, round |-> r, doomed |-> ~ft /\ j \in coll[p]]

(* Reserve slots of the table t, in the name of the parent j, and          *)
(* contribute them to reduction r of creation k.                           *)
Reserve(p, k, j, ft, r, t, start) ==
  /\ slot' = [slot EXCEPT ![p] =
       [c \in Cids |-> IF c \in Candidates(t, start) THEN j ELSE t[c]]]
  /\ given' = [given EXCEPT ![k][r][p] = Offer(t, epoch[p], start)]
  /\ call' = [call EXCEPT ![p] = Waiting(p, k, j, ft, "reduce", r)]

(* A reduction over the parent: ordinary ones need everybody; the ones of  *)
(* shrink are agreements, and count everybody alive.                       *)
Contributed(k, r) == {q \in plan[k].on : given[k][r][q] # Nothing}
Inputs(k, r) ==
  IF plan[k].ft THEN agreed[k][r]
  ELSE IF Contributed(k, r) = plan[k].on THEN plan[k].on ELSE {}

Agree(k, r) ==
  /\ k \in DOMAIN plan /\ plan[k].ft /\ agreed[k][r] = {}
  /\ \E s \in SUBSET Contributed(k, r) \ {{}} :
       /\ plan[k].on \ crashed \subseteq s
       /\ agreed' = [agreed EXCEPT ![k][r] = s]
  /\ UNCHANGED <<plan, call, done, have, slot, epoch, id, given, faults>>

(* cid_redux_fn, and the minimum of what it leaves: 0 when anything has    *)
(* been removed from the list.                                             *)
Common(k, r) ==
  {c \in Cids : \A q \in Inputs(k, r) : c \in DOMAIN given[k][r][q].epochs}
NextCid(k, r) == IF Cardinality(Common(k, r)) = Width THEN Min(Common(k, r)) ELSE 0
NextEpoch(k, r, c) == Max({given[k][r][q].epochs[c] : q \in Inputs(k, r)})
NextStart(k, r) == Max({given[k][r][q].last : q \in Inputs(k, r)})

(* cid_lCIDs: the slots p has reserved.                                    *)
Mine(p) == DOMAIN given[call[p].comm][call[p].round][p].epochs

(* MPI_Comm_dup and MPI_Comm_split, by the first member to call it.  The   *)
(* group is the members of a colour.  A parent with a failed member, or    *)
(* revoked, is refused.                                                    *)
Enter(p, k, j, ft) == Reserve(p, k, j, ft, 1, slot[p], HighestTaken(slot[p]) + 1)

Create(p) ==
  \E j \in have[p] \ coll[p], col \in Colours :
    /\ InUserCode(p) /\ Len(plan) < MaxComms
    /\ plan' = Append(plan,
         [parent |-> j, on |-> Group(j, p), ft |-> FALSE,
          group |-> [q \in Procs |-> {r \in Group(j, p) : col[r] = col[q]}]])
    /\ Enter(p, Len(plan) + 1, j, FALSE)
    /\ UNCHANGED <<done, have, epoch, id, agreed, faults>>

(* MPI_Comm_shrink, by the first to return from the agreement on the       *)
(* failed processes.  Everybody alive has called it; a process that takes  *)
(* part and dies unnoticed is one that dies after it.  The program calls   *)
(* it on a communicator that is broken.                                    *)
Shrink(p) ==
  \E j \in have[p] \cap coll[p] :
    /\ InUserCode(p) /\ Len(plan) < MaxComms
    /\ \A q \in Group(j, p) \ crashed : InUserCode(q) /\ j \in have[q]
    /\ plan' = Append(plan,
         [parent |-> j, on |-> Group(j, p), ft |-> TRUE,
          group |-> [q \in Procs |-> Group(j, p) \ crashed]])
    /\ Enter(p, Len(plan) + 1, j, TRUE)
    /\ UNCHANGED <<done, have, epoch, id, agreed, faults>>

(* The other members call it.                                              *)
Join(p) ==
  /\ Here(p) /\ call[p] = Idle /\ Pending(p) # {}
  /\ LET k == Min(Pending(p)) IN
       /\ plan[k].ft \/ plan[k].parent \notin coll[p]
       /\ Enter(p, k, plan[k].parent, plan[k].ft)
  /\ UNCHANGED <<plan, done, have, epoch, id, agreed, faults>>
Refuse(p) ==
  /\ Here(p) /\ call[p] = Idle /\ Pending(p) # {}
  /\ LET k == Min(Pending(p)) IN
       /\ ~plan[k].ft /\ plan[k].parent \in coll[p]
       /\ done' = [done EXCEPT ![p] = k]
  /\ UNCHANGED <<plan, call, have, slot, epoch, id, given, agreed, faults>>

Reducing(p) == Here(p) /\ call[p].phase = "reduce"

(* Deliberate fault: the second reduction starts from p's own table.       *)
RetryOwn(p) ==
  LET k == call[p].comm r == call[p].round IN
  /\ Reducing(p) /\ ~call[p].doomed /\ Inputs(k, r) # {} /\ NextCid(k, r) = 0 /\ r < MaxRounds
  /\ Reserve(p, k, plan[k].parent, plan[k].ft, r + 1, Release(slot[p], Mine(p)),
             HighestTaken(Release(slot[p], Mine(p))) + 1)
  /\ UNCHANGED <<plan, done, have, epoch, id, agreed, faults>>

(* Nothing in common: again, from the highest id considered.               *)
Retry(p) ==
  LET k == call[p].comm r == call[p].round IN
  /\ Reducing(p) /\ ~call[p].doomed /\ Inputs(k, r) # {} /\ NextCid(k, r) = 0 /\ r < MaxRounds
  /\ Reserve(p, k, plan[k].parent, plan[k].ft, r + 1, Release(slot[p], Mine(p)), NextStart(k, r))
  /\ UNCHANGED <<plan, done, have, epoch, id, agreed, faults>>

(* Deliberate fault: the epoch is the next one of p's own table.           *)
TakeOwnEpoch(p) ==
  LET k == call[p].comm r == call[p].round c == NextCid(k, r) e == epoch[p][c] + 1 IN
  /\ Reducing(p) /\ ~call[p].doomed /\ Inputs(k, r) # {} /\ c # 0
  /\ slot' = [slot EXCEPT ![p] = [Release(@, Mine(p)) EXCEPT ![c] = k]]
  /\ id' = [id EXCEPT ![p][k] = <<c, e>>]
  /\ epoch' = [epoch EXCEPT ![p][c] = e]
  /\ call' = [call EXCEPT ![p] = Waiting(p, k, plan[k].parent, plan[k].ft, "activate", 0)]
  /\ given' = [given EXCEPT ![k][0][p] = [last |-> MaxCid, epochs |-> <<>>]]
  /\ UNCHANGED <<plan, done, have, agreed, faults>>

(* The id is found: the new communicator goes into the table, and the      *)
(* process enters the reduction of the activation.                         *)
Take(p) ==
  LET k == call[p].comm r == call[p].round c == NextCid(k, r)
      e == NextEpoch(k, r, c) + 1 IN
  /\ Reducing(p) /\ ~call[p].doomed /\ Inputs(k, r) # {} /\ c # 0
  /\ slot' = [slot EXCEPT ![p] = [Release(@, Mine(p)) EXCEPT ![c] = k]]
  /\ id' = [id EXCEPT ![p][k] = <<c, e>>]
  /\ epoch' = [epoch EXCEPT ![p][c] = e]
  /\ call' = [call EXCEPT ![p] = Waiting(p, k, plan[k].parent, plan[k].ft, "activate", 0)]
  /\ given' = [given EXCEPT ![k][0][p] = [last |-> MaxCid, epochs |-> <<>>]]
  /\ UNCHANGED <<plan, done, have, agreed, faults>>

(* Deliberate fault: a failed reduction leaves the slots reserved.         *)
GiveUpKeeping(p) ==
  LET k == call[p].comm IN
  /\ Reducing(p) /\ ~plan[k].ft /\ plan[k].parent \in coll[p]
  /\ call' = [call EXCEPT ![p] = Idle] /\ done' = [done EXCEPT ![p] = k]
  /\ UNCHANGED <<plan, have, slot, epoch, id, given, agreed, faults>>

(* The reduction fails: the slots are given back.                          *)
GiveUp(p) ==
  LET k == call[p].comm IN
  /\ Reducing(p) /\ ~plan[k].ft /\ plan[k].parent \in coll[p]
  /\ slot' = [slot EXCEPT ![p] = Release(@, Mine(p))]
  /\ call' = [call EXCEPT ![p] = Idle] /\ done' = [done EXCEPT ![p] = k]
  /\ UNCHANGED <<plan, have, epoch, id, given, agreed, faults>>

-----------------------------------------------------------------------------
(* ompi_comm_activate.                                                     *)
Activating(p) == Here(p) /\ call[p].phase = "activate"

(* Deliberate fault: the communicator is used before everybody has it.     *)
ActivateEarly(p) ==
  LET k == call[p].comm IN
  /\ Activating(p)
  /\ have' = [have EXCEPT ![p] = @ \cup {k}]
  /\ call' = [call EXCEPT ![p] = Idle] /\ done' = [done EXCEPT ![p] = k]
  /\ UNCHANGED <<plan, slot, epoch, id, given, agreed, faults>>

Activate(p) ==
  LET k == call[p].comm IN
  /\ Activating(p) /\ ~call[p].doomed /\ Inputs(k, 0) # {}
  /\ have' = [have EXCEPT ![p] = @ \cup {k}]
  /\ call' = [call EXCEPT ![p] = Idle] /\ done' = [done EXCEPT ![p] = k]
  /\ UNCHANGED <<plan, slot, epoch, id, given, agreed, faults>>

(* The barrier fails: the destructor of the communicator clears its slot.  *)
Abandon(p) ==
  LET k == call[p].comm IN
  /\ Activating(p) /\ ~plan[k].ft /\ plan[k].parent \in coll[p]
  /\ slot' = [slot EXCEPT ![p] = Release(@, {id[p][k][1]})]
  /\ call' = [call EXCEPT ![p] = Idle] /\ done' = [done EXCEPT ![p] = k]
  /\ UNCHANGED <<plan, have, epoch, id, given, agreed, faults>>

(* MPI_Comm_free.                                                          *)
Free(p) ==
  \E k \in have[p] \ {0} :
    /\ InUserCode(p)
    /\ slot' = [slot EXCEPT ![p] = Release(@, {id[p][k][1]})]
    /\ have' = [have EXCEPT ![p] = @ \ {k}]
    /\ UNCHANGED <<plan, call, done, epoch, id, given, agreed, faults>>

-----------------------------------------------------------------------------
(* Revocation.  FtComm has the reliable broadcast, and shows that every    *)
(* member gets the message; here it is sent to every member once.          *)
RevokeMsgs(p, k, of) ==
  {[to |-> q, cid |-> Id(p, k)[1], epoch |-> Id(p, k)[2], of |-> of] :
     q \in Group(k, p) \ {p}}

Revoke(p) ==
  \E k \in have[p] \cap Revocable :
    LET of == <<k, Group(k, p)>> IN
    /\ Here(p) /\ call[p] = Idle /\ k \notin revoked[p]
    /\ Cardinality(asked) < MaxRevokes
    /\ revoked' = [revoked EXCEPT ![p] = @ \cup {k}]
    /\ coll' = [coll EXCEPT ![p] = @ \cup {k}]
    /\ asked' = asked \cup {of}
    /\ msgs' = msgs \cup RevokeMsgs(p, k, of)
    /\ UNCHANGED <<plan, creation, known, crashed>>

(* Deliberate fault: the epoch of the message is not looked at.            *)
FoundAnyEpoch(p, m) ==
  LET k == slot[p][m.cid]
  IN  IF k # Null /\ Id(p, k)[1] = m.cid THEN {k} ELSE {}

(* ompi_comm_rbcast_bml_recv_cb: the communicator the message finds.       *)
Found(p, m) ==
  LET k == slot[p][m.cid]
  IN  IF k # Null /\ Id(p, k) = <<m.cid, m.epoch>> THEN {k} ELSE {}

(* Deliberate fault: collectives stay enabled.                             *)
DeliverHalf(p) ==
  \E m \in msgs :
    LET hit == Found(p, m) \ revoked[p] IN
    /\ Here(p) /\ m.to = p
    /\ revoked' = [revoked EXCEPT ![p] = @ \cup hit]
    /\ msgs' = msgs \ {m}
    /\ UNCHANGED <<plan, creation, coll, known, crashed, asked>>

Deliver(p) ==
  \E m \in msgs :
    LET hit == Found(p, m) \ revoked[p] IN
    /\ Here(p) /\ m.to = p
    /\ revoked' = [revoked EXCEPT ![p] = @ \cup hit]
    /\ coll' = [coll EXCEPT ![p] = @ \cup hit]
    /\ msgs' = msgs \ {m}
    /\ UNCHANGED <<plan, creation, known, crashed, asked>>

(* A process crashes; another is told, and tells the communicators of its  *)
(* table (ompi_errmgr_mark_failed_peer).                                   *)
Crash(p) ==
  /\ Here(p) /\ Cardinality(crashed) < MaxCrashes
  /\ crashed' = crashed \cup {p}
  /\ UNCHANGED <<plan, creation, revoked, coll, known, asked, msgs>>
Notify(p) ==
  \E q \in crashed \ known[p] :
    /\ Here(p)
    /\ known' = [known EXCEPT ![p] = @ \cup {q}]
    /\ coll' = [coll EXCEPT ![p] = @ \cup
         {slot[p][c] : c \in {d \in Cids : slot[p][d] # Null /\ q \in Group(slot[p][d], p)}}]
    /\ UNCHANGED <<plan, creation, revoked, crashed, asked, msgs>>

Step(p) ==
  \/ Create(p) \/ Shrink(p) \/ Join(p) \/ Refuse(p) \/ Retry(p) \/ Take(p)
  \/ GiveUp(p) \/ Activate(p) \/ Abandon(p) \/ Free(p) \/ Revoke(p) \/ Deliver(p)
  \/ Crash(p) \/ Notify(p)
Next == (\E p \in Procs : Step(p)) \/ \E k \in Created, r \in Rounds : Agree(k, r)
Spec == Init /\ [][Next]_vars

-----------------------------------------------------------------------------
(* Every variable stays in its type: in particular the ids handed out are  *)
(* below pml_max_contextid, and slots hold communicators or nothing.       *)
TypeOK ==
  /\ Len(plan) <= MaxComms
  /\ \A p \in Procs :
       /\ call[p] = Idle \/ call[p] \in [comm : DOMAIN plan, phase : {"reduce", "activate"}, round : Rounds,
                                     doomed : BOOLEAN]
       /\ done[p] \in 0..Len(plan) /\ have[p] \subseteq 0..Len(plan)
       /\ \A c \in Cids : slot[p][c] \in {Null} \cup 0..Len(plan) /\ epoch[p][c] \in Nat
       /\ \A k \in Created : id[p][k] = NoId \/ id[p][k] \in Cids \X Nat
       /\ revoked[p] \subseteq coll[p] /\ known[p] \subseteq crashed
  /\ \A k \in DOMAIN plan, r \in Rounds : agreed[k][r] \subseteq Contributed(k, r)

(* All members of a new communicator give it the same context id and       *)
(* epoch, whoever has failed or been told of a failure in between          *)
(* (ompi_comm_nextcid).                                                    *)
SameId ==
  \A k \in DOMAIN plan : \A p, q \in plan[k].on :
    id[p][k] # NoId /\ id[q][k] # NoId => id[p][k] = id[q][k]

(* A communicator is revoked at a process only if MPI_Comm_revoke was      *)
(* called on it: a revoke for an older communicator with the same context  *)
(* id is recognised by its epoch, also when the older one was given up by  *)
(* some of its members and never known to others.                          *)
RevokedOnRequest ==
  \A p \in Procs : \A k \in revoked[p] : <<k, Group(k, p)>> \in asked

(* A revoke is not lost at a member that has the communicator, be it one   *)
(* that still waits in the activation: it is revoked there, or the message *)
(* is on its way.  The barrier of ompi_comm_activate is what makes this    *)
(* so: before it a message would find no communicator and be dropped.      *)
RevokeNotLost ==
  \A of \in asked : \A q \in of[2] \ crashed :
    (\E c \in Cids : slot[q][c] = of[1] /\ Id(q, of[1])[1] = c)
      => of[1] \in revoked[q] \/ \E m \in msgs : m.to = q /\ m.of = of

(* Outside a creation the table holds the communicators of the user, each  *)
(* at its context id, and nothing else: what was reserved has been given   *)
(* back on every path, and no slot in use was overwritten.                 *)
TableClean ==
  \A p \in Procs : call[p] = Idle =>
    \A c \in Cids, k \in 0..Len(plan) :
      slot[p][c] = k <=> k \in have[p] /\ Id(p, k)[1] = c

(* A creation needs at most two reductions, however different the tables   *)
(* of the members are.                                                     *)
TwoReductions == \A p \in Procs : call[p].round <= 2

(* A communicator that has a member known to have failed does not allow    *)
(* collectives (errhandler_rte.c: "Communicator State: Let them know about *)
(* the failure.").                                                         *)
AwareOfFailures ==
  \A p \in Procs : \A k \in have[p] :
    Group(k, p) \cap known[p] # {} => k \in coll[p]
=============================================================================
