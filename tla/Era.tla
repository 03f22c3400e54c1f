-------------------------------- MODULE Era --------------------------------
(***************************************************************************)
(* The early returning agreement (ERA) of one communicator                 *)
(* (ompi/mca/coll/ftbasic/coll_ftbasic_agreement_earlyreturning.c).        *)
(*                                                                         *)
(* Contributions are combined upwards along the tree of EraTopology (UP),  *)
(* the root decides and the decision is broadcast downwards (DOWN).  A     *)
(* process that becomes root in the middle of the broadcast asks those     *)
(* below it whether the decision got through (RESULT_REQUEST).  Decisions  *)
(* are kept to answer latecomers, until an agreement finds out that all    *)
(* its participants have them.                                             *)
(*                                                                         *)
(* A process is a record and a handler a function on this record; one step *)
(* is one handler, as the progress engine runs them one at a time.  The    *)
(* contribution of p is a bit mask in which bit p alone is cleared, so     *)
(* that the bits set in a decision name the contributions it misses.       *)
(***************************************************************************)
EXTENDS EraTopology, Sequences, TLC

CONSTANTS
  K,             \* agreements per process at most (well below the 2^16 ids)
  MaxCrashes,    \* crashes at most
  Caller,        \* "agree": MPIX_Comm_agree, "shrink": the loop of comm_shrink
  Deferred,      \* a blocking agreement returns only when the progress pass ends
  Rebuild,       \* MCA parameter era_rebuild
  DtCount,       \* number of values agreed on: 1, or 0 in MPI_Finalize
  Survive,       \* messages in flight may survive the crash of their sender
  LateDelivery   \* ... and arrive after its failure was notified

ASSUME EraAssumption ==
  /\ K \in Nat \ {0} /\ MaxCrashes \in Nat /\ DtCount \in {0, 1}
  /\ Caller \in {"agree", "shrink"}
  /\ {Deferred, Rebuild, Survive, LateDelivery} \subseteq BOOLEAN

VARIABLES
  crashed,    \* the processes that have crashed
  proc,       \* the state of every process
  chan        \* chan[q][p]: the messages from q to p, in order

vars == <<crashed, proc, chan>>

Ids == 1..K
Success == 0
ProcFailed == 1      \* MPI_ERR_PROC_FAILED; larger than MPI_SUCCESS

-----------------------------------------------------------------------------
(* Values: the combined bytes, the return code, the newly discovered dead  *)
(* and the range of the agreements that may be collected.                  *)
Identity == [flag |-> Procs, ret |-> Success, dead |-> {}, min |-> 0, max |-> K + 1]

Larger(x, y) == IF x > y THEN x ELSE y
Smaller(x, y) == IF x < y THEN x ELSE y

Combine(v, w) ==
  [flag |-> v.flag \cap w.flag,
   ret  |-> Larger(v.ret, w.ret),
   dead |-> v.dead \cup w.dead,
   min  |-> Larger(v.min, w.min),
   max  |-> Smaller(v.max, w.max)]

(* The contiguous range of passed agreements from the smallest one on.     *)
GcRange(passed) ==
  IF passed = {} THEN [min |-> K + 1, max |-> 0]
  ELSE LET low == Least(passed)
       IN  [min |-> low, max |-> Greatest({m \in passed : low..m \subseteq passed})]

NewInfo ==
  [status |-> "not_contributed", value |-> Identity, acked |-> {}, gathered |-> {},
   waiting |-> {}, early |-> {}, downFrom |-> NP, own |-> FALSE]

Boot ==
  [known |-> {}, afr |-> {}, base |-> {}, rooted |-> FALSE, dirty |-> TRUE,
   acked |-> {}, ra |-> {}, seq |-> 0,
   ci |-> <<>>, passed |-> <<>>, result |-> <<>>, out |-> [q \in Procs |-> <<>>]]

Without(f, S) == [x \in DOMAIN f \ S |-> f[x]]

-----------------------------------------------------------------------------
(* Messages.  The value that goes with a RESULT_REQUEST serves only to     *)
(* tell whether there is anything to agree on, which is DtCount here.      *)
Up(a, c) == [type |-> "up", id |-> a, value |-> c.value, acked |-> c.acked]
Down(a, v) == [type |-> "down", id |-> a, value |-> v, acked |-> {}]
ResultRequest(a) == [type |-> "request", id |-> a, value |-> Identity, acked |-> {}]

Send(s, D, m) ==
  [s EXCEPT !.out = [q \in Procs |-> IF q \in D THEN Append(s.out[q], m) ELSE s.out[q]]]

(* The tree as p keeps it (see EraTree): a process learns that it is the   *)
(* root, and gets the children that come with it, in era_parent.           *)
Parent(p, s) == TreeParent(s.base, s.known, p)
AskParent(p, s) == [s EXCEPT !.rooted = @ \/ Parent(p, s) = p]
Children(p, s) ==
  IF s.rooted THEN TreeChildren(s.base, s.known, p) ELSE OwnChildren(s.base, s.known, p)

-----------------------------------------------------------------------------
(* era_update_return_value: for the group A acknowledged by a contributor  *)
(* (an empty group is no group at all), and before passing on.             *)
UpdateReturn(c, A) ==
  IF c.value.ret = ProcFailed THEN c
  ELSE IF c.acked = {} THEN [c EXCEPT !.acked = A]
  ELSE IF c.acked = A THEN c
  ELSE [c EXCEPT !.value.ret = ProcFailed, !.acked = {}]

FinalReturn(c, known) ==
  IF c.value.ret = ProcFailed \/ Cardinality(known) <= Cardinality(c.acked) THEN c
  ELSE [c EXCEPT !.value.ret = ProcFailed, !.acked = {}]

(* Deliberate fault: the entry of the agreement is left in the table.      *)
CompleteKeeps(a, s) ==
  [s EXCEPT !.result = Append(@, s.passed[a]),
            !.known = @ \cup s.afr,
            !.dirty = @ \/ ~(s.afr \subseteq s.known)]

(* complete_agreement: the failures agreed on become known.                *)
Complete(a, s) ==
  [s EXCEPT !.ci = Without(@, {a}),
            !.result = Append(@, s.passed[a]),
            !.known = @ \cup s.afr,
            !.dirty = @ \/ ~(s.afr \subseteq s.known)]

(* Deliberate fault: the failures known locally count as agreed on.        *)
DecideLocal(p, a, v, own, s) ==
  IF s.ci[a].status = "completed" THEN s
  ELSE LET t == [s EXCEPT !.ci[a].status = "completed",
                          !.ci[a].own = own,
                          !.passed = Without((a :> v) @@ @, v.min..v.max),
                          !.afr = @ \cup v.dead \cup s.known]
           u == Send(t, Children(p, s) \cup s.ci[a].early, Down(a, v))
       IN  IF Deferred THEN u ELSE Complete(a, u)

(* era_decide.  The root's decision is the very object it has combined:    *)
(* own records that the two are one.  An iagree request completes at once. *)
Decide(p, a, v, own, s) ==
  IF s.ci[a].status = "completed" THEN s
  ELSE LET t == [s EXCEPT !.ci[a].status = "completed",
                          !.ci[a].own = own,
                          !.passed = Without((a :> v) @@ @, v.min..v.max),
                          !.afr = @ \cup v.dead]
           u == Send(t, Children(p, s) \cup s.ci[a].early, Down(a, v))
       IN  IF Deferred THEN u ELSE Complete(a, u)

(* Deliberate fault: the children that have not contributed are not waited *)
(* for.                                                                    *)
CheckStatusHasty(p, a, s) ==
  LET t == AskParent(p, s)
      c == FinalReturn(s.ci[a], s.known)
      u == [t EXCEPT !.ci[a] = c]
      r == Parent(p, s)
  IN  IF s.ci[a].status # "gathering" THEN s
      ELSE IF r = p THEN Decide(p, a, c.value, TRUE, u)
      ELSE Send([u EXCEPT !.ci[a].status = "broadcasting", !.ci[a].downFrom = r],
                {r}, Up(a, c))

(* Deliberate fault: the children are looked up before the parent, hence   *)
(* without those that come with becoming the root.                         *)
CheckStatusStale(p, a, s) ==
  IF ~(Children(p, s) \subseteq s.ci[a].gathered) THEN AskParent(p, s)
  ELSE CheckStatusHasty(p, a, s)

(* era_check_status: pass up, or decide, when all children contributed.    *)
CheckStatus(p, a, s) ==
  LET t == AskParent(p, s)
      c == FinalReturn(s.ci[a], s.known)
      u == [t EXCEPT !.ci[a] = c]
      r == Parent(p, s)
  IN  IF s.ci[a].status # "gathering" THEN s
      ELSE IF ~(Children(p, t) \subseteq c.gathered) THEN t
      ELSE IF r = p THEN Decide(p, a, c.value, TRUE, u)
      ELSE Send([u EXCEPT !.ci[a].status = "broadcasting", !.ci[a].downFrom = r],
                {r}, Up(a, c))

(* Deliberate fault: the new root takes it that everyone below has sent    *)
(* its contribution and that nobody has the decision.                      *)
RestartAlone(p, a, s) ==
  CheckStatus(p, a, [s EXCEPT !.ci[a].status = "gathering",
                              !.ci[a].gathered = @ \cup Children(p, s)])

(* restart_agreement_from_me: p has become the root while it was waiting   *)
(* for the decision.                                                       *)
Restart(p, a, s) ==
  LET kids == Children(p, s)
      t == [s EXCEPT !.ci[a].status = "gathering", !.ci[a].waiting = @ \cup kids]
  IN  CheckStatus(p, a, Send(t, kids, ResultRequest(a)))

-----------------------------------------------------------------------------
(* The message handlers, at p, for a message m from q.                     *)
OnResultRequest(p, q, m, s) ==
  LET t == AskParent(p, s)
      r == Parent(p, s)
  IN  IF m.id \in DOMAIN s.passed THEN Send(s, {q}, Down(m.id, s.passed[m.id]))
      ELSE IF m.id \in DOMAIN s.ci /\ s.ci[m.id].status = "broadcasting" THEN
        IF r = p THEN t
        ELSE Send([t EXCEPT !.ci[m.id].downFrom = r], {r}, Up(m.id, s.ci[m.id]))
      ELSE IF DtCount = 0 THEN
        Send(s, {q}, Down(m.id, [Identity EXCEPT !.min = K + 1, !.max = 0]))
      ELSE s

(* Deliberate fault: a contribution that comes after the decision is not   *)
(* answered.                                                               *)
OnUpSilent(p, q, m, s) ==
  LET c == IF m.id \in DOMAIN s.ci THEN s.ci[m.id] ELSE NewInfo
      d == UpdateReturn([c EXCEPT !.value = Combine(@, m.value)], m.acked)
      With(info) == [s EXCEPT !.ci = (m.id :> info) @@ @]
  IN  IF m.id \in DOMAIN s.passed THEN s
      ELSE IF c.status = "broadcasting" THEN With([c EXCEPT !.early = @ \cup {q}])
      ELSE IF q \in c.gathered THEN CheckStatus(p, m.id, s)
      ELSE CheckStatus(p, m.id, With([d EXCEPT !.gathered = @ \cup {q}]))

OnUp(p, q, m, s) ==
  LET c == IF m.id \in DOMAIN s.ci THEN s.ci[m.id] ELSE NewInfo
      d == UpdateReturn([c EXCEPT !.value = Combine(@, m.value)], m.acked)
      With(info) == [s EXCEPT !.ci = (m.id :> info) @@ @]
  IN  IF m.id \in DOMAIN s.passed THEN Send(s, {q}, Down(m.id, s.passed[m.id]))
      ELSE IF c.status = "broadcasting" THEN With([c EXCEPT !.early = @ \cup {q}])
      ELSE IF q \in c.gathered THEN CheckStatus(p, m.id, s)
      ELSE CheckStatus(p, m.id, With([d EXCEPT !.gathered = @ \cup {q}]))

OnDown(p, q, m, s) ==
  IF m.id \in DOMAIN s.ci THEN Decide(p, m.id, m.value, FALSE, s) ELSE s

Handle(p, q, m, s) ==
  CASE m.type = "up" -> OnUp(p, q, m, s)
    [] m.type = "down" -> OnDown(p, q, m, s)
    [] m.type = "request" -> OnResultRequest(p, q, m, s)

(* era_mark_process_failed, for the agreement a that p has entered.  The   *)
(* failure is not acknowledged, whence the error; if p is the root and has *)
(* decided, this reaches into the decision.                                *)
MarkFailed(p, q, a, s) ==
  LET c == [s.ci[a] EXCEPT !.value.ret = ProcFailed]
      t == [s EXCEPT !.ci[a] = c]
      u == AskParent(p, t)
      r == Parent(p, t)
      asked == Children(p, t) \ (c.waiting \ {q})
      v == [t EXCEPT !.ci[a].waiting = (@ \ {q}) \cup asked]
  IN  CASE c.status = "completed" ->
             IF c.own /\ a \in DOMAIN s.passed THEN [t EXCEPT !.passed[a].ret = ProcFailed]
             ELSE t
        [] c.status = "broadcasting" ->
             IF q # c.downFrom THEN t
             ELSE IF r = p THEN Restart(p, a, u)
             ELSE Send([u EXCEPT !.ci[a].downFrom = r], {r}, Up(a, c))
        [] c.status = "gathering" ->
             CheckStatus(p, a, IF q \in c.waiting THEN Send(v, asked, ResultRequest(a)) ELSE t)

(* Deliberate fault: the tree is built without all known failures, not     *)
(* only without those agreed on.                                           *)
PrepareLocal(p, A, s) ==
  LET a == s.seq + 1
      c == UpdateReturn(IF a \in DOMAIN s.ci THEN s.ci[a] ELSE NewInfo, A)
      range == GcRange(DOMAIN s.passed)
      mine == [flag |-> Procs \ {p}, ret |-> Success,
               dead |-> IF s.dirty THEN s.known \ s.afr ELSE {},
               min |-> range.min, max |-> range.max]
      t == [s EXCEPT !.seq = a, !.acked = A, !.dirty = FALSE,
                     !.base = s.known, !.rooted = FALSE,
                     !.ci = (a :> [c EXCEPT !.value = Combine(@, mine),
                                            !.status = "gathering"]) @@ @]
      u == CheckStatus(p, a, t)
  IN  IF a \in DOMAIN u.ci /\ u.ci[a].status = "completed" THEN Complete(a, u) ELSE u

(* prepare_agreement with the acknowledged group A.  The ranks of the      *)
(* group are cached and looked up again when its size changes.             *)
Prepare(p, A, s) ==
  LET a == s.seq + 1
      ra == IF A # {} /\ Cardinality(A) # Cardinality(s.ra) THEN A ELSE s.ra
      c == UpdateReturn(IF a \in DOMAIN s.ci THEN s.ci[a] ELSE NewInfo,
                        IF A = {} THEN {} ELSE ra)
      rebuild == Rebuild /\ s.afr # s.base
      range == GcRange(DOMAIN s.passed)
      mine == [flag |-> Procs \ {p}, ret |-> Success,
               dead |-> IF s.dirty THEN s.known \ s.afr ELSE {},
               min |-> range.min, max |-> range.max]
      t == [s EXCEPT !.seq = a, !.acked = A, !.ra = ra, !.dirty = FALSE,
                     !.base = IF rebuild THEN s.afr ELSE @,
                     !.rooted = @ /\ ~rebuild,
                     !.ci = (a :> [c EXCEPT !.value = Combine(@, mine),
                                            !.status = "gathering"]) @@ @]
      u == CheckStatus(p, a, t)
  IN  IF a \in DOMAIN u.ci /\ u.ci[a].status = "completed" THEN Complete(a, u) ELSE u

-----------------------------------------------------------------------------
Init ==
  /\ crashed = {}
  /\ proc = [p \in Procs |-> Boot]
  /\ chan = [q \in Procs |-> [p \in Procs |-> <<>>]]

Living == Procs \ crashed

(* p's handler leaves p in state s; what it sent is put in the channels,   *)
(* except to the dead.  rest is what remains in the channels to p.         *)
Step(p, s, rest) ==
  /\ proc' = [proc EXCEPT ![p] = [s EXCEPT !.out = Boot.out]]
  /\ chan' = [q \in Procs |->
                IF q # p THEN [chan[q] EXCEPT ![p] = rest[q]]
                ELSE [r \in Procs |-> IF r \in crashed THEN <<>> ELSE chan[p][r] \o s.out[r]]]
  /\ UNCHANGED crashed

Inbox(p) == [q \in Procs |-> chan[q][p]]

(* Whether the process has entered an agreement and not returned from it.  *)
Idle(s) == Len(s.result) = s.seq
Engaged(s) == ~Idle(s)

(* The acknowledged groups p may pass.  MPIX_Comm_agree passes what the    *)
(* application acknowledged, here all it knew at some time before.         *)
(* comm_shrink passes an empty group first, then the agreed failures,      *)
(* until the agreement succeeds.                                           *)
Groups(s) ==
  CASE Caller = "agree" -> {s.acked, s.known}
    [] Caller = "shrink" /\ s.seq = 0 -> {{}}
    [] Caller = "shrink" /\ s.seq # 0 ->
         IF s.result[s.seq].ret = ProcFailed THEN {s.afr} ELSE {}

CanEnter(p) ==
  /\ p \in Living /\ Idle(proc[p])
  /\ proc[p].seq < K /\ Groups(proc[p]) # {}

Enter(p) ==
  /\ CanEnter(p)
  /\ \E A \in Groups(proc[p]) : Step(p, Prepare(p, A, proc[p]), Inbox(p))

CanReceive(p, q) == p \in Living /\ chan[q][p] # <<>>

Receive(p, q) ==
  /\ CanReceive(p, q)
  /\ Step(p, Handle(p, q, Head(chan[q][p]), proc[p]),
             [Inbox(p) EXCEPT ![q] = Tail(@)])

(* A blocking agreement returns when the progress engine does.             *)
CanReturn(p) ==
  /\ p \in Living /\ Engaged(proc[p])
  /\ proc[p].ci[proc[p].seq].status = "completed"

Return(p) ==
  /\ CanReturn(p)
  /\ Step(p, Complete(proc[p].seq, proc[p]), Inbox(p))

(* The runtime notifies p of the failure of q: era_on_comm_rank_failure.   *)
(* Agreements that p has not entered are not concerned.                    *)
CanDetect(p, q) ==
  /\ p \in Living /\ q \in crashed \ proc[p].known
  /\ LateDelivery \/ chan[q][p] = <<>>

(* Deliberate fault: the failure is not put on the list to be reported.    *)
DetectForgets(p, q) ==
  /\ CanDetect(p, q)
  /\ LET s == [proc[p] EXCEPT !.known = @ \cup {q}]
     IN  Step(p, IF Engaged(s) THEN MarkFailed(p, q, s.seq, s) ELSE s, Inbox(p))

Detect(p, q) ==
  /\ CanDetect(p, q)
  /\ LET s == [proc[p] EXCEPT !.known = @ \cup {q}, !.dirty = TRUE]
     IN  Step(p, IF Engaged(s) THEN MarkFailed(p, q, s.seq, s) ELSE s, Inbox(p))

(* A process crashes.  Of what it sent an arbitrary initial part, per      *)
(* receiver, still arrives.                                                *)
Crash(q) ==
  /\ q \in Living
  /\ Cardinality(crashed) < MaxCrashes
  /\ \E kept \in [Procs -> 0..Greatest({Len(chan[q][p]) : p \in Procs})] :
       /\ \A p \in Procs : kept[p] <= IF Survive THEN Len(chan[q][p]) ELSE 0
       /\ chan' = [r \in Procs |-> [p \in Procs |->
                     IF p = q THEN <<>>
                     ELSE IF r = q THEN SubSeq(chan[q][p], 1, kept[p])
                     ELSE chan[r][p]]]
  /\ crashed' = crashed \cup {q}
  /\ proc' = [proc EXCEPT ![q] = Boot]

Progress ==
  \/ \E p \in Procs : Enter(p) \/ Return(p)
  \/ \E p, q \in Procs : Receive(p, q) \/ Detect(p, q)

Next == Progress \/ \E p \in Procs : Crash(p)

Spec == Init /\ [][Next]_vars
-----------------------------------------------------------------------------
Statuses == {"not_contributed", "gathering", "broadcasting", "completed"}

Values == [flag : SUBSET Procs, ret : {Success, ProcFailed}, dead : SUBSET Procs,
           min : 0..(K + 1), max : 0..(K + 1)]

(* The hash tables hold well-formed entries; the agreement a process has   *)
(* entered is ongoing; no other one has a contribution of its own.         *)
TypeOK ==
  /\ crashed \subseteq Procs
  /\ \A p \in Procs :
       LET s == proc[p]
       IN  /\ s.known \cup s.afr \subseteq Procs \ {p}
           /\ s.seq \in 0..K /\ Len(s.result) \in {s.seq, s.seq - 1}
           /\ DOMAIN s.passed \subseteq 1..s.seq
           /\ \A a \in DOMAIN s.passed : s.passed[a] \in Values
           /\ \A a \in DOMAIN s.ci :
                /\ s.ci[a].status \in Statuses /\ s.ci[a].value \in Values
                /\ s.ci[a].status # "not_contributed" <=> (Engaged(s) /\ a = s.seq)
           /\ Engaged(s) => s.seq \in DOMAIN s.ci

(* The assertion of msg_down: a process is told the decision only of an    *)
(* agreement it has contributed to.                                        *)
ToldWhatItJoined ==
  \A p \in Living, q \in Procs : \A i \in 1..Len(chan[q][p]) :
    LET m == chan[q][p][i]
    IN  m.type = "down" /\ m.id \in DOMAIN proc[p].ci
          => proc[p].ci[m.id].status # "not_contributed"

(* The decision is the same for all living processes: what is agreed on    *)
(* and the newly discovered failures ...                                   *)
SameValue ==
  \A p, q \in Living : \A a \in DOMAIN proc[p].result \cap DOMAIN proc[q].result :
    LET v == proc[p].result[a]
        w == proc[q].result[a]
    IN  v.flag = w.flag /\ v.dead = w.dead

(* ... and the return code, on which comm_shrink relies to leave its loop. *)
SameReturn ==
  \A p, q \in Living : \A a \in DOMAIN proc[p].result \cap DOMAIN proc[q].result :
    proc[p].result[a].ret = proc[q].result[a].ret

(* A decision counts the contribution of every process that is alive, of   *)
(* those that had to change parents and of those that were late.           *)
EveryoneCounted ==
  \A p, q \in Living : \A a \in DOMAIN proc[p].result : q \notin proc[p].result[a].flag

(* Two processes in the same agreement climb trees built from the same     *)
(* failures: otherwise two of them could be root.                          *)
SameTree ==
  \A p, q \in Living :
    /\ proc[p].base \subseteq crashed
    /\ Engaged(proc[p]) /\ Engaged(proc[q]) /\ proc[p].seq = proc[q].seq
         => proc[p].base = proc[q].base

(* An agreement that succeeds has found that the participants acknowledged *)
(* the same failures (era_update_return_value).                            *)
SameAcknowledged ==
  \A p, q \in Living :
    /\ proc[p].seq = proc[q].seq
    /\ Idle(proc[p]) /\ Idle(proc[q])
    /\ proc[p].seq # 0 /\ proc[p].result[proc[p].seq].ret = Success
    => proc[p].acked = proc[q].acked

(* When all messages are delivered and all failures known, and nobody has  *)
(* to enter any more, then nobody is left waiting for a decision: a new    *)
(* root got all contributions or the lost decision (restart_agreement).    *)
NobodyLeft ==
  (/\ \A p, q \in Procs : chan[p][q] = <<>>
   /\ \A p \in Living :
        /\ crashed \subseteq proc[p].known
        /\ Idle(proc[p]) => (proc[p].seq = K \/ Groups(proc[p]) = {}))
  => \A p \in Living : Idle(proc[p]) \/ proc[p].ci[proc[p].seq].status = "completed"

-----------------------------------------------------------------------------
(* comm_shrink: the processes that have left the loop.                     *)
Left(s) == s.seq # 0 /\ Idle(s) /\ s.result[s.seq].ret = Success

(* They leave it after the same agreement and with the same failed group,  *)
(* from which each of them builds the group of the new communicator.       *)
SameGroup ==
  \A p, q \in Living :
    Left(proc[p]) /\ Left(proc[q]) =>
      proc[p].seq = proc[q].seq /\ proc[p].afr = proc[q].afr

(* A failure costs comm_shrink at most two more agreements: one that it    *)
(* disturbs and one that reports it.                                       *)
RoundsBounded == \A p \in Living : proc[p].seq <= 2 * Cardinality(crashed) + 1

(* Weak fairness of Progress, with the condition under which it is enabled *)
(* written out: a process in the loop calls the agreement again, the       *)
(* progress engine delivers what has arrived, and the runtime notifies of  *)
(* every failure.                                                          *)
Pending ==
  \/ \E p \in Procs : CanEnter(p) \/ CanReturn(p)
  \/ \E p, q \in Procs : CanReceive(p, q) \/ CanDetect(p, q)

FairSpec == Spec /\ ([]<>(~Pending) \/ []<><<Progress>>_vars)

(* Everyone who lives leaves the loop of comm_shrink.                      *)
EveryoneLeaves == <>[](\A p \in Living : Left(proc[p]))

-----------------------------------------------------------------------------
(* Era implements Agreement: an outcome is what a process got from the     *)
(* call, its set bits being the contributions that are missing.            *)
Outcome(v) == [missing |-> v.flag, dead |-> v.dead, ret |-> v.ret]

Promise == INSTANCE Agreement WITH
  entered  <- [p \in Procs |-> proc[p].seq],
  returned <- [p \in Procs |-> [a \in DOMAIN proc[p].result |-> Outcome(proc[p].result[a])]]

Implements == Promise!Spec
=============================================================================
