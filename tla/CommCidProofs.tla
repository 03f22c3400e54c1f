--------------------------- MODULE CommCidProofs ----------------------------
(***************************************************************************)
(* SameId of CommCid, for every number of processes, communicators and     *)
(* reductions: the members of a new communicator agree on its id.          *)
(*                                                                         *)
(* A process contributes to a reduction once and an agreement is reached   *)
(* once, so what a reduction gives is settled as soon as it gives          *)
(* anything.  Whoever is in reduction r has seen the reductions before it  *)
(* fail, and they stay failed; so two processes take the id of the same    *)
(* reduction, the first that did not fail.                                 *)
(*                                                                         *)
(* The first part says what each step does to the reductions of a          *)
(* creation.                                                               *)
(***************************************************************************)
EXTENDS CommCid, WellFoundedInduction, TLAPS

(* The reductions that look for an id; round 0 is that of the activation.  *)
Reductions == Rounds \ {0}

Plans ==
  [parent : Nat, on : SUBSET Procs, ft : BOOLEAN, group : [Procs -> SUBSET Procs]]
Calls ==
  [comm : Nat, phase : {"user", "reduce", "activate"}, round : Rounds, doomed : BOOLEAN]

(* The types of the variables that a reduction depends on.  What is        *)
(* contributed, and what an id is, does not matter.                        *)
Types ==
  /\ plan \in Seq(Plans) /\ Len(plan) <= MaxComms
  /\ call \in [Procs -> Calls]
  /\ done \in [Procs -> Nat]
  /\ have \in [Procs -> SUBSET Nat]
  /\ agreed \in [Created -> [Rounds -> SUBSET Procs]]
Tables ==
  /\ \E S : given \in [Created -> [Rounds -> [Procs -> S]]]
  /\ \E S : id \in [Procs -> [Created -> S]]

(* A process is in at most one creation, one that it has not returned      *)
(* from.                                                                   *)
Flow ==
  \A p \in Procs :
    /\ done[p] <= Len(plan) /\ have[p] \subseteq 0..Len(plan)
    /\ call[p].phase = "user" => call[p] = Idle
    /\ call[p].phase # "user" => call[p].comm \in DOMAIN plan /\ call[p].comm > done[p]
    /\ call[p].phase = "reduce" => call[p].round # 0

(* p enters reduction r of creation k, which may be a new one.             *)
Planned ==
  /\ plan' \in Seq(Plans) /\ Len(plan') <= MaxComms
  /\ Len(plan) <= Len(plan') /\ \A k \in DOMAIN plan : plan'[k] = plan[k]
Gives(k, r, p, v) == given' = [given EXCEPT ![k][r][p] = v]
OneGiven(k, r, p) ==
  /\ \E S : given' \in [Created -> [Rounds -> [Procs -> S]]]
  /\ \A i \in Created, x \in Rounds, q \in Procs :
       i # k \/ x # r \/ q # p => given'[i][x][q] = given[i][x][q]
Reserving(p, k, r) ==
  /\ call' \in [Procs -> Calls] /\ \A q \in Procs \ {p} : call'[q] = call[q]
  /\ call'[p].comm = k /\ call'[p].phase = "reduce" /\ call'[p].round = r
  /\ OneGiven(k, r, p)
Offering(p, k, r) ==
  /\ k \in DOMAIN plan' /\ k > done[p]
  /\ \/ call[p] = Idle /\ r = 1
     \/ /\ call[p].phase = "reduce" /\ k = call[p].comm /\ r = call[p].round + 1
        /\ Inputs(k, call[p].round) # {} /\ NextCid(k, call[p].round) = 0
  /\ Planned /\ Reserving(p, k, r)
  /\ UNCHANGED <<done, have, id, agreed>>

(* p takes the id that reduction r of creation k gives, and enters the     *)
(* reduction of the activation.                                            *)
Taking(p, k, r, c) ==
  /\ call[p].phase = "reduce" /\ k = call[p].comm /\ r = call[p].round
  /\ Inputs(k, r) # {} /\ c = NextCid(k, r) /\ c # 0
  /\ call' \in [Procs -> Calls] /\ \A q \in Procs \ {p} : call'[q] = call[q]
  /\ call'[p].comm = k /\ call'[p].phase = "activate"
  /\ \E S : given' \in [Created -> [Rounds -> [Procs -> S]]]
  /\ \A i \in Created, x \in Reductions, q \in Procs : given'[i][x][q] = given[i][x][q]
  /\ \E S : id' \in [Procs -> [Created -> S]]
  /\ id'[p][k] = <<c, NextEpoch(k, r, c) + 1>>
  /\ \A q \in Procs, i \in Created : q # p \/ i # k => id'[q][i] = id[q][i]
  /\ UNCHANGED <<plan, done, have, agreed>>

(* p returns from creation k.                                              *)
Leaving(p, k) ==
  /\ k \in DOMAIN plan /\ k > done[p] /\ (call[p] = Idle \/ k = call[p].comm)
  /\ call' \in [Procs -> Calls] /\ done' \in [Procs -> Nat] /\ have' \in [Procs -> SUBSET Nat]
  /\ \A q \in Procs \ {p} : call'[q] = call[q] /\ done'[q] = done[q]
  /\ call'[p] = Idle /\ done'[p] = k
  /\ \A q \in Procs : have'[q] \subseteq have[q] \cup {k}
  /\ UNCHANGED <<plan, id, given, agreed>>

(* An agreement is reached.                                                *)
Agreeing(k, r) ==
  /\ k \in DOMAIN plan
  /\ agreed' \in [Created -> [Rounds -> SUBSET Procs]]
  /\ agreed[k][r] = {} /\ agreed'[k][r] \subseteq Contributed(k, r)
  /\ \A i \in Created, x \in Rounds : i # k \/ x # r => agreed'[i][x] = agreed[i][x]
  /\ UNCHANGED <<plan, call, done, have, id, given>>

(* The other steps.                                                        *)
Quiet ==
  /\ have' \in [Procs -> SUBSET Nat] /\ \A q \in Procs : have'[q] \subseteq have[q]
  /\ UNCHANGED <<plan, call, done, id, given, agreed>>

-----------------------------------------------------------------------------
(* Facts about the constants.                                              *)
LEMMA Numbers ==
  /\ Created \in SUBSET (Nat \ {0}) /\ Rounds \in SUBSET Nat /\ 0 \in Rounds
  /\ 1 \in Reductions /\ Reductions \subseteq Rounds
<1>1. MaxComms \in Nat /\ MaxRounds \in Nat \ {0}
  BY CommCidAssumption
<1> QED BY <1>1 DEF Created, Rounds, Reductions

(* A set of numbers has a least one, which Min finds.                      *)
LEMMA LeastNat ==
  ASSUME NEW S \in SUBSET Nat, S # {}
  PROVE  Min(S) \in S
<1>1. PICK x \in S : \A y \in S : ~(<<y, x>> \in OpToRel(<, Nat))
  BY NatLessThanWellFounded, WFMin, Zenon
<1>2. \A y \in S : ~(y < x)
  BY <1>1, Zenon DEF OpToRel
<1>3. \A y \in S : x <= y
  BY <1>2
<1> QED BY <1>3, Zenon DEF Min

(* The creations are numbered from 1.                                      *)
LEMMA PlanFacts ==
  ASSUME Types
  PROVE  /\ Len(plan) \in Nat /\ DOMAIN plan = 1..Len(plan) /\ DOMAIN plan \subseteq Created
         /\ \A k \in DOMAIN plan : plan[k] \in Plans
<1>1. MaxComms \in Nat
  BY CommCidAssumption
<1>2. plan \in Seq(Plans) /\ Len(plan) <= MaxComms
  BY DEF Types
<1> QED BY <1>1, <1>2 DEF Created

(* One contribution is written.                                            *)
LEMMA GivenExcept ==
  ASSUME Tables, NEW k \in Created, NEW r \in Rounds, NEW p \in Procs, NEW v,
         Gives(k, r, p, v)
  PROVE  OneGiven(k, r, p)
<1>1. PICK S : given \in [Created -> [Rounds -> [Procs -> S]]]
  BY Zenon DEF Tables
<1>2. given' \in [Created -> [Rounds -> [Procs -> S \cup {v}]]]
  BY <1>1 DEF Gives
<1>3. \A i \in Created, x \in Rounds, q \in Procs :
        i # k \/ x # r \/ q # p => given'[i][x][q] = given[i][x][q]
  BY <1>1 DEF Gives
<1> QED BY <1>2, <1>3, Zenon DEF OneGiven

(* A process reserves slots and contributes them.                          *)
LEMMA ReserveStep ==
  ASSUME Types, Tables, NEW p \in Procs, NEW k \in Created, NEW j, NEW ft \in BOOLEAN,
         NEW r \in Rounds, NEW t, NEW start, Reserve(p, k, j, ft, r, t, start)
  PROVE  Reserving(p, k, r)
<1> DEFINE w == Waiting(p, k, j, ft, "reduce", r)
           o == Offer(t, epoch[p], start)
<1>1. call' = [call EXCEPT ![p] = w] /\ given' = [given EXCEPT ![k][r][p] = o]
  BY DEF Reserve
<1>2. w \in Calls /\ w.comm = k /\ w.phase = "reduce" /\ w.round = r
  <2>1. (~ft /\ j \in coll[p]) \in BOOLEAN /\ k \in Nat
    BY Numbers
  <2> QED BY <2>1 DEF Waiting, Calls
<1> HIDE DEF w, o
<1>3. call \in [Procs -> Calls]
  BY DEF Types
<1>4. /\ call' \in [Procs -> Calls] /\ \A q \in Procs \ {p} : call'[q] = call[q]
      /\ call'[p].comm = k /\ call'[p].phase = "reduce" /\ call'[p].round = r
  BY <1>1, <1>2, <1>3
<1>5. Gives(k, r, p, o)
  BY <1>1, Zenon DEF Gives
<1>6. OneGiven(k, r, p)
  BY <1>5, GivenExcept, Zenon
<1> QED BY <1>4, <1>6, Zenon DEF Reserving

(* The group of a communicator that a process has.                         *)
LEMMA GroupType ==
  ASSUME Types, Flow, NEW p \in Procs, NEW j \in have[p]
  PROVE  j \in Nat /\ Group(j, p) \in SUBSET Procs
<1>1. j \in 0..Len(plan) /\ Len(plan) \in Nat
  BY PlanFacts DEF Flow
<1>2. CASE j = 0
  BY <1>2 DEF Group
<1>3. CASE j # 0
  <2>1. j \in DOMAIN plan
    BY <1>1, <1>3, PlanFacts
  <2>2. plan[j] \in Plans
    BY <2>1, PlanFacts
  <2> QED BY <1>1, <1>3, <2>2 DEF Group, Plans
<1> QED BY <1>2, <1>3

(* A creation is called for the first time.                                *)
LEMMA PlanAppended ==
  ASSUME Types, NEW rec \in Plans, Len(plan) < MaxComms, plan' = Append(plan, rec)
  PROVE  Planned /\ Len(plan) + 1 \in DOMAIN plan' /\ Len(plan) + 1 \in Created
<1>1. MaxComms \in Nat /\ plan \in Seq(Plans)
  BY CommCidAssumption DEF Types
<1>2. /\ plan' \in Seq(Plans) /\ Len(plan') = Len(plan) + 1 /\ Len(plan) \in Nat
      /\ DOMAIN plan = 1..Len(plan) /\ DOMAIN plan' = 1..(Len(plan) + 1)
      /\ \A k \in 1..Len(plan) : plan'[k] = plan[k]
  BY <1>1
<1> QED BY <1>1, <1>2 DEF Planned, Created

(* The first call of a creation, of a communicator like rec.               *)
LEMMA FirstOffers ==
  ASSUME Types, Tables, Flow, NEW p \in Procs, NEW rec \in Plans, NEW j, NEW ft \in BOOLEAN,
         call[p] = Idle, Len(plan) < MaxComms, plan' = Append(plan, rec),
         Enter(p, Len(plan) + 1, j, ft), UNCHANGED <<done, have, id, agreed>>
  PROVE  \E k \in Created : Offering(p, k, 1)
<1>1. PICK k : k = Len(plan) + 1
  OBVIOUS
<1>2. Planned /\ k \in DOMAIN plan' /\ k \in Created
  BY <1>1, PlanAppended
<1>3. k > done[p]
  <2>1. done[p] \in Nat /\ done[p] <= Len(plan)
    BY DEF Types, Flow
  <2> QED BY <1>1, <2>1, PlanFacts
<1>4. Reserving(p, k, 1)
  <2>1. Reserve(p, k, j, ft, 1, slot[p], HighestTaken(slot[p]) + 1)
    BY <1>1 DEF Enter
  <2> QED BY <1>2, <2>1, Numbers, ReserveStep, Zenon
<1> QED BY <1>2, <1>3, <1>4, Zenon DEF Offering

(* MPI_Comm_dup and MPI_Comm_split.                                        *)
LEMMA CreateOffers ==
  ASSUME Types, Tables, Flow, NEW p \in Procs, Create(p)
  PROVE  \E k \in Created : Offering(p, k, 1)
<1>1. PICK j \in have[p], col \in Colours :
        /\ InUserCode(p) /\ Len(plan) < MaxComms
        /\ plan' = Append(plan,
             [parent |-> j, on |-> Group(j, p), ft |-> FALSE,
              group |-> [q \in Procs |-> {r \in Group(j, p) : col[r] = col[q]}]])
        /\ Enter(p, Len(plan) + 1, j, FALSE)
        /\ UNCHANGED <<done, have, id, agreed>>
  BY Zenon DEF Create
<1>2. PICK G \in SUBSET Procs : G = Group(j, p) /\ j \in Nat
  BY GroupType
<1>3. PICK rec \in Plans :
        rec = [parent |-> j, on |-> G, ft |-> FALSE,
               group |-> [q \in Procs |-> {r \in G : col[r] = col[q]}]]
  BY <1>2, Zenon DEF Plans
<1>4. plan' = Append(plan, rec) /\ call[p] = Idle
  BY <1>1, <1>2, <1>3 DEF InUserCode
<1> QED BY <1>1, <1>4, FirstOffers, Zenon

(* MPI_Comm_shrink.                                                        *)
LEMMA ShrinkOffers ==
  ASSUME Types, Tables, Flow, NEW p \in Procs, Shrink(p)
  PROVE  \E k \in Created : Offering(p, k, 1)
<1>1. PICK j \in have[p] :
        /\ InUserCode(p) /\ Len(plan) < MaxComms
        /\ plan' = Append(plan,
             [parent |-> j, on |-> Group(j, p), ft |-> TRUE,
              group |-> [q \in Procs |-> Group(j, p) \ crashed]])
        /\ Enter(p, Len(plan) + 1, j, TRUE)
        /\ UNCHANGED <<done, have, id, agreed>>
  BY Zenon DEF Shrink
<1>2. PICK G \in SUBSET Procs : G = Group(j, p) /\ j \in Nat
  BY GroupType
<1>3. PICK rec \in Plans :
        rec = [parent |-> j, on |-> G, ft |-> TRUE, group |-> [q \in Procs |-> G \ crashed]]
  BY <1>2, Zenon DEF Plans
<1>4. plan' = Append(plan, rec) /\ call[p] = Idle
  BY <1>1, <1>2, <1>3 DEF InUserCode
<1> QED BY <1>1, <1>4, FirstOffers, Zenon

(* The first creation that p has not yet entered.                          *)
LEMMA PendingFirst ==
  ASSUME Types, NEW p \in Procs, Pending(p) # {}, NEW k, k = Min(Pending(p))
  PROVE  /\ k \in DOMAIN plan /\ k \in Created /\ k > done[p]
         /\ plan[k] \in Plans
<1>1. Pending(p) \in SUBSET Nat /\ Pending(p) \subseteq DOMAIN plan
  BY PlanFacts DEF Pending
<1>2. k \in Pending(p)
  BY <1>1, LeastNat
<1> QED BY <1>1, <1>2, PlanFacts, Zenon DEF Pending

(* The other members call the creation.                                    *)
LEMMA JoinOffers ==
  ASSUME Types, Tables, Flow, NEW p \in Procs, Join(p)
  PROVE  \E k \in Created : Offering(p, k, 1)
<1>1. PICK k : k = Min(Pending(p))
  OBVIOUS
<1>2. /\ call[p] = Idle /\ Pending(p) # {} /\ Enter(p, k, plan[k].parent, plan[k].ft)
      /\ UNCHANGED <<plan, done, have, id, agreed>>
  BY <1>1, Zenon DEF Join
<1>3. k \in DOMAIN plan /\ k \in Created /\ k > done[p] /\ plan[k] \in Plans
  BY <1>1, <1>2, PendingFirst
<1>4. Planned
  BY <1>2, PlanFacts DEF Types, Planned
<1>5. Reserving(p, k, 1)
  <2>1. plan[k].ft \in BOOLEAN
    BY <1>3 DEF Plans
  <2>2. Reserve(p, k, plan[k].parent, plan[k].ft, 1, slot[p], HighestTaken(slot[p]) + 1)
    BY <1>2, Zenon DEF Enter
  <2> QED BY <1>3, <2>1, <2>2, Numbers, ReserveStep, Zenon
<1> QED BY <1>2, <1>3, <1>4, <1>5, Zenon DEF Offering

(* The creation that a process is in.                                      *)
LEMMA InCall ==
  ASSUME Types, Flow, NEW p \in Procs, call[p].phase # "user"
  PROVE  /\ call[p].comm \in DOMAIN plan /\ call[p].comm \in Created
         /\ call[p].comm > done[p] /\ call[p].round \in Rounds
         /\ plan[call[p].comm] \in Plans
<1>1. call[p].comm \in DOMAIN plan /\ call[p].comm > done[p]
  BY DEF Flow
<1>2. call[p].round \in Rounds
  BY DEF Types, Calls
<1> QED BY <1>1, <1>2, PlanFacts

(* Another reduction, when there was no id in common.                      *)
LEMMA RetryOffers ==
  ASSUME Types, Tables, Flow, NEW p \in Procs, Retry(p)
  PROVE  \E k \in Created, r \in Reductions : Offering(p, k, r)
<1>1. PICK k, r : k = call[p].comm /\ r = call[p].round
  OBVIOUS
<1>2. /\ call[p].phase = "reduce" /\ Inputs(k, r) # {} /\ NextCid(k, r) = 0 /\ r < MaxRounds
      /\ Reserve(p, k, plan[k].parent, plan[k].ft, r + 1, Release(slot[p], Mine(p)), NextStart(k, r))
      /\ UNCHANGED <<plan, done, have, id, agreed>>
  BY <1>1, Zenon DEF Retry, Reducing
<1>3. k \in DOMAIN plan /\ k \in Created /\ k > done[p] /\ r \in Rounds /\ plan[k] \in Plans
  BY <1>1, <1>2, InCall
<1>4. r + 1 \in Rounds /\ r + 1 \in Reductions
  BY <1>2, <1>3, CommCidAssumption DEF Rounds, Reductions
<1>5. Planned
  BY <1>2, PlanFacts DEF Types, Planned
<1>6. Reserving(p, k, r + 1)
  <2>1. plan[k].ft \in BOOLEAN
    BY <1>3 DEF Plans
  <2> QED BY <1>2, <1>3, <1>4, <2>1, ReserveStep, Zenon
<1>7. Offering(p, k, r + 1)
  BY <1>1, <1>2, <1>3, <1>5, <1>6, Zenon DEF Offering
<1> QED BY <1>3, <1>4, <1>7

(* The id is found.                                                        *)
LEMMA TakeTakes ==
  ASSUME Types, Tables, Flow, NEW p \in Procs, Take(p)
  PROVE  \E k \in Created, r \in Reductions : \E c : Taking(p, k, r, c)
<1>1. PICK k, r, c, v : /\ k = call[p].comm /\ r = call[p].round /\ c = NextCid(k, r)
                        /\ v = <<c, NextEpoch(k, r, c) + 1>>
  BY Zenon
<1>2. PICK w, o : /\ w = Waiting(p, k, plan[k].parent, plan[k].ft, "activate", 0)
                  /\ o = [last |-> MaxCid, epochs |-> <<>>]
  BY Zenon
<1>3. /\ call[p].phase = "reduce" /\ Inputs(k, r) # {} /\ c # 0
      /\ id' = [id EXCEPT ![p][k] = v]
      /\ call' = [call EXCEPT ![p] = w] /\ given' = [given EXCEPT ![k][0][p] = o]
      /\ UNCHANGED <<plan, done, have, agreed>>
  BY <1>1, <1>2, Zenon DEF Take, Reducing
<1>4. k \in DOMAIN plan /\ k \in Created /\ r \in Reductions /\ plan[k] \in Plans
  BY <1>1, <1>3, InCall DEF Flow, Reductions
<1>5. w \in Calls /\ w.comm = k /\ w.phase = "activate"
  <2>1. plan[k].ft \in BOOLEAN /\ k \in Nat /\ 0 \in Rounds
    BY <1>4, Numbers DEF Plans
  <2>2. (~plan[k].ft /\ plan[k].parent \in coll[p]) \in BOOLEAN
    OBVIOUS
  <2> QED BY <1>2, <2>1, <2>2 DEF Waiting, Calls
<1>6. /\ call' \in [Procs -> Calls] /\ \A q \in Procs \ {p} : call'[q] = call[q]
      /\ call'[p].comm = k /\ call'[p].phase = "activate"
  BY <1>3, <1>5 DEF Types
<1>7. OneGiven(k, 0, p)
  <2>1. Gives(k, 0, p, o)
    BY <1>3, Zenon DEF Gives
  <2> QED BY <1>4, <2>1, Numbers, GivenExcept, Zenon
<1>8. /\ \E S : given' \in [Created -> [Rounds -> [Procs -> S]]]
      /\ \A i \in Created, x \in Reductions, q \in Procs : given'[i][x][q] = given[i][x][q]
  BY <1>7, Zenon DEF Reductions, OneGiven
<1>9. PICK S : id \in [Procs -> [Created -> S]]
  BY Zenon DEF Tables
<1>10. /\ id' \in [Procs -> [Created -> S \cup {v}]] /\ id'[p][k] = v
       /\ \A q \in Procs, i \in Created : q # p \/ i # k => id'[q][i] = id[q][i]
  BY <1>3, <1>4, <1>9
<1>11. \E T : id' \in [Procs -> [Created -> T]]
  BY <1>10, Zenon
<1>12. Taking(p, k, r, c)
  BY <1>1, <1>3, <1>6, <1>8, <1>10, <1>11, Zenon DEF Taking
<1> QED BY <1>4, <1>12, Zenon

(* A process returns from a creation, with the communicators h.            *)
LEMMA Return ==
  ASSUME Types, NEW p \in Procs, NEW k \in DOMAIN plan, NEW h \in SUBSET Nat,
         k > done[p], call[p] = Idle \/ k = call[p].comm,
         call' = [call EXCEPT ![p] = Idle], done' = [done EXCEPT ![p] = k],
         have' = [have EXCEPT ![p] = h], h \subseteq have[p] \cup {k},
         UNCHANGED <<plan, id, given, agreed>>
  PROVE  Leaving(p, k)
<1>1. k \in Nat /\ Idle \in Calls
  BY Numbers, PlanFacts DEF Calls, Idle
<1>2. /\ call' \in [Procs -> Calls] /\ call'[p] = Idle
      /\ \A q \in Procs \ {p} : call'[q] = call[q]
  BY <1>1 DEF Types
<1>3. /\ done' \in [Procs -> Nat] /\ done'[p] = k
      /\ \A q \in Procs \ {p} : done'[q] = done[q]
  BY <1>1 DEF Types
<1>4. have' \in [Procs -> SUBSET Nat] /\ \A q \in Procs : have'[q] \subseteq have[q] \cup {k}
  BY Zenon DEF Types
<1> QED BY <1>2, <1>3, <1>4, Zenon DEF Leaving

(* A call that is refused returns at once.                                 *)
LEMMA RefuseLeaves ==
  ASSUME Types, NEW p \in Procs, Refuse(p)
  PROVE  \E k \in Created : Leaving(p, k)
<1>1. PICK k : k = Min(Pending(p))
  BY Zenon
<1>2. /\ call[p] = Idle /\ Pending(p) # {} /\ done' = [done EXCEPT ![p] = k]
      /\ UNCHANGED <<plan, call, have, id, given, agreed>>
  BY <1>1, Zenon DEF Refuse
<1>3. k \in DOMAIN plan /\ k \in Created /\ k > done[p]
  BY <1>1, <1>2, PendingFirst, Zenon
<1>4. /\ call' = [call EXCEPT ![p] = Idle] /\ have' = [have EXCEPT ![p] = have[p]]
      /\ have[p] \in SUBSET Nat
  BY <1>2 DEF Types
<1>5. have[p] \subseteq have[p] \cup {k}
  OBVIOUS
<1>6. Leaving(p, k)
  BY <1>2, <1>3, <1>4, <1>5, Return, Zenon
<1> QED BY <1>3, <1>6, Zenon

(* A creation ends, with or without its communicator.                      *)
LEMMA EndLeaves ==
  ASSUME Types, Flow, NEW p \in Procs, GiveUp(p) \/ Activate(p) \/ Abandon(p)
  PROVE  \E k \in Created : Leaving(p, k)
<1>1. PICK k : k = call[p].comm
  BY Zenon
<1>2. /\ call[p].phase # "user"
      /\ call' = [call EXCEPT ![p] = Idle] /\ done' = [done EXCEPT ![p] = k]
      /\ UNCHANGED <<plan, id, given, agreed>>
  <2>1. CASE GiveUp(p)
    BY <1>1, <2>1 DEF GiveUp, Reducing
  <2>2. CASE Activate(p)
    BY <1>1, <2>2 DEF Activate, Activating
  <2>3. CASE Abandon(p)
    BY <1>1, <2>3 DEF Abandon, Activating
  <2> QED BY <2>1, <2>2, <2>3
<1>3. k \in DOMAIN plan /\ k \in Created /\ k > done[p] /\ k \in Nat
  BY <1>1, <1>2, InCall, Numbers, Zenon
<1>4. \E h \in SUBSET Nat : have' = [have EXCEPT ![p] = h] /\ h \subseteq have[p] \cup {k}
  <2>1. have[p] \in SUBSET Nat /\ have = [have EXCEPT ![p] = have[p]]
    BY DEF Types
  <2>2. CASE Activate(p)
    <3>1. have' = [have EXCEPT ![p] = have[p] \cup {k}]
      BY <1>1, <2>2, Zenon DEF Activate
    <3>2. have[p] \cup {k} \in SUBSET Nat
      BY <1>3, <2>1
    <3> QED BY <3>1, <3>2, Zenon
  <2>3. CASE GiveUp(p) \/ Abandon(p)
    <3>1. have' = have
      BY <2>3 DEF GiveUp, Abandon
    <3> QED BY <2>1, <3>1
  <2> QED BY <2>2, <2>3
<1>5. Leaving(p, k)
  BY <1>1, <1>2, <1>3, <1>4, Return, Zenon
<1> QED BY <1>3, <1>5, Zenon

(* An agreement counts members that have contributed.                      *)
LEMMA AgreeAgrees ==
  ASSUME Types, NEW k \in Created, NEW r \in Rounds, Agree(k, r)
  PROVE  Agreeing(k, r)
<1>1. PICK s \in SUBSET Contributed(k, r) : agreed' = [agreed EXCEPT ![k][r] = s]
  BY Zenon DEF Agree
<1>2. /\ k \in DOMAIN plan /\ agreed[k][r] = {}
      /\ UNCHANGED <<plan, call, done, have, id, given>>
  BY Zenon DEF Agree
<1>3. s \subseteq Procs
  <2>1. plan[k].on \subseteq Procs
    BY <1>2, PlanFacts DEF Plans
  <2> QED BY <2>1 DEF Contributed
<1>4. agreed \in [Created -> [Rounds -> SUBSET Procs]]
  BY DEF Types
<1> HIDE DEF Contributed
<1>5. /\ agreed' \in [Created -> [Rounds -> SUBSET Procs]] /\ agreed'[k][r] = s
      /\ \A i \in Created, x \in Rounds : i # k \/ x # r => agreed'[i][x] = agreed[i][x]
  BY <1>1, <1>3, <1>4
<1> QED BY <1>1, <1>2, <1>5, Zenon DEF Agreeing

(* The other steps touch neither the reductions nor the ids.               *)
LEMMA QuietSteps ==
  ASSUME Types, NEW p \in Procs,
         Free(p) \/ Revoke(p) \/ Deliver(p) \/ Crash(p) \/ Notify(p)
  PROVE  Quiet
<1>1. have \in [Procs -> SUBSET Nat]
  BY DEF Types
<1>2. CASE Free(p)
  <2>1. PICK k : have' = [have EXCEPT ![p] = @ \ {k}]
    BY <1>2, Zenon DEF Free
  <2>2. UNCHANGED <<plan, call, done, id, given, agreed>>
    BY <1>2, Zenon DEF Free
  <2>3. have' \in [Procs -> SUBSET Nat] /\ \A q \in Procs : have'[q] \subseteq have[q]
    BY <1>1, <2>1
  <2> QED BY <2>2, <2>3, Zenon DEF Quiet
<1>3. CASE Revoke(p) \/ Deliver(p) \/ Crash(p) \/ Notify(p)
  <2>1. UNCHANGED <<plan, creation>>
    BY <1>3, Zenon DEF Revoke, Deliver, Crash, Notify
  <2>2. UNCHANGED <<plan, call, done, have, id, given, agreed>>
    BY <2>1 DEF creation
  <2> QED BY <1>1, <2>2 DEF Quiet
<1> QED BY <1>2, <1>3

(* Every step is one of these.                                             *)
LEMMA Steps ==
  ASSUME Types, Tables, Flow, Next
  PROVE  \/ \E p \in Procs, k \in Created, r \in Reductions : Offering(p, k, r)
         \/ \E p \in Procs, k \in Created, r \in Reductions : \E c : Taking(p, k, r, c)
         \/ \E p \in Procs, k \in Created : Leaving(p, k)
         \/ \E k \in Created, r \in Rounds : Agreeing(k, r)
         \/ Quiet
<1>1. CASE \E k \in Created, r \in Rounds : Agree(k, r)
  BY <1>1, AgreeAgrees, Zenon
<1>2. ASSUME NEW p \in Procs, Step(p)
      PROVE  \/ \E k \in Created, r \in Reductions : Offering(p, k, r)
             \/ \E k \in Created, r \in Reductions : \E c : Taking(p, k, r, c)
             \/ \E k \in Created : Leaving(p, k)
             \/ Quiet
  <2>1. 1 \in Reductions
    BY Numbers
  <2>2. CASE Create(p)
    BY <2>1, <2>2, CreateOffers, Zenon
  <2>3. CASE Shrink(p)
    BY <2>1, <2>3, ShrinkOffers, Zenon
  <2>4. CASE Join(p)
    BY <2>1, <2>4, JoinOffers, Zenon
  <2>5. CASE Retry(p)
    BY <2>5, RetryOffers, Zenon
  <2>6. CASE Take(p)
    BY <2>6, TakeTakes, Zenon
  <2>7. CASE Refuse(p)
    BY <2>7, RefuseLeaves, Zenon
  <2>8. CASE GiveUp(p) \/ Activate(p) \/ Abandon(p)
    BY <2>8, EndLeaves, Zenon
  <2>9. CASE Free(p) \/ Revoke(p) \/ Deliver(p) \/ Crash(p) \/ Notify(p)
    BY <2>9, QuietSteps, Zenon
  <2> QED BY <1>2, <2>2, <2>3, <2>4, <2>5, <2>6, <2>7, <2>8, <2>9, Zenon DEF Step
<1> QED BY <1>1, <1>2, Zenon DEF Next

-----------------------------------------------------------------------------
(* p has been in reduction r of creation k.                                *)
Been(p, k, r) ==
  \/ k <= done[p]
  \/ k = call[p].comm /\ call[p].phase = "activate"
  \/ k = call[p].comm /\ call[p].phase = "reduce" /\ r <= call[p].round

(* Contributions are made in the reduction they are for.                   *)
Once ==
  \A p \in Procs, k \in Created, r \in Reductions :
    given[k][r][p] # Nothing => Been(p, k, r)

(* An agreement counts what has been contributed.                          *)
Counted ==
  \A k \in Created, r \in Reductions :
    agreed[k][r] # {} => k \in DOMAIN plan /\ agreed[k][r] \subseteq Contributed(k, r)

(* The reductions before r gave nothing, and r gives an id.                *)
Skipped(k, r) == \A x \in 1..(r - 1) : Inputs(k, x) # {} /\ NextCid(k, x) = 0
Chosen(k, r) == Skipped(k, r) /\ Inputs(k, r) # {} /\ NextCid(k, r) # 0
Result(k, r) == <<NextCid(k, r), NextEpoch(k, r, NextCid(k, r)) + 1>>

(* A process goes through the reductions in order, and takes the id of the *)
(* first that gives one.                                                   *)
OnPath(p, k) ==
  /\ \A r \in Reductions :
       call[p].phase = "reduce" /\ k = call[p].comm /\ r = call[p].round => Skipped(k, r)
  /\ id[p][k] # NoId =>
       k \in DOMAIN plan /\ \E r \in Reductions : Chosen(k, r) /\ id[p][k] = Result(k, r)
Path == \A p \in Procs, k \in Created : OnPath(p, k)

IInv == Types /\ Tables /\ Flow /\ Once /\ Counted /\ Path

-----------------------------------------------------------------------------
(* What is settled stays.                                                  *)
Keeps ==
  /\ DOMAIN plan \subseteq DOMAIN plan' /\ \A k \in DOMAIN plan : plan'[k] = plan[k]
  /\ \A k \in Created, r \in Reductions, q \in Procs :
       given[k][r][q] # Nothing => given'[k][r][q] = given[k][r][q]
  /\ \A k \in Created, r \in Reductions : agreed[k][r] # {} => agreed'[k][r] = agreed[k][r]

(* What p contributes to a reduction it has not been in before.            *)
LEMMA OfferingFirst ==
  ASSUME IInv, NEW p \in Procs, NEW k \in Created, NEW r \in Reductions, Offering(p, k, r)
  PROVE  given[k][r][p] = Nothing
<1>1. /\ k > done[p]
      /\ \/ call[p] = Idle
         \/ call[p].phase = "reduce" /\ k = call[p].comm /\ r = call[p].round + 1
  BY Zenon DEF Offering
<1>2. k \in Nat /\ k # 0 /\ r \in Nat /\ done[p] \in Nat /\ call[p].round \in Nat
  <2>1. call[p] \in Calls /\ done[p] \in Nat
    BY DEF IInv, Types
  <2> QED BY <2>1, Numbers, Zenon DEF Calls
<1>3. ~Been(p, k, r)
  BY <1>1, <1>2 DEF Been, Idle
<1> QED BY <1>3 DEF IInv, Once

(* Nothing that is settled changes in a step.                              *)
LEMMA Kept ==
  ASSUME IInv, Next
  PROVE  Keeps
<1>1. ASSUME NEW p \in Procs, NEW k \in Created, NEW r \in Reductions, Offering(p, k, r)
      PROVE  Keeps
  <2>1. Planned /\ Reserving(p, k, r) /\ agreed' = agreed
    BY <1>1, Zenon DEF Offering
  <2>2. DOMAIN plan \subseteq DOMAIN plan' /\ \A i \in DOMAIN plan : plan'[i] = plan[i]
    BY <2>1, PlanFacts DEF Planned, IInv
  <2>3. ASSUME NEW i \in Created, NEW x \in Reductions, NEW q \in Procs,
               given[i][x][q] # Nothing
        PROVE  given'[i][x][q] = given[i][x][q]
    <3>1. i # k \/ x # r \/ q # p
      BY <1>1, <2>3, OfferingFirst
    <3>2. OneGiven(k, r, p) /\ x \in Rounds
      BY <2>1, Zenon DEF Reserving, Reductions
    <3> QED BY <3>1, <3>2, Zenon DEF OneGiven
  <2> QED BY <2>1, <2>2, <2>3, Zenon DEF Keeps
<1>2. ASSUME NEW p \in Procs, NEW k \in Created, NEW r \in Reductions, NEW c, Taking(p, k, r, c)
      PROVE  Keeps
  <2>1. /\ plan' = plan /\ agreed' = agreed
        /\ \A i \in Created, x \in Reductions, q \in Procs : given'[i][x][q] = given[i][x][q]
    BY <1>2, Zenon DEF Taking
  <2> QED BY <2>1, Zenon DEF Keeps
<1>3. ASSUME NEW p \in Procs, NEW k \in Created, Leaving(p, k)
      PROVE  Keeps
  <2>1. UNCHANGED <<plan, given, agreed>>
    BY <1>3, Zenon DEF Leaving
  <2> QED BY <2>1, Zenon DEF Keeps
<1>4. ASSUME NEW k \in Created, NEW r \in Rounds, Agreeing(k, r)
      PROVE  Keeps
  <2>1. /\ UNCHANGED <<plan, given>> /\ agreed[k][r] = {}
        /\ \A i \in Created, x \in Rounds : i # k \/ x # r => agreed'[i][x] = agreed[i][x]
    BY <1>4, Zenon DEF Agreeing
  <2>2. \A i \in Created, x \in Reductions : agreed[i][x] # {} => agreed'[i][x] = agreed[i][x]
    BY <2>1, Zenon DEF Reductions
  <2> QED BY <2>1, <2>2, Zenon DEF Keeps
<1>5. CASE Quiet
  <2>1. UNCHANGED <<plan, given, agreed>>
    BY <1>5, Zenon DEF Quiet
  <2> QED BY <2>1, Zenon DEF Keeps
<1>6. Types /\ Tables /\ Flow
  BY Zenon DEF IInv
<1> QED BY <1>1, <1>2, <1>3, <1>4, <1>5, <1>6, Steps, Zenon

(* A reduction that gives something has been contributed to.               *)
LEMMA InputsCounted ==
  ASSUME Types, Counted, NEW k \in DOMAIN plan, NEW r \in Reductions
  PROVE  Inputs(k, r) \subseteq Contributed(k, r) /\ Contributed(k, r) \subseteq Procs
<1>1. plan[k] \in Plans /\ k \in Created
  BY PlanFacts
<1>2. Contributed(k, r) \subseteq plan[k].on /\ plan[k].on \subseteq Procs
  BY <1>1 DEF Contributed, Plans
<1>3. agreed[k][r] \subseteq Contributed(k, r)
  BY <1>1 DEF Counted
<1> QED BY <1>2, <1>3, Zenon DEF Inputs

(* What a reduction has given it goes on giving.                           *)
LEMMA InputsKept ==
  ASSUME IInv, Keeps, NEW k \in DOMAIN plan, NEW r \in Reductions, Inputs(k, r) # {}
  PROVE  /\ Inputs(k, r)' # {}
         /\ NextCid(k, r)' = NextCid(k, r)
         /\ \A c : NextEpoch(k, r, c)' = NextEpoch(k, r, c)
<1>0. Types /\ Counted
  BY Zenon DEF IInv
<1>1. k \in Created /\ plan[k] \in Plans /\ k \in DOMAIN plan' /\ plan'[k] = plan[k]
  BY <1>0, PlanFacts DEF Keeps
<1>2. Inputs(k, r) \subseteq Contributed(k, r) /\ Contributed(k, r) \subseteq Procs
  BY <1>0, InputsCounted, Zenon
<1>3. \A q \in Procs : given[k][r][q] # Nothing => given'[k][r][q] = given[k][r][q]
  BY <1>1, Zenon DEF Keeps
<1>4. \A q \in Inputs(k, r) : given'[k][r][q] = given[k][r][q]
  <2>1. \A q \in Contributed(k, r) : given[k][r][q] # Nothing
    BY Zenon DEF Contributed
  <2> QED BY <1>2, <1>3, <2>1, Zenon
<1>5. Inputs(k, r)' = Inputs(k, r)
  <2>1. CASE plan[k].ft
    <3>1. Inputs(k, r) = agreed[k][r] /\ Inputs(k, r)' = agreed'[k][r]
      BY <1>1, <2>1, Zenon DEF Inputs
    <3>2. agreed'[k][r] = agreed[k][r]
      BY <1>1, <3>1, Zenon DEF Keeps
    <3> QED BY <3>1, <3>2, Zenon
  <2>2. CASE ~plan[k].ft
    <3>1. Contributed(k, r) = plan[k].on /\ Inputs(k, r) = plan[k].on
      BY <2>2, Zenon DEF Inputs
    <3>2. \A q \in plan[k].on : given[k][r][q] # Nothing /\ given'[k][r][q] = given[k][r][q]
      BY <1>2, <1>3, <3>1, Zenon DEF Contributed
    <3>3. Contributed(k, r)' = plan'[k].on
      BY <1>1, <3>2, Zenon DEF Contributed
    <3>4. Inputs(k, r)' = plan'[k].on
      BY <1>1, <2>2, <3>3, Zenon DEF Inputs
    <3> QED BY <1>1, <3>1, <3>4, Zenon
  <2> QED BY <2>1, <2>2, Zenon
<1>6. Common(k, r)' = Common(k, r)
  BY <1>4, <1>5 DEF Common
<1>7. NextCid(k, r)' = NextCid(k, r)
  BY <1>6, Zenon DEF NextCid
<1>8. ASSUME NEW c
      PROVE  NextEpoch(k, r, c)' = NextEpoch(k, r, c)
  <2>1. {given[k][r][q].epochs[c] : q \in Inputs(k, r)}' = {given[k][r][q].epochs[c] : q \in Inputs(k, r)}
    BY <1>4, <1>5
  <2> QED BY <2>1, Zenon DEF NextEpoch
<1> QED BY <1>5, <1>7, <1>8, Zenon

(* Reductions that gave nothing still give nothing.                        *)
LEMMA SkippedKept ==
  ASSUME IInv, Keeps, NEW k \in DOMAIN plan, NEW r \in Rounds, Skipped(k, r)
  PROVE  Skipped(k, r)'
<1>1. \A x \in 1..(r - 1) : x \in Reductions
  BY CommCidAssumption DEF Rounds, Reductions
<1>2. ASSUME NEW x \in 1..(r - 1)
      PROVE  Inputs(k, x)' # {} /\ NextCid(k, x)' = 0
  <2>1. Inputs(k, x) # {} /\ NextCid(k, x) = 0
    BY Zenon DEF Skipped
  <2> QED BY <1>1, <2>1, InputsKept, Zenon
<1> QED BY <1>2, Zenon DEF Skipped

(* An id that was chosen is still the one to choose.                       *)
LEMMA ChosenKept ==
  ASSUME IInv, Keeps, NEW k \in DOMAIN plan, NEW r \in Reductions, Chosen(k, r)
  PROVE  Chosen(k, r)' /\ Result(k, r)' = Result(k, r)
<1>1. Skipped(k, r) /\ Inputs(k, r) # {} /\ NextCid(k, r) # 0
  BY Zenon DEF Chosen
<1>2. Skipped(k, r)'
  BY <1>1, SkippedKept, Zenon DEF Reductions
<1>3. PICK c : c = NextCid(k, r)
  BY Zenon
<1>4. Inputs(k, r)' # {} /\ NextCid(k, r)' = c /\ NextEpoch(k, r, c)' = NextEpoch(k, r, c)
  BY <1>1, <1>3, InputsKept, Zenon
<1>5. NextEpoch(k, r, NextCid(k, r))' = NextEpoch(k, r, c)'
  BY <1>4, Zenon DEF NextEpoch
<1> QED BY <1>1, <1>2, <1>3, <1>4, <1>5, Zenon DEF Chosen, Result

-----------------------------------------------------------------------------
(* The steps preserve the invariant, one conjunct at a time: the types ... *)
LEMMA TypesStep ==
  ASSUME IInv, Next
  PROVE  Types' /\ Tables'
<1>0. Types /\ Tables /\ Flow
  BY Zenon DEF IInv
<1>1. ASSUME NEW p \in Procs, NEW k \in Created, NEW r \in Reductions, Offering(p, k, r)
      PROVE  Types' /\ Tables'
  <2>1. Planned /\ Reserving(p, k, r) /\ UNCHANGED <<done, have, id, agreed>>
    BY <1>1, Zenon DEF Offering
  <2>2. call' \in [Procs -> Calls] /\ OneGiven(k, r, p)
    BY <2>1, Zenon DEF Reserving
  <2>3. Types'
    BY <1>0, <2>1, <2>2, Zenon DEF Types, Planned
  <2>4. Tables'
    BY <1>0, <2>1, <2>2, Zenon DEF Tables, OneGiven
  <2> QED BY <2>3, <2>4
<1>2. ASSUME NEW p \in Procs, NEW k \in Created, NEW r \in Reductions, NEW c, Taking(p, k, r, c)
      PROVE  Types' /\ Tables'
  <2>1. /\ call' \in [Procs -> Calls] /\ UNCHANGED <<plan, done, have, agreed>>
        /\ \E S : given' \in [Created -> [Rounds -> [Procs -> S]]]
        /\ \E S : id' \in [Procs -> [Created -> S]]
    BY <1>2, Zenon DEF Taking
  <2> QED BY <1>0, <2>1, Zenon DEF Types, Tables
<1>3. ASSUME NEW p \in Procs, NEW k \in Created, Leaving(p, k)
      PROVE  Types' /\ Tables'
  <2>1. /\ call' \in [Procs -> Calls] /\ done' \in [Procs -> Nat] /\ have' \in [Procs -> SUBSET Nat]
        /\ UNCHANGED <<plan, id, given, agreed>>
    BY <1>3, Zenon DEF Leaving
  <2> QED BY <1>0, <2>1, Zenon DEF Types, Tables
<1>4. ASSUME NEW k \in Created, NEW r \in Rounds, Agreeing(k, r)
      PROVE  Types' /\ Tables'
  <2>1. /\ agreed' \in [Created -> [Rounds -> SUBSET Procs]]
        /\ UNCHANGED <<plan, call, done, have, id, given>>
    BY <1>4, Zenon DEF Agreeing
  <2> QED BY <1>0, <2>1, Zenon DEF Types, Tables
<1>5. CASE Quiet
  BY <1>0, <1>5, Zenon DEF Types, Tables, Quiet
<1> QED BY <1>0, <1>1, <1>2, <1>3, <1>4, <1>5, Steps, Zenon

(* The part of Flow that is about one process.                             *)
Going(q) ==
  /\ done[q] <= Len(plan) /\ have[q] \subseteq 0..Len(plan)
  /\ call[q].phase = "user" => call[q] = Idle
  /\ call[q].phase # "user" => call[q].comm \in DOMAIN plan /\ call[q].comm > done[q]
  /\ call[q].phase = "reduce" => call[q].round # 0

(* No step takes a process into a creation it has returned from.           *)
LEMMA FlowStep ==
  ASSUME IInv, Next
  PROVE  Flow'
<1>0. Types /\ Tables /\ Flow
  BY Zenon DEF IInv
<1>a. \A q \in Procs : Going(q)
  BY <1>0, Zenon DEF Flow, Going
<1>b. ASSUME \A q \in Procs : Going(q)'
      PROVE  Flow'
  BY <1>b, Zenon DEF Flow, Going
<1>c. Len(plan) \in Nat /\ DOMAIN plan = 1..Len(plan)
  BY <1>0, PlanFacts, Zenon
<1>1. ASSUME NEW p \in Procs, NEW k \in Created, NEW r \in Reductions, Offering(p, k, r)
      PROVE  Flow'
  <2>1. /\ Planned /\ Reserving(p, k, r) /\ UNCHANGED <<done, have>>
        /\ k \in DOMAIN plan' /\ k > done[p]
    BY <1>1, Zenon DEF Offering
  <2>2. Len(plan') \in Nat /\ DOMAIN plan' = 1..Len(plan') /\ Len(plan) <= Len(plan')
    BY <2>1 DEF Planned
  <2>3. /\ \A q \in Procs \ {p} : call'[q] = call[q]
        /\ call'[p].comm = k /\ call'[p].phase = "reduce" /\ call'[p].round = r
    BY <2>1, Zenon DEF Reserving
  <2>4. ASSUME NEW q \in Procs
        PROVE  Going(q)'
    <3>1. done[q] \in Nat /\ done[q] <= Len(plan) /\ have[q] \subseteq 0..Len(plan)
      BY <1>0, <1>a DEF Types, Going
    <3>2. done'[q] <= Len(plan') /\ have'[q] \subseteq 0..Len(plan')
      BY <1>c, <2>1, <2>2, <3>1
    <3>3. CASE q = p
      <4>1. r # 0
        BY DEF Reductions
      <4> QED BY <2>1, <2>3, <3>2, <3>3, <4>1 DEF Going
    <3>4. CASE q # p
      <4>1. call'[q] = call[q]
        BY <2>3, <3>4, Zenon
      <4>2. DOMAIN plan \subseteq DOMAIN plan'
        BY <1>c, <2>2
      <4> QED BY <1>a, <2>1, <3>2, <4>1, <4>2, Zenon DEF Going
    <3> QED BY <3>3, <3>4
  <2> QED BY <1>b, <2>4
<1>2. ASSUME NEW p \in Procs, NEW k \in Created, NEW r \in Reductions, NEW c, Taking(p, k, r, c)
      PROVE  Flow'
  <2>1. /\ UNCHANGED <<plan, done, have>>
        /\ \A q \in Procs \ {p} : call'[q] = call[q]
        /\ call'[p].comm = k /\ call'[p].phase = "activate"
        /\ call[p].phase = "reduce" /\ k = call[p].comm
    BY <1>2, Zenon DEF Taking
  <2>2. Going(p)'
    BY <1>a, <2>1 DEF Going
  <2>3. ASSUME NEW q \in Procs \ {p}
        PROVE  Going(q)'
    BY <1>a, <2>1, Zenon DEF Going
  <2> QED BY <1>b, <2>2, <2>3
<1>3. ASSUME NEW p \in Procs, NEW k \in Created, Leaving(p, k)
      PROVE  Flow'
  <2>1. /\ plan' = plan /\ k \in DOMAIN plan
        /\ \A q \in Procs \ {p} : call'[q] = call[q] /\ done'[q] = done[q]
        /\ \A q \in Procs : have'[q] \subseteq have[q] \cup {k}
        /\ call'[p] = Idle /\ done'[p] = k
    BY <1>3, Zenon DEF Leaving
  <2>2. k \in 0..Len(plan) /\ k <= Len(plan)
    BY <1>c, <2>1
  <2>3. \A q \in Procs : have'[q] \subseteq 0..Len(plan')
    BY <1>a, <2>1, <2>2, Zenon DEF Going
  <2>4. Going(p)'
    BY <2>1, <2>2, <2>3 DEF Going, Idle
  <2>5. ASSUME NEW q \in Procs \ {p}
        PROVE  Going(q)'
    BY <1>a, <2>1, <2>3, Zenon DEF Going
  <2> QED BY <1>b, <2>4, <2>5
<1>4. ASSUME NEW k \in Created, NEW r \in Rounds, Agreeing(k, r)
      PROVE  Flow'
  <2>1. UNCHANGED <<plan, call, done, have>>
    BY <1>4, Zenon DEF Agreeing
  <2> QED BY <1>0, <2>1, Zenon DEF Flow
<1>5. CASE Quiet
  <2>1. UNCHANGED <<plan, call, done>> /\ \A q \in Procs : have'[q] \subseteq have[q]
    BY <1>5, Zenon DEF Quiet
  <2> QED BY <1>0, <2>1, Zenon DEF Flow
<1> QED BY <1>0, <1>1, <1>2, <1>3, <1>4, <1>5, Steps, Zenon

(* A process has been where it was before.                                 *)
LEMMA BeenKept ==
  ASSUME IInv, Next, NEW p \in Procs, NEW k \in Created, NEW r \in Reductions, Been(p, k, r)
  PROVE  Been(p, k, r)'
<1>0. Types /\ Tables /\ Flow
  BY Zenon DEF IInv
<1>a. k \in Nat /\ k # 0 /\ r \in Nat /\ \A q \in Procs : done[q] \in Nat /\ call[q].round \in Nat
  <2>1. \A q \in Procs : call[q] \in Calls /\ done[q] \in Nat
    BY <1>0 DEF Types
  <2>2. \A q \in Procs : call[q].round \in Rounds
    BY <2>1 DEF Calls
  <2> QED BY <2>1, <2>2, Numbers, Zenon
<1>b. ASSUME call'[p] = call[p], done'[p] = done[p]
      PROVE  Been(p, k, r)'
  <2>1. \/ k <= done[p]
        \/ k = call[p].comm /\ call[p].phase = "activate"
        \/ k = call[p].comm /\ call[p].phase = "reduce" /\ r <= call[p].round
    BY Zenon DEF Been
  <2>2. k <= done[p] => k <= done'[p]
    BY <1>b
  <2>3. r <= call[p].round => r <= call'[p].round
    BY <1>b
  <2> QED BY <1>b, <2>1, <2>2, <2>3, Zenon DEF Been
<1>1. ASSUME NEW q \in Procs, NEW i \in Created, NEW x \in Reductions, Offering(q, i, x)
      PROVE  Been(p, k, r)'
  <2>1. /\ done' = done
        /\ \/ call[q] = Idle
           \/ call[q].phase = "reduce" /\ i = call[q].comm /\ x = call[q].round + 1
        /\ Reserving(q, i, x)
    BY <1>1, Zenon DEF Offering
  <2>2. /\ \A y \in Procs \ {q} : call'[y] = call[y]
        /\ call'[q].comm = i /\ call'[q].phase = "reduce" /\ call'[q].round = x
    BY <2>1, Zenon DEF Reserving
  <2>3. CASE p # q
    BY <1>b, <2>1, <2>2, <2>3, Zenon
  <2>4. CASE p = q
    BY <1>a, <2>1, <2>2, <2>4 DEF Been, Idle
  <2> QED BY <2>3, <2>4
<1>2. ASSUME NEW q \in Procs, NEW i \in Created, NEW x \in Reductions, NEW c, Taking(q, i, x, c)
      PROVE  Been(p, k, r)'
  <2>1. /\ done' = done /\ \A y \in Procs \ {q} : call'[y] = call[y]
        /\ call'[q].comm = i /\ call'[q].phase = "activate"
        /\ call[q].phase = "reduce" /\ i = call[q].comm
    BY <1>2, Zenon DEF Taking
  <2>2. CASE p # q
    BY <1>b, <2>1, <2>2, Zenon
  <2>3. CASE p = q
    BY <2>1, <2>3 DEF Been
  <2> QED BY <2>2, <2>3
<1>3. ASSUME NEW q \in Procs, NEW i \in Created, Leaving(q, i)
      PROVE  Been(p, k, r)'
  <2>1. /\ i > done[q] /\ (call[q] = Idle \/ i = call[q].comm)
        /\ \A y \in Procs \ {q} : call'[y] = call[y] /\ done'[y] = done[y]
        /\ done'[q] = i
    BY <1>3, Zenon DEF Leaving
  <2>2. CASE p # q
    BY <1>b, <2>1, <2>2, Zenon
  <2>3. CASE p = q
    <3>1. i \in Nat
      BY Numbers
    <3> QED BY <1>a, <2>1, <2>3, <3>1 DEF Been, Idle
  <2> QED BY <2>2, <2>3
<1>4. ASSUME NEW i \in Created, NEW x \in Rounds, Agreeing(i, x)
      PROVE  Been(p, k, r)'
  BY <1>4, <1>b, Zenon DEF Agreeing
<1>5. CASE Quiet
  BY <1>5, <1>b, Zenon DEF Quiet
<1> QED BY <1>0, <1>1, <1>2, <1>3, <1>4, <1>5, Steps, Zenon

(* A contribution appears where its process is.                            *)
LEMMA OnceStep ==
  ASSUME IInv, Next
  PROVE  Once'
<1> SUFFICES ASSUME NEW p \in Procs, NEW k \in Created, NEW r \in Reductions,
                    given'[k][r][p] # Nothing
             PROVE  Been(p, k, r)'
  BY Zenon DEF Once
<1>0. Types /\ Tables /\ Flow /\ Once
  BY Zenon DEF IInv
<1>a. ASSUME given'[k][r][p] = given[k][r][p]
      PROVE  Been(p, k, r)'
  <2>1. Been(p, k, r)
    BY <1>0, <1>a, Zenon DEF Once
  <2> QED BY <2>1, BeenKept, Zenon
<1>1. ASSUME NEW q \in Procs, NEW i \in Created, NEW x \in Reductions, Offering(q, i, x)
      PROVE  Been(p, k, r)'
  <2>1. Reserving(q, i, x)
    BY <1>1, Zenon DEF Offering
  <2>2. /\ call'[q].comm = i /\ call'[q].phase = "reduce" /\ call'[q].round = x
        /\ OneGiven(i, x, q)
    BY <2>1, Zenon DEF Reserving
  <2>3. CASE k # i \/ r # x \/ p # q
    <3>1. r \in Rounds
      BY Zenon DEF Reductions
    <3>2. given'[k][r][p] = given[k][r][p]
      BY <2>2, <2>3, <3>1, Zenon DEF OneGiven
    <3> QED BY <1>a, <3>2, Zenon
  <2>4. CASE k = i /\ r = x /\ p = q
    <3>1. x <= x
      BY Numbers
    <3> QED BY <2>2, <2>4, <3>1, Zenon DEF Been
  <2> QED BY <2>3, <2>4
<1>2. ASSUME NEW q \in Procs, NEW i \in Created, NEW x \in Reductions, NEW c, Taking(q, i, x, c)
      PROVE  Been(p, k, r)'
  BY <1>2, <1>a, Zenon DEF Taking
<1>3. ASSUME NEW q \in Procs, NEW i \in Created, Leaving(q, i)
      PROVE  Been(p, k, r)'
  BY <1>3, <1>a, Zenon DEF Leaving
<1>4. ASSUME NEW i \in Created, NEW x \in Rounds, Agreeing(i, x)
      PROVE  Been(p, k, r)'
  BY <1>4, <1>a, Zenon DEF Agreeing
<1>5. CASE Quiet
  BY <1>5, <1>a, Zenon DEF Quiet
<1> QED BY <1>0, <1>1, <1>2, <1>3, <1>4, <1>5, Steps, Zenon

(* Contributions stay, so what an agreement has counted stays counted.     *)
LEMMA CountedStep ==
  ASSUME IInv, Next
  PROVE  Counted'
<1> SUFFICES ASSUME NEW k \in Created, NEW r \in Reductions, agreed'[k][r] # {}
             PROVE  k \in DOMAIN plan' /\ agreed'[k][r] \subseteq Contributed(k, r)'
  BY Zenon DEF Counted
<1>0. Types /\ Tables /\ Flow /\ Counted /\ Keeps
  BY Kept, Zenon DEF IInv
<1>1. \/ agreed'[k][r] = agreed[k][r]
      \/ k \in DOMAIN plan /\ agreed'[k][r] \subseteq Contributed(k, r)
  <2>1. ASSUME NEW i \in Created, NEW x \in Rounds, Agreeing(i, x)
        PROVE  \/ agreed'[k][r] = agreed[k][r]
               \/ k \in DOMAIN plan /\ agreed'[k][r] \subseteq Contributed(k, r)
    <3>1. r \in Rounds
      BY Zenon DEF Reductions
    <3>2. /\ i \in DOMAIN plan /\ agreed'[i][x] \subseteq Contributed(i, x)
          /\ \A j \in Created, y \in Rounds : j # i \/ y # x => agreed'[j][y] = agreed[j][y]
      BY <2>1, Zenon DEF Agreeing
    <3> QED BY <3>1, <3>2, Zenon
  <2>2. ASSUME NEW q \in Procs, NEW i \in Created, NEW x \in Reductions, Offering(q, i, x)
        PROVE  agreed' = agreed
    BY <2>2, Zenon DEF Offering
  <2>3. ASSUME NEW q \in Procs, NEW i \in Created, NEW x \in Reductions, NEW c, Taking(q, i, x, c)
        PROVE  agreed' = agreed
    BY <2>3, Zenon DEF Taking
  <2>4. ASSUME NEW q \in Procs, NEW i \in Created, Leaving(q, i)
        PROVE  agreed' = agreed
    BY <2>4, Zenon DEF Leaving
  <2>5. CASE Quiet
    BY <2>5, Zenon DEF Quiet
  <2> QED BY <1>0, <2>1, <2>2, <2>3, <2>4, <2>5, Steps, Zenon
<1>2. k \in DOMAIN plan /\ agreed'[k][r] \subseteq Contributed(k, r)
  BY <1>0, <1>1, Zenon DEF Counted
<1>3. plan[k].on \subseteq Procs /\ k \in DOMAIN plan' /\ plan'[k] = plan[k]
  <2>1. plan[k] \in Plans
    BY <1>0, <1>2, PlanFacts, Zenon
  <2> QED BY <1>0, <1>2, <2>1 DEF Keeps, Plans
<1>4. \A q \in Procs : given[k][r][q] # Nothing => given'[k][r][q] = given[k][r][q]
  BY <1>0, Zenon DEF Keeps
<1>5. Contributed(k, r) \subseteq Contributed(k, r)'
  BY <1>3, <1>4, Zenon DEF Contributed
<1> QED BY <1>2, <1>3, <1>5, Zenon

(* A process moves on after a failed reduction, and leaves with the id of  *)
(* one that gave an id.                                                    *)
LEMMA PathStep ==
  ASSUME IInv, Next
  PROVE  Path'
<1>0. Types /\ Tables /\ Flow /\ Path /\ Keeps
  BY Kept, Zenon DEF IInv
<1> SUFFICES ASSUME NEW p \in Procs, NEW k \in Created
             PROVE  OnPath(p, k)'
  BY Zenon DEF Path
<1>a. ASSUME id'[p][k] = id[p][k], id[p][k] # NoId
      PROVE  k \in DOMAIN plan' /\ \E r \in Reductions : Chosen(k, r)' /\ id'[p][k] = Result(k, r)'
  <2>1. PICK r \in Reductions : k \in DOMAIN plan /\ Chosen(k, r) /\ id[p][k] = Result(k, r)
    BY <1>0, <1>a, Zenon DEF Path, OnPath
  <2>2. Chosen(k, r)' /\ Result(k, r)' = Result(k, r)
    BY <1>0, <2>1, ChosenKept, Zenon
  <2>3. k \in DOMAIN plan'
    BY <1>0, <2>1, Zenon DEF Keeps
  <2> QED BY <1>a, <2>1, <2>2, <2>3, Zenon
<1>b. ASSUME NEW r \in Reductions, call'[p] = call[p],
             call'[p].phase = "reduce", k = call'[p].comm, r = call'[p].round
      PROVE  Skipped(k, r)'
  <2>1. k \in DOMAIN plan
    BY <1>0, <1>b, InCall
  <2>2. Skipped(k, r)
    BY <1>0, <1>b, Zenon DEF Path, OnPath
  <2> QED BY <1>0, <2>1, <2>2, SkippedKept, Zenon DEF Reductions
<1>c. ASSUME UNCHANGED <<call, id>>
      PROVE  OnPath(p, k)'
  BY <1>a, <1>b, <1>c, Zenon DEF OnPath
<1>1. ASSUME NEW q \in Procs, NEW i \in Created, NEW x \in Reductions, Offering(q, i, x)
      PROVE  OnPath(p, k)'
  <2>1. /\ id' = id /\ Reserving(q, i, x)
        /\ \/ x = 1
           \/ /\ call[q].phase = "reduce" /\ i = call[q].comm /\ x = call[q].round + 1
              /\ Inputs(i, call[q].round) # {} /\ NextCid(i, call[q].round) = 0
    BY <1>1, Zenon DEF Offering
  <2>2. /\ \A y \in Procs \ {q} : call'[y] = call[y]
        /\ call'[q].comm = i /\ call'[q].phase = "reduce" /\ call'[q].round = x
    BY <2>1, Zenon DEF Reserving
  <2>3. Skipped(i, x)'
    <3>1. CASE x = 1
      BY <3>1 DEF Skipped
    <3>2. CASE x # 1
      <4>1. PICK y : y = call[q].round
        BY Zenon
      <4>2. /\ call[q].phase = "reduce" /\ i = call[q].comm /\ x = y + 1
            /\ Inputs(i, y) # {} /\ NextCid(i, y) = 0
        BY <2>1, <3>2, <4>1, Zenon
      <4>3. y \in Reductions /\ i \in DOMAIN plan
        <5>1. call[q].round # 0
          BY <1>0, <4>2, Zenon DEF Flow
        <5> QED BY <1>0, <4>1, <4>2, <5>1, InCall DEF Reductions
      <4>4. Skipped(i, y)
        BY <1>0, <4>1, <4>2, <4>3, Zenon DEF Path, OnPath
      <4>5. Skipped(i, y)' /\ Inputs(i, y)' # {} /\ NextCid(i, y)' = 0
        <5>1. Skipped(i, y)'
          BY <1>0, <4>3, <4>4, SkippedKept, Zenon DEF Reductions
        <5> QED BY <1>0, <4>2, <4>3, <5>1, InputsKept, Zenon
      <4>6. \A z \in 1..(x - 1) : z \in 1..(y - 1) \/ z = y
        <5>1. y \in Nat /\ x = y + 1
          BY <4>2, <4>3, Numbers, Zenon
        <5> QED BY <5>1
      <4> QED BY <4>5, <4>6, Zenon DEF Skipped
    <3> QED BY <3>1, <3>2
  <2>4. CASE p = q
    BY <1>a, <2>1, <2>2, <2>3, <2>4, Zenon DEF OnPath
  <2>5. CASE p # q
    <3>1. call'[p] = call[p]
      BY <2>2, <2>5, Zenon
    <3> QED BY <1>a, <1>b, <2>1, <3>1, Zenon DEF OnPath
  <2> QED BY <2>4, <2>5
<1>2. ASSUME NEW q \in Procs, NEW i \in Created, NEW x \in Reductions, NEW c, Taking(q, i, x, c)
      PROVE  OnPath(p, k)'
  <2>1. /\ call[q].phase = "reduce" /\ i = call[q].comm /\ x = call[q].round
        /\ Inputs(i, x) # {} /\ c = NextCid(i, x) /\ c # 0
        /\ \A y \in Procs \ {q} : call'[y] = call[y]
        /\ call'[q].phase = "activate"
        /\ id'[q][i] = <<c, NextEpoch(i, x, c) + 1>>
        /\ \A y \in Procs, j \in Created : y # q \/ j # i => id'[y][j] = id[y][j]
    BY <1>2, Zenon DEF Taking
  <2>2. i \in DOMAIN plan
    BY <1>0, <2>1, InCall
  <2>3. Chosen(i, x) /\ id'[q][i] = Result(i, x)
    <3>1. Skipped(i, x)
      BY <1>0, <2>1, Zenon DEF Path, OnPath
    <3> QED BY <2>1, <3>1, Zenon DEF Chosen, Result
  <2>4. Chosen(i, x)' /\ Result(i, x)' = Result(i, x)
    BY <1>0, <2>2, <2>3, ChosenKept, Zenon
  <2>5. i \in DOMAIN plan'
    BY <1>0, <2>2, Zenon DEF Keeps
  <2>6. id'[p][k] # NoId =>
          /\ k \in DOMAIN plan'
          /\ \E r \in Reductions : Chosen(k, r)' /\ id'[p][k] = Result(k, r)'
    <3>1. CASE p = q /\ k = i
      BY <2>3, <2>4, <2>5, <3>1, Zenon
    <3>2. CASE p # q \/ k # i
      BY <1>a, <2>1, <3>2, Zenon
    <3> QED BY <3>1, <3>2
  <2>7. \A r \in Reductions :
          call'[p].phase = "reduce" /\ k = call'[p].comm /\ r = call'[p].round => Skipped(k, r)'
    <3>1. CASE p = q
      BY <2>1, <3>1
    <3>2. CASE p # q
      BY <1>b, <2>1, <3>2, Zenon
    <3> QED BY <3>1, <3>2
  <2> QED BY <2>6, <2>7, Zenon DEF OnPath
<1>3. ASSUME NEW q \in Procs, NEW i \in Created, Leaving(q, i)
      PROVE  OnPath(p, k)'
  <2>1. /\ id' = id /\ call'[q] = Idle /\ \A y \in Procs \ {q} : call'[y] = call[y]
    BY <1>3, Zenon DEF Leaving
  <2>2. Idle.phase # "reduce"
    BY DEF Idle
  <2> QED BY <1>a, <1>b, <2>1, <2>2, Zenon DEF OnPath
<1>4. ASSUME NEW i \in Created, NEW x \in Rounds, Agreeing(i, x)
      PROVE  UNCHANGED <<call, id>>
  BY <1>4, Zenon DEF Agreeing
<1>5. ASSUME Quiet
      PROVE  UNCHANGED <<call, id>>
  BY <1>5, Zenon DEF Quiet
<1> QED BY <1>0, <1>c, <1>1, <1>2, <1>3, <1>4, <1>5, Steps, Zenon

(* The invariant holds in the beginning.                                   *)
LEMMA InitIInv ==
  ASSUME Init
  PROVE  IInv
<1>1. /\ plan = <<>> /\ call = [p \in Procs |-> Idle] /\ done = [p \in Procs |-> 0]
      /\ have = [p \in Procs |-> {0}]
      /\ id = [p \in Procs |-> [k \in Created |-> NoId]]
      /\ given = [k \in Created |-> [r \in Rounds |-> [p \in Procs |-> Nothing]]]
      /\ agreed = [k \in Created |-> [r \in Rounds |-> {}]]
  BY Zenon DEF Init
<1>2. Types
  <2>1. plan \in Seq(Plans) /\ Len(plan) <= MaxComms
    BY <1>1, CommCidAssumption
  <2>2. Idle \in Calls
    BY Numbers DEF Idle, Calls
  <2> QED BY <1>1, <2>1, <2>2 DEF Types
<1>3. Tables
  <2>1. /\ given \in [Created -> [Rounds -> [Procs -> {Nothing}]]]
        /\ id \in [Procs -> [Created -> {NoId}]]
    BY <1>1
  <2> QED BY <2>1, Zenon DEF Tables
<1>4. Flow
  <2>1. Len(plan) = 0
    BY <1>1
  <2>2. \A p \in Procs : call[p] = Idle /\ done[p] = 0 /\ have[p] = {0}
    BY <1>1
  <2> QED BY <2>1, <2>2 DEF Flow, Idle
<1>5. Once
  <2>1. \A k \in Created, r \in Reductions, p \in Procs : given[k][r][p] = Nothing
    BY <1>1 DEF Reductions
  <2> QED BY <2>1, Zenon DEF Once
<1>6. Counted
  <2>1. \A k \in Created, r \in Reductions : agreed[k][r] = {}
    BY <1>1 DEF Reductions
  <2> QED BY <2>1, Zenon DEF Counted
<1>7. Path
  <2>1. \A p \in Procs, k \in Created : call[p].phase # "reduce" /\ id[p][k] = NoId
    BY <1>1 DEF Idle
  <2> QED BY <2>1, Zenon DEF Path, OnPath
<1> QED BY <1>2, <1>3, <1>4, <1>5, <1>6, <1>7, Zenon DEF IInv

(* Every step preserves it, and so does a stuttering one.                  *)
LEMMA NextIInv ==
  ASSUME IInv, Next
  PROVE  IInv'
BY TypesStep, FlowStep, OnceStep, CountedStep, PathStep, Zenon DEF IInv

(* Without a step nothing changes.                                         *)
LEMMA StutterIInv ==
  ASSUME IInv, UNCHANGED vars
  PROVE  IInv'
<1>1. UNCHANGED <<plan, call, done, have, id, given, agreed>>
  BY Zenon DEF vars, creation
<1>2. Types' /\ Tables' /\ Flow' /\ Once'
  BY <1>1, Zenon DEF IInv, Types, Tables, Flow, Once, Been
<1>3. \A k, r : Contributed(k, r)' = Contributed(k, r)
  BY <1>1, Zenon DEF Contributed
<1>4. \A k, r : Inputs(k, r)' = Inputs(k, r)
  BY <1>1, <1>3, Zenon DEF Inputs
<1>5. Counted'
  BY <1>1, <1>3, Zenon DEF IInv, Counted
<1>6. Keeps
  BY <1>1, Zenon DEF Keeps
<1>7. Path'
  <2>1. \A k, r : Common(k, r)' = Common(k, r)
    BY <1>1, <1>4, Zenon DEF Common
  <2>2. \A k, r : NextCid(k, r)' = NextCid(k, r)
    BY <2>1, Zenon DEF NextCid
  <2>3. \A k, r, c : NextEpoch(k, r, c)' = NextEpoch(k, r, c)
    BY <1>1, <1>4, Zenon DEF NextEpoch
  <2>4. \A k, r : Skipped(k, r)' <=> Skipped(k, r)
    BY <1>4, <2>2, Zenon DEF Skipped
  <2>5. \A k, r : Chosen(k, r)' <=> Chosen(k, r)
    BY <1>4, <2>2, <2>4, Zenon DEF Chosen
  <2>6. \A k, r : Result(k, r)' = Result(k, r)
    BY <2>2, <2>3, Zenon DEF Result
  <2> QED BY <1>1, <2>4, <2>5, <2>6, Zenon DEF IInv, Path, OnPath
<1> QED BY <1>2, <1>5, <1>7, Zenon DEF IInv

-----------------------------------------------------------------------------
(* Two reductions that give an id, with failures only before them, are one *)
(* and the same.                                                           *)
LEMMA FirstChosen ==
  ASSUME NEW k, NEW r \in Reductions, NEW x \in Reductions, Chosen(k, r), Chosen(k, x)
  PROVE  r = x
<1>1. r \in Nat \ {0} /\ x \in Nat \ {0}
  BY Numbers DEF Reductions
<1>2. /\ NextCid(k, r) # 0 /\ \A y \in 1..(r - 1) : NextCid(k, y) = 0
      /\ NextCid(k, x) # 0 /\ \A y \in 1..(x - 1) : NextCid(k, y) = 0
  BY Zenon DEF Chosen, Skipped
<1>3. ~(r \in 1..(x - 1)) /\ ~(x \in 1..(r - 1))
  BY <1>2, Zenon
<1> QED BY <1>1, <1>3

(* The invariant implies that ids are equal.                               *)
LEMMA IInvSameId ==
  ASSUME IInv
  PROVE  SameId
<1> SUFFICES ASSUME NEW k \in DOMAIN plan, NEW p \in plan[k].on, NEW q \in plan[k].on,
                    id[p][k] # NoId, id[q][k] # NoId
             PROVE  id[p][k] = id[q][k]
  BY Zenon DEF SameId
<1>1. k \in Created /\ p \in Procs /\ q \in Procs
  <2>1. k \in Created /\ plan[k] \in Plans
    BY PlanFacts, Zenon DEF IInv
  <2> QED BY <2>1 DEF Plans
<1>2. PICK r \in Reductions : Chosen(k, r) /\ id[p][k] = Result(k, r)
  BY <1>1, Zenon DEF IInv, Path, OnPath
<1>3. PICK x \in Reductions : Chosen(k, x) /\ id[q][k] = Result(k, x)
  BY <1>1, Zenon DEF IInv, Path, OnPath
<1>4. r = x
  BY <1>2, <1>3, FirstChosen, Zenon
<1> QED BY <1>2, <1>3, <1>4, Zenon

(* Whatever fails, is revoked or is given up in between, and however many  *)
(* reductions it takes, all members of a new communicator that get an id   *)
(* for it in ompi_comm_nextcid get the same context id and the same epoch. *)
THEOREM MembersAgreeOnId == Spec => []SameId
<1>1. Init => IInv
  BY InitIInv
<1>2. IInv /\ [Next]_vars => IInv'
  BY NextIInv, StutterIInv
<1>3. IInv => SameId
  BY IInvSameId
<1> QED BY <1>1, <1>2, <1>3, PTL DEF Spec

=============================================================================
