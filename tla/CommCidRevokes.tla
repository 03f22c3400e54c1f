--------------------------- MODULE CommCidRevokes ---------------------------
(***************************************************************************)
(* RevokedOnRequest and RevokeNotLost of CommCid, for every number of      *)
(* processes, communicators, reductions, revocations and crashes; and its  *)
(* type invariant.                                                         *)
(*                                                                         *)
(* The invariant adds two things to that of CommCidTables.  The reduction  *)
(* of the activation is a barrier: when a process has a communicator       *)
(* everybody alive has entered it in its table, so a revoke finds it       *)
(* there.  And a revoke message carries the id that its receiver has for   *)
(* the communicator it is about; ids are never used twice by a process, so *)
(* it finds that one or, when that is freed, none.                         *)
(***************************************************************************)
EXTENDS CommCidTables

(* Whoever is in the reduction of the activation has the id, and when a    *)
(* process uses the communicator everybody alive has.                      *)
Entered ==
  \A k \in Created, q \in Procs :
    given[k][0][q] # Nothing \/ q \in agreed[k][0] => id[q][k] # NoId
Activated ==
  \A q \in Procs : \A k \in have[q] \ {0} : \A p \in plan[k].on \ crashed : id[p][k] # NoId

(* Revocations, and the messages about them.                               *)
Asked ==
  \A of \in asked :
    /\ of = <<of[1], of[2]>> /\ of[1] \in 0..Len(plan) /\ of[2] \subseteq Procs
    /\ \A q \in of[2] \ crashed : Group(of[1], q) = of[2] /\ Id(q, of[1]) # NoId
Sent ==
  \A m \in msgs :
    /\ m.of \in asked /\ m.to \in m.of[2]
    /\ m.to \notin crashed => Id(m.to, m.of[1]) = <<m.cid, m.epoch>>
Revoked ==
  /\ revoked \in [Procs -> SUBSET (0..Len(plan))]
  /\ RevokedOnRequest /\ RevokeNotLost

(* The invariant.                                                          *)
Revocation == Asked /\ Sent /\ Revoked
RInv == TInv /\ Entered /\ Activated /\ Revocation

-----------------------------------------------------------------------------
(* The steps of a creation.  Ids stay once they are given, and no slot     *)
(* that is not its own gets a communicator that has its id already.        *)
Grows ==
  /\ Len(plan) <= Len(plan') /\ Len(plan') \in Nat /\ PlanKept /\ UNCHANGED faults
  /\ \A q \in Procs, i \in Created : id[q][i] # NoId => id'[q][i] = id[q][i]
  /\ \A q \in Procs, c \in Cids, j \in 0..Len(plan) :
       slot'[q][c] = j /\ Id(q, j)[1] = c /\ Id(q, j) # NoId => slot[q][c] = j

(* Such a step changes nothing about the revocations: a communicator that  *)
(* was in the table of a member, revoked or to be revoked, is the same one *)
(* after it.                                                               *)
LEMMA GrowsKeeps ==
  ASSUME RInv, Grows
  PROVE  Revocation'
<1>1. Types /\ Asked /\ Sent /\ revoked \in [Procs -> SUBSET (0..Len(plan))]
      /\ RevokedOnRequest /\ RevokeNotLost
  BY Zenon DEF RInv, TInv, IInv, Revocation, Revoked
<1>2. crashed' = crashed /\ asked' = asked /\ msgs' = msgs /\ revoked' = revoked
  BY DEF Grows, faults
<1>3. Len(plan) \in Nat /\ Len(plan') \in Nat /\ Len(plan) <= Len(plan')
  BY <1>1, PlanFacts, Zenon DEF Grows
<1>4. 0..Len(plan) \subseteq 0..Len(plan')
  BY <1>3
<1>5. ASSUME NEW j \in 0..Len(plan) PROVE j # 0 => j \in DOMAIN plan /\ j \in Created
  BY <1>1, PlanFacts
<1>6. ASSUME NEW j \in 0..Len(plan), NEW q \in Procs
      PROVE  Group(j, q)' = Group(j, q) /\ (Id(q, j) # NoId => Id(q, j)' = Id(q, j))
  <2>1. CASE j = 0
    BY <2>1 DEF Group, Id
  <2>2. CASE j # 0
    <3>1. plan'[j] = plan[j] /\ (id[q][j] # NoId => id'[q][j] = id[q][j])
      BY <1>5, <2>2, Zenon DEF Grows, PlanKept
    <3> QED BY <2>2, <3>1, Zenon DEF Group, Id
  <2> QED BY <2>1, <2>2, Zenon
<1>7. ASSUME NEW of \in asked
      PROVE  /\ of = <<of[1], of[2]>> /\ of[1] \in 0..Len(plan) /\ of[2] \subseteq Procs
             /\ \A q \in of[2] \ crashed :
                  /\ q \in Procs /\ Group(of[1], q) = of[2] /\ Id(q, of[1]) # NoId
                  /\ Group(of[1], q)' = of[2] /\ Id(q, of[1])' = Id(q, of[1])
  <2>1. /\ of = <<of[1], of[2]>> /\ of[1] \in 0..Len(plan) /\ of[2] \subseteq Procs
        /\ \A q \in of[2] \ crashed : Group(of[1], q) = of[2] /\ Id(q, of[1]) # NoId
    BY <1>1, Zenon DEF Asked
  <2> QED BY <1>6, <2>1, Zenon
<1>8. Asked'
  <2> SUFFICES ASSUME NEW of \in asked
               PROVE  /\ of = <<of[1], of[2]>> /\ of[1] \in 0..Len(plan') /\ of[2] \subseteq Procs
                      /\ \A q \in of[2] \ crashed :
                           Group(of[1], q)' = of[2] /\ Id(q, of[1])' # NoId
    BY <1>2, Zenon DEF Asked
  <2> QED BY <1>4, <1>7, Zenon
<1>9. Sent'
  <2> SUFFICES ASSUME NEW m \in msgs
               PROVE  /\ m.of \in asked /\ m.to \in m.of[2]
                      /\ m.to \notin crashed => Id(m.to, m.of[1])' = <<m.cid, m.epoch>>
    BY <1>2, Zenon DEF Sent
  <2> QED BY <1>1, <1>7, Zenon DEF Sent
<1>10. revoked' \in [Procs -> SUBSET (0..Len(plan'))]
  BY <1>1, <1>2, <1>4
<1>11. RevokedOnRequest'
  <2> SUFFICES ASSUME NEW p \in Procs, NEW k \in revoked[p]
               PROVE  <<k, Group(k, p)'>> \in asked
    BY <1>2, Zenon DEF RevokedOnRequest
  <2>1. k \in 0..Len(plan) /\ <<k, Group(k, p)>> \in asked
    BY <1>1, Zenon DEF RevokedOnRequest
  <2> QED BY <1>6, <2>1, Zenon
<1>12. RevokeNotLost'
  <2> SUFFICES ASSUME NEW of \in asked', NEW q \in of[2] \ crashed',
                      \E x \in Cids : slot'[q][x] = of[1] /\ Id(q, of[1])'[1] = x
               PROVE  of[1] \in revoked'[q] \/ \E m \in msgs' : m.to = q /\ m.of = of
    BY Zenon DEF RevokeNotLost
  <2>0. PICK c \in Cids : slot'[q][c] = of[1] /\ Id(q, of[1])'[1] = c
    BY Zenon
  <2>1. /\ q \in Procs /\ Id(q, of[1]) # NoId /\ of[1] \in 0..Len(plan)
        /\ Id(q, of[1])' = Id(q, of[1])
    BY <1>2, <1>7, Zenon
  <2>2. Id(q, of[1])[1] = c
    BY <2>0, <2>1
  <2>3. slot[q][c] = of[1]
    BY <2>0, <2>1, <2>2, Zenon DEF Grows
  <2>4. of[1] \in revoked[q] \/ \E m \in msgs : m.to = q /\ m.of = of
    BY <1>1, <1>2, <2>2, <2>3, Zenon DEF RevokeNotLost
  <2> QED BY <1>2, <2>4, Zenon
<1> QED BY <1>8, <1>9, <1>10, <1>11, <1>12, Zenon DEF Revocation, Revoked

(* Releasing slots puts nothing into any.                                  *)
LEMMA ReleaseLess ==
  ASSUME NEW t \in [Cids -> Int]
  PROVE  \A M : /\ Release(t, M) \in [Cids -> Int]
                /\ \A c \in Cids : Release(t, M)[c] \in {Null, t[c]}
<1> SUFFICES ASSUME NEW M
             PROVE  /\ Release(t, M) \in [Cids -> Int]
                    /\ \A c \in Cids : Release(t, M)[c] \in {Null, t[c]}
  BY Zenon
<1>1. /\ Release(t, M) \in [Cids -> Int]
      /\ \A c \in Cids : Release(t, M)[c] = IF c \in M THEN Null ELSE t[c]
  BY ReleaseTable
<1>2. ASSUME NEW c \in Cids PROVE Release(t, M)[c] \in {Null, t[c]}
  <2>1. CASE c \in M
    BY <1>1, <2>1, Zenon
  <2>2. CASE c \notin M
    BY <1>1, <2>2, Zenon
  <2> QED BY <2>1, <2>2, Zenon
<1> QED BY <1>1, <1>2, Zenon

(* Slots are reserved.                                                     *)
LEMMA FillingGrows ==
  ASSUME TInv, NEW p \in Procs, NEW k \in Created, NEW r \in Rounds, Filling(p, k, r)
  PROVE  Grows
<1>1. /\ Types /\ Flow /\ InTable(p) /\ SlotTypes
  BY Zenon DEF TInv, IInv, Locals
<1>2. PICK j, t : j = plan'[k].parent /\ t = Release(slot[p], Reserved(p))
  BY Zenon
<1>3. /\ call[p].phase # "activate" /\ Planned /\ j \in have[p] /\ Fills(p, k, r, j, t)
      /\ UNCHANGED <<done, have, epoch, id, agreed, faults>>
  BY <1>2, Zenon DEF Filling
<1>4. PICK M \in SUBSET Cids :
        /\ \A c \in M : t[c] = Null
        /\ slot' = [slot EXCEPT ![p] = [c \in Cids |-> IF c \in M THEN j ELSE t[c]]]
  BY <1>3, Zenon DEF Fills
<1>5. Len(plan) <= Len(plan') /\ Len(plan') \in Nat /\ PlanKept /\ faults' = faults /\ id' = id
  <2>1. plan' \in Seq(Plans)
    BY <1>3, Zenon DEF Planned
  <2> QED BY <1>3, <2>1 DEF Planned, PlanKept
<1>6. slot \in [Procs -> [Cids -> Int]] /\ slot[p] \in [Cids -> Int]
  BY <1>1, Zenon DEF SlotTypes
<1>7. PICK u : u = [c \in Cids |-> IF c \in M THEN j ELSE t[c]]
  BY Zenon
<1>8. slot'[p] = u /\ \A q \in Procs \ {p} : slot'[q] = slot[q]
  BY <1>4, <1>6, <1>7, Zenon
<1>9. \A c \in Cids : (c \in M => u[c] = j) /\ (c \notin M => u[c] = t[c])
  BY <1>7, Zenon
<1>10. \A c \in Cids : t[c] = Null \/ t[c] = slot[p][c]
  <2>1. \A S : \A c \in Cids : Release(slot[p], S)[c] \in {Null, slot[p][c]}
    BY <1>6, ReleaseLess, Zenon
  <2> QED BY <1>2, <2>1, Zenon
<1>11. Fits(id[p], t, have[p])
  <2>1. Held(p) = have[p]
    BY <1>3, Zenon DEF Held
  <2> QED BY <1>1, <1>2, <2>1, Zenon DEF InTable
<1>12. Null \notin 0..Len(plan) /\ Null \notin have[p]
  <2>1. 0..Len(plan) \subseteq Nat /\ have[p] \subseteq Nat
    BY <1>1, PlanFacts DEF Types
  <2> QED BY <2>1, CidFacts, Zenon
<1>13. ASSUME NEW q \in Procs, NEW c \in Cids, NEW i \in 0..Len(plan),
              slot'[q][c] = i, Id(q, i)[1] = c
       PROVE  slot[q][c] = i
  <2>1. CASE q # p
    BY <1>8, <1>13, <2>1, Zenon
  <2>2. CASE q = p
    <3>1. u[c] = i
      BY <1>8, <1>13, <2>2, Zenon
    <3>2. CASE c \notin M
      BY <1>9, <1>10, <1>12, <2>2, <3>1, <3>2, Zenon
    <3>3. CASE c \in M
      <4>1. i = j /\ t[c] = Null
        BY <1>4, <1>9, <3>1, <3>3, Zenon
      <4>2. Ident(id[p], i) = Id(p, i)
        BY Zenon DEF Ident, Id
      <4>3. t[Ident(id[p], i)[1]] = i
        BY <1>3, <1>11, <4>1, Zenon DEF Fits
      <4>4. t[c] = i
        BY <1>13, <2>2, <4>2, <4>3, Zenon
      <4> QED BY <1>12, <4>1, <4>4, Zenon
    <3> QED BY <3>2, <3>3, Zenon
  <2> QED BY <2>1, <2>2, Zenon
<1> QED BY <1>5, <1>13, Zenon DEF Grows

(* The id is taken.                                                        *)
LEMMA EnteringGrows ==
  ASSUME TInv, NEW p \in Procs, NEW k \in Created, NEW c, NEW e, Entering(p, k, c, e)
  PROVE  /\ Grows /\ id[p][k] = NoId /\ id'[p][k] # NoId
         /\ \A q \in Procs, i \in Created : q # p \/ i # k => id'[q][i] = id[q][i]
<1>1. Types /\ Tables /\ Flow /\ SlotTypes /\ InTable(p) /\ Dated(p)
  BY Zenon DEF TInv, IInv, Locals
<1>2. PICK t, u : t = Release(slot[p], Reserved(p)) /\ u = [t EXCEPT ![c] = k]
  BY Zenon
<1>3. /\ call[p].phase = "reduce" /\ k = call[p].comm /\ c \in Reserved(p)
      /\ slot' = [slot EXCEPT ![p] = u] /\ id' = [id EXCEPT ![p][k] = <<c, e>>]
      /\ UNCHANGED <<plan, done, have, agreed, faults>>
  BY <1>2, Zenon DEF Entering
<1>4. call[p].phase # "user" /\ call[p].phase # "activate"
  BY <1>3
<1>5. id[p][k] = NoId
  <2>1. k > done[p] /\ k \in Nat /\ done[p] \in Nat
    BY <1>1, <1>3, <1>4, InCall, Numbers, Zenon DEF Types
  <2>2. ~(k <= done[p])
    BY <2>1
  <2> QED BY <1>1, <1>4, <2>2, Zenon DEF Dated
<1>6. /\ id'[p][k] = <<c, e>>
      /\ \A q \in Procs, i \in Created : q # p \/ i # k => id'[q][i] = id[q][i]
  <2>1. PICK S : id \in [Procs -> [Created -> S]]
    BY <1>1, Zenon DEF Tables
  <2> QED BY <1>3, <2>1
<1>7. id'[p][k] # NoId
  BY <1>6 DEF NoId
<1>8. slot \in [Procs -> [Cids -> Int]] /\ slot[p] \in [Cids -> Int] /\ c \in Cids
  BY <1>1, <1>3, Zenon DEF SlotTypes, InTable
<1>9. t \in [Cids -> Int] /\ \A x \in Cids : t[x] = Null \/ t[x] = slot[p][x]
  <2>1. \A S : /\ Release(slot[p], S) \in [Cids -> Int]
                /\ \A x \in Cids : Release(slot[p], S)[x] \in {Null, slot[p][x]}
    BY <1>8, ReleaseLess, Zenon
  <2> QED BY <1>2, <2>1, Zenon
<1>10. u[c] = k /\ \A x \in Cids : x # c => u[x] = t[x]
  BY <1>2, <1>8, <1>9, Zenon
<1>11. slot'[p] = u /\ \A q \in Procs \ {p} : slot'[q] = slot[q]
  BY <1>3, <1>8, Zenon
<1>12. Null \notin 0..Len(plan)
  <2>1. 0..Len(plan) \subseteq Nat
    BY <1>1, PlanFacts
  <2> QED BY <2>1, CidFacts, Zenon
<1>13. Id(p, k) = NoId
  <2>1. k # 0
    BY Numbers, Zenon
  <2> QED BY <1>5, <2>1, Zenon DEF Id
<1>14. ASSUME NEW q \in Procs, NEW x \in Cids, NEW i \in 0..Len(plan),
              slot'[q][x] = i, Id(q, i) # NoId
       PROVE  slot[q][x] = i
  <2>1. CASE q # p
    BY <1>11, <1>14, <2>1, Zenon
  <2>2. CASE q = p
    <3>1. u[x] = i /\ i # k
      BY <1>11, <1>13, <1>14, <2>2, Zenon
    <3> QED BY <1>9, <1>10, <1>12, <2>2, <3>1, Zenon
  <2> QED BY <2>1, <2>2, Zenon
<1>15. Len(plan) <= Len(plan') /\ Len(plan') \in Nat /\ PlanKept /\ faults' = faults
  BY <1>1, <1>3, PlanFacts DEF PlanKept
<1> QED BY <1>5, <1>6, <1>7, <1>14, <1>15, Zenon DEF Grows

-----------------------------------------------------------------------------
(* p returns to the user.                                                  *)
LEMMA ReturnGrows ==
  ASSUME TInv, NEW p \in Procs,
         Refuse(p) \/ GiveUp(p) \/ Activate(p) \/ Abandon(p) \/ Free(p)
  PROVE  Grows /\ UNCHANGED <<plan, id, given, agreed, faults>>
<1>1. Types /\ SlotTypes
  BY Zenon DEF TInv, IInv
<1>2. UNCHANGED <<plan, id, given, agreed, faults>>
  <2>1. CASE Refuse(p)
    BY <2>1, Zenon DEF Refuse
  <2>2. CASE GiveUp(p)
    BY <2>2, Zenon DEF GiveUp
  <2>3. CASE Activate(p)
    BY <2>3, Zenon DEF Activate
  <2>4. CASE Abandon(p)
    BY <2>4, Zenon DEF Abandon
  <2>5. CASE Free(p)
    BY <2>5, Zenon DEF Free
  <2> QED BY <2>1, <2>2, <2>3, <2>4, <2>5, Zenon
<1>3. slot \in [Procs -> [Cids -> Int]] /\ slot[p] \in [Cids -> Int]
  BY <1>1, Zenon DEF SlotTypes
<1>4. slot' = slot \/ \E S : slot' = [slot EXCEPT ![p] = Release(slot[p], S)]
  <2>1. CASE Refuse(p)
    BY <2>1, Zenon DEF Refuse
  <2>2. CASE GiveUp(p)
    BY <2>2, Zenon DEF GiveUp
  <2>3. CASE Activate(p)
    BY <2>3, Zenon DEF Activate
  <2>4. CASE Abandon(p)
    BY <2>4, Zenon DEF Abandon
  <2>5. CASE Free(p)
    BY <2>5, Zenon DEF Free
  <2> QED BY <2>1, <2>2, <2>3, <2>4, <2>5, Zenon
<1>5. ASSUME NEW q \in Procs, NEW c \in Cids PROVE slot'[q][c] \in {Null, slot[q][c]}
  <2>1. CASE slot' = slot
    BY <2>1
  <2>2. CASE \E S : slot' = [slot EXCEPT ![p] = Release(slot[p], S)]
    <3>1. PICK S : slot' = [slot EXCEPT ![p] = Release(slot[p], S)]
      BY <2>2, Zenon
    <3>2. Release(slot[p], S)[c] \in {Null, slot[p][c]}
      BY <1>3, ReleaseLess, Zenon
    <3>3. CASE q = p
      <4>1. slot'[p] = Release(slot[p], S)
        BY <1>3, <3>1, Zenon
      <4> QED BY <3>2, <3>3, <4>1, Zenon
    <3>4. CASE q # p
      BY <1>3, <3>1, <3>4, Zenon
    <3> QED BY <3>3, <3>4, Zenon
  <2> QED BY <1>4, <2>1, <2>2, Zenon
<1>6. Null \notin 0..Len(plan)
  <2>1. 0..Len(plan) \subseteq Nat
    BY <1>1, PlanFacts
  <2> QED BY <2>1, CidFacts, Zenon
<1>7. \A q \in Procs, c \in Cids, j \in 0..Len(plan) : slot'[q][c] = j => slot[q][c] = j
  BY <1>5, <1>6, Zenon
<1>8. Len(plan) <= Len(plan') /\ Len(plan') \in Nat /\ PlanKept
  BY <1>1, <1>2, PlanFacts DEF PlanKept
<1>9. \A q \in Procs, i \in Created : id[q][i] # NoId => id'[q][i] = id[q][i]
  BY <1>2
<1>10. ASSUME NEW q \in Procs, NEW c \in Cids, NEW j \in 0..Len(plan),
              slot'[q][c] = j, Id(q, j)[1] = c, Id(q, j) # NoId
       PROVE  slot[q][c] = j
  BY <1>7, <1>10, Zenon
<1>11. UNCHANGED faults
  BY <1>2
<1>12. Grows
  BY <1>8, <1>9, <1>10, <1>11, Zenon DEF Grows
<1> QED BY <1>2, <1>12, Zenon

(* Everybody alive has the id when the activation is over.                 *)
LEMMA ActivationOver ==
  ASSUME RInv, NEW k \in DOMAIN plan, Inputs(k, 0) # {}, NEW q \in plan[k].on \ crashed
  PROVE  id[q][k] # NoId
<1>1. Types /\ Present /\ Entered
  BY Zenon DEF RInv, TInv, IInv
<1>2. k \in Created /\ plan[k] \in Plans /\ 0 \in Rounds
  BY <1>1, PlanFacts, Numbers, Zenon
<1>3. q \in Procs
  <2>1. plan[k].on \subseteq Procs
    BY <1>2 DEF Plans
  <2> QED BY <2>1, Zenon
<1>4. given[k][0][q] # Nothing \/ q \in agreed[k][0]
  <2>1. CASE plan[k].ft
    <3>1. agreed[k][0] # {}
      BY <2>1, Zenon DEF Inputs
    <3>2. plan[k].on \ crashed \subseteq agreed[k][0]
      BY <1>1, <1>2, <3>1, Zenon DEF Present
    <3> QED BY <3>2, Zenon
  <2>2. CASE ~plan[k].ft
    <3>1. Contributed(k, 0) = plan[k].on
      BY <2>2, Zenon DEF Inputs
    <3> QED BY <3>1, Zenon DEF Contributed
  <2> QED BY <2>1, <2>2, Zenon
<1> QED BY <1>1, <1>2, <1>3, <1>4, Zenon DEF Entered

(* The communicators that a process has.                                   *)
LEMMA HadCreated ==
  ASSUME TInv, NEW q \in Procs, NEW k \in have[q] \ {0}
  PROVE  k \in DOMAIN plan /\ k \in Created /\ q \in plan[k].on
<1>1. Types /\ Flow /\ InTable(q)
  BY Zenon DEF TInv, IInv, Locals
<1>2. k \in 0..Len(plan)
  BY <1>1, Zenon DEF Flow
<1>3. k \in DOMAIN plan
  BY <1>1, <1>2, PlanFacts
<1> QED BY <1>1, <1>3, PlanFacts, Zenon DEF InTable

(* A step after which no id is gone, and no process has a communicator     *)
(* that somebody alive does not know, keeps it so.                         *)
LEMMA ActivatedKept ==
  ASSUME RInv, PlanKept, crashed \subseteq crashed',
         \A q \in Procs, i \in Created : id[q][i] # NoId => id'[q][i] # NoId,
         \A q \in Procs : \A k \in have'[q] \ {0} :
            k \in have[q] \/ (k \in DOMAIN plan /\ Inputs(k, 0) # {})
  PROVE  Activated'
<1>1. Types /\ Activated /\ TInv
  BY Zenon DEF RInv, TInv, IInv
<1> SUFFICES ASSUME NEW q \in Procs, NEW k \in have'[q] \ {0}, NEW p \in plan'[k].on \ crashed'
             PROVE  id'[p][k] # NoId
  BY Zenon DEF Activated
<1>2. k \in DOMAIN plan
  BY <1>1, HadCreated, Zenon
<1>3. plan'[k] = plan[k] /\ k \in Created /\ plan[k] \in Plans
  BY <1>1, <1>2, PlanFacts, Zenon DEF PlanKept
<1>4. p \in plan[k].on \ crashed
  BY <1>3, Zenon
<1>5. p \in Procs
  <2>1. plan[k].on \subseteq Procs
    BY <1>3 DEF Plans
  <2> QED BY <1>4, <2>1, Zenon
<1>6. id[p][k] # NoId
  <2>1. CASE k \in have[q]
    BY <1>1, <1>4, <2>1, Zenon DEF Activated
  <2>2. CASE Inputs(k, 0) # {}
    BY <1>2, <1>4, <2>2, ActivationOver, Zenon
  <2> QED BY <2>1, <2>2, Zenon
<1> QED BY <1>3, <1>5, <1>6, Zenon

(* A process offers ids: it has no new communicator, and no id changes.    *)
LEMMA FillingR ==
  ASSUME RInv, NEW p \in Procs, NEW k \in Created, NEW r \in Rounds, Filling(p, k, r)
  PROVE  Entered' /\ Activated' /\ Revocation'
<1>1. TInv /\ Entered
  BY Zenon DEF RInv
<1>2. Grows
  BY <1>1, FillingGrows, Zenon
<1>3. /\ r # 0 /\ OneGiven(k, r, p) /\ id' = id /\ agreed' = agreed /\ have' = have
      /\ crashed' = crashed
  BY DEF Filling, Reserving, faults
<1>4. Entered'
  <2>1. \A i \in Created, q \in Procs : given'[i][0][q] = given[i][0][q]
    BY <1>3, Numbers, Zenon DEF OneGiven
  <2> QED BY <1>1, <1>3, <2>1, Zenon DEF Entered
<1>5. Activated'
  <2>1. PlanKept /\ crashed \subseteq crashed'
    BY <1>2, <1>3, Zenon DEF Grows
  <2> QED BY <1>3, <2>1, ActivatedKept, Zenon
<1> QED BY <1>2, <1>4, <1>5, GrowsKeeps, Zenon

(* A process takes the id, and contributes to the activation.              *)
LEMMA EnteringR ==
  ASSUME RInv, NEW p \in Procs, NEW k \in Created, NEW c, NEW e, Entering(p, k, c, e)
  PROVE  Entered' /\ Activated' /\ Revocation'
<1>1. TInv /\ Entered
  BY Zenon DEF RInv
<1>2. /\ Grows /\ id[p][k] = NoId /\ id'[p][k] # NoId
      /\ \A q \in Procs, i \in Created : q # p \/ i # k => id'[q][i] = id[q][i]
  BY <1>1, EnteringGrows, Zenon
<1>3. OneGiven(k, 0, p) /\ agreed' = agreed /\ have' = have /\ crashed' = crashed
  BY DEF Entering, faults
<1>4. Entered'
  <2> SUFFICES ASSUME NEW i \in Created, NEW q \in Procs,
                      given'[i][0][q] # Nothing \/ q \in agreed'[i][0]
               PROVE  id'[q][i] # NoId
    BY Zenon DEF Entered
  <2>1. CASE q = p /\ i = k
    BY <1>2, <2>1, Zenon
  <2>2. CASE q # p \/ i # k
    <3>1. given'[i][0][q] = given[i][0][q] /\ id'[q][i] = id[q][i]
      BY <1>2, <1>3, <2>2, Numbers, Zenon DEF OneGiven
    <3> QED BY <1>1, <1>3, <3>1, Zenon DEF Entered
  <2> QED BY <2>1, <2>2, Zenon
<1>5. Activated'
  <2>1. PlanKept /\ crashed \subseteq crashed'
    BY <1>2, <1>3, Zenon DEF Grows
  <2>2. \A q \in Procs, i \in Created : id[q][i] # NoId => id'[q][i] # NoId
    BY <1>2, Zenon
  <2> QED BY <1>3, <2>1, <2>2, ActivatedKept, Zenon
<1> QED BY <1>2, <1>4, <1>5, GrowsKeeps, Zenon

(* A process returns from a creation, or frees a communicator; only when   *)
(* the activation is over has it a communicator more.                      *)
LEMMA ReturnR ==
  ASSUME RInv, NEW p \in Procs,
         Refuse(p) \/ GiveUp(p) \/ Activate(p) \/ Abandon(p) \/ Free(p)
  PROVE  Entered' /\ Activated' /\ Revocation'
<1>1. TInv /\ Entered /\ Types /\ Flow
  BY Zenon DEF RInv, TInv, IInv
<1>2. Grows /\ UNCHANGED <<plan, id, given, agreed, faults>>
  BY <1>1, ReturnGrows, Zenon
<1>3. id' = id /\ given' = given /\ agreed' = agreed /\ crashed' = crashed
  BY <1>2 DEF faults
<1>4. Entered'
  BY <1>1, <1>3, Zenon DEF Entered
<1>5. have \in [Procs -> SUBSET Nat]
  BY <1>1, Zenon DEF Types
<1>6. \A q \in Procs : \A k \in have'[q] \ {0} :
        k \in have[q] \/ (k \in DOMAIN plan /\ Inputs(k, 0) # {})
  <2>1. CASE Refuse(p) \/ GiveUp(p) \/ Abandon(p)
    <3>1. have' = have
      BY <2>1 DEF Refuse, GiveUp, Abandon
    <3> QED BY <3>1, Zenon
  <2>2. CASE Free(p)
    <3>1. PICK k : have' = [have EXCEPT ![p] = have[p] \ {k}]
      BY <2>2, Zenon DEF Free
    <3>2. \A q \in Procs : have'[q] \subseteq have[q]
      BY <1>5, <3>1
    <3> QED BY <3>2, Zenon
  <2>3. CASE Activate(p)
    <3>1. PICK k : k = call[p].comm
      BY Zenon
    <3>2. /\ call[p].phase = "activate" /\ Inputs(k, 0) # {}
          /\ have' = [have EXCEPT ![p] = have[p] \cup {k}]
      BY <2>3, <3>1, Zenon DEF Activate, Activating
    <3>3. call[p].phase # "user"
      BY <3>2
    <3>4. k \in DOMAIN plan
      BY <1>1, <3>1, <3>3, InCall, Zenon
    <3>5. \A q \in Procs : have'[q] \subseteq have[q] \cup {k}
      BY <1>5, <3>2
    <3> QED BY <3>2, <3>4, <3>5, Zenon
  <2> QED BY <2>1, <2>2, <2>3, Zenon
<1>7. Activated'
  <2>1. PlanKept /\ crashed \subseteq crashed'
    BY <1>2, <1>3, Zenon DEF Grows
  <2> QED BY <1>3, <1>6, <2>1, ActivatedKept, Zenon
<1> QED BY <1>2, <1>4, <1>7, GrowsKeeps, Zenon

(* An agreement: it counts who contributed, and they have the id.          *)
LEMMA AgreeR ==
  ASSUME RInv, NEW k \in Created, NEW r \in Rounds, Agree(k, r)
  PROVE  Entered' /\ Activated' /\ Revocation'
<1>1. TInv /\ Entered /\ Types
  BY Zenon DEF RInv, TInv, IInv
<1>2. UNCHANGED <<plan, call, done, have, slot, epoch, id, given, faults>>
  BY Zenon DEF Agree
<1>3. /\ plan' = plan /\ slot' = slot /\ id' = id /\ given' = given /\ have' = have
      /\ crashed' = crashed /\ faults' = faults
  BY <1>2 DEF faults
<1>4. Len(plan) <= Len(plan') /\ Len(plan') \in Nat /\ PlanKept
  BY <1>1, <1>3, PlanFacts DEF PlanKept
<1>5. Grows
  BY <1>3, <1>4, Zenon DEF Grows
<1>6. Entered'
  <2>1. Agreeing(k, r)
    BY <1>1, AgreeAgrees, Zenon
  <2>2. \A i \in Created, q \in Procs :
          q \in agreed'[i][0] => q \in agreed[i][0] \/ given[i][0][q] # Nothing
    <3>1. /\ agreed'[k][r] \subseteq Contributed(k, r)
          /\ \A i \in Created, x \in Rounds : i # k \/ x # r => agreed'[i][x] = agreed[i][x]
      BY <2>1, Zenon DEF Agreeing
    <3>2. \A q \in agreed'[k][r] : given[k][r][q] # Nothing
      BY <3>1, Zenon DEF Contributed
    <3> QED BY <3>1, <3>2, Numbers, Zenon
  <2> QED BY <1>1, <1>3, <2>2, Zenon DEF Entered
<1>7. Activated'
  <2>1. crashed \subseteq crashed'
    BY <1>3
  <2> QED BY <1>3, <1>4, <2>1, ActivatedKept, Zenon
<1> QED BY <1>5, <1>6, <1>7, GrowsKeeps, Zenon

-----------------------------------------------------------------------------
(* What is in a slot is a communicator.                                    *)
LEMMA SlotRange ==
  ASSUME TInv, NEW p \in Procs, NEW c \in Cids, slot[p][c] # Null
  PROVE  slot[p][c] \in 0..Len(plan)
<1>1. Types /\ Flow /\ SlotTypes /\ InTable(p)
  BY Zenon DEF TInv, IInv, Locals
<1>2. have[p] \subseteq 0..Len(plan)
  BY <1>1, Zenon DEF Flow
<1>3. Held(p) \subseteq 0..Len(plan)
  <2>1. CASE call[p].phase = "activate"
    <3>1. call[p].phase # "user"
      BY <2>1
    <3>2. call[p].comm \in DOMAIN plan
      BY <1>1, <3>1, InCall, Zenon
    <3>3. call[p].comm \in 0..Len(plan)
      BY <1>1, <3>2, PlanFacts
    <3> QED BY <1>2, <2>1, <3>3, Zenon DEF Held
  <2>2. CASE call[p].phase # "activate"
    BY <1>2, <2>2, Zenon DEF Held
  <2> QED BY <2>1, <2>2, Zenon
<1>4. CASE c \in Reserved(p)
  <2>1. call[p].phase = "reduce"
    BY <1>4, Zenon DEF Reserved
  <2>2. call[p].phase # "user"
    BY <2>1
  <2> QED BY <1>1, <1>2, <1>4, <2>2, Zenon DEF InTable
<1>5. CASE c \notin Reserved(p)
  <2>1. PICK t : t = Release(slot[p], Reserved(p))
    BY Zenon
  <2>2. slot[p] \in [Cids -> Int]
    BY <1>1, Zenon DEF SlotTypes
  <2>3. t[c] = slot[p][c]
    BY <1>5, <2>1, <2>2, ReleaseTable
  <2>4. t[c] \in Held(p)
    BY <1>1, <2>1, <2>3, Zenon DEF InTable, Fits
  <2> QED BY <1>3, <2>3, <2>4, Zenon
<1> QED BY <1>4, <1>5, Zenon

(* A context id and its epoch tell which communicator it is.               *)
LEMMA IdTells ==
  ASSUME TInv, NEW p \in Procs, NEW i \in 0..Len(plan), NEW j \in 0..Len(plan),
         Id(p, i) # NoId, Id(p, i) = Id(p, j)
  PROVE  i = j
<1>1. Types /\ Dated(p)
  BY Zenon DEF TInv, IInv, Locals
<1>2. \A x \in 0..Len(plan) : x # 0 => x \in Created
  BY <1>1, PlanFacts
<1>3. ASSUME NEW x \in Created, id[p][x] # NoId PROVE id[p][x] # <<0, 0>>
  <2>1. id[p][x] \in (Cids \ {0}) \X Nat
    BY <1>1, <1>3, Zenon DEF Dated
  <2> QED BY <2>1
<1>4. CASE i = 0 /\ j # 0
  BY <1>2, <1>3, <1>4, Zenon DEF Id
<1>5. CASE i # 0 /\ j = 0
  BY <1>2, <1>3, <1>5, Zenon DEF Id
<1>6. CASE i # 0 /\ j # 0
  <2>1. id[p][i] # NoId /\ id[p][i] = id[p][j] /\ i \in Created /\ j \in Created
    BY <1>2, <1>6, Zenon DEF Id
  <2> QED BY <1>1, <2>1, Zenon DEF Dated
<1> QED BY <1>4, <1>5, <1>6, Zenon

(* The ids of a communicator that p uses.                                  *)
LEMMA UsedIds ==
  ASSUME RInv, NEW p \in Procs, Here(p), NEW k \in have[p]
  PROVE  /\ k \in 0..Len(plan) /\ Group(k, p) \subseteq Procs
         /\ Id(p, k) # NoId /\ Id(p, k) = <<Id(p, k)[1], Id(p, k)[2]>>
         /\ \A q \in Group(k, p) \ crashed : Group(k, q) = Group(k, p) /\ Id(q, k) = Id(p, k)
<1>1. TInv /\ IInv /\ Types /\ Flow /\ Grouped /\ Dated(p) /\ Activated
  BY Zenon DEF RInv, TInv, IInv, Locals
<1>2. k \in 0..Len(plan) /\ Group(k, p) \subseteq Procs
  BY <1>1, GroupType, Zenon DEF Flow
<1>3. CASE k = 0
  <2>1. \A q : Id(q, k) = <<0, 0>> /\ Group(k, q) = Procs
    BY <1>3, Zenon DEF Id, Group
  <2>2. <<0, 0>> # NoId /\ <<0, 0>>[1] = 0 /\ <<0, 0>>[2] = 0
    BY DEF NoId
  <2>3. Id(p, k) # NoId /\ Id(p, k) = <<Id(p, k)[1], Id(p, k)[2]>>
    BY <2>1, <2>2
  <2> QED BY <1>2, <2>1, <2>3, Zenon
<1>4. CASE k # 0
  <2>1. k \in DOMAIN plan /\ k \in Created /\ p \in plan[k].on
    BY <1>1, <1>4, HadCreated, Zenon
  <2>2. \A q : Id(q, k) = id[q][k] /\ Group(k, q) = plan[k].group[q]
    BY <1>4, Zenon DEF Id, Group
  <2>3. \A q \in plan[k].on \ crashed : id[q][k] # NoId
    BY <1>1, <1>4, Zenon DEF Activated
  <2>4. id[p][k] # NoId
    BY <2>1, <2>3, Zenon DEF Here
  <2>5. id[p][k] = <<id[p][k][1], id[p][k][2]>>
    <3>1. id[p][k] \in (Cids \ {0}) \X Nat
      BY <1>1, <2>1, <2>4, Zenon DEF Dated
    <3> QED BY <3>1
  <2>6. ASSUME NEW q \in plan[k].group[p] \ crashed
        PROVE  plan[k].group[q] = plan[k].group[p] /\ id[q][k] = id[p][k]
    <3>1. q \in plan[k].on /\ plan[k].group[q] = plan[k].group[p]
      BY <1>1, <2>1, Zenon DEF Grouped
    <3>2. SameId /\ id[q][k] # NoId
      BY <1>1, <2>3, <3>1, IInvSameId, Zenon
    <3> QED BY <2>1, <2>4, <3>1, <3>2, Zenon DEF SameId
  <2>7. Id(p, k) # NoId /\ Id(p, k) = <<Id(p, k)[1], Id(p, k)[2]>>
    BY <2>2, <2>4, <2>5
  <2>8. \A q \in Group(k, p) \ crashed : Group(k, q) = Group(k, p) /\ Id(q, k) = Id(p, k)
    BY <2>2, <2>6, Zenon
  <2> QED BY <1>2, <2>7, <2>8, Zenon
<1> QED BY <1>3, <1>4, Zenon

(* Neither groups nor ids depend on what the fault steps change.           *)
LEMMA Identities ==
  ASSUME UNCHANGED <<plan, creation>>
  PROVE  /\ \A k, q : Group(k, q)' = Group(k, q) /\ Id(q, k)' = Id(q, k)
         /\ plan' = plan /\ slot' = slot /\ id' = id /\ given' = given /\ agreed' = agreed
         /\ have' = have
<1>1. /\ plan' = plan /\ slot' = slot /\ id' = id /\ given' = given /\ agreed' = agreed
      /\ have' = have
  BY DEF creation
<1> QED BY <1>1, Zenon DEF Group, Id

(* MPI_Comm_revoke: the members know the communicator by the same id.      *)
LEMMA RevokeR ==
  ASSUME RInv, NEW p \in Procs, Revoke(p)
  PROVE  Revocation'
<1>1. TInv /\ Types /\ Asked /\ Sent /\ revoked \in [Procs -> SUBSET (0..Len(plan))]
      /\ RevokedOnRequest /\ RevokeNotLost
  BY Zenon DEF RInv, TInv, IInv, Revocation, Revoked
<1>2. PICK k \in have[p] :
        /\ Here(p)
        /\ revoked' = [revoked EXCEPT ![p] = revoked[p] \cup {k}]
        /\ asked' = asked \cup {<<k, Group(k, p)>>}
        /\ msgs' = msgs \cup RevokeMsgs(p, k, <<k, Group(k, p)>>)
        /\ UNCHANGED <<plan, creation, known, crashed>>
  BY Zenon DEF Revoke
<1>3. PICK G, of : G = Group(k, p) /\ of = <<k, G>>
  BY Zenon
<1>4. of[1] = k /\ of[2] = G /\ of = <<of[1], of[2]>>
  BY <1>3
<1>5. /\ \A j, q : Group(j, q)' = Group(j, q) /\ Id(q, j)' = Id(q, j)
      /\ plan' = plan /\ slot' = slot /\ crashed' = crashed
  <2>1. UNCHANGED <<plan, creation>> /\ crashed' = crashed
    BY <1>2, Zenon
  <2> QED BY <2>1, Identities, Zenon
<1>6. /\ k \in 0..Len(plan) /\ G \subseteq Procs
      /\ Id(p, k) # NoId /\ Id(p, k) = <<Id(p, k)[1], Id(p, k)[2]>>
      /\ \A q \in G \ crashed : Group(k, q) = G /\ Id(q, k) = Id(p, k)
  BY <1>2, <1>3, UsedIds, Zenon
<1>7. asked' = asked \cup {of} /\ msgs' = msgs \cup RevokeMsgs(p, k, of)
  BY <1>2, <1>3, Zenon
<1>8. PICK a, b : a = Id(p, k)[1] /\ b = Id(p, k)[2]
  BY Zenon
<1>9. RevokeMsgs(p, k, of) = {[to |-> q, cid |-> a, epoch |-> b, of |-> of] : q \in G \ {p}}
  BY <1>3, <1>8, Zenon DEF RevokeMsgs
<1>10. Asked'
  <2> SUFFICES ASSUME NEW o \in asked \cup {of}
               PROVE  /\ o = <<o[1], o[2]>> /\ o[1] \in 0..Len(plan) /\ o[2] \subseteq Procs
                      /\ \A q \in o[2] \ crashed : Group(o[1], q) = o[2] /\ Id(q, o[1]) # NoId
    BY <1>5, <1>7, Zenon DEF Asked
  <2>1. CASE o \in asked
    BY <1>1, <2>1, Zenon DEF Asked
  <2>2. CASE o = of
    BY <1>4, <1>6, <2>2, Zenon
  <2> QED BY <2>1, <2>2, Zenon
<1>11. Sent'
  <2> SUFFICES ASSUME NEW m \in msgs'
               PROVE  /\ m.of \in asked' /\ m.to \in m.of[2]
                      /\ m.to \notin crashed => Id(m.to, m.of[1]) = <<m.cid, m.epoch>>
    BY <1>5, Zenon DEF Sent
  <2>1. CASE m \in msgs
    BY <1>1, <1>7, <2>1, Zenon DEF Sent
  <2>2. CASE m \in RevokeMsgs(p, k, of)
    <3>1. PICK q \in G \ {p} : m = [to |-> q, cid |-> a, epoch |-> b, of |-> of]
      BY <1>9, <2>2, Zenon
    <3>2. m.to = q /\ m.cid = a /\ m.epoch = b /\ m.of = of
      BY <3>1
    <3>3. q \notin crashed => Id(q, k) = <<a, b>>
      BY <1>6, <1>8, Zenon
    <3> QED BY <1>4, <1>7, <3>2, <3>3, Zenon
  <2> QED BY <1>7, <2>1, <2>2, Zenon
<1>12. revoked' \in [Procs -> SUBSET (0..Len(plan'))]
  BY <1>1, <1>2, <1>5, <1>6
<1>13. /\ revoked'[p] = revoked[p] \cup {k}
       /\ \A q \in Procs : revoked[q] \subseteq revoked'[q]
       /\ \A q \in Procs \ {p} : revoked'[q] = revoked[q]
  BY <1>1, <1>2
<1>14. RevokedOnRequest'
  <2> SUFFICES ASSUME NEW q \in Procs, NEW j \in revoked'[q]
               PROVE  <<j, Group(j, q)>> \in asked'
    BY <1>5, Zenon DEF RevokedOnRequest
  <2>1. CASE j \in revoked[q]
    BY <1>1, <1>7, <2>1, Zenon DEF RevokedOnRequest
  <2>2. CASE q = p /\ j = k
    BY <1>3, <1>7, <2>2, Zenon
  <2> QED BY <1>13, <2>1, <2>2, Zenon
<1>15. RevokeNotLost'
  <2> SUFFICES ASSUME NEW o \in asked', NEW q \in o[2] \ crashed',
                      \E c \in Cids : slot'[q][c] = o[1] /\ Id(q, o[1])'[1] = c
               PROVE  o[1] \in revoked'[q] \/ \E m \in msgs' : m.to = q /\ m.of = o
    BY Zenon DEF RevokeNotLost
  <2>1. CASE o \in asked
    <3>1. \E c \in Cids : slot[q][c] = o[1] /\ Id(q, o[1])[1] = c
      BY <1>5, Zenon
    <3>2. o[1] \in revoked[q] \/ \E m \in msgs : m.to = q /\ m.of = o
      BY <1>1, <1>5, <2>1, <3>1, Zenon DEF RevokeNotLost
    <3>3. q \in Procs
      BY <1>1, <2>1, Zenon DEF Asked
    <3> QED BY <1>7, <1>13, <3>2, <3>3, Zenon
  <2>2. CASE o = of
    <3>1. CASE q = p
      BY <1>4, <1>13, <2>2, <3>1, Zenon
    <3>2. CASE q # p
      <4>1. PICK m : m = [to |-> q, cid |-> a, epoch |-> b, of |-> of]
        BY Zenon
      <4>2. m.to = q /\ m.of = of
        BY <4>1
      <4>3. m \in msgs'
        BY <1>4, <1>7, <1>9, <2>2, <3>2, <4>1, Zenon
      <4> QED BY <2>2, <4>2, <4>3, Zenon
    <3> QED BY <3>1, <3>2, Zenon
  <2> QED BY <1>7, <2>1, <2>2, Zenon
<1> QED BY <1>10, <1>11, <1>12, <1>14, <1>15, Zenon DEF Revocation, Revoked

-----------------------------------------------------------------------------
(* A revoke message finds the communicator that it is about, or none.      *)
LEMMA FoundMeant ==
  ASSUME RInv, NEW p \in Procs, Here(p), NEW m \in msgs, m.to = p
  PROVE  /\ m.of \in asked /\ m.of[1] \in 0..Len(plan) /\ <<m.of[1], Group(m.of[1], p)>> = m.of
         /\ Found(p, m) \subseteq {m.of[1]}
         /\ \A c \in Cids : slot[p][c] = m.of[1] /\ Id(p, m.of[1])[1] = c => m.of[1] \in Found(p, m)
<1>1. TInv /\ Types /\ Asked /\ Sent
  BY Zenon DEF RInv, TInv, IInv, Revocation
<1>2. m.of \in asked /\ p \in m.of[2] \ crashed /\ Id(p, m.of[1]) = <<m.cid, m.epoch>>
  BY <1>1, Zenon DEF Sent, Here
<1>3. /\ m.of = <<m.of[1], m.of[2]>> /\ m.of[1] \in 0..Len(plan)
      /\ Group(m.of[1], p) = m.of[2] /\ Id(p, m.of[1]) # NoId
  BY <1>1, <1>2, Zenon DEF Asked
<1>4. PICK j, a, b : j = m.of[1] /\ a = m.cid /\ b = m.epoch
  BY Zenon
<1>5. Id(p, j) = <<a, b>> /\ Id(p, j) # NoId /\ j \in 0..Len(plan)
  BY <1>2, <1>3, <1>4, Zenon
<1>6. Id(p, j)[1] = a
  BY <1>5
<1>7. a \in Cids
  <2>1. CASE j = 0
    <3>1. Id(p, j)[1] = 0
      BY <2>1 DEF Id
    <3> QED BY <1>6, <3>1, CidFacts, Zenon
  <2>2. CASE j # 0
    <3>1. j \in Created
      BY <1>1, <1>5, <2>2, PlanFacts
    <3>2. Id(p, j) = id[p][j]
      BY <2>2, Zenon DEF Id
    <3>3. id[p][j] \in (Cids \ {0}) \X Nat
      BY <1>1, <1>5, <3>1, <3>2, Zenon DEF TInv, Locals, Dated
    <3>4. id[p][j][1] \in Cids
      BY <3>3
    <3> QED BY <1>6, <3>2, <3>4, Zenon
  <2> QED BY <2>1, <2>2, Zenon
<1>8. PICK k : k = slot[p][a]
  BY Zenon
<1>9. Found(p, m) = IF k # Null /\ Id(p, k) = <<a, b>> THEN {k} ELSE {}
  BY <1>4, <1>8, Zenon DEF Found
<1>10. Found(p, m) \subseteq {j}
  <2>1. CASE k # Null /\ Id(p, k) = <<a, b>>
    <3>1. k \in 0..Len(plan)
      BY <1>1, <1>7, <1>8, <2>1, SlotRange, Zenon
    <3>2. Id(p, j) = Id(p, k)
      BY <1>5, <2>1, Zenon
    <3>3. k = j
      BY <1>1, <1>5, <3>1, <3>2, IdTells, Zenon
    <3> QED BY <1>9, <2>1, <3>3, Zenon
  <2>2. CASE ~(k # Null /\ Id(p, k) = <<a, b>>)
    BY <1>9, <2>2, Zenon
  <2> QED BY <2>1, <2>2, Zenon
<1>11. ASSUME NEW c \in Cids, slot[p][c] = j, Id(p, j)[1] = c PROVE j \in Found(p, m)
  <2>1. k = j
    BY <1>6, <1>8, <1>11, Zenon
  <2>2. j # Null
    <3>1. 0..Len(plan) \subseteq Nat
      BY <1>1, PlanFacts
    <3> QED BY <1>5, <3>1, CidFacts, Zenon
  <2> QED BY <1>5, <1>9, <2>1, <2>2, Zenon
<1>12. <<j, Group(j, p)>> = m.of
  BY <1>3, <1>4, Zenon
<1> QED BY <1>2, <1>4, <1>5, <1>10, <1>11, <1>12, Zenon

(* A message arrives (ompi_comm_rbcast_bml_recv_cb).                       *)
LEMMA DeliverR ==
  ASSUME RInv, NEW p \in Procs, Deliver(p)
  PROVE  Revocation'
<1>1. TInv /\ Types /\ Asked /\ Sent /\ revoked \in [Procs -> SUBSET (0..Len(plan))]
      /\ RevokedOnRequest /\ RevokeNotLost
  BY Zenon DEF RInv, TInv, IInv, Revocation, Revoked
<1>2. PICK m \in msgs :
        /\ Here(p) /\ m.to = p
        /\ revoked' = [revoked EXCEPT ![p] = revoked[p] \cup (Found(p, m) \ revoked[p])]
        /\ msgs' = msgs \ {m}
        /\ UNCHANGED <<plan, creation, known, crashed, asked>>
  BY Zenon DEF Deliver
<1>3. PICK j, of, F : j = m.of[1] /\ of = m.of /\ F = Found(p, m)
  BY Zenon
<1>4. /\ of \in asked /\ j \in 0..Len(plan) /\ <<j, Group(j, p)>> = of /\ F \subseteq {j}
      /\ \A c \in Cids : slot[p][c] = j /\ Id(p, j)[1] = c => j \in F
  BY <1>2, <1>3, FoundMeant, Zenon
<1>5. /\ \A k, q : Group(k, q)' = Group(k, q) /\ Id(q, k)' = Id(q, k)
      /\ plan' = plan /\ slot' = slot /\ crashed' = crashed /\ asked' = asked
  <2>1. UNCHANGED <<plan, creation>> /\ crashed' = crashed /\ asked' = asked
    BY <1>2, Zenon
  <2> QED BY <2>1, Identities, Zenon
<1>6. PICK R : R = revoked[p] \cup (F \ revoked[p])
  BY Zenon
<1>7. R = revoked[p] \cup F /\ revoked' = [revoked EXCEPT ![p] = R]
  <2>1. R = revoked[p] \cup F
    BY <1>6
  <2> QED BY <1>2, <1>3, <1>6, <2>1, Zenon
<1>8. /\ revoked'[p] = R /\ \A q \in Procs : revoked[q] \subseteq revoked'[q]
      /\ \A q \in Procs \ {p} : revoked'[q] = revoked[q]
  BY <1>1, <1>7, Zenon
<1>9. revoked' \in [Procs -> SUBSET (0..Len(plan'))]
  BY <1>1, <1>4, <1>5, <1>7
<1>10. Asked'
  BY <1>1, <1>5, Zenon DEF Asked
<1>11. Sent'
  <2> SUFFICES ASSUME NEW x \in msgs
               PROVE  /\ x.of \in asked /\ x.to \in x.of[2]
                      /\ x.to \notin crashed => Id(x.to, x.of[1]) = <<x.cid, x.epoch>>
    BY <1>2, <1>5, Zenon DEF Sent
  <2> QED BY <1>1, Zenon DEF Sent
<1>12. RevokedOnRequest'
  <2> SUFFICES ASSUME NEW q \in Procs, NEW k \in revoked'[q]
               PROVE  <<k, Group(k, q)>> \in asked
    BY <1>5, Zenon DEF RevokedOnRequest
  <2>1. CASE k \in revoked[q]
    BY <1>1, <2>1, Zenon DEF RevokedOnRequest
  <2>2. CASE q = p /\ k = j
    BY <1>4, <2>2, Zenon
  <2> QED BY <1>4, <1>7, <1>8, <2>1, <2>2, Zenon
<1>13. RevokeNotLost'
  <2> SUFFICES ASSUME NEW o \in asked', NEW q \in o[2] \ crashed',
                      \E c \in Cids : slot'[q][c] = o[1] /\ Id(q, o[1])'[1] = c
               PROVE  o[1] \in revoked'[q] \/ \E x \in msgs' : x.to = q /\ x.of = o
    BY Zenon DEF RevokeNotLost
  <2>1. PICK c \in Cids : slot[q][c] = o[1] /\ Id(q, o[1])[1] = c
    BY <1>5, Zenon
  <2>2. o[1] \in revoked[q] \/ \E x \in msgs : x.to = q /\ x.of = o
    BY <1>1, <1>5, <2>1, Zenon DEF RevokeNotLost
  <2>3. q \in Procs
    BY <1>1, <1>5, Zenon DEF Asked
  <2>4. CASE o[1] \in revoked[q]
    BY <1>8, <2>3, <2>4, Zenon
  <2>5. ASSUME NEW x \in msgs, x.to = q, x.of = o
        PROVE  o[1] \in revoked'[q] \/ \E y \in msgs' : y.to = q /\ y.of = o
    <3>1. CASE x # m
      BY <1>2, <2>5, <3>1, Zenon
    <3>2. CASE x = m
      <4>1. q = p /\ o[1] = j
        BY <1>2, <1>3, <2>5, <3>2, Zenon
      <4>2. j \in F
        BY <1>4, <2>1, <4>1, Zenon
      <4> QED BY <1>7, <1>8, <4>1, <4>2, Zenon
    <3> QED BY <3>1, <3>2, Zenon
  <2> QED BY <2>2, <2>4, <2>5, Zenon
<1> QED BY <1>9, <1>10, <1>11, <1>12, <1>13, Zenon DEF Revocation, Revoked

(* A crash, and the news of it.                                            *)
LEMMA CrashR ==
  ASSUME RInv, NEW p \in Procs, Crash(p) \/ Notify(p)
  PROVE  Revocation'
<1>1. Asked /\ Sent /\ revoked \in [Procs -> SUBSET (0..Len(plan))]
      /\ RevokedOnRequest /\ RevokeNotLost
  BY Zenon DEF RInv, Revocation, Revoked
<1>2. /\ UNCHANGED <<plan, creation>> /\ revoked' = revoked /\ asked' = asked /\ msgs' = msgs
      /\ crashed \subseteq crashed'
  <2>1. CASE Crash(p)
    BY <2>1, Zenon DEF Crash
  <2>2. CASE Notify(p)
    BY <2>2, Zenon DEF Notify
  <2> QED BY <2>1, <2>2, Zenon
<1>3. /\ \A k, q : Group(k, q)' = Group(k, q) /\ Id(q, k)' = Id(q, k)
      /\ plan' = plan /\ slot' = slot
  BY <1>2, Identities, Zenon
<1>4. \A x : x \notin crashed' => x \notin crashed
  BY <1>2, Zenon
<1>5. Asked'
  <2> SUFFICES ASSUME NEW o \in asked
               PROVE  /\ o = <<o[1], o[2]>> /\ o[1] \in 0..Len(plan) /\ o[2] \subseteq Procs
                      /\ \A q \in o[2] \ crashed' : Group(o[1], q) = o[2] /\ Id(q, o[1]) # NoId
    BY <1>2, <1>3, Zenon DEF Asked
  <2>1. /\ o = <<o[1], o[2]>> /\ o[1] \in 0..Len(plan) /\ o[2] \subseteq Procs
        /\ \A q \in o[2] \ crashed : Group(o[1], q) = o[2] /\ Id(q, o[1]) # NoId
    BY <1>1, Zenon DEF Asked
  <2> QED BY <1>4, <2>1, Zenon
<1>6. Sent'
  <2> SUFFICES ASSUME NEW m \in msgs
               PROVE  /\ m.of \in asked /\ m.to \in m.of[2]
                      /\ m.to \notin crashed' => Id(m.to, m.of[1]) = <<m.cid, m.epoch>>
    BY <1>2, <1>3, Zenon DEF Sent
  <2> QED BY <1>1, <1>4, Zenon DEF Sent
<1>7. RevokedOnRequest' /\ revoked' \in [Procs -> SUBSET (0..Len(plan'))]
  BY <1>1, <1>2, <1>3, Zenon DEF RevokedOnRequest
<1>8. RevokeNotLost'
  <2> SUFFICES ASSUME NEW o \in asked', NEW q \in o[2] \ crashed',
                      \E c \in Cids : slot'[q][c] = o[1] /\ Id(q, o[1])'[1] = c
               PROVE  o[1] \in revoked'[q] \/ \E x \in msgs' : x.to = q /\ x.of = o
    BY Zenon DEF RevokeNotLost
  <2>1. \E c \in Cids : slot[q][c] = o[1] /\ Id(q, o[1])[1] = c
    BY <1>3, Zenon
  <2>2. o[1] \in revoked[q] \/ \E x \in msgs : x.to = q /\ x.of = o
    BY <1>1, <1>2, <1>4, <2>1, Zenon DEF RevokeNotLost
  <2> QED BY <1>2, <2>2, Zenon
<1> QED BY <1>5, <1>6, <1>7, <1>8, Zenon DEF Revocation, Revoked

(* None of these changes who has which id.                                 *)
LEMMA FaultR ==
  ASSUME RInv, UNCHANGED <<plan, creation>>, crashed \subseteq crashed'
  PROVE  Entered' /\ Activated'
<1>1. /\ plan' = plan /\ id' = id /\ given' = given /\ agreed' = agreed /\ have' = have
  BY Identities, Zenon
<1>2. Entered'
  BY <1>1, Zenon DEF RInv, Entered
<1>3. PlanKept
  BY <1>1, Zenon DEF PlanKept
<1>4. Activated'
  BY <1>1, <1>3, ActivatedKept, Zenon
<1> QED BY <1>2, <1>4, Zenon

-----------------------------------------------------------------------------
(* Every step preserves the invariant, ...                                 *)
LEMMA NextRInv ==
  ASSUME RInv, Next
  PROVE  RInv'
<1>1. TInv /\ TInv'
  BY NextTInv, Zenon DEF RInv
<1>2. CASE \E k \in Created, r \in Rounds : Agree(k, r)
  BY <1>1, <1>2, AgreeR, Zenon DEF RInv
<1>3. ASSUME NEW p \in Procs, Step(p) PROVE Entered' /\ Activated' /\ Revocation'
  <2>1. CASE Create(p) \/ Shrink(p) \/ Join(p) \/ Retry(p)
    <3>1. \E k \in Created, r \in Rounds : Filling(p, k, r)
      BY <1>1, <2>1, CreateFills, ShrinkFills, JoinFills, RetryFills, Zenon
    <3> QED BY <3>1, FillingR, Zenon
  <2>2. CASE Take(p)
    <3>1. \E k \in Created : \E c, e : Entering(p, k, c, e)
      BY <1>1, <2>2, TakeEnters, Zenon
    <3> QED BY <3>1, EnteringR, Zenon
  <2>3. CASE Refuse(p) \/ GiveUp(p) \/ Activate(p) \/ Abandon(p) \/ Free(p)
    BY <2>3, ReturnR, Zenon
  <2>4. CASE Revoke(p) \/ Deliver(p) \/ Crash(p) \/ Notify(p)
    <3>1. Revocation'
      BY <2>4, RevokeR, DeliverR, CrashR, Zenon
    <3>2. UNCHANGED <<plan, creation>> /\ crashed \subseteq crashed'
      <4>1. CASE Revoke(p)
        BY <4>1, Zenon DEF Revoke
      <4>2. CASE Deliver(p)
        BY <4>2, Zenon DEF Deliver
      <4>3. CASE Crash(p)
        BY <4>3, Zenon DEF Crash
      <4>4. CASE Notify(p)
        BY <4>4, Zenon DEF Notify
      <4> QED BY <2>4, <4>1, <4>2, <4>3, <4>4, Zenon
    <3> QED BY <3>1, <3>2, FaultR, Zenon
  <2> QED BY <1>3, <2>1, <2>2, <2>3, <2>4, Zenon DEF Step
<1> QED BY <1>1, <1>2, <1>3, Zenon DEF Next, RInv

(* ... and so does a stuttering one.                                       *)
LEMMA StutterRInv ==
  ASSUME RInv, UNCHANGED vars
  PROVE  RInv'
<1>1. TInv /\ TInv' /\ Types
  BY StutterTInv, Zenon DEF RInv, TInv, IInv
<1>2. UNCHANGED <<plan, creation>> /\ UNCHANGED faults
  BY Zenon DEF vars
<1>3. crashed \subseteq crashed'
  BY <1>2, Zenon DEF faults
<1>4. Entered' /\ Activated'
  BY <1>2, <1>3, FaultR, Zenon
<1>5. plan' = plan /\ slot' = slot /\ id' = id
  BY <1>2, Identities, Zenon
<1>6. Len(plan) <= Len(plan') /\ Len(plan') \in Nat /\ PlanKept
  BY <1>1, <1>5, PlanFacts DEF PlanKept
<1>7. Grows
  BY <1>2, <1>5, <1>6, Zenon DEF Grows
<1> QED BY <1>1, <1>4, <1>7, GrowsKeeps, Zenon DEF RInv

(* In the beginning nothing is revoked.                                    *)
LEMMA InitRInv ==
  ASSUME Init
  PROVE  RInv
<1>1. TInv /\ Types
  BY InitTInv, Zenon DEF TInv, IInv
<1>2. /\ have = [p \in Procs |-> {0}] /\ revoked = [p \in Procs |-> {}]
      /\ given = [k \in Created |-> [r \in Rounds |-> [p \in Procs |-> Nothing]]]
      /\ agreed = [k \in Created |-> [r \in Rounds |-> {}]]
      /\ asked = {} /\ msgs = {}
  BY Zenon DEF Init
<1>3. Entered
  BY <1>2, Numbers, Zenon DEF Entered
<1>4. Activated
  BY <1>2, Zenon DEF Activated
<1>5. Asked /\ Sent
  BY <1>2, Zenon DEF Asked, Sent
<1>6. Revoked
  BY <1>2, Zenon DEF Revoked, RevokedOnRequest, RevokeNotLost
<1> QED BY <1>1, <1>3, <1>4, <1>5, <1>6, Zenon DEF RInv, Revocation

(* A message of ompi_comm_revoke never revokes another communicator than   *)
(* the one it is about: the epoch that ompi_comm_nextcid gives a context   *)
(* id is new to every process that takes it, so that id and epoch name one *)
(* communicator for ever.                                                  *)
THEOREM RevokesOnlyTheirs == Spec => []RevokedOnRequest
<1>1. Init => RInv
  BY InitRInv
<1>2. RInv /\ [Next]_vars => RInv'
  BY NextRInv, StutterRInv
<1>3. RInv => RevokedOnRequest
  BY Zenon DEF RInv, Revocation, Revoked
<1> QED BY <1>1, <1>2, <1>3, PTL DEF Spec

(* No revoke is lost at a living member that has the communicator in its   *)
(* table: nobody can call MPI_Comm_revoke before the reduction of          *)
(* ompi_comm_activate, and by then every member has entered it.            *)
THEOREM RevokesNotLost == Spec => []RevokeNotLost
<1>1. Init => RInv
  BY InitRInv
<1>2. RInv /\ [Next]_vars => RInv'
  BY NextRInv, StutterRInv
<1>3. RInv => RevokeNotLost
  BY Zenon DEF RInv, Revocation, Revoked
<1> QED BY <1>1, <1>2, <1>3, PTL DEF Spec

-----------------------------------------------------------------------------
(* What a process has been told, and what the agreement of an activation   *)
(* counts.                                                                 *)
Told ==
  /\ \E S : coll \in [Procs -> S]
  /\ \E S : known \in [Procs -> S]
  /\ \A p \in Procs : revoked[p] \subseteq coll[p] /\ known[p] \subseteq crashed
CountedLast ==
  \A k \in Created : agreed[k][0] # {} =>
    k \in DOMAIN plan /\ agreed[k][0] \subseteq Contributed(k, 0)
AInv == RInv /\ Told /\ CountedLast

(* A step that takes nothing out of the reduction of an activation.        *)
LEMMA LastKept ==
  ASSUME AInv, PlanKept, DOMAIN plan \subseteq DOMAIN plan', agreed' = agreed,
         \A k \in Created, q \in Procs : id[q][k] # NoId => given'[k][0][q] = given[k][0][q]
  PROVE  CountedLast'
<1>1. Types /\ Entered /\ CountedLast
  BY Zenon DEF AInv, RInv, TInv, IInv
<1> SUFFICES ASSUME NEW k \in Created, agreed[k][0] # {}
             PROVE  k \in DOMAIN plan' /\ agreed[k][0] \subseteq Contributed(k, 0)'
  BY Zenon DEF CountedLast
<1>2. k \in DOMAIN plan /\ agreed[k][0] \subseteq Contributed(k, 0)
  BY <1>1, Zenon DEF CountedLast
<1>3. plan'[k] = plan[k] /\ plan[k].on \subseteq Procs
  <2>1. plan[k] \in Plans
    BY <1>1, <1>2, PlanFacts, Zenon
  <2>2. plan[k].on \subseteq Procs
    BY <2>1 DEF Plans
  <2> QED BY <1>2, <2>2, Zenon DEF PlanKept
<1>4. ASSUME NEW q \in agreed[k][0] PROVE q \in Contributed(k, 0)'
  <2>1. q \in plan[k].on /\ given[k][0][q] # Nothing
    BY <1>2, Zenon DEF Contributed
  <2>2. q \in Procs
    BY <1>3, <2>1, Zenon
  <2>3. given'[k][0][q] = given[k][0][q]
    BY <1>1, <2>1, <2>2, Zenon DEF Entered
  <2> QED BY <1>3, <2>1, <2>3, Zenon DEF Contributed
<1> QED BY <1>2, <1>4, Zenon

(* The faults are left alone.                                              *)
LEMMA ToldKept ==
  ASSUME Told, UNCHANGED faults
  PROVE  Told'
<1>1. coll' = coll /\ known' = known /\ revoked' = revoked /\ crashed' = crashed
  BY Zenon DEF faults
<1> QED BY <1>1, Zenon DEF Told

(* A step of a creation.                                                   *)
LEMMA CreationA ==
  ASSUME AInv, NEW p \in Procs,
         \/ Create(p) \/ Shrink(p) \/ Join(p) \/ Retry(p) \/ Take(p)
         \/ Refuse(p) \/ GiveUp(p) \/ Activate(p) \/ Abandon(p) \/ Free(p)
  PROVE  Told' /\ CountedLast'
<1>1. TInv /\ Told /\ Types
  BY Zenon DEF AInv, RInv, TInv, IInv
<1>2. CASE Create(p) \/ Shrink(p) \/ Join(p) \/ Retry(p)
  <2>1. PICK k \in Created, r \in Rounds : Filling(p, k, r)
    BY <1>1, <1>2, CreateFills, ShrinkFills, JoinFills, RetryFills, Zenon
  <2>2. r # 0 /\ Planned /\ OneGiven(k, r, p) /\ agreed' = agreed /\ faults' = faults
    BY <2>1, Zenon DEF Filling, Reserving
  <2>3. PlanKept /\ DOMAIN plan \subseteq DOMAIN plan'
    <3>1. /\ plan' \in Seq(Plans) /\ plan \in Seq(Plans) /\ Len(plan) <= Len(plan')
          /\ \A i \in DOMAIN plan : plan'[i] = plan[i]
      BY <1>1, <2>2, Zenon DEF Planned, Types
    <3>2. DOMAIN plan \subseteq DOMAIN plan'
      BY <3>1
    <3> QED BY <3>1, <3>2, Zenon DEF PlanKept
  <2>4. \A i \in Created, q \in Procs : given'[i][0][q] = given[i][0][q]
    BY <2>2, Numbers, Zenon DEF OneGiven
  <2> QED BY <1>1, <2>2, <2>3, <2>4, LastKept, ToldKept, Zenon
<1>3. CASE Take(p)
  <2>1. PICK k \in Created : \E c, e : Entering(p, k, c, e)
    BY <1>1, <1>3, TakeEnters, Zenon
  <2>2. id[p][k] = NoId /\ Grows
    BY <1>1, <2>1, EnteringGrows, Zenon
  <2>3. plan' = plan /\ OneGiven(k, 0, p) /\ agreed' = agreed /\ faults' = faults
    BY <2>1, Zenon DEF Entering
  <2>4. \A i \in Created, q \in Procs : id[q][i] # NoId => given'[i][0][q] = given[i][0][q]
    BY <2>2, <2>3, Numbers, Zenon DEF OneGiven
  <2>5. PlanKept /\ DOMAIN plan \subseteq DOMAIN plan'
    BY <2>3, Zenon DEF PlanKept
  <2> QED BY <1>1, <2>3, <2>4, <2>5, LastKept, ToldKept, Zenon
<1>4. CASE Refuse(p) \/ GiveUp(p) \/ Activate(p) \/ Abandon(p) \/ Free(p)
  <2>1. UNCHANGED <<plan, id, given, agreed, faults>>
    BY <1>1, <1>4, ReturnGrows, Zenon
  <2>2. plan' = plan /\ given' = given /\ agreed' = agreed /\ faults' = faults
    BY <2>1, Zenon
  <2>3. PlanKept /\ DOMAIN plan \subseteq DOMAIN plan'
    BY <2>2, Zenon DEF PlanKept
  <2> QED BY <1>1, <2>2, <2>3, LastKept, ToldKept, Zenon
<1> QED BY <1>2, <1>3, <1>4, Zenon

(* An agreement is reached.                                                *)
LEMMA AgreeA ==
  ASSUME AInv, NEW k \in Created, NEW r \in Rounds, Agree(k, r)
  PROVE  Told' /\ CountedLast'
<1>1. Told /\ Types /\ CountedLast
  BY Zenon DEF AInv, RInv, TInv, IInv
<1>2. Agreeing(k, r) /\ faults' = faults
  BY <1>1, AgreeAgrees, Zenon DEF Agree
<1>3. /\ k \in DOMAIN plan /\ plan' = plan /\ given' = given
      /\ agreed'[k][r] \subseteq Contributed(k, r)
      /\ \A i \in Created, x \in Rounds : i # k \/ x # r => agreed'[i][x] = agreed[i][x]
  BY <1>2, Zenon DEF Agreeing
<1>4. \A i, x : Contributed(i, x)' = Contributed(i, x)
  BY <1>3, Zenon DEF Contributed
<1>5. CountedLast'
  <2> SUFFICES ASSUME NEW i \in Created, agreed'[i][0] # {}
               PROVE  i \in DOMAIN plan /\ agreed'[i][0] \subseteq Contributed(i, 0)
    BY <1>3, <1>4, Zenon DEF CountedLast
  <2>1. CASE i = k /\ r = 0
    BY <1>3, <2>1, Zenon
  <2>2. CASE i # k \/ r # 0
    <3>1. agreed'[i][0] = agreed[i][0]
      BY <1>3, <2>2, Numbers, Zenon
    <3> QED BY <1>1, <3>1, Zenon DEF CountedLast
  <2> QED BY <2>1, <2>2, Zenon
<1> QED BY <1>1, <1>2, <1>5, ToldKept, Zenon

(* Revocations, crashes and the news of both.                              *)
LEMMA FaultA ==
  ASSUME AInv, NEW p \in Procs, Revoke(p) \/ Deliver(p) \/ Crash(p) \/ Notify(p)
  PROVE  Told' /\ CountedLast'
<1>1. /\ Told /\ revoked \in [Procs -> SUBSET (0..Len(plan))]
  BY Zenon DEF AInv, RInv, Revocation, Revoked
<1>2. PICK C, K : coll \in [Procs -> C] /\ known \in [Procs -> K]
  BY <1>1, Zenon DEF Told
<1>3. \A q \in Procs : revoked[q] \subseteq coll[q] /\ known[q] \subseteq crashed
  BY <1>1, Zenon DEF Told
<1>4. UNCHANGED <<plan, creation>>
  <2>1. CASE Revoke(p)
    BY <2>1, Zenon DEF Revoke
  <2>2. CASE Deliver(p)
    BY <2>2, Zenon DEF Deliver
  <2>3. CASE Crash(p)
    BY <2>3, Zenon DEF Crash
  <2>4. CASE Notify(p)
    BY <2>4, Zenon DEF Notify
  <2> QED BY <2>1, <2>2, <2>3, <2>4, Zenon
<1>5. CountedLast'
  <2>1. plan' = plan /\ given' = given /\ agreed' = agreed
    BY <1>4, Identities, Zenon
  <2>2. PlanKept /\ DOMAIN plan \subseteq DOMAIN plan'
    BY <2>1, Zenon DEF PlanKept
  <2> QED BY <2>1, <2>2, LastKept, Zenon
<1>6. Told'
  <2>1. ASSUME NEW h,
               /\ revoked' = [revoked EXCEPT ![p] = revoked[p] \cup h]
               /\ coll' = [coll EXCEPT ![p] = coll[p] \cup h]
               /\ known' = known /\ crashed' = crashed
        PROVE  Told'
    <3>1. coll' \in [Procs -> C \cup {coll[p] \cup h}]
      BY <1>2, <2>1, Zenon
    <3>2. ASSUME NEW q \in Procs PROVE revoked'[q] \subseteq coll'[q]
      <4>1. CASE q = p
        <5>1. revoked'[p] = revoked[p] \cup h /\ coll'[p] = coll[p] \cup h
          BY <1>1, <1>2, <2>1, Zenon
        <5> QED BY <1>3, <4>1, <5>1, Zenon
      <4>2. CASE q # p
        <5>1. revoked'[q] = revoked[q] /\ coll'[q] = coll[q]
          BY <1>1, <1>2, <2>1, <4>2, Zenon
        <5> QED BY <1>3, <5>1, Zenon
      <4> QED BY <4>1, <4>2, Zenon
    <3>3. (\E S : coll' \in [Procs -> S]) /\ (\E S : known' \in [Procs -> S])
      BY <1>2, <2>1, <3>1, Zenon
    <3>4. \A q \in Procs : known'[q] \subseteq crashed'
      BY <1>3, <2>1, Zenon
    <3> QED BY <3>2, <3>3, <3>4, Zenon DEF Told
  <2>2. CASE Revoke(p)
    <3>1. PICK k : /\ revoked' = [revoked EXCEPT ![p] = revoked[p] \cup {k}]
                   /\ coll' = [coll EXCEPT ![p] = coll[p] \cup {k}]
                   /\ known' = known /\ crashed' = crashed
      BY <2>2, Zenon DEF Revoke
    <3> QED BY <2>1, <3>1, Zenon
  <2>3. CASE Deliver(p)
    <3>1. PICK m : /\ revoked' = [revoked EXCEPT ![p] = revoked[p] \cup (Found(p, m) \ revoked[p])]
                   /\ coll' = [coll EXCEPT ![p] = coll[p] \cup (Found(p, m) \ revoked[p])]
                   /\ known' = known /\ crashed' = crashed
      BY <2>3, Zenon DEF Deliver
    <3> QED BY <2>1, <3>1, Zenon
  <2>4. CASE Crash(p)
    <3>1. coll' = coll /\ known' = known /\ revoked' = revoked /\ crashed \subseteq crashed'
      BY <2>4, Zenon DEF Crash
    <3>2. \A q \in Procs : known[q] \subseteq crashed'
      BY <1>3, <3>1, Zenon
    <3> QED BY <1>2, <1>3, <3>1, <3>2, Zenon DEF Told
  <2>5. CASE Notify(p)
    <3>0. PICK q \in crashed : \E D :
            /\ known' = [known EXCEPT ![p] = known[p] \cup {q}]
            /\ coll' = [coll EXCEPT ![p] = coll[p] \cup D]
            /\ revoked' = revoked /\ crashed' = crashed
      BY <2>5, Zenon DEF Notify
    <3>1. PICK D :
            /\ known' = [known EXCEPT ![p] = known[p] \cup {q}]
            /\ coll' = [coll EXCEPT ![p] = coll[p] \cup D]
            /\ revoked' = revoked /\ crashed' = crashed
      BY <3>0, Zenon
    <3>2. coll' \in [Procs -> C \cup {coll[p] \cup D}] /\ known' \in [Procs -> K \cup {known[p] \cup {q}}]
      BY <1>2, <3>1, Zenon
    <3>3. ASSUME NEW x \in Procs PROVE revoked[x] \subseteq coll'[x] /\ known'[x] \subseteq crashed
      <4>1. CASE x = p
        <5>1. known'[p] = known[p] \cup {q} /\ coll'[p] = coll[p] \cup D
          BY <1>2, <3>1, Zenon
        <5> QED BY <1>3, <3>1, <4>1, <5>1, Zenon
      <4>2. CASE x # p
        <5>1. known'[x] = known[x] /\ coll'[x] = coll[x]
          BY <1>2, <3>1, <4>2, Zenon
        <5> QED BY <1>3, <5>1, Zenon
      <4> QED BY <4>1, <4>2, Zenon
    <3>4. (\E S : coll' \in [Procs -> S]) /\ (\E S : known' \in [Procs -> S])
      BY <3>2, Zenon
    <3>5. \A x \in Procs : revoked'[x] \subseteq coll'[x] /\ known'[x] \subseteq crashed'
      BY <3>1, <3>3, Zenon
    <3> QED BY <3>4, <3>5, Zenon DEF Told
  <2> QED BY <2>2, <2>3, <2>4, <2>5, Zenon
<1> QED BY <1>5, <1>6, Zenon

(* With them the invariant is still preserved by every step, ...           *)
LEMMA NextAInv ==
  ASSUME AInv, Next
  PROVE  AInv'
<1>1. RInv'
  BY NextRInv, Zenon DEF AInv
<1>2. CASE \E k \in Created, r \in Rounds : Agree(k, r)
  BY <1>1, <1>2, AgreeA, Zenon DEF AInv
<1>3. ASSUME NEW p \in Procs, Step(p) PROVE Told' /\ CountedLast'
  BY <1>3, CreationA, FaultA, Zenon DEF Step
<1> QED BY <1>1, <1>2, <1>3, Zenon DEF Next, AInv

(* ... by a stuttering one, ...                                            *)
LEMMA StutterAInv ==
  ASSUME AInv, UNCHANGED vars
  PROVE  AInv'
<1>1. RInv' /\ Told
  BY StutterRInv, Zenon DEF AInv
<1>2. UNCHANGED <<plan, creation>> /\ UNCHANGED faults
  BY Zenon DEF vars
<1>3. plan' = plan /\ given' = given /\ agreed' = agreed
  BY <1>2, Identities, Zenon
<1>4. PlanKept /\ DOMAIN plan \subseteq DOMAIN plan'
  BY <1>3, Zenon DEF PlanKept
<1> QED BY <1>1, <1>2, <1>3, <1>4, LastKept, ToldKept, Zenon DEF AInv

(* ... and holds in the beginning.                                         *)
LEMMA InitAInv ==
  ASSUME Init
  PROVE  AInv
<1>1. /\ agreed = [k \in Created |-> [r \in Rounds |-> {}]] /\ revoked = [p \in Procs |-> {}]
      /\ coll = [p \in Procs |-> {}] /\ known = [p \in Procs |-> {}]
  BY Zenon DEF Init
<1>2. CountedLast
  BY <1>1, Numbers, Zenon DEF CountedLast
<1>3. coll \in [Procs -> {{}}] /\ known \in [Procs -> {{}}]
  BY <1>1, Zenon
<1>4. Told
  BY <1>1, <1>3, Zenon DEF Told
<1> QED BY <1>2, <1>4, InitRInv, Zenon DEF AInv

(* It implies the type invariant.                                          *)
LEMMA AInvTypeOK ==
  ASSUME AInv
  PROVE  TypeOK
<1>1. TInv /\ Types /\ Flow /\ SlotTypes /\ Told /\ Counted /\ CountedLast
  BY Zenon DEF AInv, RInv, TInv, IInv
<1>2. Len(plan) <= MaxComms
  BY <1>1, Zenon DEF Types
<1>3. ASSUME NEW p \in Procs
      PROVE  call[p] = Idle \/ call[p] \in [comm : DOMAIN plan, phase : {"reduce", "activate"},
                                            round : Rounds, doomed : BOOLEAN]
  <2>1. call[p] \in Calls /\ (call[p].phase = "user" => call[p] = Idle)
    BY <1>1, Zenon DEF Types, Flow
  <2>2. call[p].phase # "user" => call[p].comm \in DOMAIN plan
    BY <1>1, InCall, Zenon
  <2> QED BY <2>1, <2>2 DEF Calls
<1>4. ASSUME NEW p \in Procs
      PROVE  done[p] \in 0..Len(plan) /\ have[p] \subseteq 0..Len(plan)
  <2>1. done[p] \in Nat /\ done[p] <= Len(plan) /\ have[p] \subseteq 0..Len(plan)
    BY <1>1, Zenon DEF Types, Flow
  <2>2. done[p] \in 0..Len(plan)
    BY <1>1, <2>1, PlanFacts
  <2> QED BY <2>1, <2>2, Zenon
<1>5. ASSUME NEW p \in Procs, NEW c \in Cids
      PROVE  slot[p][c] \in {Null} \cup 0..Len(plan) /\ epoch[p][c] \in Nat
  BY <1>1, SlotRange, Zenon DEF SlotTypes
<1>6. ASSUME NEW p \in Procs, NEW k \in Created
      PROVE  id[p][k] = NoId \/ id[p][k] \in Cids \X Nat
  <2>1. id[p][k] # NoId => id[p][k] \in (Cids \ {0}) \X Nat
    BY <1>1, Zenon DEF TInv, Locals, Dated
  <2> QED BY <2>1
<1>7. ASSUME NEW k \in DOMAIN plan, NEW r \in Rounds
      PROVE  agreed[k][r] \subseteq Contributed(k, r)
  <2>1. k \in Created
    BY <1>1, PlanFacts, Zenon
  <2>2. CASE agreed[k][r] = {}
    BY <2>2, Zenon
  <2>3. CASE agreed[k][r] # {} /\ r = 0
    BY <1>1, <2>1, <2>3, Zenon DEF CountedLast
  <2>4. CASE agreed[k][r] # {} /\ r # 0
    <3>1. r \in Reductions
      BY <2>4, Zenon DEF Reductions
    <3> QED BY <1>1, <2>1, <2>4, <3>1, Zenon DEF Counted
  <2> QED BY <2>2, <2>3, <2>4, Zenon
<1>8. \A p \in Procs : revoked[p] \subseteq coll[p] /\ known[p] \subseteq crashed
  BY <1>1, Zenon DEF Told
<1> QED BY <1>2, <1>3, <1>4, <1>5, <1>6, <1>7, <1>8, Zenon DEF TypeOK

(* Every variable stays in its type, whatever the number of processes: the *)
(* ids are below pml_max_contextid, slots hold communicators or nothing,   *)
(* and an agreement of MPI_Comm_shrink counts only what was contributed.   *)
THEOREM CidTypes == Spec => []TypeOK
<1>1. Init => AInv
  BY InitAInv
<1>2. AInv /\ [Next]_vars => AInv'
  BY NextAInv, StutterAInv
<1>3. AInv => TypeOK
  BY AInvTypeOK
<1> QED BY <1>1, <1>2, <1>3, PTL DEF Spec

=============================================================================
