--------------------------- MODULE CommCidTables ----------------------------
(***************************************************************************)
(* TableClean of CommCid, for every number of processes, communicators and *)
(* reductions: outside a creation the table of a process holds its         *)
(* communicators and nothing else.                                         *)
(*                                                                         *)
(* Inside a creation it also holds slots that are reserved, so the         *)
(* invariant says which these are, and that the rest fits the              *)
(* communicators of the process.  That no communicator is overwritten when *)
(* an id is taken rests on the reductions: everybody alive contributes to  *)
(* them, so the id that is found has been reserved by everybody, and its   *)
(* epoch, the greatest offered and one more, is new to everybody.          *)
(***************************************************************************)
EXTENDS CommCidProofs, FiniteSetTheorems

-----------------------------------------------------------------------------
(* The table of a process.  Ident(d, j) is the context id and epoch that   *)
(* the ids d give communicator j; the table t fits d and the set held if   *)
(* each of held is at its context id, and nothing else is in t.            *)
Ident(d, j) == IF j = 0 THEN <<0, 0>> ELSE d[j]
Fits(d, t, held) ==
  /\ \A j \in held : Ident(d, j) \in Cids \X Nat /\ t[Ident(d, j)[1]] = j
  /\ \A c \in Cids : t[c] # Null => t[c] \in held /\ Ident(d, t[c])[1] = c

(* What p has reserved, and the communicators it has.                      *)
Reserved(p) == IF call[p].phase = "reduce" THEN Mine(p) ELSE {}
Held(p) == IF call[p].phase = "activate" THEN have[p] \cup {call[p].comm} ELSE have[p]

(* But for the slots that are reserved, the table fits.                    *)
InTable(p) ==
  /\ Fits(id[p], Release(slot[p], Reserved(p)), Held(p))
  /\ 0 \in have[p] /\ have[p] \subseteq 0..done[p]
  /\ \A j \in have[p] \ {0} : p \in plan[j].on
  /\ call[p].phase # "user" =>
       plan[call[p].comm].parent \in have[p] /\ p \in plan[call[p].comm].on
  /\ \A c \in Reserved(p) : c \in Cids /\ slot[p][c] = plan[call[p].comm].parent

(* The epoch of a context id is that of its latest communicator.           *)
Dated(p) ==
  /\ \A j \in Created : id[p][j] # NoId =>
       /\ id[p][j] \in (Cids \ {0}) \X Nat /\ id[p][j][2] <= epoch[p][id[p][j][1]]
       /\ j <= done[p] \/ (call[p].phase = "activate" /\ j = call[p].comm)
  /\ \A i, j \in Created : i # j /\ id[p][i] # NoId => id[p][i] # id[p][j]
  /\ \A c \in Reserved(p) : given[call[p].comm][call[p].round][p].epochs[c] = epoch[p][c]

(* What is offered are context ids, with their epochs.                     *)
Offered ==
  \A k \in Created, r \in Rounds, q \in Procs : \A c \in DOMAIN given[k][r][q].epochs :
    c \in Cids /\ given[k][r][q].epochs[c] \in Nat

(* An agreement counts everybody alive.                                    *)
Present ==
  \A k \in Created, r \in Rounds : agreed[k][r] # {} =>
    k \in DOMAIN plan /\ plan[k].on \ crashed \subseteq agreed[k][r]

(* The groups of a creation.                                               *)
Grouped ==
  \A k \in DOMAIN plan : \A q \in plan[k].on :
    /\ plan[k].group[q] \subseteq plan[k].on /\ q \in plan[k].group[q] \cup crashed
    /\ \A p \in plan[k].group[q] : plan[k].group[p] = plan[k].group[q]

(* The table and its epochs, and what holds of every process.              *)
SlotTypes == slot \in [Procs -> [Cids -> Int]] /\ epoch \in [Procs -> [Cids -> Nat]]
Locals == \A p \in Procs : InTable(p) /\ Dated(p)

(* The invariant.                                                          *)
TInv == IInv /\ SlotTypes /\ Locals /\ Offered /\ Present /\ Grouped

-----------------------------------------------------------------------------
(* Context ids are numbers, and that of MPI_COMM_WORLD is one.             *)
LEMMA CidFacts == Cids \subseteq Nat /\ 0 \in Cids /\ Null \notin Nat /\ Null \in Int
BY CommCidAssumption DEF Cids, Null

(* Reserving empty slots, and giving them back.                            *)
LEMMA ReleaseFilled ==
  ASSUME NEW t \in [Cids -> Int], NEW M, \A c \in M : t[c] = Null,
         NEW u, \A c \in Cids : c \notin M => u[c] = t[c]
  PROVE  Release(u, M) = t
<1>1. \A c \in Cids : (IF c \in M THEN Null ELSE u[c]) = t[c]
  BY Zenon
<1>2. Release(u, M) = [c \in Cids |-> t[c]]
  BY <1>1, Zenon DEF Release
<1> QED BY <1>2, Zenon

(* Nothing to give back.                                                   *)
LEMMA ReleaseNone ==
  ASSUME NEW t \in [Cids -> Int] PROVE Release(t, {}) = t
<1>1. Release(t, {}) = [c \in Cids |-> t[c]]
  BY DEF Release
<1> QED BY <1>1, Zenon

(* What is left in a table.                                                *)
LEMMA ReleaseTable ==
  ASSUME NEW t \in [Cids -> Int], NEW M
  PROVE  /\ Release(t, M) \in [Cids -> Int]
         /\ \A c \in Cids : Release(t, M)[c] = IF c \in M THEN Null ELSE t[c]
BY CidFacts, Zenon DEF Release

(* The table when a communicator is entered, ...                           *)
LEMMA FitsTake ==
  ASSUME NEW d, NEW g, NEW t \in [Cids -> Int], NEW held, Fits(d, t, held),
         NEW k \in Nat \ {0}, k \notin held, Null \notin held, NEW c \in Cids, t[c] = Null, NEW e \in Nat,
         g[k] = <<c, e>>, \A j \in held \ {0} : g[j] = d[j],
         NEW u, u = [t EXCEPT ![c] = k]
  PROVE  Fits(g, u, held \cup {k})
<1>1. u[c] = k /\ \A x \in Cids : x # c => u[x] = t[x]
  BY Zenon
<1>2. \A j \in held : Ident(g, j) = Ident(d, j)
  BY Zenon DEF Ident
<1>3. Ident(g, k) = <<c, e>>
  BY DEF Ident
<1>4. Ident(g, k) \in Cids \X Nat /\ Ident(g, k)[1] = c
  BY <1>3
<1>5. /\ \A j \in held : Ident(d, j) \in Cids \X Nat /\ t[Ident(d, j)[1]] = j
      /\ \A x \in Cids : t[x] # Null => t[x] \in held /\ Ident(d, t[x])[1] = x
  BY Zenon DEF Fits
<1>6. ASSUME NEW j \in held
      PROVE  Ident(g, j) \in Cids \X Nat /\ u[Ident(g, j)[1]] = j
  <2>1. j # k /\ Ident(g, j) = Ident(d, j)
    BY <1>2, Zenon
  <2>2. Ident(d, j)[1] \in Cids /\ t[Ident(d, j)[1]] = j
    BY <1>5
  <2>3. Ident(d, j)[1] # c
    BY <2>2, Zenon
  <2>4. u[Ident(d, j)[1]] = j /\ Ident(d, j) \in Cids \X Nat
    BY <1>1, <1>5, <2>2, <2>3, Zenon
  <2> QED BY <2>1, <2>4, Zenon
<1>7. ASSUME NEW x \in Cids, u[x] # Null
      PROVE  u[x] \in held \cup {k} /\ Ident(g, u[x])[1] = x
  <2>1. CASE x = c
    BY <1>1, <1>4, <2>1, Zenon
  <2>2. CASE x # c
    <3>1. u[x] = t[x] /\ t[x] \in held /\ Ident(d, t[x])[1] = x
      BY <1>1, <1>5, <1>7, <2>2, Zenon
    <3> QED BY <1>2, <3>1, Zenon
  <2> QED BY <2>1, <2>2, Zenon
<1>8. \A j \in held \cup {k} : Ident(g, j) \in Cids \X Nat /\ u[Ident(g, j)[1]] = j
  BY <1>1, <1>4, <1>6, Zenon
<1> QED BY <1>7, <1>8, Zenon DEF Fits

(* ... and when one is removed.                                            *)
LEMMA FitsRemove ==
  ASSUME NEW d, NEW t \in [Cids -> Int], NEW held, Fits(d, t, held), NEW k \in held
  PROVE  Fits(d, Release(t, {Ident(d, k)[1]}), held \ {k})
<1>1. PICK c, u : c = Ident(d, k)[1] /\ u = Release(t, {c})
  BY Zenon
<1>2. u \in [Cids -> Int] /\ \A x \in Cids : u[x] = IF x = c THEN Null ELSE t[x]
  BY <1>1, ReleaseTable
<1>3. /\ \A j \in held : Ident(d, j) \in Cids \X Nat /\ t[Ident(d, j)[1]] = j
      /\ \A x \in Cids : t[x] # Null => t[x] \in held /\ Ident(d, t[x])[1] = x
  BY Zenon DEF Fits
<1>4. \A j \in held : Ident(d, j)[1] \in Cids
  BY <1>3
<1>5. ASSUME NEW j \in held \ {k}
      PROVE  Ident(d, j) \in Cids \X Nat /\ u[Ident(d, j)[1]] = j
  <2>1. t[c] = k /\ c \in Cids
    BY <1>1, <1>3, <1>4, Zenon
  <2>2. t[Ident(d, j)[1]] = j /\ Ident(d, j)[1] \in Cids /\ j # k
    BY <1>3, <1>4, Zenon
  <2>3. Ident(d, j)[1] # c
    BY <2>1, <2>2, Zenon
  <2>4. u[Ident(d, j)[1]] = t[Ident(d, j)[1]]
    BY <1>2, <2>2, <2>3, Zenon
  <2> QED BY <1>3, <2>2, <2>4, Zenon
<1>6. ASSUME NEW x \in Cids, u[x] # Null
      PROVE  u[x] \in held \ {k} /\ Ident(d, u[x])[1] = x
  <2>1. x # c /\ u[x] = t[x]
    BY <1>2, <1>6, Zenon
  <2>2. t[x] \in held /\ Ident(d, t[x])[1] = x
    BY <1>3, <1>6, <2>1, Zenon
  <2>3. t[x] # k
    BY <1>1, <2>1, <2>2, Zenon
  <2> QED BY <2>1, <2>2, <2>3, Zenon
<1> QED BY <1>1, <1>5, <1>6, Zenon DEF Fits

(* A list of numbers has a greatest one: a shortest list without one would *)
(* have one without its last element.                                      *)
LEMMA GreatestOfList ==
  ASSUME NEW n \in Nat \ {0}, NEW f \in [1..n -> Nat]
  PROVE  \E m \in 1..n : \A i \in 1..n : f[m] >= f[i]
<1>0. \A x \in Nat \ {0} : x # 1 =>
        /\ x - 1 \in Nat \ {0} /\ x - 1 < x /\ 1..(x - 1) \subseteq 1..x
        /\ 1..x = (1..(x - 1)) \cup {x} /\ x \in 1..x
  OBVIOUS
<1> DEFINE Good(x, g) == \E m \in 1..x : \A i \in 1..x : g[m] >= g[i]
           Bad == {x \in Nat \ {0} : \E g \in [1..x -> Nat] : ~Good(x, g)}
<1> SUFFICES ASSUME Bad # {} PROVE FALSE
  BY Zenon
<1>1. PICK x \in Bad : \A y \in Bad : ~(<<y, x>> \in OpToRel(<, Nat))
  <2>1. Bad \subseteq Nat
    BY Zenon
  <2> HIDE DEF Bad
  <2> QED BY <2>1, NatLessThanWellFounded, WFMin, Zenon
<1>2. x \in Nat \ {0}
  BY Zenon
<1>3. PICK g \in [1..x -> Nat] : ~Good(x, g)
  BY Zenon
<1>4. x # 1
  <2>1. SUFFICES ASSUME x = 1 PROVE Good(x, g)
    BY <1>3, Zenon
  <2>2. 1 \in 1..x /\ \A i \in 1..x : i = 1
    BY <2>1
  <2>3. g[1] >= g[1]
    <3>1. g[1] \in Nat
      BY <2>2, Zenon
    <3>2. \A a \in Nat : a >= a
      OBVIOUS
    <3> QED BY <3>1, <3>2, Zenon
  <2>4. \A i \in 1..x : g[1] >= g[i]
    BY <2>2, <2>3, Zenon
  <2> QED BY <2>2, <2>4, Zenon
<1>5. PICK y : y = x - 1
  BY Zenon
<1>6. y \in Nat \ {0} /\ y < x /\ 1..y \subseteq 1..x /\ 1..x = (1..y) \cup {x} /\ x \in 1..x
  BY <1>0, <1>2, <1>4, <1>5, Zenon
<1>7. y \notin Bad
  <2> HIDE DEF Bad
  <2>1. <<y, x>> \in OpToRel(<, Nat)
    BY <1>2, <1>6, Zenon DEF OpToRel
  <2> QED BY <1>1, <2>1, Zenon
<1>8. PICK h \in [1..y -> Nat] : h = [i \in 1..y |-> g[i]]
  BY <1>6
<1>9. PICK m \in 1..y : \A i \in 1..y : h[m] >= h[i]
  BY <1>6, <1>7, Zenon
<1>10. \A i \in 1..y : g[m] >= g[i]
  BY <1>8, <1>9, Zenon
<1>11. g[m] \in Nat /\ g[x] \in Nat /\ \A i \in 1..y : g[i] \in Nat
  BY <1>6, Zenon
<1>12. Good(x, g)
  <2>1. CASE g[m] >= g[x]
    <3>1. \A i \in 1..x : g[m] >= g[i]
      BY <1>6, <1>10, <2>1, Zenon
    <3> QED BY <1>6, <3>1, Zenon
  <2>2. CASE ~(g[m] >= g[x])
    <3>1. \A i \in 1..y : g[x] >= g[i]
      <4>1. \A a, b, c \in Nat : a >= b /\ ~(a >= c) => c >= b
        OBVIOUS
      <4> QED BY <1>10, <1>11, <2>2, <4>1, Zenon
    <3>2. g[x] >= g[x]
      BY <1>11
    <3>3. \A i \in 1..x : g[x] >= g[i]
      BY <1>6, <3>1, <3>2, Zenon
    <3> QED BY <1>6, <3>3, Zenon
  <2> QED BY <2>1, <2>2, Zenon
<1> QED BY <1>3, <1>12, Zenon

(* The maximum over a reduction is at least each contribution, and is one. *)
LEMMA GreatestOf ==
  ASSUME NEW Q, IsFiniteSet(Q), Q # {}, NEW f, \A q \in Q : f[q] \in Nat,
         NEW S, S = {f[q] : q \in Q}
  PROVE  Max(S) \in Nat /\ \A q \in Q : f[q] <= Max(S)
<1>1. PICK n \in Nat : ExistsSurjection(1..n, Q)
  BY FS_NatSurjection, Zenon
<1>2. PICK s \in [1..n -> Q] : \A q \in Q : \E i \in 1..n : s[i] = q
  BY <1>1, Zenon DEF ExistsSurjection, Surjection
<1>3. n # 0
  <2>1. SUFFICES ASSUME n = 0 PROVE FALSE
    BY Zenon
  <2>2. 1..n = {}
    BY <2>1
  <2> QED BY <1>2, <2>2, Zenon
<1>4. PICK h \in [1..n -> Nat] : h = [i \in 1..n |-> f[s[i]]]
  BY <1>2, Zenon
<1>5. PICK m \in 1..n : \A i \in 1..n : h[m] >= h[i]
  BY <1>3, GreatestOfList, Zenon
<1>6. \A i \in 1..n : h[i] = f[s[i]]
  BY <1>4, Zenon
<1>7. h[m] \in S
  BY <1>2, <1>6, Zenon
<1>8. ASSUME NEW y \in S PROVE h[m] >= y
  <2>1. PICK q \in Q : y = f[q]
    BY Zenon
  <2>2. PICK i \in 1..n : s[i] = q
    BY <1>2, Zenon
  <2>3. h[i] = y /\ h[m] >= h[i]
    BY <1>5, <1>6, <2>1, <2>2, Zenon
  <2> QED BY <2>3, Zenon
<1>9. Max(S) \in S /\ \A y \in S : Max(S) >= y
  <2>1. \E y \in S : \A z \in S : y >= z
    BY <1>7, <1>8, Zenon
  <2>2. PICK x : x = CHOOSE y \in S : \A z \in S : y >= z
    BY Zenon
  <2>3. x \in S /\ \A z \in S : x >= z
    BY <2>1, <2>2, Zenon
  <2> QED BY <2>2, <2>3, Zenon DEF Max
<1>10. Max(S) \in Nat
  BY <1>9, Zenon
<1>11. \A q \in Q : Max(S) >= f[q]
  BY <1>9, Zenon
<1>12. \A a, b \in Nat : b >= a => a <= b
  OBVIOUS
<1> QED BY <1>10, <1>11, <1>12, Zenon

-----------------------------------------------------------------------------
(* A step of another process.                                              *)
Undisturbed(q) ==
  /\ slot'[q] = slot[q] /\ epoch'[q] = epoch[q] /\ have'[q] = have[q]
  /\ call'[q] = call[q] /\ done'[q] = done[q] /\ id'[q] = id[q]
  /\ \A k \in Created, r \in Rounds : given'[k][r][q] = given[k][r][q]
PlanKept == \A k \in DOMAIN plan : plan'[k] = plan[k]

(* It leaves the table of q in order.                                      *)
LEMMA UndisturbedLocal ==
  ASSUME TInv, NEW q \in Procs, Undisturbed(q), PlanKept
  PROVE  InTable(q)' /\ Dated(q)'
<1>1. Types /\ Flow /\ InTable(q) /\ Dated(q)
  BY Zenon DEF TInv, IInv, Locals
<1>2. /\ slot'[q] = slot[q] /\ epoch'[q] = epoch[q] /\ have'[q] = have[q]
      /\ call'[q] = call[q] /\ done'[q] = done[q] /\ id'[q] = id[q]
  BY Zenon DEF Undisturbed
<1>3. call[q].phase # "user" =>
        /\ plan'[call[q].comm] = plan[call[q].comm]
        /\ given'[call[q].comm][call[q].round][q] = given[call[q].comm][call[q].round][q]
  BY <1>1, InCall, Zenon DEF Undisturbed, PlanKept
<1>4. Reserved(q)' = Reserved(q) /\ Held(q)' = Held(q)
  <2>1. CASE call[q].phase = "reduce"
    <3>1. Mine(q)' = Mine(q)
      BY <1>2, <1>3, <2>1 DEF Mine
    <3> QED BY <1>2, <2>1, <3>1 DEF Reserved, Held
  <2>2. CASE call[q].phase # "reduce"
    BY <1>2, <2>2 DEF Reserved, Held
  <2> QED BY <2>1, <2>2, Zenon
<1>5. \A j \in have[q] \ {0} : plan'[j] = plan[j]
  <2>1. have[q] \subseteq 0..Len(plan) /\ Len(plan) \in Nat /\ DOMAIN plan = 1..Len(plan)
    BY <1>1, PlanFacts, Zenon DEF Flow
  <2>2. \A j \in have[q] \ {0} : j \in DOMAIN plan
    BY <2>1
  <2> QED BY <2>2, Zenon DEF PlanKept
<1>6. Reserved(q) # {} => call[q].phase = "reduce"
  BY Zenon DEF Reserved
<1>7. InTable(q)'
  <2>1. Fits(id'[q], Release(slot'[q], Reserved(q)'), Held(q)')
    BY <1>1, <1>2, <1>4, Zenon DEF InTable
  <2>2. /\ 0 \in have'[q] /\ have'[q] \subseteq 0..done'[q]
        /\ \A j \in have'[q] \ {0} : q \in plan'[j].on
    BY <1>1, <1>2, <1>5, Zenon DEF InTable
  <2>3. call'[q].phase # "user" =>
          plan'[call'[q].comm].parent \in have'[q] /\ q \in plan'[call'[q].comm].on
    BY <1>1, <1>2, <1>3, Zenon DEF InTable
  <2>4. \A c \in Reserved(q)' : c \in Cids /\ slot'[q][c] = plan'[call'[q].comm].parent
    <3>1. \A c \in Reserved(q) : c \in Cids /\ slot[q][c] = plan[call[q].comm].parent
      BY <1>1, Zenon DEF InTable
    <3>2. Reserved(q) # {} => plan'[call'[q].comm] = plan[call[q].comm]
      BY <1>2, <1>3, <1>6
    <3> QED BY <1>2, <1>4, <3>1, <3>2, Zenon
  <2> QED BY <2>1, <2>2, <2>3, <2>4, Zenon DEF InTable
<1>8. Dated(q)'
  <2>1. \A j \in Created : id'[q][j] # NoId =>
          /\ id'[q][j] \in (Cids \ {0}) \X Nat /\ id'[q][j][2] <= epoch'[q][id'[q][j][1]]
          /\ j <= done'[q] \/ (call'[q].phase = "activate" /\ j = call'[q].comm)
    BY <1>1, <1>2 DEF Dated
  <2>2. \A i, j \in Created : i # j /\ id'[q][i] # NoId => id'[q][i] # id'[q][j]
    <3>1. \A i, j \in Created : i # j /\ id[q][i] # NoId => id[q][i] # id[q][j]
      BY <1>1, Zenon DEF Dated
    <3> QED BY <1>2, <3>1
  <2>3. \A c \in Reserved(q)' :
          given'[call'[q].comm][call'[q].round][q].epochs[c] = epoch'[q][c]
    <3>1. \A c \in Reserved(q) :
            given[call[q].comm][call[q].round][q].epochs[c] = epoch[q][c]
      BY <1>1, Zenon DEF Dated
    <3>2. Reserved(q) # {} =>
            given'[call'[q].comm][call'[q].round][q] = given[call[q].comm][call[q].round][q]
      BY <1>2, <1>3, <1>6
    <3> QED BY <1>2, <1>4, <3>1, <3>2, Zenon
  <2> QED BY <2>1, <2>2, <2>3, Zenon DEF Dated
<1> QED BY <1>7, <1>8, Zenon

(* p fills empty slots of its table, with the parent of creation k.        *)
Fills(p, k, r, j, t) ==
  \E M \in SUBSET Cids :
    /\ \A c \in M : t[c] = Null
    /\ slot' = [slot EXCEPT ![p] = [c \in Cids |-> IF c \in M THEN j ELSE t[c]]]
    /\ DOMAIN given'[k][r][p].epochs = M
    /\ \A c \in M : given'[k][r][p].epochs[c] = epoch[p][c]
Filling(p, k, r) ==
  /\ call[p].phase # "activate" /\ r # 0 /\ Planned
  /\ k \in DOMAIN plan' /\ k > done[p] /\ plan'[k].parent \in have[p] /\ p \in plan'[k].on
  /\ Reserving(p, k, r)
  /\ Fills(p, k, r, plan'[k].parent, Release(slot[p], Reserved(p)))
  /\ UNCHANGED <<done, have, epoch, id, agreed, faults>>

(* Reserve does so.                                                        *)
LEMMA ReserveFills ==
  ASSUME TInv, NEW p \in Procs, NEW k \in Created, NEW j, NEW ft \in BOOLEAN,
         NEW r \in Rounds, NEW t, NEW start, Reserve(p, k, j, ft, r, t, start)
  PROVE  Reserving(p, k, r) /\ Fills(p, k, r, j, t)
<1>1. Types /\ Tables
  BY Zenon DEF TInv, IInv
<1>2. Reserving(p, k, r)
  BY <1>1, ReserveStep, Zenon
<1>3. PICK M, o : M = Candidates(t, start) /\ o = Offer(t, epoch[p], start)
  BY Zenon
<1>4. /\ slot' = [slot EXCEPT ![p] = [c \in Cids |-> IF c \in M THEN j ELSE t[c]]]
      /\ given' = [given EXCEPT ![k][r][p] = o]
  BY <1>3, Zenon DEF Reserve
<1>5. M \in SUBSET Cids /\ \A c \in M : t[c] = Null
  BY <1>3 DEF Candidates
<1>6. o.epochs = [c \in M |-> epoch[p][c]]
  <2> HIDE DEF Candidates
  <2> QED BY <1>3 DEF Offer
<1>7. given'[k][r][p] = o
  <2>1. PICK S : given \in [Created -> [Rounds -> [Procs -> S]]]
    BY <1>1, Zenon DEF Tables
  <2> QED BY <1>4, <2>1
<1>8. DOMAIN given'[k][r][p].epochs = M /\ \A c \in M : given'[k][r][p].epochs[c] = epoch[p][c]
  BY <1>6, <1>7, Zenon
<1> QED BY <1>2, <1>4, <1>5, <1>8, Zenon DEF Fills

(* Filling the table keeps it in order.                                    *)
LEMMA FillingStep ==
  ASSUME TInv, NEW p \in Procs, NEW k \in Created, NEW r \in Rounds, Filling(p, k, r)
  PROVE  SlotTypes' /\ Locals' /\ Offered' /\ Present'
<1>1. /\ Types /\ Flow /\ InTable(p) /\ Dated(p) /\ SlotTypes /\ Offered /\ Present
  BY Zenon DEF TInv, IInv, Locals
<1>2. PICK j, t : j = plan'[k].parent /\ t = Release(slot[p], Reserved(p))
  BY Zenon
<1>3. /\ call[p].phase # "activate" /\ Planned /\ k \in DOMAIN plan' /\ k > done[p]
      /\ j \in have[p] /\ p \in plan'[k].on /\ Reserving(p, k, r) /\ Fills(p, k, r, j, t)
      /\ UNCHANGED <<done, have, epoch, id, agreed, faults>>
  BY <1>2, Zenon DEF Filling
<1>4. PICK M \in SUBSET Cids :
        /\ \A c \in M : t[c] = Null
        /\ slot' = [slot EXCEPT ![p] = [c \in Cids |-> IF c \in M THEN j ELSE t[c]]]
        /\ DOMAIN given'[k][r][p].epochs = M
        /\ \A c \in M : given'[k][r][p].epochs[c] = epoch[p][c]
  BY <1>3, Zenon DEF Fills
<1>5. /\ call'[p].comm = k /\ call'[p].phase = "reduce" /\ call'[p].round = r
      /\ OneGiven(k, r, p) /\ \A q \in Procs \ {p} : call'[q] = call[q]
  BY <1>3, Zenon DEF Reserving
<1>6. PlanKept /\ DOMAIN plan \subseteq DOMAIN plan' /\ crashed' = crashed
  <2>1. /\ plan' \in Seq(Plans) /\ plan \in Seq(Plans) /\ Len(plan) <= Len(plan')
        /\ \A i \in DOMAIN plan : plan'[i] = plan[i]
    BY <1>1, <1>3, Zenon DEF Planned, Types
  <2>2. DOMAIN plan \subseteq DOMAIN plan'
    BY <2>1
  <2> QED BY <1>3, <2>1, <2>2, Zenon DEF PlanKept, faults
<1>7. slot \in [Procs -> [Cids -> Int]] /\ epoch \in [Procs -> [Cids -> Nat]]
  BY <1>1, Zenon DEF SlotTypes
<1>8. t \in [Cids -> Int] /\ j \in Nat
  <2>1. have[p] \in SUBSET Nat
    BY <1>1, Zenon DEF Types
  <2>2. slot[p] \in [Cids -> Int]
    BY <1>7, Zenon
  <2>3. Release(slot[p], Reserved(p)) \in [Cids -> Int]
    BY <2>2, ReleaseTable
  <2> QED BY <1>2, <1>3, <2>1, <2>3, Zenon
<1>9. PICK u : u = [c \in Cids |-> IF c \in M THEN j ELSE t[c]]
  BY Zenon
<1>10. u \in [Cids -> Int]
  BY <1>8, <1>9
<1>11. slot' \in [Procs -> [Cids -> Int]] /\ slot'[p] = u /\ \A q \in Procs \ {p} : slot'[q] = slot[q]
  BY <1>4, <1>7, <1>9, <1>10, Zenon
<1>12. SlotTypes'
  BY <1>3, <1>7, <1>11, Zenon DEF SlotTypes
<1>13. ASSUME NEW q \in Procs \ {p} PROVE InTable(q)' /\ Dated(q)'
  <2>1. \A i \in Created, x \in Rounds : given'[i][x][q] = given[i][x][q]
    BY <1>5, Zenon DEF OneGiven
  <2>2. Undisturbed(q)
    BY <1>3, <1>5, <1>11, <2>1, Zenon DEF Undisturbed
  <2> QED BY <1>6, <2>2, UndisturbedLocal, Zenon
<1>14. Reserved(p)' = M /\ Held(p)' = have[p] /\ Held(p) = have[p]
  <2>1. Mine(p)' = M
    BY <1>4, <1>5, Zenon DEF Mine
  <2>2. have'[p] = have[p] /\ "reduce" # "activate"
    BY <1>3
  <2> QED BY <1>3, <1>5, <2>1, <2>2, Zenon DEF Reserved, Held
<1>15. \A i \in have[p] \ {0} : plan'[i] = plan[i]
  <2>1. have[p] \subseteq 0..Len(plan) /\ Len(plan) \in Nat /\ DOMAIN plan = 1..Len(plan)
    BY <1>1, PlanFacts, Zenon DEF Flow
  <2>2. \A i \in have[p] \ {0} : i \in DOMAIN plan
    BY <2>1
  <2> QED BY <1>6, <2>2, Zenon DEF PlanKept
<1>16. InTable(p)'
  <2>1. Fits(id'[p], Release(slot'[p], Reserved(p)'), Held(p)')
    <3>1. Fits(id[p], t, have[p])
      BY <1>1, <1>2, <1>14, Zenon DEF InTable
    <3>2. Release(u, M) = t
      <4>1. \A c \in Cids : c \notin M => u[c] = t[c]
        BY <1>9, Zenon
      <4>2. \A c \in M : t[c] = Null
        BY <1>4, Zenon
      <4>3. t \in [Cids -> Int]
        BY <1>8, Zenon
      <4> QED BY <4>1, <4>2, <4>3, ReleaseFilled, Zenon
    <3>3. id'[p] = id[p]
      BY <1>3
    <3> QED BY <1>11, <1>14, <3>1, <3>2, <3>3, Zenon
  <2>2. /\ 0 \in have'[p] /\ have'[p] \subseteq 0..done'[p]
        /\ \A i \in have'[p] \ {0} : p \in plan'[i].on
    BY <1>1, <1>3, <1>15, Zenon DEF InTable
  <2>3. plan'[call'[p].comm].parent \in have'[p] /\ p \in plan'[call'[p].comm].on
    BY <1>2, <1>3, <1>5, Zenon
  <2>4. \A c \in Reserved(p)' : c \in Cids /\ slot'[p][c] = plan'[call'[p].comm].parent
    BY <1>2, <1>5, <1>9, <1>11, <1>14, Zenon
  <2> QED BY <2>1, <2>2, <2>3, <2>4, Zenon DEF InTable
<1>17. Dated(p)'
  <2>1. PICK d, e : d = id[p] /\ e = epoch[p]
    BY Zenon
  <2>2. id'[p] = d /\ epoch'[p] = e /\ done'[p] = done[p]
    BY <1>3, <2>1
  <2>3. /\ \A i \in Created : d[i] # NoId =>
             d[i] \in (Cids \ {0}) \X Nat /\ d[i][2] <= e[d[i][1]] /\ i <= done[p]
        /\ \A i, x \in Created : i # x /\ d[i] # NoId => d[i] # d[x]
    BY <1>1, <1>3, <2>1, Zenon DEF Dated
  <2>4. \A c \in Reserved(p)' : given'[call'[p].comm][call'[p].round][p].epochs[c] = e[c]
    BY <1>4, <1>5, <1>14, <2>1, Zenon
  <2> QED BY <2>2, <2>3, <2>4, Zenon DEF Dated
<1>18. Locals'
  BY <1>13, <1>16, <1>17, Zenon DEF Locals
<1>19. Offered'
  <2> SUFFICES ASSUME NEW i \in Created, NEW x \in Rounds, NEW q \in Procs,
                      NEW c \in DOMAIN given'[i][x][q].epochs
               PROVE  c \in Cids /\ given'[i][x][q].epochs[c] \in Nat
    BY Zenon DEF Offered
  <2>1. CASE i = k /\ x = r /\ q = p
    BY <1>4, <1>7, <2>1, Zenon
  <2>2. CASE i # k \/ x # r \/ q # p
    <3>1. given'[i][x][q] = given[i][x][q]
      BY <1>5, <2>2, Zenon DEF OneGiven
    <3> QED BY <1>1, <3>1, Zenon DEF Offered
  <2> QED BY <2>1, <2>2, Zenon
<1>20. Present'
  <2>1. agreed' = agreed
    BY <1>3
  <2> QED BY <1>1, <1>6, <2>1, Zenon DEF Present, PlanKept
<1> QED BY <1>12, <1>18, <1>19, <1>20, Zenon

-----------------------------------------------------------------------------
(* Outside a creation nothing is reserved.                                 *)
LEMMA IdleReserves ==
  ASSUME TInv, NEW p \in Procs, call[p] = Idle
  PROVE  /\ call[p].phase = "user" /\ Reserved(p) = {} /\ Held(p) = have[p]
         /\ Release(slot[p], Reserved(p)) = slot[p]
<1>1. call[p].phase = "user"
  BY DEF Idle
<1>2. Reserved(p) = {} /\ Held(p) = have[p]
  BY <1>1 DEF Reserved, Held
<1>3. slot[p] \in [Cids -> Int]
  BY Zenon DEF TInv, SlotTypes
<1>4. Release(slot[p], {}) = slot[p]
  BY <1>3, ReleaseNone, Zenon
<1> QED BY <1>1, <1>2, <1>4, Zenon

(* A process is in the group of a communicator that it has.                *)
LEMMA GroupHas ==
  ASSUME TInv, NEW p \in Procs, Here(p), NEW j \in have[p]
  PROVE  p \in Group(j, p)
<1>1. Types /\ Flow /\ InTable(p) /\ Grouped
  BY Zenon DEF TInv, IInv, Locals
<1>2. CASE j = 0
  BY <1>2, Zenon DEF Group
<1>3. CASE j # 0
  <2>1. j \in 0..Len(plan)
    BY <1>1, Zenon DEF Flow
  <2>2. j \in DOMAIN plan
    BY <1>1, <1>3, <2>1, PlanFacts
  <2>3. p \in plan[j].on
    BY <1>1, <1>3, Zenon DEF InTable
  <2> QED BY <1>1, <1>3, <2>2, <2>3, Zenon DEF Grouped, Group, Here
<1> QED BY <1>2, <1>3, Zenon

(* The groups of a creation to come.                                       *)
Groups(rec) ==
  \A q \in rec.on :
    /\ rec.group[q] \subseteq rec.on /\ q \in rec.group[q] \cup crashed
    /\ \A p \in rec.group[q] : rec.group[p] = rec.group[q]

(* The first call of a creation.                                           *)
LEMMA FirstFills ==
  ASSUME TInv, NEW p \in Procs, NEW rec \in Plans, NEW j \in have[p], NEW ft \in BOOLEAN,
         rec.parent = j, p \in rec.on, Groups(rec),
         call[p] = Idle, Len(plan) < MaxComms, plan' = Append(plan, rec),
         Enter(p, Len(plan) + 1, j, ft), UNCHANGED <<done, have, epoch, id, agreed, faults>>
  PROVE  (\E k \in Created, r \in Rounds : Filling(p, k, r)) /\ Grouped'
<1>1. Types /\ Flow /\ Grouped
  BY Zenon DEF TInv, IInv
<1>2. PICK k : k = Len(plan) + 1
  BY Zenon
<1>3. Planned /\ k \in DOMAIN plan' /\ k \in Created
  BY <1>1, <1>2, PlanAppended
<1>4. plan'[k] = rec /\ \A i \in DOMAIN plan' : i = k \/ i \in DOMAIN plan
  <2>1. plan \in Seq(Plans)
    BY <1>1, Zenon DEF Types
  <2> QED BY <1>2, <2>1
<1>5. k > done[p]
  <2>1. done[p] \in Nat /\ done[p] <= Len(plan)
    BY <1>1, Zenon DEF Types, Flow
  <2> QED BY <1>1, <1>2, <2>1, PlanFacts
<1>6. Reserving(p, k, 1) /\ Fills(p, k, 1, j, slot[p])
  <2>1. Reserve(p, k, j, ft, 1, slot[p], HighestTaken(slot[p]) + 1)
    BY <1>2, Zenon DEF Enter
  <2> QED BY <1>3, <2>1, Numbers, ReserveFills, Zenon
<1>7. call[p].phase # "activate" /\ Release(slot[p], Reserved(p)) = slot[p] /\ 1 # 0
  BY IdleReserves
<1>8. Filling(p, k, 1)
  BY <1>3, <1>4, <1>5, <1>6, <1>7, Zenon DEF Filling
<1>9. Grouped'
  <2>1. crashed' = crashed
    BY DEF faults
  <2>2. \A i \in DOMAIN plan : plan'[i] = plan[i]
    BY <1>3, Zenon DEF Planned
  <2> SUFFICES ASSUME NEW i \in DOMAIN plan', NEW q \in plan'[i].on
               PROVE  /\ plan'[i].group[q] \subseteq plan'[i].on
                      /\ q \in plan'[i].group[q] \cup crashed'
                      /\ \A x \in plan'[i].group[q] : plan'[i].group[x] = plan'[i].group[q]
    BY Zenon DEF Grouped
  <2>3. CASE i = k
    BY <1>4, <2>1, <2>3, Zenon DEF Groups
  <2>4. CASE i \in DOMAIN plan
    <3>1. plan'[i] = plan[i] /\ q \in plan[i].on
      BY <2>2, <2>4, Zenon
    <3> QED BY <1>1, <2>1, <2>4, <3>1, Zenon DEF Grouped
  <2> QED BY <1>4, <2>3, <2>4, Zenon
<1> QED BY <1>3, <1>8, <1>9, Numbers, Zenon

(* MPI_Comm_dup and MPI_Comm_split: the colours divide the group.          *)
LEMMA CreateFills ==
  ASSUME TInv, NEW p \in Procs, Create(p)
  PROVE  (\E k \in Created, r \in Rounds : Filling(p, k, r)) /\ Grouped'
<1>1. PICK j \in have[p], col \in Colours :
        /\ InUserCode(p) /\ Len(plan) < MaxComms
        /\ plan' = Append(plan,
             [parent |-> j, on |-> Group(j, p), ft |-> FALSE,
              group |-> [q \in Procs |-> {r \in Group(j, p) : col[r] = col[q]}]])
        /\ Enter(p, Len(plan) + 1, j, FALSE)
        /\ UNCHANGED <<done, have, epoch, id, agreed, faults>>
  BY Zenon DEF Create
<1>2. PICK G \in SUBSET Procs : G = Group(j, p) /\ j \in Nat
  BY GroupType DEF TInv, IInv
<1>3. PICK rec \in Plans :
        rec = [parent |-> j, on |-> G, ft |-> FALSE,
               group |-> [q \in Procs |-> {r \in G : col[r] = col[q]}]]
  BY <1>2, Zenon DEF Plans
<1>4. plan' = Append(plan, rec) /\ call[p] = Idle /\ Here(p)
  BY <1>1, <1>2, <1>3 DEF InUserCode
<1>5. /\ rec.parent = j /\ rec.on = G
      /\ \A q \in Procs : rec.group[q] = {r \in G : col[r] = col[q]}
  BY <1>3
<1>6. Groups(rec)
  <2> SUFFICES ASSUME NEW q \in G
               PROVE  /\ rec.group[q] \subseteq G /\ q \in rec.group[q]
                      /\ \A x \in rec.group[q] : rec.group[x] = rec.group[q]
    BY <1>5, Zenon DEF Groups
  <2>1. rec.group[q] = {r \in G : col[r] = col[q]}
    BY <1>5
  <2>2. ASSUME NEW x \in rec.group[q] PROVE rec.group[x] = rec.group[q]
    <3>1. x \in G /\ col[x] = col[q]
      BY <2>1, Zenon
    <3>2. rec.group[x] = {r \in G : col[r] = col[x]}
      BY <1>5, <3>1
    <3> QED BY <2>1, <3>1, <3>2, Zenon
  <2> QED BY <2>1, <2>2, Zenon
<1>7. p \in rec.on
  BY <1>2, <1>4, <1>5, GroupHas, Zenon
<1> QED BY <1>1, <1>4, <1>5, <1>6, <1>7, FirstFills, Zenon

(* MPI_Comm_shrink: the group is that of the living.                       *)
LEMMA ShrinkFills ==
  ASSUME TInv, NEW p \in Procs, Shrink(p)
  PROVE  (\E k \in Created, r \in Rounds : Filling(p, k, r)) /\ Grouped'
<1>1. PICK j \in have[p] :
        /\ InUserCode(p) /\ Len(plan) < MaxComms
        /\ plan' = Append(plan,
             [parent |-> j, on |-> Group(j, p), ft |-> TRUE,
              group |-> [q \in Procs |-> Group(j, p) \ crashed]])
        /\ Enter(p, Len(plan) + 1, j, TRUE)
        /\ UNCHANGED <<done, have, epoch, id, agreed, faults>>
  BY Zenon DEF Shrink
<1>2. PICK G \in SUBSET Procs : G = Group(j, p) /\ j \in Nat
  BY GroupType DEF TInv, IInv
<1>3. PICK rec \in Plans :
        rec = [parent |-> j, on |-> G, ft |-> TRUE, group |-> [q \in Procs |-> G \ crashed]]
  BY <1>2, Zenon DEF Plans
<1>4. plan' = Append(plan, rec) /\ call[p] = Idle /\ Here(p)
  BY <1>1, <1>2, <1>3 DEF InUserCode
<1>5. rec.parent = j /\ rec.on = G /\ \A q \in Procs : rec.group[q] = G \ crashed
  BY <1>3
<1>6. Groups(rec)
  <2>1. \A q \in G : q \in Procs
    BY Zenon
  <2> QED BY <1>5, <2>1, Zenon DEF Groups
<1>7. p \in rec.on
  BY <1>2, <1>4, <1>5, GroupHas, Zenon
<1> QED BY <1>1, <1>4, <1>5, <1>6, <1>7, FirstFills, Zenon

(* Without a new creation the groups are what they were.                   *)
LEMMA GroupsKept ==
  ASSUME Grouped, plan' = plan, crashed \subseteq crashed'
  PROVE  Grouped'
<1> SUFFICES ASSUME NEW k \in DOMAIN plan, NEW q \in plan[k].on
             PROVE  /\ plan[k].group[q] \subseteq plan[k].on
                    /\ q \in plan[k].group[q] \cup crashed'
                    /\ \A p \in plan[k].group[q] : plan[k].group[p] = plan[k].group[q]
  BY DEF Grouped
<1> QED BY DEF Grouped

(* The other members call the creation.                                    *)
LEMMA JoinFills ==
  ASSUME TInv, NEW p \in Procs, Join(p)
  PROVE  (\E k \in Created, r \in Rounds : Filling(p, k, r)) /\ Grouped'
<1>1. Types /\ Grouped
  BY Zenon DEF TInv, IInv
<1>2. PICK k : k = Min(Pending(p))
  BY Zenon
<1>3. /\ call[p] = Idle /\ Pending(p) # {} /\ Enter(p, k, plan[k].parent, plan[k].ft)
      /\ UNCHANGED <<plan, done, have, epoch, id, agreed, faults>>
  BY <1>2, Zenon DEF Join
<1>4. k \in DOMAIN plan /\ k \in Created /\ k > done[p] /\ plan[k] \in Plans
  BY <1>1, <1>2, <1>3, PendingFirst
<1>5. p \in plan[k].on /\ plan[k].parent \in have[p]
  <2>1. Pending(p) \in SUBSET Nat
    BY <1>1, PlanFacts DEF Pending
  <2>2. k \in Pending(p)
    BY <1>2, <1>3, <2>1, LeastNat
  <2> QED BY <2>2, Zenon DEF Pending
<1>6. Planned
  BY <1>1, <1>3, PlanFacts DEF Types, Planned
<1>7. Reserving(p, k, 1) /\ Fills(p, k, 1, plan[k].parent, slot[p])
  <2>1. plan[k].ft \in BOOLEAN
    BY <1>4 DEF Plans
  <2>2. Reserve(p, k, plan[k].parent, plan[k].ft, 1, slot[p], HighestTaken(slot[p]) + 1)
    BY <1>3, Zenon DEF Enter
  <2> QED BY <1>4, <2>1, <2>2, Numbers, ReserveFills, Zenon
<1>8. call[p].phase # "activate" /\ Release(slot[p], Reserved(p)) = slot[p] /\ 1 # 0
  BY <1>3, IdleReserves
<1>9. plan'[k] = plan[k] /\ k \in DOMAIN plan'
  BY <1>3, <1>4
<1>10. Filling(p, k, 1)
  BY <1>3, <1>4, <1>5, <1>6, <1>7, <1>8, <1>9, Zenon DEF Filling
<1>11. Grouped'
  BY <1>1, <1>3, GroupsKept DEF faults
<1> QED BY <1>4, <1>10, <1>11, Numbers, Zenon

(* Another reduction, when there was no id in common.                      *)
LEMMA RetryFills ==
  ASSUME TInv, NEW p \in Procs, Retry(p)
  PROVE  (\E k \in Created, r \in Rounds : Filling(p, k, r)) /\ Grouped'
<1>1. Types /\ Flow /\ Grouped /\ InTable(p)
  BY Zenon DEF TInv, IInv, Locals
<1>2. PICK k, r : k = call[p].comm /\ r = call[p].round
  BY Zenon
<1>3. /\ call[p].phase = "reduce" /\ r < MaxRounds
      /\ Reserve(p, k, plan[k].parent, plan[k].ft, r + 1, Release(slot[p], Mine(p)), NextStart(k, r))
      /\ UNCHANGED <<plan, done, have, epoch, id, agreed, faults>>
  BY <1>2, Zenon DEF Retry, Reducing
<1>4. call[p].phase # "user" /\ call[p].phase # "activate"
  BY <1>3
<1>5. k \in DOMAIN plan /\ k \in Created /\ k > done[p] /\ r \in Rounds /\ plan[k] \in Plans
  BY <1>1, <1>2, <1>4, InCall, Zenon
<1>6. r + 1 \in Rounds /\ r + 1 # 0
  BY <1>3, <1>5, CommCidAssumption DEF Rounds
<1>7. p \in plan[k].on /\ plan[k].parent \in have[p]
  BY <1>1, <1>2, <1>4, Zenon DEF InTable
<1>8. Planned
  BY <1>1, <1>3, PlanFacts DEF Types, Planned
<1>9. Reserving(p, k, r + 1) /\ Fills(p, k, r + 1, plan[k].parent, Release(slot[p], Mine(p)))
  <2>1. plan[k].ft \in BOOLEAN
    BY <1>5 DEF Plans
  <2> QED BY <1>3, <1>5, <1>6, <2>1, ReserveFills, Zenon
<1>10. Mine(p) = Reserved(p)
  BY <1>3, Zenon DEF Reserved
<1>11. plan'[k] = plan[k] /\ k \in DOMAIN plan'
  BY <1>3, <1>5
<1>12. Filling(p, k, r + 1)
  BY <1>3, <1>4, <1>5, <1>6, <1>7, <1>8, <1>9, <1>10, <1>11, Zenon DEF Filling
<1>13. Grouped'
  BY <1>1, <1>3, GroupsKept DEF faults
<1> QED BY <1>5, <1>6, <1>12, <1>13, Zenon

-----------------------------------------------------------------------------
(* Everybody alive is in the reduction that a process returns from.        *)
LEMMA InInputs ==
  ASSUME TInv, NEW p \in Procs, Reducing(p), NEW k, k = call[p].comm, NEW r, r = call[p].round,
         Inputs(k, r) # {}
  PROVE  /\ k \in DOMAIN plan /\ k \in Created /\ r \in Reductions /\ p \in Inputs(k, r)
         /\ Inputs(k, r) \subseteq Procs
<1>1. Types /\ Flow /\ Counted /\ Present /\ InTable(p)
  BY Zenon DEF TInv, IInv, Locals
<1>2. call[p].phase # "user" /\ call[p].phase = "reduce" /\ p \notin crashed
  BY DEF Reducing, Here
<1>3. k \in DOMAIN plan /\ k \in Created /\ r \in Rounds /\ r # 0
  BY <1>1, <1>2, InCall, Zenon DEF Flow
<1>4. r \in Reductions
  BY <1>3, Zenon DEF Reductions
<1>5. p \in plan[k].on
  BY <1>1, <1>2, Zenon DEF InTable
<1>6. p \in Inputs(k, r)
  <2>1. CASE plan[k].ft
    <3>1. Inputs(k, r) = agreed[k][r]
      BY <2>1, Zenon DEF Inputs
    <3>2. plan[k].on \ crashed \subseteq agreed[k][r]
      BY <1>1, <1>3, <3>1, Zenon DEF Present
    <3>3. p \in plan[k].on \ crashed
      BY <1>2, <1>5, Zenon
    <3> QED BY <3>1, <3>2, <3>3, Zenon
  <2>2. CASE ~plan[k].ft
    <3>1. Inputs(k, r) = plan[k].on
      BY <2>2, Zenon DEF Inputs
    <3> QED BY <1>5, <3>1, Zenon
  <2> QED BY <2>1, <2>2, Zenon
<1>7. Inputs(k, r) \subseteq Procs
  BY <1>1, <1>3, <1>4, InputsCounted, Zenon
<1> QED BY <1>3, <1>4, <1>6, <1>7, Zenon

(* An id that is found is one that everybody has offered.                  *)
LEMMA FoundCommon ==
  ASSUME NEW k, NEW r, NEW c, c = NextCid(k, r), c # 0
  PROVE  c \in Cids /\ \A q \in Inputs(k, r) : c \in DOMAIN given[k][r][q].epochs
<1>1. PICK S : S = Common(k, r)
  BY Zenon
<1>2. Cardinality(S) = Width /\ c = Min(S)
  BY <1>1, Zenon DEF NextCid
<1>3. S # {}
  <2>1. Width # 0
    BY CommCidAssumption
  <2> QED BY <1>2, <2>1, FS_EmptySet, Zenon
<1>4. S \in SUBSET Nat
  BY <1>1, CidFacts, Zenon DEF Common
<1>5. c \in S
  BY <1>2, <1>3, <1>4, LeastNat, Zenon
<1> QED BY <1>1, <1>5, Zenon DEF Common

(* p enters communicator k in its table, at a slot that it had reserved    *)
(* and with an epoch that is new there.                                    *)
Entering(p, k, c, e) ==
  /\ call[p].phase = "reduce" /\ k = call[p].comm
  /\ c \in Reserved(p) /\ c # 0 /\ e \in Nat /\ epoch[p][c] < e
  /\ slot' = [slot EXCEPT ![p] = [Release(slot[p], Reserved(p)) EXCEPT ![c] = k]]
  /\ id' = [id EXCEPT ![p][k] = <<c, e>>]
  /\ epoch' = [epoch EXCEPT ![p][c] = e]
  /\ \A q \in Procs \ {p} : call'[q] = call[q]
  /\ call'[p].comm = k /\ call'[p].phase = "activate"
  /\ OneGiven(k, 0, p) /\ DOMAIN given'[k][0][p].epochs = {}
  /\ UNCHANGED <<plan, done, have, agreed, faults>>

(* So does a process that takes the id (ompi_comm_nextcid): the one found  *)
(* is one of those that it has reserved.                                   *)
LEMMA TakeEnters ==
  ASSUME TInv, NEW p \in Procs, Take(p)
  PROVE  \E k \in Created : \E c, e : Entering(p, k, c, e)
<1>1. Types /\ Tables /\ Flow /\ Dated(p) /\ Offered
  BY Zenon DEF TInv, IInv, Locals
<1>2. PICK k, r, c, e : /\ k = call[p].comm /\ r = call[p].round /\ c = NextCid(k, r)
                        /\ e = NextEpoch(k, r, c) + 1
  BY Zenon
<1>3. PICK w, o : /\ w = Waiting(p, k, plan[k].parent, plan[k].ft, "activate", 0)
                  /\ o = [last |-> MaxCid, epochs |-> <<>>]
  BY Zenon
<1>4. /\ Reducing(p) /\ Inputs(k, r) # {} /\ c # 0
      /\ slot' = [slot EXCEPT ![p] = [Release(slot[p], Mine(p)) EXCEPT ![c] = k]]
      /\ id' = [id EXCEPT ![p][k] = <<c, e>>]
      /\ epoch' = [epoch EXCEPT ![p][c] = e]
      /\ call' = [call EXCEPT ![p] = w] /\ given' = [given EXCEPT ![k][0][p] = o]
      /\ UNCHANGED <<plan, done, have, agreed, faults>>
  BY <1>2, <1>3, Zenon DEF Take
<1>5. /\ k \in DOMAIN plan /\ k \in Created /\ r \in Reductions /\ p \in Inputs(k, r)
      /\ Inputs(k, r) \subseteq Procs
  BY <1>2, <1>4, InInputs, Zenon
<1>6. c \in Cids /\ \A q \in Inputs(k, r) : c \in DOMAIN given[k][r][q].epochs
  BY <1>2, <1>4, FoundCommon, Zenon
<1>7. call[p].phase = "reduce" /\ Reserved(p) = Mine(p) /\ c \in Mine(p)
  <2>1. call[p].phase = "reduce"
    BY <1>4, Zenon DEF Reducing
  <2>2. c \in Mine(p)
    BY <1>2, <1>5, <1>6, Zenon DEF Mine
  <2> QED BY <2>1, <2>2, Zenon DEF Reserved
<1>8. e \in Nat /\ epoch[p][c] < e
  <2>1. PICK f : f = [q \in Inputs(k, r) |-> given[k][r][q].epochs[c]]
    BY Zenon
  <2>2. \A q \in Inputs(k, r) : f[q] = given[k][r][q].epochs[c]
    BY <2>1, Zenon
  <2>3. \A q \in Inputs(k, r) : f[q] \in Nat
    <3>1. r \in Rounds
      BY <1>5, Numbers, Zenon
    <3> QED BY <1>1, <1>5, <1>6, <2>2, <3>1, Zenon DEF Offered
  <2>4. PICK m : m = NextEpoch(k, r, c)
    BY Zenon
  <2>5. m = Max({f[q] : q \in Inputs(k, r)})
    <3>1. {f[q] : q \in Inputs(k, r)} = {given[k][r][q].epochs[c] : q \in Inputs(k, r)}
      BY <2>2, Zenon
    <3> QED BY <2>4, <3>1, Zenon DEF NextEpoch
  <2>6. IsFiniteSet(Inputs(k, r))
    BY <1>5, CommCidAssumption, FS_Subset, Zenon
  <2>7. m \in Nat /\ \A q \in Inputs(k, r) : f[q] <= m
    BY <1>4, <2>3, <2>5, <2>6, GreatestOf, Zenon
  <2>8. f[p] = epoch[p][c]
    BY <1>1, <1>2, <1>5, <1>7, <2>2, Zenon DEF Dated
  <2>9. f[p] \in Nat /\ f[p] <= m
    BY <1>5, <2>3, <2>7, Zenon
  <2>10. e = m + 1
    BY <1>2, <2>4, Zenon
  <2> QED BY <2>7, <2>8, <2>9, <2>10
<1>9. /\ \A q \in Procs \ {p} : call'[q] = call[q]
      /\ call'[p].comm = k /\ call'[p].phase = "activate"
  <2>1. w.comm = k /\ w.phase = "activate"
    BY <1>3 DEF Waiting
  <2> QED BY <1>1, <1>4, <2>1 DEF Types
<1>10. OneGiven(k, 0, p)
  <2>1. Gives(k, 0, p, o)
    BY <1>4, Zenon DEF Gives
  <2> QED BY <1>1, <1>5, <2>1, Numbers, GivenExcept, Zenon
<1>11. DOMAIN given'[k][0][p].epochs = {}
  <2>1. PICK S : given \in [Created -> [Rounds -> [Procs -> S]]]
    BY <1>1, Zenon DEF Tables
  <2>2. given'[k][0][p] = o
    BY <1>4, <1>5, <2>1, Numbers
  <2>3. DOMAIN o.epochs = {}
    BY <1>3
  <2> QED BY <2>2, <2>3, Zenon
<1>12. Entering(p, k, c, e)
  BY <1>2, <1>4, <1>7, <1>8, <1>9, <1>10, <1>11, Zenon DEF Entering
<1> QED BY <1>5, <1>12, Zenon

-----------------------------------------------------------------------------
(* Entering a communicator keeps the table in order, ...                   *)
LEMMA EnteringTable ==
  ASSUME TInv, NEW p \in Procs, NEW k \in Created, NEW c, NEW e, Entering(p, k, c, e)
  PROVE  InTable(p)' /\ SlotTypes'
<1>1. Types /\ Tables /\ Flow /\ SlotTypes /\ InTable(p)
  BY Zenon DEF TInv, IInv, Locals
<1>2. PICK t, u : t = Release(slot[p], Reserved(p)) /\ u = [t EXCEPT ![c] = k]
  BY Zenon
<1>3. /\ call[p].phase = "reduce" /\ k = call[p].comm
      /\ c \in Reserved(p) /\ e \in Nat
      /\ slot' = [slot EXCEPT ![p] = u] /\ id' = [id EXCEPT ![p][k] = <<c, e>>]
      /\ epoch' = [epoch EXCEPT ![p][c] = e]
      /\ call'[p].comm = k /\ call'[p].phase = "activate"
      /\ UNCHANGED <<plan, done, have>>
  BY <1>2, Zenon DEF Entering
<1>4. slot \in [Procs -> [Cids -> Int]] /\ epoch \in [Procs -> [Cids -> Nat]]
  BY <1>1, Zenon DEF SlotTypes
<1>5. c \in Cids
  BY <1>1, <1>3, Zenon DEF InTable
<1>6. t \in [Cids -> Int] /\ t[c] = Null
  <2>1. slot[p] \in [Cids -> Int]
    BY <1>4, Zenon
  <2> QED BY <1>2, <1>3, <1>5, <2>1, ReleaseTable, Zenon
<1>7. k \in Nat \ {0} /\ k \in Int
  BY Numbers
<1>8. u \in [Cids -> Int]
  BY <1>2, <1>5, <1>6, <1>7, Zenon
<1>9. slot' \in [Procs -> [Cids -> Int]] /\ slot'[p] = u
  BY <1>3, <1>4, <1>8, Zenon
<1>10. SlotTypes'
  <2>1. epoch' \in [Procs -> [Cids -> Nat]]
    BY <1>3, <1>4, <1>5
  <2> QED BY <1>9, <2>1, Zenon DEF SlotTypes
<1>11. /\ Held(p) = have[p] /\ Held(p)' = have[p] \cup {k} /\ Reserved(p)' = {}
       /\ call[p].phase # "user"
  BY <1>3 DEF Held, Reserved
<1>12. k > done[p] /\ done[p] \in Nat /\ have[p] \subseteq 0..done[p]
  BY <1>1, <1>3, <1>11, InCall, Zenon DEF InTable, Types
<1>13. k \notin have[p] /\ Null \notin have[p]
  BY <1>7, <1>12 DEF Null
<1>14. /\ id'[p][k] = <<c, e>>
       /\ \A j \in have[p] \ {0} : id'[p][j] = id[p][j]
  <2>1. PICK S : id \in [Procs -> [Created -> S]]
    BY <1>1, Zenon DEF Tables
  <2>2. /\ id'[p][k] = <<c, e>>
        /\ \A j \in Created : j # k => id'[p][j] = id[p][j]
    BY <1>3, <2>1
  <2>3. \A j \in have[p] \ {0} : j \in Created /\ j # k
    <3>1. have[p] \subseteq 0..Len(plan)
      BY <1>1, Zenon DEF Flow
    <3>2. \A j \in have[p] \ {0} : j \in DOMAIN plan
      BY <1>1, <3>1, PlanFacts
    <3> QED BY <1>1, <1>13, <3>2, PlanFacts, Zenon
  <2> QED BY <2>2, <2>3, Zenon
<1>15. Fits(id'[p], u, have[p] \cup {k})
  <2>1. Fits(id[p], t, have[p])
    BY <1>1, <1>2, <1>11, Zenon DEF InTable
  <2>2. PICK d, g, held : d = id[p] /\ g = id'[p] /\ held = have[p]
    BY Zenon
  <2>3. g[k] = <<c, e>> /\ \A j \in held \ {0} : g[j] = d[j]
    BY <1>14, <2>2, Zenon
  <2>4. Fits(d, t, held) /\ k \notin held /\ Null \notin held
    BY <1>13, <2>1, <2>2, Zenon
  <2>5. u = [t EXCEPT ![c] = k] /\ e \in Nat
    BY <1>2, <1>3, Zenon
  <2>6. Fits(g, u, held \cup {k})
    BY <1>5, <1>6, <1>7, <2>3, <2>4, <2>5, FitsTake, Zenon
  <2> QED BY <2>2, <2>6, Zenon
<1>16. Fits(id'[p], Release(slot'[p], Reserved(p)'), Held(p)')
  <2>1. Release(u, {}) = u
    BY <1>8, ReleaseNone, Zenon
  <2> QED BY <1>9, <1>11, <1>15, <2>1, Zenon
<1>17. /\ 0 \in have'[p] /\ have'[p] \subseteq 0..done'[p]
       /\ \A j \in have'[p] \ {0} : p \in plan'[j].on
  BY <1>1, <1>3, Zenon DEF InTable
<1>18. plan'[call'[p].comm].parent \in have'[p] /\ p \in plan'[call'[p].comm].on
  BY <1>1, <1>3, <1>11, Zenon DEF InTable
<1>19. \A x \in Reserved(p)' : x \in Cids /\ slot'[p][x] = plan'[call'[p].comm].parent
  BY <1>11, Zenon
<1> QED BY <1>10, <1>16, <1>17, <1>18, <1>19, Zenon DEF InTable

(* ... and its epoch is the latest of its context id.                      *)
LEMMA EnteringDated ==
  ASSUME TInv, NEW p \in Procs, NEW k \in Created, NEW c, NEW e, Entering(p, k, c, e)
  PROVE  Dated(p)'
<1>0. \A a, b, x \in Nat : a < b => (x <= a => x <= b /\ x # b) /\ b <= b
  OBVIOUS
<1>1. Types /\ Tables /\ SlotTypes /\ InTable(p) /\ Dated(p)
  BY Zenon DEF TInv, IInv, Locals
<1>2. /\ call[p].phase = "reduce" /\ k = call[p].comm
      /\ c \in Reserved(p) /\ c # 0 /\ e \in Nat /\ epoch[p][c] < e
      /\ id' = [id EXCEPT ![p][k] = <<c, e>>]
      /\ epoch' = [epoch EXCEPT ![p][c] = e]
      /\ call'[p].comm = k /\ call'[p].phase = "activate"
      /\ UNCHANGED <<plan, done, have>>
  BY Zenon DEF Entering
<1>3. c \in Cids /\ call[p].phase # "activate" /\ Reserved(p)' = {}
  <2>1. c \in Cids
    BY <1>1, <1>2, Zenon DEF InTable
  <2> QED BY <1>2, <2>1 DEF Reserved
<1>4. epoch \in [Procs -> [Cids -> Nat]]
  BY <1>1, Zenon DEF SlotTypes
<1>5. /\ epoch[p] \in [Cids -> Nat] /\ epoch'[p][c] = e
      /\ \A x \in Cids : x # c => epoch'[p][x] = epoch[p][x]
  BY <1>2, <1>3, <1>4
<1>6. /\ id'[p][k] = <<c, e>>
      /\ \A j \in Created : j # k => id'[p][j] = id[p][j]
  <2>1. PICK S : id \in [Procs -> [Created -> S]]
    BY <1>1, Zenon DEF Tables
  <2> QED BY <1>2, <2>1
<1>7. PICK v : v = <<c, e>>
  BY Zenon
<1>8. v \in (Cids \ {0}) \X Nat /\ v[1] = c /\ v[2] = e /\ v # NoId
  BY <1>2, <1>3, <1>7 DEF NoId
<1>9. ASSUME NEW j \in Created, j # k, id[p][j] # NoId
      PROVE  /\ id[p][j] \in (Cids \ {0}) \X Nat /\ id[p][j] # v /\ j <= done[p]
             /\ id[p][j][2] <= epoch'[p][id[p][j][1]]
  <2>1. PICK w : w = id[p][j]
    BY Zenon
  <2>2. /\ w \in (Cids \ {0}) \X Nat /\ w[2] <= epoch[p][w[1]] /\ j <= done[p]
    BY <1>1, <1>3, <1>9, <2>1, Zenon DEF Dated
  <2>3. w[1] \in Cids /\ w[2] \in Nat
    BY <2>2
  <2>4. CASE w[1] = c
    <3>1. w[2] <= epoch[p][c] /\ epoch[p][c] \in Nat
      BY <1>3, <1>5, <2>2, <2>4, Zenon
    <3>2. w[2] <= e /\ w[2] # e
      BY <1>0, <1>2, <2>3, <3>1, Zenon
    <3>3. w # v /\ w[2] <= epoch'[p][w[1]]
      BY <1>5, <1>8, <2>4, <3>2, Zenon
    <3> QED BY <2>1, <2>2, <3>3, Zenon
  <2>5. CASE w[1] # c
    <3>1. epoch'[p][w[1]] = epoch[p][w[1]] /\ w # v
      BY <1>5, <1>8, <2>3, <2>5, Zenon
    <3>2. w[2] <= epoch'[p][w[1]]
      BY <2>2, <3>1
    <3> QED BY <2>1, <2>2, <3>1, <3>2, Zenon
  <2> QED BY <2>4, <2>5, Zenon
<1>10. ASSUME NEW j \in Created, id'[p][j] # NoId
       PROVE  /\ id'[p][j] \in (Cids \ {0}) \X Nat /\ id'[p][j][2] <= epoch'[p][id'[p][j][1]]
              /\ j <= done'[p] \/ (call'[p].phase = "activate" /\ j = call'[p].comm)
  <2>1. CASE j = k
    <3>1. id'[p][j] = v /\ e <= epoch'[p][c]
      BY <1>0, <1>2, <1>3, <1>5, <1>6, <1>7, <2>1
    <3>2. v[2] <= epoch'[p][v[1]]
      BY <1>8, <3>1
    <3> QED BY <1>2, <1>8, <2>1, <3>1, <3>2, Zenon
  <2>2. CASE j # k
    <3>1. id'[p][j] = id[p][j]
      BY <1>6, <2>2, Zenon
    <3>2. id[p][j] # NoId
      BY <1>10, <3>1, Zenon
    <3>3. /\ id[p][j] \in (Cids \ {0}) \X Nat /\ j <= done[p]
          /\ id[p][j][2] <= epoch'[p][id[p][j][1]]
      BY <1>9, <2>2, <3>2, Zenon
    <3> QED BY <1>2, <3>1, <3>3
  <2> QED BY <2>1, <2>2, Zenon
<1>11. ASSUME NEW i \in Created, NEW j \in Created, i # j, id'[p][i] # NoId
       PROVE  id'[p][i] # id'[p][j]
  <2>1. CASE i = k
    <3>1. id'[p][i] = v /\ id'[p][j] = id[p][j] /\ j # k
      BY <1>6, <1>7, <1>11, <2>1, Zenon
    <3> QED BY <1>8, <1>9, <3>1, Zenon
  <2>2. CASE j = k
    <3>1. id'[p][j] = v /\ id'[p][i] = id[p][i] /\ i # k
      BY <1>6, <1>7, <1>11, <2>2, Zenon
    <3> QED BY <1>9, <1>11, <3>1, Zenon
  <2>3. CASE i # k /\ j # k
    <3>1. id'[p][j] = id[p][j] /\ id'[p][i] = id[p][i]
      BY <1>6, <2>3, Zenon
    <3> QED BY <1>1, <1>11, <3>1, Zenon DEF Dated
  <2> QED BY <2>1, <2>2, <2>3, Zenon
<1>12. \A x \in Reserved(p)' :
         given'[call'[p].comm][call'[p].round][p].epochs[x] = epoch'[p][x]
  BY <1>3, Zenon
<1> QED BY <1>10, <1>11, <1>12, Zenon DEF Dated

(* So it does for everybody.                                               *)
LEMMA EnteringStep ==
  ASSUME TInv, NEW p \in Procs, NEW k \in Created, NEW c, NEW e, Entering(p, k, c, e)
  PROVE  SlotTypes' /\ Locals' /\ Offered' /\ Present' /\ Grouped'
<1>1. Types /\ Tables /\ SlotTypes /\ Offered /\ Present /\ Grouped
  BY Zenon DEF TInv, IInv
<1>2. InTable(p)' /\ SlotTypes' /\ Dated(p)'
  BY EnteringTable, EnteringDated, Zenon
<1>3. /\ UNCHANGED <<plan, done, have, agreed, faults>>
      /\ \A q \in Procs \ {p} : call'[q] = call[q]
      /\ OneGiven(k, 0, p) /\ DOMAIN given'[k][0][p].epochs = {}
  BY Zenon DEF Entering
<1>4. PlanKept /\ crashed' = crashed
  BY <1>3 DEF PlanKept, faults
<1>5. ASSUME NEW q \in Procs \ {p} PROVE InTable(q)' /\ Dated(q)'
  <2>1. PICK S : id \in [Procs -> [Created -> S]]
    BY <1>1, Zenon DEF Tables
  <2>2. slot'[q] = slot[q]
    <3>1. PICK u : slot' = [slot EXCEPT ![p] = u]
      BY Zenon DEF Entering
    <3> QED BY <1>1, <3>1, Zenon DEF SlotTypes
  <2>3. id'[q] = id[q]
    <3>1. id' = [id EXCEPT ![p][k] = <<c, e>>]
      BY Zenon DEF Entering
    <3> QED BY <2>1, <3>1
  <2>4. epoch'[q] = epoch[q]
    <3>1. epoch' = [epoch EXCEPT ![p][c] = e]
      BY Zenon DEF Entering
    <3>2. epoch \in [Procs -> [Cids -> Nat]]
      BY <1>1, Zenon DEF SlotTypes
    <3> QED BY <3>1, <3>2
  <2>5. have'[q] = have[q] /\ done'[q] = done[q] /\ call'[q] = call[q]
    BY <1>3
  <2>6. \A i \in Created, x \in Rounds : given'[i][x][q] = given[i][x][q]
    BY <1>3, Zenon DEF OneGiven
  <2>7. Undisturbed(q)
    BY <2>2, <2>3, <2>4, <2>5, <2>6, Zenon DEF Undisturbed
  <2> QED BY <1>4, <2>7, UndisturbedLocal, Zenon
<1>6. Locals'
  BY <1>2, <1>5, Zenon DEF Locals
<1>7. Offered'
  <2> SUFFICES ASSUME NEW i \in Created, NEW x \in Rounds, NEW q \in Procs,
                      NEW y \in DOMAIN given'[i][x][q].epochs
               PROVE  y \in Cids /\ given'[i][x][q].epochs[y] \in Nat
    BY Zenon DEF Offered
  <2>1. i # k \/ x # 0 \/ q # p
    BY <1>3, Zenon
  <2>2. given'[i][x][q] = given[i][x][q]
    BY <1>3, <2>1, Zenon DEF OneGiven
  <2> QED BY <1>1, <2>2, Zenon DEF Offered
<1>8. Present'
  <2>1. agreed' = agreed /\ plan' = plan
    BY <1>3
  <2> QED BY <1>1, <1>4, <2>1, Zenon DEF Present
<1>9. Grouped'
  <2>1. plan' = plan /\ crashed \subseteq crashed'
    BY <1>3, <1>4
  <2> QED BY <1>1, <2>1, GroupsKept, Zenon
<1> QED BY <1>2, <1>6, <1>7, <1>8, <1>9, Zenon

-----------------------------------------------------------------------------
(* p returns to the user, with the table u, which fits the communicators   *)
(* h, and with creation n the last that it has been in.                    *)
Returning(p, u, h, n) ==
  /\ u \in [Cids -> Int] /\ Fits(id[p], u, h)
  /\ h \in SUBSET Nat /\ 0 \in h /\ h \subseteq 0..n /\ \A j \in h \ {0} : p \in plan[j].on
  /\ n \in Nat /\ done[p] <= n /\ (call[p].phase = "activate" => call[p].comm <= n)
  /\ slot' = [slot EXCEPT ![p] = u] /\ call' = [call EXCEPT ![p] = Idle]
  /\ done' = [done EXCEPT ![p] = n] /\ have' = [have EXCEPT ![p] = h]
  /\ UNCHANGED <<plan, epoch, id, given, agreed, faults>>

(* Such a return keeps the tables in order, its own and the others'.       *)
LEMMA ReturningStep ==
  ASSUME TInv, NEW p \in Procs, NEW u, NEW h, NEW n, Returning(p, u, h, n)
  PROVE  SlotTypes' /\ Locals' /\ Offered' /\ Present' /\ Grouped'
<1>0. \A a, b, c \in Nat : a <= b /\ b <= c => a <= c
  OBVIOUS
<1>1. Types /\ SlotTypes /\ InTable(p) /\ Dated(p) /\ Offered /\ Present /\ Grouped
  BY Zenon DEF TInv, IInv, Locals
<1>2. /\ u \in [Cids -> Int] /\ Fits(id[p], u, h)
      /\ 0 \in h /\ h \subseteq 0..n /\ \A j \in h \ {0} : p \in plan[j].on
      /\ n \in Nat /\ done[p] <= n /\ (call[p].phase = "activate" => call[p].comm <= n)
      /\ slot' = [slot EXCEPT ![p] = u] /\ call' = [call EXCEPT ![p] = Idle]
      /\ done' = [done EXCEPT ![p] = n] /\ have' = [have EXCEPT ![p] = h]
  BY Zenon DEF Returning
<1>3. plan' = plan /\ epoch' = epoch /\ id' = id /\ given' = given /\ agreed' = agreed /\ crashed' = crashed
  BY DEF Returning, faults
<1>4. slot \in [Procs -> [Cids -> Int]] /\ epoch \in [Procs -> [Cids -> Nat]]
  BY <1>1, Zenon DEF SlotTypes
<1>5. /\ call \in [Procs -> Calls] /\ done \in [Procs -> Nat] /\ have \in [Procs -> SUBSET Nat]
  BY <1>1, Zenon DEF Types
<1>6. slot'[p] = u /\ call'[p] = Idle /\ done'[p] = n /\ have'[p] = h
  BY <1>2, <1>4, <1>5, Zenon
<1>7. SlotTypes'
  BY <1>2, <1>3, <1>4, Zenon DEF SlotTypes
<1>8. ASSUME NEW q \in Procs \ {p} PROVE InTable(q)' /\ Dated(q)'
  <2>1. slot'[q] = slot[q] /\ call'[q] = call[q] /\ done'[q] = done[q] /\ have'[q] = have[q]
    BY <1>2, <1>4, <1>5, Zenon
  <2>2. Undisturbed(q) /\ PlanKept
    BY <1>3, <2>1, Zenon DEF Undisturbed, PlanKept
  <2> QED BY <2>2, UndisturbedLocal, Zenon
<1>9. call'[p].phase = "user"
  BY <1>6 DEF Idle
<1>10. Reserved(p)' = {} /\ Held(p)' = h
  BY <1>6, <1>9 DEF Reserved, Held
<1>11. InTable(p)'
  <2>1. Fits(id'[p], Release(slot'[p], Reserved(p)'), Held(p)')
    <3>1. Release(u, {}) = u
      BY <1>2, ReleaseNone, Zenon
    <3> QED BY <1>2, <1>3, <1>6, <1>10, <3>1, Zenon
  <2>2. /\ 0 \in have'[p] /\ have'[p] \subseteq 0..done'[p]
        /\ \A j \in have'[p] \ {0} : p \in plan'[j].on
    BY <1>2, <1>3, <1>6, Zenon
  <2> QED BY <1>9, <1>10, <2>1, <2>2, Zenon DEF InTable
<1>12. Dated(p)'
  <2>1. PICK d, e : d = id[p] /\ e = epoch[p]
    BY Zenon
  <2>2. id'[p] = d /\ epoch'[p] = e
    BY <1>3, <2>1, Zenon
  <2>3. ASSUME NEW j \in Created, d[j] # NoId
        PROVE  d[j] \in (Cids \ {0}) \X Nat /\ d[j][2] <= e[d[j][1]] /\ j <= n
    <3>1. /\ d[j] \in (Cids \ {0}) \X Nat /\ d[j][2] <= e[d[j][1]]
          /\ j <= done[p] \/ (call[p].phase = "activate" /\ j = call[p].comm)
      BY <1>1, <2>1, <2>3, Zenon DEF Dated
    <3>2. j \in Nat /\ done[p] \in Nat
      BY <1>5, Numbers, Zenon
    <3>3. j <= n
      BY <1>0, <1>2, <3>1, <3>2, Zenon
    <3> QED BY <3>1, <3>3, Zenon
  <2>4. \A i, x \in Created : i # x /\ d[i] # NoId => d[i] # d[x]
    BY <1>1, <2>1, Zenon DEF Dated
  <2>5. \A j \in Created : id'[p][j] # NoId =>
          /\ id'[p][j] \in (Cids \ {0}) \X Nat /\ id'[p][j][2] <= epoch'[p][id'[p][j][1]]
          /\ j <= done'[p]
    BY <1>6, <2>2, <2>3
  <2> QED BY <1>10, <2>2, <2>4, <2>5, Zenon DEF Dated
<1>13. Locals'
  BY <1>8, <1>11, <1>12, Zenon DEF Locals
<1>14. Offered' /\ Present'
  BY <1>1, <1>3, Zenon DEF Offered, Present
<1>15. Grouped'
  <2>1. crashed \subseteq crashed'
    BY <1>3
  <2> QED BY <1>1, <1>3, <2>1, GroupsKept, Zenon
<1> QED BY <1>7, <1>13, <1>14, <1>15, Zenon

(* A call that is refused.                                                 *)
LEMMA RefuseReturns ==
  ASSUME TInv, NEW p \in Procs, Refuse(p)
  PROVE  \E u, h, n : Returning(p, u, h, n)
<1>1. Types /\ SlotTypes /\ InTable(p)
  BY Zenon DEF TInv, IInv, Locals
<1>2. PICK k : k = Min(Pending(p))
  BY Zenon
<1>3. /\ call[p] = Idle /\ Pending(p) # {} /\ done' = [done EXCEPT ![p] = k]
      /\ UNCHANGED <<plan, call, have, slot, epoch, id, given, agreed, faults>>
  BY <1>2, Zenon DEF Refuse
<1>4. k \in DOMAIN plan /\ k \in Created /\ k > done[p]
  BY <1>1, <1>2, <1>3, PendingFirst, Zenon
<1>5. k \in Nat /\ done[p] \in Nat /\ slot[p] \in [Cids -> Int] /\ have[p] \in SUBSET Nat
  BY <1>1, <1>4, Numbers, Zenon DEF Types, SlotTypes
<1>6. done[p] <= k /\ 0..done[p] \subseteq 0..k
  BY <1>4, <1>5
<1>7. /\ slot' = [slot EXCEPT ![p] = slot[p]] /\ call' = [call EXCEPT ![p] = Idle]
      /\ have' = [have EXCEPT ![p] = have[p]]
  BY <1>1, <1>3 DEF Types, SlotTypes
<1>8. Fits(id[p], slot[p], have[p]) /\ call[p].phase # "activate"
  <2>1. /\ call[p].phase # "activate" /\ Held(p) = have[p]
        /\ Release(slot[p], Reserved(p)) = slot[p]
    BY <1>3, IdleReserves
  <2> QED BY <1>1, <2>1, Zenon DEF InTable
<1>9. 0 \in have[p] /\ have[p] \subseteq 0..k /\ \A j \in have[p] \ {0} : p \in plan[j].on
  BY <1>1, <1>6, Zenon DEF InTable
<1>10. Returning(p, slot[p], have[p], k)
  BY <1>3, <1>5, <1>6, <1>7, <1>8, <1>9, Zenon DEF Returning
<1> QED BY <1>10, Zenon

(* What holds of the creation that a process returns from.                 *)
LEMMA EndFacts ==
  ASSUME TInv, NEW p \in Procs, call[p].phase # "user", NEW k, k = call[p].comm
  PROVE  /\ k \in Nat \ {0} /\ k \in Created /\ done[p] \in Nat /\ k <= k /\ done[p] <= k
         /\ slot[p] \in [Cids -> Int]
         /\ have[p] \in SUBSET Nat /\ 0 \in have[p] /\ have[p] \subseteq 0..k /\ k \notin have[p]
         /\ p \in plan[k].on /\ \A j \in have[p] \ {0} : p \in plan[j].on
         /\ slot = [slot EXCEPT ![p] = slot[p]] /\ have = [have EXCEPT ![p] = have[p]]
<1>1. Types /\ Flow /\ SlotTypes /\ InTable(p)
  BY Zenon DEF TInv, IInv, Locals
<1>2. k \in Created /\ k > done[p]
  BY <1>1, InCall, Zenon
<1>3. /\ k \in Nat \ {0} /\ done[p] \in Nat /\ slot[p] \in [Cids -> Int]
      /\ have[p] \in SUBSET Nat
  BY <1>1, <1>2, Numbers, Zenon DEF Types, SlotTypes
<1>4. done[p] <= k /\ 0..done[p] \subseteq 0..k /\ k <= k /\ k \notin 0..done[p]
  BY <1>2, <1>3
<1>5. /\ 0 \in have[p] /\ have[p] \subseteq 0..done[p]
      /\ p \in plan[k].on /\ \A j \in have[p] \ {0} : p \in plan[j].on
  BY <1>1, Zenon DEF InTable
<1>6. slot = [slot EXCEPT ![p] = slot[p]] /\ have = [have EXCEPT ![p] = have[p]]
  BY <1>1 DEF Types, SlotTypes
<1> QED BY <1>2, <1>3, <1>4, <1>5, <1>6, Zenon

(* A reduction that fails.                                                 *)
LEMMA GiveUpReturns ==
  ASSUME TInv, NEW p \in Procs, GiveUp(p)
  PROVE  \E u, h, n : Returning(p, u, h, n)
<1>1. PICK k, u : k = call[p].comm /\ u = Release(slot[p], Mine(p))
  BY Zenon
<1>2. /\ call[p].phase = "reduce"
      /\ slot' = [slot EXCEPT ![p] = u]
      /\ call' = [call EXCEPT ![p] = Idle] /\ done' = [done EXCEPT ![p] = k]
      /\ UNCHANGED <<plan, have, epoch, id, given, agreed, faults>>
  BY <1>1, Zenon DEF GiveUp, Reducing
<1>3. call[p].phase # "user" /\ call[p].phase # "activate"
  BY <1>2
<1>4. /\ k \in Nat \ {0} /\ k <= k /\ done[p] <= k /\ slot[p] \in [Cids -> Int]
      /\ have[p] \in SUBSET Nat /\ 0 \in have[p] /\ have[p] \subseteq 0..k
      /\ \A j \in have[p] \ {0} : p \in plan[j].on
      /\ have = [have EXCEPT ![p] = have[p]]
  BY <1>1, <1>3, EndFacts, Zenon
<1>5. u \in [Cids -> Int]
  BY <1>1, <1>4, ReleaseTable, Zenon
<1>6. Fits(id[p], u, have[p])
  <2>1. Reserved(p) = Mine(p) /\ Held(p) = have[p]
    BY <1>2, <1>3, Zenon DEF Reserved, Held
  <2> QED BY <1>1, <2>1, Zenon DEF TInv, Locals, InTable
<1>7. have' = [have EXCEPT ![p] = have[p]] /\ k \in Nat
  BY <1>2, <1>4
<1>8. Returning(p, u, have[p], k)
  BY <1>2, <1>3, <1>4, <1>5, <1>6, <1>7, Zenon DEF Returning
<1> QED BY <1>8, Zenon

(* The table of a process in the activation.                               *)
LEMMA ActivatingTable ==
  ASSUME TInv, NEW p \in Procs, call[p].phase = "activate", NEW k, k = call[p].comm
  PROVE  Fits(id[p], slot[p], have[p] \cup {k})
<1>1. Reserved(p) = {} /\ Held(p) = have[p] \cup {k}
  BY DEF Reserved, Held
<1>2. Release(slot[p], {}) = slot[p]
  <2>1. slot[p] \in [Cids -> Int]
    BY Zenon DEF TInv, SlotTypes
  <2> QED BY <2>1, ReleaseNone, Zenon
<1> QED BY <1>1, <1>2, Zenon DEF TInv, Locals, InTable

(* The communicator is there.                                              *)
LEMMA ActivateReturns ==
  ASSUME TInv, NEW p \in Procs, Activate(p)
  PROVE  \E u, h, n : Returning(p, u, h, n)
<1>1. PICK k, h : k = call[p].comm /\ h = have[p] \cup {k}
  BY Zenon
<1>2. /\ call[p].phase = "activate"
      /\ have' = [have EXCEPT ![p] = h]
      /\ call' = [call EXCEPT ![p] = Idle] /\ done' = [done EXCEPT ![p] = k]
      /\ UNCHANGED <<plan, slot, epoch, id, given, agreed, faults>>
  BY <1>1, Zenon DEF Activate, Activating
<1>3. call[p].phase # "user"
  BY <1>2
<1>4. /\ k \in Nat \ {0} /\ k <= k /\ done[p] <= k /\ slot[p] \in [Cids -> Int]
      /\ have[p] \in SUBSET Nat /\ 0 \in have[p] /\ have[p] \subseteq 0..k
      /\ p \in plan[k].on /\ \A j \in have[p] \ {0} : p \in plan[j].on
      /\ slot = [slot EXCEPT ![p] = slot[p]]
  BY <1>1, <1>3, EndFacts, Zenon
<1>5. Fits(id[p], slot[p], h)
  BY <1>1, <1>2, ActivatingTable, Zenon
<1>6. /\ h \in SUBSET Nat /\ 0 \in h /\ h \subseteq 0..k /\ \A j \in h \ {0} : p \in plan[j].on
  <2>1. k \in 0..k
    BY <1>4
  <2> QED BY <1>1, <1>4, <2>1
<1>7. slot' = [slot EXCEPT ![p] = slot[p]] /\ k \in Nat
  BY <1>2, <1>4
<1>8. Returning(p, slot[p], h, k)
  BY <1>1, <1>2, <1>4, <1>5, <1>6, <1>7, Zenon DEF Returning
<1> QED BY <1>8, Zenon

(* The activation fails.                                                   *)
LEMMA AbandonReturns ==
  ASSUME TInv, NEW p \in Procs, Abandon(p)
  PROVE  \E u, h, n : Returning(p, u, h, n)
<1>1. PICK k, u : k = call[p].comm /\ u = Release(slot[p], {id[p][k][1]})
  BY Zenon
<1>2. /\ call[p].phase = "activate"
      /\ slot' = [slot EXCEPT ![p] = u]
      /\ call' = [call EXCEPT ![p] = Idle] /\ done' = [done EXCEPT ![p] = k]
      /\ UNCHANGED <<plan, have, epoch, id, given, agreed, faults>>
  BY <1>1, Zenon DEF Abandon, Activating
<1>3. call[p].phase # "user"
  BY <1>2
<1>4. /\ k \in Nat \ {0} /\ k <= k /\ done[p] <= k /\ slot[p] \in [Cids -> Int]
      /\ have[p] \in SUBSET Nat /\ 0 \in have[p] /\ have[p] \subseteq 0..k /\ k \notin have[p]
      /\ \A j \in have[p] \ {0} : p \in plan[j].on
      /\ have = [have EXCEPT ![p] = have[p]]
  BY <1>1, <1>3, EndFacts, Zenon
<1>5. u \in [Cids -> Int]
  <2>1. \A M : Release(slot[p], M) \in [Cids -> Int]
    BY <1>4, ReleaseTable, Zenon
  <2> QED BY <1>1, <2>1, Zenon
<1>6. Fits(id[p], u, have[p])
  <2>1. PICK d, t, h : d = id[p] /\ t = slot[p] /\ h = have[p] \cup {k}
    BY Zenon
  <2>2. Fits(d, t, h) /\ k \in h /\ t \in [Cids -> Int]
    BY <1>1, <1>2, <1>4, <2>1, ActivatingTable, Zenon
  <2>3. Fits(d, Release(t, {Ident(d, k)[1]}), h \ {k})
    BY <2>2, FitsRemove, Zenon
  <2>4. Ident(d, k) = d[k]
    BY <1>4 DEF Ident
  <2>5. h \ {k} = have[p]
    BY <1>4, <2>1
  <2> QED BY <1>1, <2>1, <2>3, <2>4, <2>5, Zenon
<1>7. have' = [have EXCEPT ![p] = have[p]] /\ k \in Nat
  BY <1>2, <1>4
<1>8. Returning(p, u, have[p], k)
  BY <1>1, <1>2, <1>4, <1>5, <1>6, <1>7, Zenon DEF Returning
<1> QED BY <1>8, Zenon

(* MPI_Comm_free.                                                          *)
LEMMA FreeReturns ==
  ASSUME TInv, NEW p \in Procs, Free(p)
  PROVE  \E u, h, n : Returning(p, u, h, n)
<1>1. PICK k \in have[p] \ {0} :
        /\ InUserCode(p)
        /\ slot' = [slot EXCEPT ![p] = Release(slot[p], {id[p][k][1]})]
        /\ have' = [have EXCEPT ![p] = have[p] \ {k}]
        /\ UNCHANGED <<plan, call, done, epoch, id, given, agreed, faults>>
  BY Zenon DEF Free
<1>2. Types /\ SlotTypes /\ InTable(p) /\ call[p] = Idle
  BY <1>1, Zenon DEF TInv, IInv, Locals, InUserCode
<1>3. PICK u, h, n : /\ u = Release(slot[p], {id[p][k][1]}) /\ h = have[p] \ {k}
                     /\ n = done[p]
  BY Zenon
<1>4. slot[p] \in [Cids -> Int] /\ have[p] \in SUBSET Nat /\ n \in Nat
  BY <1>2, <1>3, Zenon DEF Types, SlotTypes
<1>5. /\ call[p].phase # "activate" /\ Held(p) = have[p]
      /\ Release(slot[p], Reserved(p)) = slot[p]
  BY <1>2, IdleReserves
<1>6. u \in [Cids -> Int]
  <2>1. \A M : Release(slot[p], M) \in [Cids -> Int]
    BY <1>4, ReleaseTable, Zenon
  <2> QED BY <1>3, <2>1, Zenon
<1>7. Fits(id[p], u, h)
  <2>1. PICK d, t, x : d = id[p] /\ t = slot[p] /\ x = have[p]
    BY Zenon
  <2>2. Fits(d, t, x) /\ k \in x /\ t \in [Cids -> Int]
    BY <1>2, <1>4, <1>5, <2>1, Zenon DEF InTable
  <2>3. Fits(d, Release(t, {Ident(d, k)[1]}), x \ {k})
    BY <2>2, FitsRemove, Zenon
  <2>4. Ident(d, k) = d[k]
    BY DEF Ident
  <2> QED BY <1>3, <2>1, <2>3, <2>4, Zenon
<1>8. /\ h \in SUBSET Nat /\ 0 \in h /\ h \subseteq 0..n /\ \A j \in h \ {0} : p \in plan[j].on
  BY <1>2, <1>3, <1>4, Zenon DEF InTable
<1>9. /\ call' = [call EXCEPT ![p] = Idle] /\ done' = [done EXCEPT ![p] = n] /\ done[p] <= n
  BY <1>1, <1>2, <1>3, <1>4 DEF Types
<1>10. Returning(p, u, h, n)
  BY <1>1, <1>3, <1>4, <1>5, <1>6, <1>7, <1>8, <1>9, Zenon DEF Returning
<1> QED BY <1>10, Zenon

-----------------------------------------------------------------------------
(* The steps that leave the table and the creations alone.                 *)
LEMMA AloofStep ==
  ASSUME TInv, UNCHANGED <<plan, call, done, have, slot, epoch, id, given>>,
         crashed \subseteq crashed'
  PROVE  SlotTypes' /\ Locals' /\ Offered' /\ Grouped'
<1>1. SlotTypes /\ Offered /\ Grouped
  BY Zenon DEF TInv
<1>2. /\ plan' = plan /\ call' = call /\ done' = done /\ have' = have /\ slot' = slot
      /\ epoch' = epoch /\ id' = id /\ given' = given
  BY Zenon
<1>3. SlotTypes' /\ Offered'
  BY <1>1, <1>2, Zenon DEF SlotTypes, Offered
<1>4. ASSUME NEW q \in Procs PROVE InTable(q)' /\ Dated(q)'
  <2>1. Undisturbed(q) /\ PlanKept
    BY <1>2, Zenon DEF Undisturbed, PlanKept
  <2> QED BY <2>1, UndisturbedLocal, Zenon
<1>5. Grouped'
  BY <1>1, <1>2, GroupsKept, Zenon
<1> QED BY <1>3, <1>4, <1>5, Zenon DEF Locals

(* An agreement counts everybody alive, ...                                *)
LEMMA AgreeAloof ==
  ASSUME TInv, NEW k \in Created, NEW r \in Rounds, Agree(k, r)
  PROVE  SlotTypes' /\ Locals' /\ Offered' /\ Present' /\ Grouped'
<1>1. Types /\ Present
  BY Zenon DEF TInv, IInv
<1>2. PICK s :
        plan[k].on \ crashed \subseteq s /\ agreed' = [agreed EXCEPT ![k][r] = s]
  BY Zenon DEF Agree
<1>3. /\ k \in DOMAIN plan
      /\ UNCHANGED <<plan, call, done, have, slot, epoch, id, given, faults>>
  BY Zenon DEF Agree
<1>4. crashed' = crashed /\ plan' = plan
  BY <1>3 DEF faults
<1>5. /\ agreed'[k][r] = s
      /\ \A i \in Created, x \in Rounds : i # k \/ x # r => agreed'[i][x] = agreed[i][x]
  <2>1. agreed \in [Created -> [Rounds -> SUBSET Procs]]
    BY <1>1, Zenon DEF Types
  <2> QED BY <1>2, <2>1
<1>6. Present'
  <2> SUFFICES ASSUME NEW i \in Created, NEW x \in Rounds, agreed'[i][x] # {}
               PROVE  i \in DOMAIN plan /\ plan[i].on \ crashed \subseteq agreed'[i][x]
    BY <1>4, Zenon DEF Present
  <2>1. CASE i = k /\ x = r
    BY <1>2, <1>3, <1>5, <2>1, Zenon
  <2>2. CASE i # k \/ x # r
    <3>1. agreed'[i][x] = agreed[i][x]
      BY <1>5, <2>2, Zenon
    <3> QED BY <1>1, <3>1, Zenon DEF Present
  <2> QED BY <2>1, <2>2, Zenon
<1>7. crashed \subseteq crashed' /\ UNCHANGED <<plan, call, done, have, slot, epoch, id, given>>
  BY <1>3, <1>4
<1> QED BY <1>6, <1>7, AloofStep, Zenon

(* ... also when more of them are dead by now.                             *)
LEMMA FaultAloof ==
  ASSUME TInv, NEW p \in Procs,
         Revoke(p) \/ Deliver(p) \/ Crash(p) \/ Notify(p) \/ UNCHANGED vars
  PROVE  SlotTypes' /\ Locals' /\ Offered' /\ Present' /\ Grouped'
<1>1. Present
  BY Zenon DEF TInv
<1>2. UNCHANGED <<plan, creation>>
  <2>1. CASE Revoke(p)
    BY <2>1, Zenon DEF Revoke
  <2>2. CASE Deliver(p)
    BY <2>2, Zenon DEF Deliver
  <2>3. CASE Crash(p)
    BY <2>3, Zenon DEF Crash
  <2>4. CASE Notify(p)
    BY <2>4, Zenon DEF Notify
  <2>5. CASE UNCHANGED vars
    BY <2>5, Zenon DEF vars
  <2> QED BY <2>1, <2>2, <2>3, <2>4, <2>5, Zenon
<1>3. crashed \subseteq crashed'
  <2>1. CASE Revoke(p)
    BY <2>1, Zenon DEF Revoke
  <2>2. CASE Deliver(p)
    BY <2>2, Zenon DEF Deliver
  <2>3. CASE Crash(p)
    BY <2>3, Zenon DEF Crash
  <2>4. CASE Notify(p)
    BY <2>4, Zenon DEF Notify
  <2>5. CASE UNCHANGED vars
    BY <2>5, Zenon DEF vars, faults
  <2> QED BY <2>1, <2>2, <2>3, <2>4, <2>5, Zenon
<1>4. UNCHANGED <<plan, call, done, have, slot, epoch, id, given, agreed>>
  BY <1>2, Zenon DEF creation
<1>5. Present'
  <2> SUFFICES ASSUME NEW i \in Created, NEW x \in Rounds, agreed'[i][x] # {}
               PROVE  i \in DOMAIN plan' /\ plan'[i].on \ crashed' \subseteq agreed'[i][x]
    BY Zenon DEF Present
  <2>1. plan' = plan /\ agreed' = agreed
    BY <1>4, Zenon
  <2>2. i \in DOMAIN plan /\ plan[i].on \ crashed \subseteq agreed[i][x]
    BY <1>1, <2>1, Zenon DEF Present
  <2> QED BY <1>3, <2>1, <2>2, Zenon
<1>6. UNCHANGED <<plan, call, done, have, slot, epoch, id, given>>
  BY <1>4, Zenon
<1> QED BY <1>3, <1>5, <1>6, AloofStep, Zenon

(* Every step preserves the invariant, ...                                 *)
LEMMA NextTInv ==
  ASSUME TInv, Next
  PROVE  TInv'
<1> DEFINE Rest == SlotTypes /\ Locals /\ Offered /\ Present /\ Grouped
<1>1. IInv'
  BY NextIInv, Zenon DEF TInv
<1>2. CASE \E k \in Created, r \in Rounds : Agree(k, r)
  BY <1>1, <1>2, AgreeAloof, Zenon DEF TInv
<1>3. ASSUME NEW p \in Procs, Step(p) PROVE Rest'
  <2>1. CASE Create(p) \/ Shrink(p) \/ Join(p) \/ Retry(p)
    <3>1. (\E k \in Created, r \in Rounds : Filling(p, k, r)) /\ Grouped'
      BY <2>1, CreateFills, ShrinkFills, JoinFills, RetryFills, Zenon
    <3> QED BY <3>1, FillingStep, Zenon
  <2>2. CASE Take(p)
    BY <2>2, TakeEnters, EnteringStep, Zenon
  <2>3. CASE Refuse(p) \/ GiveUp(p) \/ Activate(p) \/ Abandon(p) \/ Free(p)
    <3>1. \E u, h, n : Returning(p, u, h, n)
      BY <2>3, RefuseReturns, GiveUpReturns, ActivateReturns, AbandonReturns, FreeReturns, Zenon
    <3> QED BY <3>1, ReturningStep, Zenon
  <2>4. CASE Revoke(p) \/ Deliver(p) \/ Crash(p) \/ Notify(p)
    BY <2>4, FaultAloof, Zenon
  <2> QED BY <1>3, <2>1, <2>2, <2>3, <2>4, Zenon DEF Step
<1> QED BY <1>1, <1>2, <1>3, Zenon DEF Next, TInv

(* ... and so does a stuttering one.                                       *)
LEMMA StutterTInv ==
  ASSUME TInv, UNCHANGED vars
  PROVE  TInv'
<1>1. IInv'
  BY StutterIInv, Zenon DEF TInv
<1>2. CASE Procs = {}
  <2>1. UNCHANGED <<plan, call, done, have, slot, epoch, id, given>>
    BY Zenon DEF vars, creation
  <2>2. crashed' = crashed /\ plan' = plan /\ agreed' = agreed
    BY Zenon DEF vars, creation, faults
  <2>3. Present' /\ crashed \subseteq crashed'
    BY <2>2, Zenon DEF TInv, Present
  <2> QED BY <1>1, <2>1, <2>3, AloofStep, Zenon DEF TInv
<1>3. CASE Procs # {}
  <2>1. PICK p \in Procs : TRUE
    BY <1>3, Zenon
  <2> QED BY <1>1, <2>1, FaultAloof, Zenon DEF TInv
<1> QED BY <1>2, <1>3, Zenon

(* In the beginning there is MPI_COMM_WORLD.                               *)
LEMMA InitTInv ==
  ASSUME Init
  PROVE  TInv
<1>1. IInv
  BY InitIInv
<1>2. PICK t, e, d : /\ t = [c \in Cids |-> IF c = 0 THEN 0 ELSE Null] /\ e = [c \in Cids |-> 0]
                     /\ d = [k \in Created |-> NoId]
  BY Zenon
<1>3. /\ plan = <<>> /\ call = [p \in Procs |-> Idle] /\ done = [p \in Procs |-> 0]
      /\ have = [p \in Procs |-> {0}] /\ slot = [p \in Procs |-> t] /\ epoch = [p \in Procs |-> e]
      /\ id = [p \in Procs |-> d]
      /\ given = [k \in Created |-> [r \in Rounds |-> [p \in Procs |-> Nothing]]]
      /\ agreed = [k \in Created |-> [r \in Rounds |-> {}]]
  BY <1>2, Zenon DEF Init
<1>4. t \in [Cids -> Int] /\ e \in [Cids -> Nat]
  BY <1>2, CidFacts
<1>5. SlotTypes
  BY <1>3, <1>4, Zenon DEF SlotTypes
<1>6. Offered
  <2>1. \A k \in Created, r \in Rounds, q \in Procs : given[k][r][q] = Nothing
    BY <1>3, Zenon
  <2>2. DOMAIN Nothing.epochs = {}
    BY DEF Nothing
  <2> QED BY <2>1, <2>2, Zenon DEF Offered
<1>7. Present
  BY <1>3, Zenon DEF Present
<1>8. Grouped
  <2>1. DOMAIN plan = {}
    BY <1>3
  <2> QED BY <2>1, Zenon DEF Grouped
<1>9. ASSUME NEW p \in Procs PROVE InTable(p) /\ Dated(p)
  <2>1. call[p] = Idle /\ done[p] = 0 /\ have[p] = {0} /\ slot[p] = t /\ epoch[p] = e /\ id[p] = d
    BY <1>3, Zenon
  <2>2. call[p].phase = "user" /\ 0 \in 0..0
    BY <2>1 DEF Idle
  <2>3. Reserved(p) = {} /\ Held(p) = {0}
    BY <2>1, <2>2 DEF Reserved, Held
  <2>4. Fits(d, t, {0})
    <3>1. Ident(d, 0) \in Cids \X Nat /\ Ident(d, 0)[1] = 0
      BY CidFacts DEF Ident
    <3>2. t[0] = 0 /\ \A c \in Cids : t[c] # Null => c = 0
      BY <1>2, CidFacts, Zenon
    <3> QED BY <3>1, <3>2, Zenon DEF Fits
  <2>5. Release(t, {}) = t
    BY <1>4, ReleaseNone, Zenon
  <2>6. InTable(p)
    BY <2>1, <2>2, <2>3, <2>4, <2>5, Zenon DEF InTable
  <2>7. \A k \in Created : id[p][k] = NoId
    BY <1>2, <2>1, Zenon
  <2>8. Dated(p)
    BY <2>3, <2>7, Zenon DEF Dated
  <2> QED BY <2>6, <2>8, Zenon
<1>10. Locals
  BY <1>9, Zenon DEF Locals
<1> QED BY <1>1, <1>5, <1>6, <1>7, <1>8, <1>10, Zenon DEF TInv

(* The invariant implies that the table is clean outside a creation.       *)
LEMMA TInvClean ==
  ASSUME TInv
  PROVE  TableClean
<1> SUFFICES ASSUME NEW p \in Procs, call[p] = Idle, NEW c \in Cids, NEW k \in 0..Len(plan)
             PROVE  slot[p][c] = k <=> k \in have[p] /\ Id(p, k)[1] = c
  BY Zenon DEF TableClean
<1>1. Types /\ InTable(p)
  BY Zenon DEF TInv, IInv, Locals
<1>2. Held(p) = have[p] /\ Release(slot[p], Reserved(p)) = slot[p]
  BY IdleReserves, Zenon
<1>3. Fits(id[p], slot[p], have[p])
  BY <1>1, <1>2, Zenon DEF InTable
<1>4. k # Null
  <2>1. k \in Nat
    BY <1>1, PlanFacts
  <2> QED BY <2>1, CidFacts, Zenon
<1>5. Id(p, k) = Ident(id[p], k)
  BY Zenon DEF Id, Ident
<1>6. slot[p][c] = k => k \in have[p] /\ Ident(id[p], k)[1] = c
  BY <1>3, <1>4, Zenon DEF Fits
<1>7. k \in have[p] /\ Ident(id[p], k)[1] = c => slot[p][c] = k
  BY <1>3, Zenon DEF Fits
<1> QED BY <1>5, <1>6, <1>7, Zenon

(* However a creation ends, by its communicator, a failed reduction, a     *)
(* failed activation or a refusal, the table of a process outside of one   *)
(* holds the communicators of the user, each at its context id, and        *)
(* nothing else: ompi_comm_nextcid and the destructor give everything      *)
(* back and overwrite nothing.                                             *)
THEOREM TablesClean == Spec => []TableClean
<1>1. Init => TInv
  BY InitTInv
<1>2. TInv /\ [Next]_vars => TInv'
  BY NextTInv, StutterTInv
<1>3. TInv => TableClean
  BY TInvClean
<1> QED BY <1>1, <1>2, <1>3, PTL DEF Spec

=============================================================================
