---------------------------- MODULE EraTopology ----------------------------
(***************************************************************************)
(* The tree along which the early returning agreement (ERA) gathers the    *)
(* contributions and spreads the decision                                  *)
(* (ompi/mca/coll/ftbasic/coll_ftbasic_agreement_earlyreturning.c), and    *)
(* what becomes of it when processes die.                                  *)
(*                                                                         *)
(* The code keeps an array of nodes in the order of their ranks; here a    *)
(* node is named by its rank.  Host[r] is the daemon that hosts r: with    *)
(* all ranks on one host the hierarchical tree is the flat one.            *)
(***************************************************************************)
EXTENDS Integers, FiniteSets

CONSTANTS
  NP,       \* size of the communicator
  TreeFn,   \* "binary", "string" or "star"
  Host      \* [0..NP-1 -> hosts]

Procs == 0..(NP - 1)

ASSUME TopologyAssumption ==
  /\ NP \in Nat \ {0}
  /\ TreeFn \in {"binary", "string", "star"}
  /\ DOMAIN Host = Procs

Least(S) == CHOOSE r \in S : \A q \in S : r <= q
Greatest(S) == CHOOSE r \in S : \A q \in S : q <= r

(* The place of r in the array of the ranks of S, and the rank at place i. *)
Position(S, r) == Cardinality({q \in S : q < r})
RankAt(S, i) == CHOOSE r \in S : Position(S, r) = i

(* The parent of place i according to the tree function.                   *)
FnParent(i) ==
  CASE i = 0 -> 0
    [] i # 0 /\ TreeFn = "star" -> 0
    [] i # 0 /\ TreeFn = "string" -> i - 1
    [] i # 0 /\ TreeFn = "binary" -> (i - 1) \div 2

(* The ranks that are in the tree when the failures in base were agreed on *)
(* before it was built; those of r's host; and the representatives of the  *)
(* hosts, which are connected by a tree of their own.                      *)
Members(base) == Procs \ base
HostGroup(base, r) == {q \in Members(base) : Host[q] = Host[r]}
Reps(base) == {r \in Members(base) : r = Least(HostGroup(base, r))}

BuiltParent(base, r) ==
  LET S == IF r \in Reps(base) THEN Reps(base) ELSE HostGroup(base, r)
  IN  RankAt(S, FnParent(Position(S, r)))

(* The proper ancestors of r in the tree as it was built.                  *)
AncestorTable ==
  [base \in SUBSET Procs |->
     LET above[r \in Members(base)] ==
           LET p == BuiltParent(base, r) IN IF p = r THEN {} ELSE {p} \cup above[p]
     IN  above]

Ancestors(base, r) == AncestorTable[base][r]

(* The living processes all of whose ancestors are dead.                   *)
Orphans(base, dead) ==
  {r \in Members(base) \ dead : Ancestors(base, r) \subseteq dead}

(* What the tree is when the processes in dead are known to have failed:   *)
(* a process hangs from its nearest living ancestor; the least orphan is   *)
(* the root and the other orphans hang from it.                            *)
TreeParent(base, dead, r) ==
  LET living == Ancestors(base, r) \ dead
  IN  IF living # {} THEN Greatest(living) ELSE Least(Orphans(base, dead))

(* The children r has as long as it has not found out that it is the root: *)
(* those for whom it is the nearest living ancestor.                       *)
OwnChildren(base, dead, r) ==
  {q \in Members(base) \ dead :
     /\ r \in Ancestors(base, q)
     /\ TreeParent(base, dead, q) = r}

TreeChildren(base, dead, r) ==
  {q \in (Members(base) \ dead) \ {r} : TreeParent(base, dead, q) = r}
=============================================================================
