------------------------------ MODULE EraTree ------------------------------
(***************************************************************************)
(* The tree of EraTopology as one process of the communicator keeps it: an *)
(* array of nodes with a parent, a first child and a next sibling, from    *)
(* which the nodes found dead are cut out lazily, on the way of a search   *)
(* for the parent or for a child.                                          *)
(*                                                                         *)
(* Different processes search at different moments and learn of failures   *)
(* in different orders.  The properties say that nevertheless the links    *)
(* always describe the tree of EraTopology, which depends on the set of    *)
(* failures alone: any two processes that know of the same failures agree  *)
(* on who is whose parent.                                                 *)
(***************************************************************************)
EXTENDS EraTopology, Sequences

CONSTANT MaxAgreed    \* bound on the failures agreed on before the tree is built

ASSUME MaxAgreed \in Nat

Nil == NP             \* the code terminates its chains with tree_size

VARIABLES
  me,      \* the process that owns the tree
  base,    \* the agreed failures when the tree was built
  known,   \* the failures the process knows of
  tree     \* [in, parent, first, next]; in: the nodes not cut out

vars == <<me, base, known, tree>>

-----------------------------------------------------------------------------
(* The array for the ranks of S filled by the tree function.               *)
FirstPlace(n, i) ==
  CASE TreeFn = "star" -> IF i = 0 THEN 1 ELSE n
    [] TreeFn = "string" -> i + 1
    [] TreeFn = "binary" -> IF 2 * i + 1 < n THEN 2 * i + 1 ELSE n

NextPlace(n, i) ==
  CASE TreeFn = "star" -> IF i = 0 THEN n ELSE i + 1
    [] TreeFn = "string" -> n
    [] TreeFn = "binary" -> IF i % 2 # 0 /\ i + 1 < n THEN i + 1 ELSE n

FnTree(S) ==
  LET n == Cardinality(S)
      Link(i) == IF i = n THEN Nil ELSE RankAt(S, i)
  IN  [parent |-> [r \in S |-> Link(FnParent(Position(S, r)))],
       first  |-> [r \in S |-> Link(FirstPlace(n, Position(S, r)))],
       next   |-> [r \in S |-> Link(NextPlace(n, Position(S, r)))]]

(* The siblings from r on.                                                 *)
RECURSIVE Chain(_, _)
Chain(next, r) == IF r = Nil THEN <<>> ELSE <<r>> \o Chain(next, next[r])

Last(s) == s[Len(s)]
Elements(s) == {s[i] : i \in 1..Len(s)}

(* era_call_tree_fn: a tree per host, then the tree of the representatives *)
(* is merged in: a representative takes its sibling from that tree, and    *)
(* its children from that tree follow those on its host.                   *)
BuildTree(b) ==
  LET S == Members(b)
      reps == FnTree(Reps(b))
      host == [r \in S |-> FnTree(HostGroup(b, r))]
      own(r) == Chain(host[r].next, host[r].first[r])
  IN  [in |-> S,
       parent |-> [r \in S |-> IF r \in Reps(b) THEN reps.parent[r] ELSE host[r].parent[r]],
       first |-> [r \in S |-> IF r \in Reps(b) /\ own(r) = <<>> THEN reps.first[r]
                              ELSE host[r].first[r]],
       next |-> [r \in S |->
                   IF r \in Reps(b) THEN reps.next[r]
                   ELSE LET p == host[r].parent[r]
                        IN  IF p \in Reps(b) /\ r = Last(own(p)) THEN reps.first[p]
                            ELSE host[r].next[r]]]

-----------------------------------------------------------------------------
(* Deliberate fault: the children of the removed node are put in front,    *)
(* but the siblings that followed it are not chained to the last of them.  *)
RemoveInnerLoses(t, r) ==
  LET p == t.parent[r]
      kids == Chain(t.next, t.first[r])
      head == IF kids = <<>> THEN t.next[r] ELSE kids[1]
      next == [n \in DOMAIN t.next |-> IF n # r /\ t.next[n] = r THEN head ELSE t.next[n]]
  IN  [in |-> t.in \ {r},
       parent |-> [n \in DOMAIN t.parent |-> IF n \in Elements(kids) THEN p ELSE t.parent[n]],
       first |-> [t.first EXCEPT ![p] = IF @ = r THEN head ELSE @],
       next |-> next]

(* era_tree_remove_node for a node with a parent: its children take its    *)
(* place in the chain of its parent's children.                            *)
RemoveInner(t, r) ==
  LET p == t.parent[r]
      kids == Chain(t.next, t.first[r])
      head == IF kids = <<>> THEN t.next[r] ELSE kids[1]
      next == [n \in DOMAIN t.next |->
                 IF kids # <<>> /\ n = Last(kids) THEN t.next[r]
                 ELSE IF n # r /\ t.next[n] = r THEN head
                 ELSE t.next[n]]
  IN  [in |-> t.in \ {r},
       parent |-> [n \in DOMAIN t.parent |-> IF n \in Elements(kids) THEN p ELSE t.parent[n]],
       first |-> [t.first EXCEPT ![p] = IF @ = r THEN head ELSE @],
       next |-> next]

(* Deliberate fault: the first child becomes the root.                     *)
RemoveRootFirst(t, r) ==
  LET kids == Chain(t.next, t.first[r])
      root == kids[1]
      others == SelectSeq(kids, LAMBDA n : n # root)
      next == [n \in DOMAIN t.next |->
                 IF n = root THEN Nil
                 ELSE IF others # <<>> /\ n = Last(others) THEN t.first[root]
                 ELSE t.next[n]]
  IN  [in |-> t.in \ {r},
       parent |-> [n \in DOMAIN t.parent |-> IF n \in Elements(kids) THEN root ELSE t.parent[n]],
       first |-> [t.first EXCEPT ![root] = IF others = <<>> THEN @ ELSE others[1]],
       next |-> next]

(* The same for the root: the smallest of its children becomes the root,   *)
(* is unchained, and gets the other ones in front of its own.              *)
RemoveRoot(t, r) ==
  LET kids == Chain(t.next, t.first[r])
      root == Least(Elements(kids))
      others == SelectSeq(kids, LAMBDA n : n # root)
      next == [n \in DOMAIN t.next |->
                 IF n = root THEN Nil
                 ELSE IF others # <<>> /\ n = Last(others) THEN t.first[root]
                 ELSE IF t.next[n] = root THEN t.next[root]
                 ELSE t.next[n]]
  IN  [in |-> t.in \ {r},
       parent |-> [n \in DOMAIN t.parent |-> IF n \in Elements(kids) THEN root ELSE t.parent[n]],
       first |-> [t.first EXCEPT ![root] = IF others = <<>> THEN @ ELSE others[1]],
       next |-> next]

RemoveNode(t, r) == IF t.parent[r] = r THEN RemoveRoot(t, r) ELSE RemoveInner(t, r)

(* era_parent and era_next_child: the tree they leave behind.              *)
RECURSIVE AfterParent(_, _, _)
AfterParent(t, r, dead) ==
  IF t.parent[r] \notin dead THEN t ELSE AfterParent(RemoveNode(t, t.parent[r]), r, dead)

RECURSIVE AfterFirst(_, _, _)
AfterFirst(t, r, dead) ==
  IF t.first[r] \notin dead THEN t ELSE AfterFirst(RemoveNode(t, t.first[r]), r, dead)

RECURSIVE AfterNext(_, _, _)
AfterNext(t, r, dead) ==
  IF t.next[r] \notin dead THEN t ELSE AfterNext(RemoveNode(t, t.next[r]), r, dead)

(* The loop over all the children from r's next sibling on; it yields the  *)
(* children it meets and the tree it leaves.                               *)
RECURSIVE WalkSiblings(_, _, _)
WalkSiblings(t, r, dead) ==
  LET u == AfterNext(t, r, dead)
  IN  IF u.next[r] = Nil THEN [met |-> <<>>, tree |-> u]
      ELSE LET rest == WalkSiblings(u, u.next[r], dead)
           IN  [met |-> <<u.next[r]>> \o rest.met, tree |-> rest.tree]

WalkChildren(t, r, dead) ==
  LET u == AfterFirst(t, r, dead)
  IN  IF u.first[r] = Nil THEN [met |-> <<>>, tree |-> u]
      ELSE LET rest == WalkSiblings(u, u.first[r], dead)
           IN  [met |-> <<u.first[r]>> \o rest.met, tree |-> rest.tree]

-----------------------------------------------------------------------------
Init ==
  /\ me \in Procs
  /\ base \in {b \in SUBSET (Procs \ {me}) : Cardinality(b) <= MaxAgreed}
  /\ known = base
  /\ tree = BuildTree(base)

(* The process learns of a failure.                                        *)
Failure(q) ==
  /\ q \notin known \cup {me}
  /\ known' = known \cup {q}
  /\ UNCHANGED <<me, base, tree>>

CallParent ==
  /\ tree' = AfterParent(tree, me, known)
  /\ UNCHANGED <<me, base, known>>

(* Most loops over the children run to the end; the one of check_status    *)
(* stops at the first child that has not contributed yet.                  *)
CallFirstChild ==
  /\ tree' = AfterFirst(tree, me, known)
  /\ UNCHANGED <<me, base, known>>

CallAllChildren ==
  /\ tree' = WalkChildren(tree, me, known).tree
  /\ UNCHANGED <<me, base, known>>

Next ==
  \/ \E q \in Procs : Failure(q)
  \/ CallParent
  \/ CallFirstChild
  \/ CallAllChildren

Spec == Init /\ [][Next]_vars

-----------------------------------------------------------------------------
(* The assertions of era_tree_check: one root, without siblings; every     *)
(* node is in its parent's chain of children and the chains hold nothing   *)
(* else; ranks grow from parent to child; only dead nodes were cut out.    *)
WellFormed ==
  /\ Members(base) \ tree.in \subseteq known
  /\ Cardinality({r \in tree.in : tree.parent[r] = r}) = 1
  /\ \A r \in tree.in :
       LET kids == Chain(tree.next, tree.first[r])
       IN  /\ Elements(kids) = {n \in tree.in \ {r} : tree.parent[n] = r}
           /\ Len(kids) = Cardinality(Elements(kids))
           /\ tree.parent[r] <= r
           /\ tree.parent[r] = r => tree.next[r] = Nil

(* Whatever was cut out before, the search for the parent finds the parent *)
(* in the tree that the known failures determine.                          *)
ParentFound ==
  AfterParent(tree, me, known).parent[me] = TreeParent(base, known, me)

(* Likewise the loop over the children meets exactly the children, once    *)
(* each.  A process that has not yet cut out the dead root above it does   *)
(* not meet the orphans that become its children with that: this is why    *)
(* era_check_status calls era_parent before it looks at the children.      *)
ChildrenMet ==
  LET met == WalkChildren(tree, me, known).met
  IN  /\ Elements(met) = IF tree.parent[me] = me THEN TreeChildren(base, known, me)
                         ELSE OwnChildren(base, known, me)
      /\ Len(met) = Cardinality(Elements(met))
=============================================================================
