----------------------------- MODULE Agreement -----------------------------
(***************************************************************************)
(* What an agreement promises, whatever the algorithm: the living agree on *)
(* one outcome, to which all of them have contributed.  A process that has *)
(* crashed may have left with another outcome (the agreement is not        *)
(* uniform), and a contribution of a process that crashes may be lost.     *)
(***************************************************************************)
EXTENDS Naturals, Sequences

CONSTANTS
  Procs,    \* the participants
  K         \* agreements per process at most

VARIABLES
  crashed,    \* the processes that have crashed
  entered,    \* entered[p]: how many agreements p has entered
  returned    \* returned[p]: the outcomes p has got, [missing, dead, ret]

vars == <<crashed, entered, returned>>

(* An outcome: whose contributions it misses, the failures it reports, and *)
(* the return code.  Only processes that have crashed may be in either.    *)
Outcomes == [missing : SUBSET crashed, dead : SUBSET crashed, ret : {0, 1}]

Init ==
  /\ crashed = {}
  /\ entered = [p \in Procs |-> 0]
  /\ returned = [p \in Procs |-> <<>>]

CanEnter(p) == p \notin crashed /\ entered[p] < K /\ entered[p] = Len(returned[p])

(* v may be the outcome of agreement a: nobody alive has another one or    *)
(* has not contributed, and an error has a cause.                          *)
Admissible(v, a, in) ==
  /\ \A q \in Procs \ crashed :
       /\ a <= Len(returned[q]) => returned[q][a] = v
       /\ in[q] >= a
  /\ v.ret # 0 => crashed # {}

Enter(p) ==
  /\ CanEnter(p)
  /\ entered' = [entered EXCEPT ![p] = @ + 1]
  /\ UNCHANGED <<crashed, returned>>

Return(p) ==
  /\ p \notin crashed
  /\ entered[p] = Len(returned[p]) + 1
  /\ \E v \in Outcomes :
       /\ Admissible(v, entered[p], entered)
       /\ returned' = [returned EXCEPT ![p] = Append(@, v)]
  /\ UNCHANGED <<crashed, entered>>

(* The last one to contribute need not wait.                               *)
EnterAndReturn(p) ==
  /\ CanEnter(p)
  /\ entered' = [entered EXCEPT ![p] = @ + 1]
  /\ \E v \in Outcomes :
       /\ Admissible(v, entered[p] + 1, entered')
       /\ returned' = [returned EXCEPT ![p] = Append(@, v)]
  /\ UNCHANGED crashed

Crash(p) ==
  /\ p \notin crashed
  /\ crashed' = crashed \cup {p}
  /\ entered' = [entered EXCEPT ![p] = 0]
  /\ returned' = [returned EXCEPT ![p] = <<>>]

Next == \E p \in Procs : Enter(p) \/ Return(p) \/ EnterAndReturn(p) \/ Crash(p)

Spec == Init /\ [][Next]_vars
=============================================================================
