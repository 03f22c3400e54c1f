--------------------------- MODULE BinomialGraph ---------------------------
(***************************************************************************)
(* The binomial graph along which a reliable broadcast is diffused         *)
(* (ompi/communicator/comm_ft_reliable_bcast.c).  A process talks to the   *)
(* ranks at distance 1, 2, 4, ... in both directions of the ring of the    *)
(* np ranks.  An intercommunicator numbers the union of its two groups,    *)
(* the low group first, and uses the same ring.                            *)
(***************************************************************************)
EXTENDS Integers, FiniteSets

(* The values of i in "for(i=1; i <= np/2; i*=2)".                         *)
Strides(np) == {i \in 1..(np \div 2) : \E k \in 0..np : i = 2^k}

(* Deliberate fault: the backward direction is forgotten.                  *)
LegsForwardOnly(np) == Strides(np)

(* A leg is d*i: the distance and the direction of one send.               *)
Legs(np) == Strides(np) \cup {-i : i \in Strides(np)}

(* idx = (np+me+d*i)%np                                                    *)
Target(np, me, leg) == (np + me + leg) % np

(* The loops send along i first, forward before backward.                  *)
Abs(leg) == IF leg < 0 THEN -leg ELSE leg
Earlier(l, m) == Abs(l) < Abs(m) \/ (Abs(l) = Abs(m) /\ l > m)

Neighbours(np, me) == {Target(np, me, leg) : leg \in Legs(np)}

=============================================================================
