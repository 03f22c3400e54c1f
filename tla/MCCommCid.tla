----------------------------- MODULE MCCommCid -----------------------------
(* Instances of CommCid for TLC.                                           *)
EXTENDS CommCid, TLC

(* MPI_Comm_dup, and every split in two.                                   *)
TwoColours == [Procs -> {0, 1}]
Symmetry == Permutations(Procs)
=============================================================================
