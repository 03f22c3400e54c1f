------------------------------- MODULE MCEta -------------------------------
(* Model values for Eta.                                                   *)
EXTENDS Eta, TLC

Symmetry == Permutations(Procs)
=============================================================================
