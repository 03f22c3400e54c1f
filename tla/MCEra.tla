------------------------------- MODULE MCEra -------------------------------
(* Instances of Era for TLC.                                               *)
EXTENDS Era

OneHost == [r \in Procs |-> 0]
=============================================================================
