----------------------------- MODULE MCEraTree -----------------------------
(* Instances of EraTree for TLC.                                           *)
EXTENDS EraTree

OneHost == [r \in Procs |-> 0]
(* Three hosts, ranks dealt round-robin, but for the last one.             *)
ThreeHosts == [r \in Procs |-> IF r = NP - 1 THEN 0 ELSE r % 3]
=============================================================================
