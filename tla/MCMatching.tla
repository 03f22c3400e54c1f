----------------------------- MODULE MCMatching -----------------------------
(* Instances of Matching for TLC.                                          *)
EXTENDS Matching

User == 0
Bcast == -17        \* MCA_COLL_BASE_TAG_BCAST

(* Out-of-order pairs and triples from 0, and a rival for wildcards.       *)
SomeSends == {<<0, User, "rndv">>, <<0, Bcast, "match">>, <<1, User, "rndv">>}
SomeRecvs == {<<AnySource, AnyTag>>, <<0, User>>}
=============================================================================
