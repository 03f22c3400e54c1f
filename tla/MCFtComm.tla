----------------------------- MODULE MCFtComm -----------------------------
(* Instances of FtComm for TLC.                                            *)
EXTENDS FtComm, TLC

CONSTANTS w, c

(* The world alone; the world and a duplicate.                             *)
OneComm == {w}
TwoComms == {w, c}
NoDead == <<>>
(* Six processes: the survivors of two crashes form the ring 0-2-3-5.      *)
RingDead == <<1, 4>>
OneIntra == w :> 0
TwoIntra == (w :> 0) @@ (c :> 0)
=============================================================================
