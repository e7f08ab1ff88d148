------------------------------ MODULE MCConnMgr ------------------------------
(***************************************************************************)
(* Instances of ConnMgr for TLC: one caller connects both sessions, the    *)
(* other connects the first again, so that two dials of one session can    *)
(* overlap when a Disconnect falls between them.                           *)
(***************************************************************************)
EXTENDS ConnMgr

CONSTANTS s1, s2

MCTargetLists == [b \in Batches |-> IF b = 1 THEN {<<s1, s2>>} ELSE {<<s1>>}]
=============================================================================
