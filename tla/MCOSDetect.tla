----------------------------- MODULE MCOSDetect ------------------------------
(* Two terminals of one session, and more operations while only one has opened. *)
EXTENDS OSDetect, TLC

MCMaxOps == [n \in 0..2 |-> IF n = 2 THEN 1 ELSE 4]

MCSymmetry == Permutations(Terminals)
=============================================================================
