---------------------------- MODULE MCAutoservice ----------------------------
(***************************************************************************)
(* Instances of Autoservice for TLC: a channel c1 of t1 alone, a channel   *)
(* c2 that t1 and t2 both start and stop.                                  *)
(***************************************************************************)
EXTENDS Autoservice

CONSTANTS t1, t2, c1, c2, e1, e2, e3

MCUsers == [c \in Channels |-> IF c = c1 THEN {t1} ELSE {t1, t2}]
=============================================================================
