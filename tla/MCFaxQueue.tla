----------------------------- MODULE MCFaxQueue -----------------------------
(***************************************************************************)
(* Instances of FaxQueue for TLC.                                          *)
(***************************************************************************)
EXTENDS FaxQueueUse

CONSTANTS a, b, c, d1, d2, m1, m2

(* Destinations: a and b have the same one, c another.                     *)
MCDestOf == [j \in Jobs |-> IF j \in {a, b} THEN d1 ELSE d2]
(* Any modem will do for every job.                                        *)
AnyModem == [j \in Jobs |-> Modems]
(* b insists on the modem m1.                                              *)
Picky == [j \in Jobs |-> IF j = b THEN {m1} ELSE Modems]
(* Priorities at the end of their range, so that it is reached: a retry    *)
(* moves a (and c) from 113 up to 112, the top of their bucket, and the    *)
(* bulk job b from 254 down to 255.                                        *)
MCUsrPri == [j \in Jobs |-> IF j = b THEN 254 ELSE 113]
(* A run that goes no further than a return of suspendJob that tears a job *)
(* from its subprocess.                                                    *)
NoneTorn == \A j \in Jobs : ~Torn(j)
=============================================================================
