---------------------------- MODULE FaxQueueUse ----------------------------
(***************************************************************************)
(* FaxQueue as an implementation of ModemUse: the destination of a modem   *)
(* is that of the batch on it, from startBatch until the batch is deleted. *)
(***************************************************************************)
EXTENDS FaxQueue

holder == [m \in Modems |-> mdm[m].lock]
dest == [m \in Modems |-> IF bat[m].phase = "none" THEN "off" ELSE bat[m].dest]

Use == INSTANCE ModemUse WITH NoDest <- "off", MaxCalls <- MaxConcurrentCalls

(* faxq locks a modem for one batch at a time, gives the lock back before  *)
(* it starts another one, never takes a lock that another program holds,   *)
(* and keeps to MaxConcurrentCalls (assignModem, releaseModem, startBatch, *)
(* sendDone, isOKToCall).                                                  *)
UsesModems == Use!Spec

(* Every batch comes to its end, and faxq gives its modem back.            *)
BatchesEnd == Use!FairSpec

=============================================================================
