------------------------------ MODULE ModemUse ------------------------------
(***************************************************************************)
(* What faxq promises the other programs that use its modems, and the      *)
(* destinations it calls: a modem is locked for one batch at a time, its   *)
(* lock is given back before the next batch, and no destination has more   *)
(* batches than allowed.  FaxQueue implements this specification.          *)
(***************************************************************************)
EXTENDS Integers, FiniteSets

CONSTANTS Modems, Dests, NoDest, MaxCalls

VARIABLES
  holder,  \* who holds the UUCP lock of a modem: "free", "faxq" or "other"
  dest     \* the destination of the batch on a modem, or NoDest

use == <<holder, dest>>

CallsTo(d) == {m \in Modems : dest[m] = d}

Init ==
  /\ holder = [m \in Modems |-> "free"]
  /\ dest = [m \in Modems |-> NoDest]

(* A batch begins: assignModem has locked the modem.                       *)
Start(m, d) ==
  /\ holder[m] = "free" /\ dest[m] = NoDest
  /\ Cardinality(CallsTo(d)) < MaxCalls
  /\ holder' = [holder EXCEPT ![m] = "faxq"]
  /\ dest' = [dest EXCEPT ![m] = d]

(* releaseModem, when faxsend has exited.                                  *)
Release(m) ==
  /\ holder[m] = "faxq" /\ dest[m] # NoDest
  /\ holder' = [holder EXCEPT ![m] = "free"]
  /\ UNCHANGED dest

(* The batch is deleted.                                                   *)
Finish(m) ==
  /\ holder[m] # "faxq" /\ dest[m] # NoDest
  /\ dest' = [dest EXCEPT ![m] = NoDest]
  /\ UNCHANGED holder

(* Another program takes or gives back the lock.                           *)
Other(m) ==
  /\ \/ holder[m] = "free" /\ holder' = [holder EXCEPT ![m] = "other"]
     \/ holder[m] = "other" /\ holder' = [holder EXCEPT ![m] = "free"]
  /\ UNCHANGED dest

Next == \E m \in Modems : \/ \E d \in Dests : Start(m, d)
                          \/ Release(m) \/ Finish(m) \/ Other(m)

Spec == Init /\ [][Next]_use

(* Every batch ends, and its modem is given back.                          *)
FairSpec == Spec /\ \A m \in Modems : WF_use(Release(m)) /\ WF_use(Finish(m))

=============================================================================
