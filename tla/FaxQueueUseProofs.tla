------------------------- MODULE FaxQueueUseProofs -------------------------
(***************************************************************************)
(* Proofs about the use of modems: FaxQueue implements ModemUse, and the   *)
(* invariants behind that.                                                 *)
(***************************************************************************)
EXTENDS FaxQueueUse, FaxQueueProofs, FiniteSetTheorems

(* A batch operation is about a batch that exists; jobs are added to it,   *)
(* and faxsend started for it, only while it has no subprocess.            *)
OpOK ==
  /\ op.k # "idle" => bat[op.m].phase # "none"
  /\ op.k \in {"fill", "send"} => bat[op.m].phase = "fill"

(* How a step may change the batch, the lock and the operation of a modem. *)
SameBatch(m) ==
  /\ bat'[m].phase = "none" <=> bat[m].phase = "none"
  /\ bat'[m].dest = bat[m].dest
  /\ bat[m].phase = "send" => bat'[m].phase = "send" /\ bat'[m].todo \subseteq bat[m].todo
SameLock(m) == mdm'[m].lock = mdm[m].lock
Swapped(m) == {mdm[m].lock, mdm'[m].lock} = {"free", "other"}

(* The five kinds of steps: nothing of the kind changes, another program   *)
(* uses a lock, a batch begins, its modem is released, it is deleted.      *)
Quiet ==
  \A m \in Modems : SameBatch(m) /\ SameLock(m) /\ (Finishing(m)' <=> Finishing(m))
Swap ==
  /\ UNCHANGED <<bat, op>>
  /\ \E n \in Modems : Swapped(n) /\ \A m \in Modems \ {n} : SameLock(m)
Begin ==
  /\ op.k = "idle" /\ op'.k # "done"
  /\ \E n \in Modems :
       /\ mdm[n].lock = "free" /\ mdm'[n].lock = "faxq"
       /\ bat'[n].phase # "none" /\ isOKToCall(bat'[n].dest)
       /\ \A m \in Modems \ {n} : SameBatch(m) /\ SameLock(m)
Give ==
  \E n \in Modems :
     /\ op.k # "done" /\ op'.k = "done" /\ op'.m = n
     /\ bat[n].phase # "none" /\ mdm'[n].lock = "free"
     /\ \A m \in Modems : SameBatch(m) /\ (m # n => SameLock(m))
Delete ==
  \E n \in Modems :
     /\ op.k = "done" /\ op.m = n /\ op'.k = "idle"
     /\ bat'[n].phase = "none"
     /\ \A m \in Modems : SameLock(m) /\ (m # n => SameBatch(m))

Kinds == Quiet \/ Swap \/ Begin \/ Give \/ Delete

LEMMA FillKind ==
  ASSUME TypeInv, OpOK, fillBatch
  PROVE  OpOK' /\ Kinds
<1>1. /\ op \in OpType /\ op.m \in Modems /\ bat \in [Modems -> BatType] /\ QueueOK
      /\ op.k = "fill" /\ bat[op.m].phase = "fill" /\ mdm' = mdm
  BY DEF TypeInv, OthersOK, OpOK, fillBatch
<1>2. PICK n \in Modems : n = op.m
  BY <1>1
<1>3. ASSUME bat' = bat, op'.m = n, op'.k \in {"fill", "send"}
      PROVE  OpOK' /\ Kinds
  BY <1>1, <1>2, <1>3 DEF OpOK, Kinds, Quiet, SameBatch, SameLock, Finishing
<1>4. ASSUME bat' = bat \/ bat' = [bat EXCEPT ![n].phase = "prep"], op'.k = "idle"
      PROVE  OpOK' /\ Kinds
  <2>1. \A m \in Modems : SameBatch(m)
    BY <1>1, <1>2, <1>4 DEF SameBatch, BatType
  <2>. QED  BY <1>1, <1>2, <1>4, <2>1 DEF OpOK, Kinds, Quiet, SameLock, Finishing
<1>5. ASSUME NEW j, op' = [op EXCEPT !.todo = @ \ {j}], UNCHANGED bat
      PROVE  OpOK' /\ Kinds
  <2>1. op'.m = n /\ op'.k = "fill"
    BY <1>1, <1>2, <1>5 DEF OpType
  <2>. QED  BY <1>3, <1>5, <2>1
<1>6. ASSUME op' = [op EXCEPT !.k = "send"], UNCHANGED bat
      PROVE  OpOK' /\ Kinds
  <2>1. op'.m = n /\ op'.k = "send"
    BY <1>1, <1>2, <1>6 DEF OpType
  <2>. QED  BY <1>3, <1>6, <2>1
<1>7. ASSUME NEW j \in Jobs, processJob(Off(job, j), bat, op.m, j)
      PROVE  OpOK' /\ Kinds
  <2>1. JobsOK(Off(job, j), runq)
    BY <1>1, OffOK DEF QueueOK
  <2>2. \/ bat' = bat /\ (op' = Idle \/ (op'.m = n /\ op'.k \in {"fill", "send"}))
        \/ bat' = [bat EXCEPT ![n].phase = "prep"] /\ op' = Idle
    BY <1>1, <1>2, <1>7, <2>1, ProcessJobOK
  <2>. QED  BY <1>3, <1>4, <2>2, IdleOK
<1>8. Highest(job, op.todo) \subseteq Jobs
  BY <1>1 DEF OpType, Highest
<1>. QED  BY <1>5, <1>6, <1>7, <1>8, Zenon DEF fillBatch

LEMMA SendStartKind ==
  ASSUME TypeInv, OpOK, sendStart
  PROVE  OpOK' /\ Kinds
<1>1. /\ op \in OpType /\ op.m \in Modems /\ bat \in [Modems -> BatType]
      /\ mdm \in [Modems -> MdmType] /\ op.k = "send" /\ bat[op.m].phase = "fill"
  BY Zenon DEF TypeInv, OthersOK, OpOK, sendStart
<1>2. PICK n \in Modems : n = op.m
  BY <1>1
<1>3. ASSUME NEW S, bat' = [bat EXCEPT ![n] = [@ EXCEPT !.phase = "send", !.todo = S,
                                                      !.called = FALSE]],
             op' = Idle, UNCHANGED mdm
      PROVE  OpOK' /\ Kinds
  <2>1. \A m \in Modems : SameBatch(m)
    BY <1>1, <1>2, <1>3 DEF SameBatch, BatType
  <2>. QED  BY <1>1, <1>3, <2>1, IdleOK DEF OpOK, Kinds, Quiet, SameLock, Finishing
<1>4. ASSUME NEW S, op' = [op EXCEPT !.k = "done", !.todo = S, !.st = "retry", !.first = TRUE],
             Release(n), UNCHANGED bat
      PROVE  OpOK' /\ Kinds
  <2>1. op'.k = "done" /\ op'.m = n
    BY <1>1, <1>2, <1>4 DEF OpType
  <2>2. mdm'[n].lock = "free" /\ \A m \in Modems : m # n => mdm'[m].lock = mdm[m].lock
    BY <1>1, <1>4 DEF Release, MdmType
  <2>3. Give
    BY <1>1, <1>2, <1>4, <2>1, <2>2 DEF Give, SameBatch, SameLock
  <2>. QED  BY <1>1, <1>2, <1>4, <2>1, <2>3 DEF OpOK, Kinds
<1>. QED  BY <1>2, <1>3, <1>4, Zenon DEF sendStart

LEMMA SendDoneKind ==
  ASSUME TypeInv, OpOK, NEW n \in Modems, sendDone(n)
  PROVE  OpOK' /\ Kinds
<1>1. /\ bat \in [Modems -> BatType] /\ mdm \in [Modems -> MdmType]
      /\ op.k = "idle" /\ bat[n].phase = "send"
  BY DispatchOK DEF TypeInv, OthersOK, sendDone
<1>2. op'.k = "done" /\ op'.m = n
  <2>1. PICK st : op' = [Idle EXCEPT !.k = "done", !.m = n, !.todo = BatchJobs(job, n), !.st = st]
    BY Zenon DEF sendDone
  <2>. QED  BY <2>1 DEF Idle
<1>3. mdm'[n].lock = "free" /\ \A m \in Modems : m # n => mdm'[m].lock = mdm[m].lock
  BY <1>1 DEF sendDone, Release, MdmType
<1>4. \A m \in Modems : SameBatch(m) /\ bat'[m].phase = bat[m].phase
  <2>1. bat' = [bat EXCEPT ![n] = [@ EXCEPT !.todo = {}, !.called = FALSE]]
    BY DEF sendDone
  <2>. QED  BY <1>1, <2>1 DEF SameBatch, BatType
<1>5. Give
  BY <1>1, <1>2, <1>3, <1>4 DEF Give, SameLock
<1>. QED  BY <1>1, <1>2, <1>4, <1>5 DEF OpOK, Kinds

LEMMA SendDoneJobKind ==
  ASSUME TypeInv, OpOK, sendDoneJob
  PROVE  OpOK' /\ Kinds
<1>1. op \in OpType /\ op.k = "done" /\ bat' = bat /\ mdm' = mdm
  BY Zenon DEF TypeInv, OthersOK, sendDoneJob
<1>2. PICK D, b : op' = [op EXCEPT !.todo = D, !.first = b]
  BY Zenon DEF sendDoneJob
<1>3. op'.k = op.k /\ op'.m = op.m
  BY <1>1, <1>2 DEF OpType
<1>. QED  BY <1>1, <1>3 DEF OpOK, Kinds, Quiet, SameBatch, SameLock, Finishing

LEMMA SendDoneEndKind ==
  ASSUME TypeInv, OpOK, sendDoneEnd
  PROVE  OpOK' /\ Kinds
<1>1. /\ op \in OpType /\ op.m \in Modems /\ bat \in [Modems -> BatType]
      /\ op.k = "done" /\ op' = Idle /\ mdm' = mdm
  BY Zenon DEF TypeInv, OthersOK, sendDoneEnd
<1>2. bat' = [bat EXCEPT ![op.m] = [@ EXCEPT !.phase = "none", !.todo = {}, !.called = FALSE]]
  BY Zenon DEF sendDoneEnd
<1>3. bat'[op.m].phase = "none" /\ \A m \in Modems : m # op.m => SameBatch(m)
  BY <1>1, <1>2 DEF SameBatch, BatType
<1>4. Delete
  BY <1>1, <1>3, IdleOK DEF Delete, SameLock
<1>. QED  BY <1>1, <1>4, IdleOK DEF OpOK, Kinds

LEMMA PrepareDoneKind ==
  ASSUME TypeInv, OpOK, NEW n \in Modems, prepareDone(n)
  PROVE  OpOK' /\ Kinds
<1>1. Dispatch(3) /\ bat[n].phase = "prep" /\ mdm' = mdm
  BY Zenon DEF prepareDone
<1>2. bat \in [Modems -> BatType] /\ op \in OpType /\ op.k = "idle"
  BY <1>1, DispatchOK DEF TypeInv, OthersOK
<1>3. bat' = [bat EXCEPT ![n].phase = "fill"]
  BY Zenon DEF prepareDone
<1>4. bat'[n].phase = "fill" /\ \A m \in Modems : SameBatch(m)
  BY <1>1, <1>2, <1>3 DEF SameBatch, BatType
<1>5. op' = op \/ op' = FillBatch(job', bat', n)
  BY <1>3, Zenon DEF prepareDone
<1>6. op'.k = "idle" \/ (op'.m = n /\ op'.k \in {"fill", "send"})
  BY <1>2, <1>5, FillBatchOK
<1>. QED  BY <1>1, <1>2, <1>4, <1>6 DEF OpOK, Kinds, Quiet, SameLock, Finishing

LEMMA FaxsendKind ==
  ASSUME TypeInv, OpOK, NEW n \in Modems, sendCall(n) \/ sendResult(n)
  PROVE  OpOK' /\ Kinds
<1>1. bat \in [Modems -> BatType] /\ mdm' = mdm /\ op' = op
  BY Zenon DEF TypeInv, OthersOK, sendCall, sendResult
<1>2. PICK D, x : /\ bat' = [bat EXCEPT ![n] = [@ EXCEPT !.todo = D, !.called = x]]
                  /\ D \subseteq bat[n].todo
  <2>1. CASE sendCall(n)
    <3>1. bat' = [bat EXCEPT ![n].called = TRUE]
      BY <2>1 DEF sendCall
    <3>2. bat' = [bat EXCEPT ![n] = [@ EXCEPT !.todo = bat[n].todo, !.called = TRUE]]
      BY <1>1, <3>1 DEF BatType
    <3>. QED  BY <3>2, Zenon
  <2>2. CASE sendResult(n)
    <3>1. PICK j, st : bat' = [bat EXCEPT ![n] = [@ EXCEPT
             !.todo = IF st \in {"done", "nobatch"} \/ ~Readable(j)
                      THEN bat[n].todo \ {j} ELSE {},
             !.called = FALSE]]
      BY <2>2, Zenon DEF sendResult
    <3>2. PICK D : D = IF st \in {"done", "nobatch"} \/ ~Readable(j)
                       THEN bat[n].todo \ {j} ELSE {}
      OBVIOUS
    <3>3. D \subseteq bat[n].todo
      BY <3>2
    <3>4. bat' = [bat EXCEPT ![n] = [@ EXCEPT !.todo = D, !.called = FALSE]]
      BY <3>1, <3>2
    <3>. QED  BY <3>3, <3>4, Zenon
  <2>. QED  BY <2>1, <2>2, Zenon
<1>3. \A m \in Modems : SameBatch(m) /\ bat'[m].phase = bat[m].phase
  BY <1>1, <1>2 DEF SameBatch, BatType
<1>. QED  BY <1>1, <1>3 DEF OpOK, Kinds, Quiet, SameLock, Finishing, TypeInv, OthersOK

LEMMA ScheduleKind ==
  ASSUME TypeInv, OpOK, scheduleJob
  PROVE  OpOK' /\ Kinds
<1>1. /\ bat \in [Modems -> BatType] /\ mdm \in [Modems -> MdmType] /\ op \in OpType
      /\ QueueOK /\ op.k = "idle"
  BY ScheduleCases, Zenon DEF TypeInv, OthersOK
<1>2. ASSUME UNCHANGED <<bat, op>>, \A m \in Modems : SameLock(m)
      PROVE  OpOK' /\ Kinds
  BY <1>1, <1>2, Zenon DEF OpOK, Kinds, Quiet, SameBatch, Finishing
<1>3. ASSUME UNCHANGED <<bat, mdm, op>> PROVE OpOK' /\ Kinds
  BY <1>2, <1>3 DEF SameLock
<1>4. ASSUME NEW L, NEW m \in Modems PROVE Marked(L)[m].lock = mdm[m].lock
  BY <1>1 DEF Marked, MdmType
<1>5. ASSUME NEW L, mdm' = Marked(L), UNCHANGED <<bat, op>> PROVE OpOK' /\ Kinds
  BY <1>2, <1>4, <1>5 DEF SameLock
<1>6. ASSUME NEW j \in Jobs, NEW n \in findModem(j), NEW L, Lockable(n), isOKToCall(DestOf[j]),
             mdm' = [Marked(L) EXCEPT ![n] = [@ EXCEPT !.state = "BUSY", !.lock = "faxq"]],
             processJob(Off(job, j), [bat EXCEPT ![n] = [@ EXCEPT !.phase = "fill",
                                                  !.dest = DestOf[j]]], n, j)
      PROVE  OpOK' /\ Kinds
  <2>1. n \in Modems /\ DestOf[j] \in Dests /\ mdm[n].lock = "free"
    BY <1>6, FaxQueueAssumption DEF findModem, Lockable
  <2>2. mdm'[n].lock = "faxq" /\ \A m \in Modems \ {n} : SameLock(m)
    <3>1. Marked(L) \in [Modems -> MdmType]
      BY <1>1, MarkedOK, Zenon
    <3>2. PICK M : M = Marked(L)
      OBVIOUS
    <3>3. mdm'[n].lock = "faxq" /\ \A m \in Modems \ {n} : mdm'[m] = M[m]
      BY <1>6, <2>1, <3>1, <3>2 DEF MdmType
    <3>. QED  BY <1>4, <3>2, <3>3 DEF SameLock
  <2>3. PICK B : B = [bat EXCEPT ![n] = [@ EXCEPT !.phase = "fill", !.dest = DestOf[j]]]
    BY Zenon
  <2>4. /\ B \in [Modems -> BatType] /\ B[n].phase = "fill" /\ B[n].dest = DestOf[j]
        /\ \A m \in Modems \ {n} : B[m] = bat[m]
    BY <1>1, <2>1, <2>3, Zenon DEF BatType
  <2>5. JobsOK(Off(job, j), runq)
    BY <1>1, OffOK DEF QueueOK
  <2>6. \/ bat' = B /\ (op' = Idle \/ (op'.m = n /\ op'.k \in {"fill", "send"}))
        \/ bat' = [B EXCEPT ![n].phase = "prep"] /\ op' = Idle
    <3>1. processJob(Off(job, j), B, n, j)
      BY <1>6, <2>3
    <3>. QED  BY <1>1, <2>1, <2>4, <2>5, <3>1, ProcessJobOK
  <2>7. /\ bat'[n].phase \in {"fill", "prep"} /\ bat'[n].dest = DestOf[j]
        /\ \A m \in Modems \ {n} : bat'[m] = bat[m]
    BY <2>1, <2>4, <2>6 DEF BatType
  <2>8. op'.k = "idle" \/ (op'.m = n /\ op'.k \in {"fill", "send"} /\ bat'[n].phase = "fill")
    BY <2>4, <2>6, IdleOK
  <2>9. Begin
    BY <1>1, <1>6, <2>1, <2>2, <2>7, <2>8 DEF Begin, SameBatch
  <2>. QED  BY <2>8, <2>9, Zenon DEF OpOK, Kinds
<1>7. PICK j \in Jobs :
         \/ UNCHANGED <<job, q, runq, bat, mdm, op, poke>>
         \/ Considered(j, DestOf[j])
  BY ScheduleCases
<1>. QED  BY <1>3, <1>5, <1>6, <1>7, Zenon DEF Considered

LEMMA OtherKind ==
  ASSUME TypeInv, OpOK, NEW n \in Modems,
         pollForModemLock(n) \/ FIFOModemMessage(n) \/ OtherLock(n)
  PROVE  OpOK' /\ Kinds
<1>1. mdm \in [Modems -> MdmType] /\ UNCHANGED <<bat, op>>
  BY DEF TypeInv, OthersOK, pollForModemLock, FIFOModemMessage, OtherLock
<1>2. OpOK'
  BY <1>1 DEF OpOK
<1>3. CASE \A m \in Modems : SameLock(m)
  BY <1>1, <1>2, <1>3 DEF Kinds, Quiet, SameBatch, Finishing
<1>4. CASE pollForModemLock(n)
  <2>1. \A m \in Modems : SameLock(m)
    <3>1. mdm' = mdm \/ mdm' = [mdm EXCEPT ![n] = [@ EXCEPT !.state = "READY", !.poll = FALSE]]
      BY <1>4 DEF pollForModemLock
    <3>2. CASE mdm' = mdm
      BY <3>2 DEF SameLock
    <3>3. CASE mdm' = [mdm EXCEPT ![n] = [@ EXCEPT !.state = "READY", !.poll = FALSE]]
      BY <1>1, <3>3 DEF MdmType, SameLock
    <3>. QED  BY <3>1, <3>2, <3>3
  <2>. QED  BY <1>3, <2>1
<1>5. CASE FIFOModemMessage(n)
  <2>1. \A m \in Modems : SameLock(m)
    BY <1>1, <1>5 DEF FIFOModemMessage, MdmType, SameLock
  <2>. QED  BY <1>3, <2>1
<1>6. CASE OtherLock(n)
  <2>1. Swapped(n) /\ \A m \in Modems \ {n} : SameLock(m)
    BY <1>1, <1>6 DEF OtherLock, MdmType, SameLock, Swapped
  <2>. QED  BY <1>1, <1>2, <2>1 DEF Kinds, Swap
<1>. QED  BY <1>4, <1>5, <1>6

(* Every step is of one of the five kinds.                                 *)
LEMMA NextKind ==
  ASSUME TypeInv, OpOK, [Next]_vars
  PROVE  OpOK' /\ Kinds
<1>1. ASSUME UNCHANGED <<bat, mdm, op>> PROVE OpOK' /\ Kinds
  BY <1>1 DEF OpOK, Kinds, Quiet, SameBatch, SameLock, Finishing
<1>2. CASE UNCHANGED vars
  BY <1>1, <1>2 DEF vars
<1>3. CASE runScheduler \/ scheduleJob \/ emptyDest \/ reapDeadJobs
  BY <1>1, <1>3, ScheduleKind DEF runScheduler, emptyDest, reapDeadJobs
<1>4. CASE fillBatch \/ sendStart \/ sendDoneJob \/ sendDoneEnd
  BY <1>4, FillKind, SendStartKind, SendDoneJobKind, SendDoneEndKind
<1>5. CASE \E m \in Modems : prepareDone(m) \/ sendCall(m) \/ sendResult(m) \/ sendDone(m)
                             \/ pollForModemLock(m) \/ FIFOModemMessage(m) \/ OtherLock(m)
  BY <1>5, PrepareDoneKind, FaxsendKind, SendDoneKind, OtherKind
<1>6. CASE \E j \in Jobs : ctrlJobDone(j) \/ runJob(j) \/ timeoutJob(j) \/ submitJob(j) \/ Vanish(j)
                           \/ \E cmd \in {"suspend", "terminate"} : suspendJob(j, cmd)
  <2>1. UNCHANGED <<bat, mdm, op>>
    BY <1>6, Zenon DEF ctrlJobDone, runJob, timeoutJob, submitJob, Vanish, suspendJob
  <2>. QED  BY <1>1, <2>1
<1>7. CASE FIFOJobMessage \/ resumeSuspend \/ Finished
  <2>1. UNCHANGED <<bat, mdm, op>>
    BY <1>7, Zenon DEF FIFOJobMessage, resumeSuspend, Finished, vars
  <2>. QED  BY <1>1, <2>1
<1>. QED  BY <1>2, <1>3, <1>4, <1>5, <1>6, <1>7, Zenon DEF Next


-----------------------------------------------------------------------------
(* The invariants, and the implementation.                                 *)

UseInv == OpOK /\ LockHeld /\ ConcurrencyLimit

Undisturbed ==
  \A m \in Modems : bat[m].phase = "send" =>
     \/ bat'[m].phase = "none"
     \/ bat'[m].phase = "send" /\ bat'[m].todo \subseteq bat[m].todo

LEMMA ActiveFinite ==
  ASSUME NEW B, NEW d
  PROVE  IsFiniteSet(Active(B, d)) /\ Cardinality(Active(B, d)) \in Nat
<1>1. Active(B, d) \in SUBSET Modems /\ IsFiniteSet(Modems)
  BY FaxQueueAssumption DEF Active
<1>2. IsFiniteSet(Active(B, d))
  BY <1>1, FS_Subset
<1>. QED  BY <1>2, FS_CardinalityType

LEMMA FewerCalls ==
  ASSUME NEW B, NEW C, NEW d, Active(C, d) \subseteq Active(B, d),
         Cardinality(Active(B, d)) <= MaxConcurrentCalls
  PROVE  Cardinality(Active(C, d)) <= MaxConcurrentCalls
<1>1. Cardinality(Active(C, d)) <= Cardinality(Active(B, d))
  BY ActiveFinite, FS_Subset
<1>2. Cardinality(Active(C, d)) \in Nat /\ Cardinality(Active(B, d)) \in Nat
  BY ActiveFinite
<1>. QED  BY <1>1, <1>2, FaxQueueAssumption

(* isOKToCall leaves room for one more call.                               *)
LEMMA RoomToCall ==
  ASSUME NEW d, isOKToCall(d)
  PROVE  Cardinality(Active(bat, d)) + 1 <= MaxConcurrentCalls
<1>1. SleepQ(job, d) \in SUBSET Jobs /\ IsFiniteSet(Jobs)
  BY FaxQueueAssumption DEF SleepQ
<1>2. Cardinality(SleepQ(job, d)) \in Nat
  BY <1>1, FS_Subset, FS_CardinalityType
<1>3. Cardinality(Active(bat, d)) \in Nat
  BY ActiveFinite
<1>. QED  BY <1>2, <1>3, FaxQueueAssumption DEF isOKToCall

(* Batches that stay as they are keep to the limit.                        *)
LEMMA LimitKept ==
  ASSUME ConcurrencyLimit,
         \A m \in Modems : bat'[m].phase # "none" =>
            bat[m].phase # "none" /\ bat'[m].dest = bat[m].dest
  PROVE  ConcurrencyLimit'
<1>. SUFFICES ASSUME NEW d \in Dests
              PROVE  Cardinality(Active(bat', d)) <= MaxConcurrentCalls
  BY DEF ConcurrencyLimit
<1>1. Active(bat', d) \subseteq Active(bat, d)
  BY DEF Active
<1>. QED  BY <1>1, FewerCalls DEF ConcurrencyLimit

LEMMA QuietStep ==
  ASSUME TypeInv, UseInv, TypeInv', OpOK', Quiet
  PROVE  UseInv' /\ Undisturbed /\ UNCHANGED Use!use
<1>1. LockHeld'
  BY DEF Quiet, UseInv, LockHeld, SameBatch, SameLock
<1>2. ConcurrencyLimit'
  BY LimitKept DEF Quiet, UseInv, SameBatch
<1>3. Undisturbed
  BY DEF Quiet, Undisturbed, SameBatch
<1>4. holder' = holder /\ dest' = dest
  BY DEF Quiet, holder, dest, SameBatch, SameLock
<1>. QED  BY <1>1, <1>2, <1>3, <1>4 DEF UseInv, Use!use

LEMMA SwapStep ==
  ASSUME TypeInv, UseInv, TypeInv', OpOK', Swap
  PROVE  UseInv' /\ Undisturbed /\ Use!Next
<1>1. PICK n \in Modems : Swapped(n) /\ \A m \in Modems \ {n} : SameLock(m)
  BY DEF Swap
<1>2. bat' = bat /\ op' = op /\ mdm \in [Modems -> MdmType] /\ mdm' \in [Modems -> MdmType]
  BY DEF Swap, TypeInv, OthersOK
<1>3. LockHeld'
  BY <1>1, <1>2, Zenon DEF UseInv, LockHeld, Swapped, SameLock, Finishing
<1>4. ConcurrencyLimit'
  BY <1>2 DEF UseInv, ConcurrencyLimit, Active
<1>5. Undisturbed
  BY <1>2 DEF Undisturbed
<1>6. Use!Other(n)
  <2>1. dest' = dest
    BY <1>2 DEF dest
  <2>2. holder' = [holder EXCEPT ![n] = mdm'[n].lock]
    BY <1>1, Zenon DEF holder, SameLock
  <2>3. holder[n] = mdm[n].lock
    BY DEF holder
  <2>. QED  BY <1>1, <2>1, <2>2, <2>3, Zenon DEF Use!Other, Swapped
<1>. QED  BY <1>3, <1>4, <1>5, <1>6 DEF UseInv, Use!Next

LEMMA BeginStep ==
  ASSUME TypeInv, UseInv, TypeInv', OpOK', Begin
  PROVE  UseInv' /\ Undisturbed /\ Use!Next
<1>1. PICK n \in Modems :
       /\ mdm[n].lock = "free" /\ mdm'[n].lock = "faxq"
       /\ bat'[n].phase # "none" /\ isOKToCall(bat'[n].dest)
       /\ \A m \in Modems \ {n} : SameBatch(m) /\ SameLock(m)
  BY DEF Begin
<1>2. op.k = "idle" /\ op'.k # "done"
  BY DEF Begin
<1>3. bat[n].phase = "none"
  BY <1>1, <1>2 DEF UseInv, LockHeld, Finishing
<1>4. PICK d \in Dests : d = bat'[n].dest
  BY DEF TypeInv, OthersOK, BatType
<1>5. LockHeld'
  BY <1>1, <1>2 DEF UseInv, LockHeld, SameBatch, SameLock, Finishing
<1>6. ConcurrencyLimit'
  <2>. SUFFICES ASSUME NEW e \in Dests
                PROVE  Cardinality(Active(bat', e)) <= MaxConcurrentCalls
    BY DEF ConcurrencyLimit
  <2>1. CASE e # d
    <3>1. Active(bat', e) \subseteq Active(bat, e)
      BY <1>1, <1>4, <2>1 DEF Active, SameBatch
    <3>. QED  BY <3>1, FewerCalls DEF UseInv, ConcurrencyLimit
  <2>2. CASE e = d
    <3>1. Active(bat', d) = Active(bat, d) \cup {n}
      BY <1>1, <1>4 DEF Active, SameBatch
    <3>2. Cardinality(Active(bat, d)) + 1 <= MaxConcurrentCalls
      BY <1>1, <1>4, RoomToCall
    <3>3. n \notin Active(bat, d)
      BY <1>3 DEF Active
    <3>4. Cardinality(Active(bat', d)) = Cardinality(Active(bat, d)) + 1
      BY <3>1, <3>3, ActiveFinite, FS_AddElement, Zenon
    <3>. QED  BY <2>2, <3>2, <3>4
  <2>. QED  BY <2>1, <2>2
<1>7. Undisturbed
  BY <1>1, <1>3 DEF Undisturbed, SameBatch
<1>8. Use!Start(n, d)
  <2>1. d # "off"
    BY FaxQueueAssumption
  <2>2. holder[n] = "free" /\ dest[n] = "off"
    BY <1>1, <1>3 DEF holder, dest
  <2>3. holder' = [holder EXCEPT ![n] = "faxq"]
    BY <1>1, Zenon DEF holder, SameLock
  <2>4. dest' = [dest EXCEPT ![n] = d]
    BY <1>1, <1>4 DEF dest, SameBatch
  <2>5. Use!CallsTo(d) = Active(bat, d)
    BY <2>1 DEF Use!CallsTo, Active, dest
  <2>6. Cardinality(Active(bat, d)) < MaxConcurrentCalls
    <3>1. Cardinality(Active(bat, d)) + 1 <= MaxConcurrentCalls
      BY <1>1, <1>4, RoomToCall
    <3>2. Cardinality(Active(bat, d)) \in Nat /\ MaxConcurrentCalls \in Nat
      BY ActiveFinite, FaxQueueAssumption
    <3>. QED  BY <3>1, <3>2
  <2>7. Cardinality(Use!CallsTo(d)) < MaxConcurrentCalls
    BY <2>5, <2>6
  <2>8. Use!Cardinality(Use!CallsTo(d)) = Cardinality(Use!CallsTo(d))
    BY DEF Use!Cardinality, Cardinality
  <2>. QED  BY <2>2, <2>3, <2>4, <2>7, <2>8 DEF Use!Start
<1>. QED  BY <1>5, <1>6, <1>7, <1>8 DEF UseInv, Use!Next

LEMMA GiveStep ==
  ASSUME TypeInv, UseInv, TypeInv', OpOK', Give
  PROVE  UseInv' /\ Undisturbed /\ Use!Next
<1>1. PICK n \in Modems :
     /\ op.k # "done" /\ op'.k = "done" /\ op'.m = n
     /\ bat[n].phase # "none" /\ mdm'[n].lock = "free"
     /\ \A m \in Modems : SameBatch(m) /\ (m # n => SameLock(m))
  BY DEF Give
<1>2. LockHeld'
  BY <1>1 DEF UseInv, LockHeld, SameBatch, SameLock, Finishing
<1>3. ConcurrencyLimit'
  BY <1>1, LimitKept DEF UseInv, SameBatch
<1>4. Undisturbed
  BY <1>1 DEF Undisturbed, SameBatch
<1>5. Use!Release(n)
  <2>1. holder[n] = "faxq" /\ dest[n] # "off"
    <3>1. mdm[n].lock = "faxq"
      BY <1>1 DEF UseInv, LockHeld, Finishing
    <3>2. bat[n].dest \in Dests
      BY DEF TypeInv, OthersOK, BatType
    <3>. QED  BY <1>1, <3>1, <3>2, FaxQueueAssumption DEF holder, dest
  <2>2. holder' = [holder EXCEPT ![n] = "free"]
    BY <1>1, Zenon DEF holder, SameLock
  <2>3. dest' = dest
    BY <1>1 DEF dest, SameBatch
  <2>. QED  BY <2>1, <2>2, <2>3, Zenon DEF Use!Release
<1>. QED  BY <1>2, <1>3, <1>4, <1>5 DEF UseInv, Use!Next

LEMMA DeleteStep ==
  ASSUME TypeInv, UseInv, TypeInv', OpOK', Delete
  PROVE  UseInv' /\ Undisturbed /\ Use!Next
<1>1. PICK n \in Modems :
     /\ op.k = "done" /\ op.m = n /\ op'.k = "idle"
     /\ bat'[n].phase = "none"
     /\ \A m \in Modems : SameLock(m) /\ (m # n => SameBatch(m))
  BY DEF Delete
<1>2. mdm[n].lock # "faxq" /\ bat[n].phase # "none"
  BY <1>1 DEF UseInv, LockHeld, OpOK, Finishing
<1>3. LockHeld'
  BY <1>1, <1>2 DEF UseInv, LockHeld, SameBatch, SameLock, Finishing
<1>4. ConcurrencyLimit'
  BY <1>1, LimitKept DEF UseInv, SameBatch
<1>5. Undisturbed
  BY <1>1 DEF Undisturbed, SameBatch
<1>6. Use!Finish(n)
  <2>1. holder[n] # "faxq" /\ dest[n] # "off"
    <3>1. bat[n].dest \in Dests
      BY DEF TypeInv, OthersOK, BatType
    <3>. QED  BY <1>2, <3>1, FaxQueueAssumption DEF holder, dest
  <2>2. holder' = holder
    BY <1>1 DEF holder, SameLock
  <2>3. dest' = [dest EXCEPT ![n] = "off"]
    BY <1>1 DEF dest, SameBatch
  <2>. QED  BY <2>1, <2>2, <2>3 DEF Use!Finish
<1>. QED  BY <1>3, <1>4, <1>5, <1>6 DEF UseInv, Use!Next

LEMMA UseInit == Init => UseInv /\ Use!Init
<1>. SUFFICES ASSUME Init PROVE UseInv /\ Use!Init
  OBVIOUS
<1>1. \A m \in Modems : bat[m].phase = "none" /\ mdm[m].lock = "free"
  <2>1. PICK d \in Dests : bat = [m \in Modems |->
           [phase |-> "none", dest |-> d, todo |-> {}, called |-> FALSE]]
    BY Zenon DEF Init
  <2>2. mdm = [m \in Modems |-> [state |-> "DOWN", lock |-> "free", poll |-> FALSE]]
    BY Zenon DEF Init
  <2>. QED  BY <2>1, <2>2
<1>2. op.k = "idle"
  BY IdleOK DEF Init
<1>3. ASSUME NEW d \in Dests PROVE Cardinality(Active(bat, d)) <= MaxConcurrentCalls
  <2>1. Active(bat, d) = {}
    BY <1>1 DEF Active
  <2>. QED  BY <2>1, FS_EmptySet, FaxQueueAssumption
<1>4. UseInv
  BY <1>1, <1>2, <1>3 DEF UseInv, OpOK, LockHeld, Finishing, ConcurrencyLimit
<1>5. Use!Init
  BY <1>1 DEF Use!Init, holder, dest
<1>. QED  BY <1>4, <1>5

LEMMA UseNext ==
  ASSUME TypeInv, TypeInv', UseInv, [Next]_vars
  PROVE  UseInv' /\ Undisturbed /\ [Use!Next]_(Use!use)
<1>1. OpOK' /\ Kinds
  BY NextKind DEF UseInv
<1>. QED  BY <1>1, QuietStep, SwapStep, BeginStep, GiveStep, DeleteStep DEF Kinds

LEMMA UseInvAlways == Spec => []UseInv
BY TypeInvAlways, UseInit, UseNext, PTL DEF Spec

(* faxq holds the lock of a modem exactly while it has a batch there that  *)
(* it is not finishing: assignModem and releaseModem stay paired on every  *)
(* path through the preparation, the sending and the failure of a batch.   *)
THEOREM LockHeldAlways == Spec => []LockHeld
<1>1. UseInv => LockHeld
  BY DEF UseInv
<1>. QED  BY <1>1, UseInvAlways, PTL

(* No destination is ever called by more batches than MaxConcurrentCalls.  *)
THEOREM ConcurrencyLimitAlways == Spec => []ConcurrencyLimit
<1>1. UseInv => ConcurrencyLimit
  BY DEF UseInv
<1>. QED  BY <1>1, UseInvAlways, PTL

(* No step adds a job to a batch that is being sent, or starts another one *)
(* on its modem.                                                           *)
THEOREM BatchNotDisturbedAlways == Spec => BatchNotDisturbed
<1>1. TypeInv /\ TypeInv' /\ UseInv /\ [Next]_vars => [Undisturbed]_vars
  BY UseNext
<1>2. Spec => [][Undisturbed]_vars
  BY <1>1, TypeInvAlways, UseInvAlways, PTL DEF Spec
<1>. QED  BY <1>2 DEF BatchNotDisturbed, Undisturbed

(* FaxQueue implements ModemUse: every step of faxq and its surroundings   *)
(* takes, gives back or leaves alone the modems as promised there.         *)
THEOREM ImplementsModemUse == Spec => UsesModems
<1>1. Init => Use!Init
  BY UseInit
<1>2. TypeInv /\ TypeInv' /\ UseInv /\ [Next]_vars => [Use!Next]_(Use!use)
  BY UseNext
<1>3. Spec => Use!Spec
  BY <1>1, <1>2, TypeInvAlways, UseInvAlways, PTL DEF Spec, Use!Spec
<1>. QED  BY <1>3 DEF UsesModems


=============================================================================
