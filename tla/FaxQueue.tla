------------------------------ MODULE FaxQueue ------------------------------
(***************************************************************************)
(* The HylaFAX queue manager, faxq: the life of a job from its submission  *)
(* by hfaxd until its corpse is reaped (hylafax-6.0.5/faxd,                *)
(* faxQueueApp.c++ with Job, Batch, DestInfo, Modem, QLink, UUCPLock and   *)
(* the Dispatcher it runs under).                                          *)
(*                                                                         *)
(* faxq is one thread under an event dispatcher.  An event handler runs to *)
(* completion, so it is one action here, except for its two loops:         *)
(* `cur' is the cursor of the loop of runScheduler over the run queue, and *)
(* `op' is the batch operation in progress (fillBatch, sendStart or the    *)
(* loop of sendDone), which may run inside that loop.  No event is         *)
(* dispatched while either is in progress.  The one handler that waits in  *)
(* the middle is suspendJob: it runs the dispatcher again until the        *)
(* subprocess of its job has gone.  `frames' is the stack of those waits.  *)
(*                                                                         *)
(* A failed fxAssert, and a use of memory that was freed, end the process: *)
(* `fault' names what happened, and nothing happens afterwards.            *)
(***************************************************************************)
EXTENDS Integers, Sequences, FiniteSets

CONSTANTS
  Jobs,                \* job identifiers
  Dests,               \* canonical destination numbers
  Modems,              \* the registered modems
  NoModem,             \* the NULL modem
  DestOf,              \* Job::dest, by job
  Group,               \* the modems that the modem (class) of a job names
  UsrPri,              \* FaxRequest::usrpri, by job
  Polls,               \* the jobs that consist of a poll request
  PollModems,          \* the modems that can poll (Modem::canpoll)
  MaxBatchJobs,        \* configuration: jobs in a batch
  MaxConcurrentCalls,  \* configuration: calls to one destination
  MaxTries,            \* configuration: attempts for one job
  JobCtrl,             \* configuration: is there a JobControlCmd?
  MaxWaits,            \* bound: waits of suspendJob inside one another
  MaxUnread,           \* bound: messages of faxsend in the FIFO
  Env                  \* what the environment may do, a subset of EnvKinds

EnvKinds == { "suspend", "terminate",  \* clients suspend, remove, kill jobs
              "killtime",    \* the kill time of a job expires
              "pending",     \* jobs are submitted for a later time
              "reject",      \* a submission or a job control refuses a job
              "delay",       \* a job control delays a job
              "fork",        \* fork() may fail
              "vanish",      \* somebody removes a queue file
              "crash",       \* faxsend may end without a result
              "mute",        \* faxsend cannot read a queue file, and goes on
              "cover",       \* a retry may need a continuation cover page
              "empty",       \* a queue file may have no documents
              "rename",      \* queue files cannot be moved to the doneq
              "late",        \* a FIFO message is read after the exit of its
                             \* sender was noticed
              "getty",       \* faxgetty processes report modem states
              "uucp" }       \* other programs lock modems

ASSUME FaxQueueAssumption ==
  /\ NoModem \notin Modems
  /\ Dests \cap {"off", "head"} = {}
  /\ DestOf \in [Jobs -> Dests]
  /\ Group \in [Jobs -> SUBSET Modems]
  /\ UsrPri \in [Jobs -> 0..255]
  /\ MaxBatchJobs \in Nat /\ MaxConcurrentCalls \in Nat /\ MaxTries \in Nat
  /\ MaxWaits \in Nat /\ MaxUnread \in Nat
  /\ IsFiniteSet(Modems) /\ IsFiniteSet(Jobs)
  /\ JobCtrl \in BOOLEAN
  /\ Env \subseteq EnvKinds

VARIABLES
  job,     \* the Job objects; state "gone" when there is none
  q,       \* the queue files, and what faxq holds of them
  runq,    \* the run queue: destinations, in the order they are served
  bat,     \* the batch on each modem, with the subprocess it waits for
  mdm,     \* modem state, UUCP lock and lock polling timer
  frames,  \* waits of suspendJob in progress, innermost last
  dphase,  \* how far the innermost dispatch() is: 1 FIFO, 2 timers, 3 children
  op,      \* batch operation in progress
  cur,     \* cursor of runScheduler: "off", "head", or the last destination
  poke,    \* what became of the last poke of the scheduler (schedTimeout)
  calls,   \* FIFO: "call placed" messages of faxsend not read yet
  fault    \* what ended the process, "none" while it is up

vars == <<job, q, runq, bat, mdm, frames, dphase, op, cur, poke, calls, fault>>

-----------------------------------------------------------------------------
(* The state.                                                              *)

JobStates == { "gone", "suspended", "pending", "sleeping", "blocked", "ready",
               "active", "done", "failed" }
(* The list a job is linked on.  sleepQ and readyQ are those of its        *)
(* destination, "batch" is the list of the batch on modem `in', and        *)
(* "freed" the list of a batch that has been deleted.                      *)
Lists == { "off", "pendq", "suspendq", "deadq", "jcontrolq", "sleepQ",
           "readyQ", "batch", "freed" }
(* job.pid: 0, a subprocess that runs, or one that has been reaped.        *)
Pids == {"none", "live", "dead"}
SendStatus == {"nobatch", "retry", "failed", "done", "reformat"}
(* A timer that will run the scheduler is set, the last poke was dropped,  *)
(* or there was none since the scheduler began to run.                     *)
Pokes == {"due", "dropped", "none"}
(* A wait of suspendJob; `nested' when there has been another inside it.   *)
FrameType == [job : Jobs, cmd : {"suspend", "terminate"}, nested : BOOLEAN]

JobType == [ state  : JobStates,
             on     : Lists,
             in     : Modems \cup {NoModem},
             slot   : Nat,        \* position on the list of the batch
             modem  : Modems \cup {NoModem},
             pid    : Pids,
             susp   : BOOLEAN,    \* suspendPending
             kill   : BOOLEAN,    \* the kill timer is armed
             killed : BOOLEAN,    \* killtime == 0: it went off during a try
             tts    : BOOLEAN,    \* the time-to-send timer is armed
             pri    : 0..255 ]

NewJob(p) == [ state |-> "gone", on |-> "off", in |-> NoModem, slot |-> 0,
               modem |-> NoModem, pid |-> "none", susp |-> FALSE,
               kill |-> FALSE, killed |-> FALSE, tts |-> FALSE, pri |-> p ]

QType == [ dir    : {"sendq", "doneq", "none"},
           fin    : {"open", "done", "failed"},  \* outcome told to the sender
           status : SendStatus,                  \* the "returned" field
           prep   : BOOLEAN,                     \* documents are converted
           tries  : Nat,
           leak   : BOOLEAN ]  \* faxq itself still holds the flock

BatType == [ phase  : {"none", "fill", "prep", "send"},
             dest   : Dests,
             todo   : SUBSET Jobs,   \* jobs faxsend has not finished
             called : BOOLEAN ]      \* it placed the call for the next one

MdmType == [ state : {"DOWN", "BUSY", "READY"},
             lock  : {"free", "faxq", "other"},
             poll  : BOOLEAN ]

Idle == [ k |-> "idle", m |-> NoModem, todo |-> {}, st |-> "retry",
          first |-> TRUE, back |-> FALSE ]
OpType == [ k     : {"idle", "fill", "send", "done"},
            m     : Modems \cup {NoModem},
            todo  : SUBSET Jobs,
            st    : SendStatus,   \* exit status of faxsend
            first : BOOLEAN,      \* sendDone has seen no job yet
            back  : BOOLEAN ]     \* a prepareStart whose fork failed waits

(* Assertions of the code that the model evaluates, and uses of objects    *)
(* that are not there (any more).                                          *)
Assertions ==
  { "QLink::insert: item already on a list", "QLink::remove: item not on a list",
    "Dead job with modem", "Sleeping job on run queue",
    "Job on run queue holding modem", "No Jobs for Batch::lastJob()",
    "PID not empty for Batch::startPrepare()" }
Faults == {"none"} \cup Assertions \cup
  { "batch used after delete", "batch list used after delete",
    "job used after delete", "destination used after delete",
    "previous job not of the batch", "NULL request", "flock on itself" }

TypeOK ==
  /\ job \in [Jobs -> JobType]
  /\ q \in [Jobs -> QType]
  /\ runq \in Seq(Dests)
  /\ bat \in [Modems -> BatType]
  /\ mdm \in [Modems -> MdmType]
  /\ frames \in Seq(FrameType)
  /\ dphase \in 1..3
  /\ op \in OpType
  /\ cur \in {"off", "head"} \cup Dests
  /\ poke \in Pokes
  /\ calls \in Seq(Jobs)
  /\ fault \in Faults

-----------------------------------------------------------------------------
(* The lists.                                                              *)

ReadyQ(J, d) == {j \in Jobs : J[j].on = "readyQ" /\ DestOf[j] = d}
SleepQ(J, d) == {j \in Jobs : J[j].on = "sleepQ" /\ DestOf[j] = d}
BatchJobs(J, m) == {j \in Jobs : J[j].on = "batch" /\ J[j].in = m}
Active(B, d) == {m \in Modems : B[m].phase # "none" /\ B[m].dest = d}
DestEmpty(J, B, d) == ReadyQ(J, d) = {} /\ SleepQ(J, d) = {} /\ Active(B, d) = {}

(* The jobs that may come first: lowest pri; an earlier time to send       *)
(* decides between equals, which the model leaves open.                    *)
Highest(J, S) == {j \in S : \A k \in S : J[j].pri <= J[k].pri}
(* The first and the last of some jobs on the list of a batch, and those   *)
(* before j.                                                               *)
First(J, S) == CHOOSE j \in S : \A k \in S : J[j].slot <= J[k].slot
Last(J, S) == CHOOSE j \in S : \A k \in S : J[k].slot <= J[j].slot
Before(J, j) == {k \in BatchJobs(J, J[j].in) : J[k].slot < J[j].slot}

(* The run queue has no destination twice.                                 *)
Elems(s) == {s[i] : i \in 1..Len(s)}
Index(s, d) == CHOOSE i \in 1..Len(s) : s[i] = d
Insert(s, i, d) == SubSeq(s, 1, i - 1) \o <<d>> \o SubSeq(s, i, Len(s))
Without(s, d) == IF d \in Elems(s)
                 THEN SubSeq(s, 1, Index(s, d) - 1) \o SubSeq(s, Index(s, d) + 1, Len(s))
                 ELSE s

(* Slip: job.remove() is forgotten.                                        *)
Off_forgotten(J, j) == J
(* Leave whatever list the job is on.                                      *)
Off(J, j) == [J EXCEPT ![j] = [@ EXCEPT !.on = "off", !.in = NoModem, !.slot = 0]]
On(J, j, list) == [J EXCEPT ![j].on = list]
InsertFault(J, j) ==
  IF J[j].on = "off" THEN "none" ELSE "QLink::insert: item already on a list"
(* Unlinking a job writes to its neighbours.  In a freed batch that may do *)
(* no harm.                                                                *)
RemoveFaults(J, j) ==
  IF J[j].on = "off" THEN {"QLink::remove: item not on a list"}
  ELSE IF J[j].on = "freed" THEN {"none", "batch list used after delete"} ELSE {"none"}

(* readRequest opens the queue file and waits for its lock.                *)
Readable(j) == q[j].dir # "none"
SelfLocked(j) == Readable(j) /\ q[j].leak

(* Slip: the queue file stays in the sendq.                                *)
deleteRequest_inPlace(Q, j, fin) == [Q EXCEPT ![j].fin = fin]
(* deleteRequest: the queue file goes to the doneq, with its outcome.      *)
deleteRequest(Q, j, fin) ==
  [Q EXCEPT ![j] = [@ EXCEPT !.dir = IF "rename" \in Env THEN "none" ELSE "doneq",
                             !.fin = fin]]

(* Slip: only the active count decides that a DestInfo is empty.           *)
DropIfEmpty_inactive(J, B, d) == IF Active(B, d) = {} THEN Without(runq, d) ELSE runq
(* The destructor of a DestInfo without jobs takes it off the run queue.   *)
DropIfEmpty(J, B, d) == IF DestEmpty(J, B, d) THEN Without(runq, d) ELSE runq

-----------------------------------------------------------------------------
(* Queue management.  Each of these sets job, q, runq, poke and fault.  J  *)
(* and Q are the jobs and queue files as the caller has left them.         *)

(* pokeScheduler sets a timer that will run the scheduler, unless one is   *)
(* set.  Its throttle drops a poke in the second in which such a timer has *)
(* run the scheduler; module SchedTimeout has the details.                 *)
pokeScheduler ==
  \/ poke' = "due"
  \/ poke # "due" /\ poke' = "dropped"

(* Slip: the job stays on its list.                                        *)
setDead_linked(J, Q, j) ==
  /\ job' = [J EXCEPT ![j] = [@ EXCEPT !.state = IF @ = "done" THEN @ ELSE "failed",
                                       !.susp = FALSE]]
  /\ q' = Q
  /\ runq' = runq
  /\ pokeScheduler
  /\ fault' = IF J[j].modem = NoModem THEN "none" ELSE "Dead job with modem"
(* setDead: the job becomes a corpse on the deadq.                         *)
setDead(J, Q, j) ==
  /\ job' = On(Off([J EXCEPT ![j] =
                      [@ EXCEPT !.state = IF J[j].state = "done" THEN "done" ELSE "failed",
                                !.susp = FALSE]], j), j, "deadq")
  /\ q' = Q
  /\ runq' = DropIfEmpty(J, bat, DestOf[j])
  /\ pokeScheduler
  /\ fault' = IF J[j].modem = NoModem THEN "none" ELSE "Dead job with modem"

(* A run queue with the destination of j before the first one whose best   *)
(* job is not of higher priority.                                          *)
PriorityInsert(J, R, j) ==
  { Insert(R, i, DestOf[j]) : i \in
      {i \in 1..(Len(R) + 1) :
         /\ \A k \in 1..(i - 1) : \A b \in Highest(J, ReadyQ(J, R[k])) :
               J[b].pri <= J[j].pri
         /\ i <= Len(R) => \E b \in Highest(J, ReadyQ(J, R[i])) :
               J[b].pri >= J[j].pri} }

(* Did setReady pass a job of higher priority on the readyQ?               *)
Skipped(J, j) ==
  { s \in BOOLEAN :
      LET R == ReadyQ(J, DestOf[j]) IN
      /\ (\E k \in R : J[k].pri < J[j].pri) => s
      /\ (\A k \in R : J[k].pri > J[j].pri) => ~s }

(* Only a job that must wait has its request looked at.                    *)
setReady(J, Q, j) ==
  /\ \E skipped \in Skipped(J, j) :
       /\ job' = On([J EXCEPT ![j].state = IF skipped THEN "blocked" ELSE "ready"],
                    j, "readyQ")
       /\ IF skipped THEN runq' = runq
          ELSE runq' \in PriorityInsert(J, Without(runq, DestOf[j]), j)
       /\ fault' = IF skipped /\ ~Readable(j) THEN "NULL request" ELSE InsertFault(J, j)
  /\ q' = Q
  /\ pokeScheduler

(* JobControl runs first, unless it has just run.  The caller may poke.    *)
setReadyToRun(J, Q, j, poked) ==
  IF J[j].state = "blocked" \/ ~JobCtrl
  THEN setReady(J, Q, j)
  ELSE LET J1 == On([J EXCEPT ![j].state = "active"], j, "jcontrolq") IN
       \/ /\ job' = [J1 EXCEPT ![j].pid = "live"]
          /\ q' = Q
          /\ IF poked THEN pokeScheduler ELSE poke' = poke
          /\ fault' = InsertFault(J, j)
          /\ UNCHANGED runq
       \/ "fork" \in Env /\ setReady(J1, Q, j)

(* Slip: the time-to-send timer is not started.                            *)
Sleep_noTimer(J, j) == On([J EXCEPT ![j].state = "sleeping"], j, "sleepQ")
(* setSleep, for delayJob and for a job to be retried.                     *)
Sleep(J, j) == On([J EXCEPT ![j] = [@ EXCEPT !.state = "sleeping", !.tts = TRUE]],
                  j, "sleepQ")
Delay(J, j) == [Sleep(J, j) EXCEPT ![j] = [@ EXCEPT !.kill = TRUE, !.killed = FALSE]]

(* Slip: a job is tried for ever.                                          *)
MustReject_never(j) == FALSE
(* isJobSendOK refuses (setDead, then deleteRequest) or delays a job.      *)
MustReject(j) == q[j].tries >= MaxTries
MayReject(j) == MustReject(j) \/ "reject" \in Env

-----------------------------------------------------------------------------
(* Batches.                                                                *)

(* Slip: a batch that has lost its only job is not gone on with.           *)
FillBatch_stop(J, B, m) ==
  IF BatchJobs(J, m) = {} THEN op
  ELSE LET full == Cardinality(BatchJobs(J, m)) >= MaxBatchJobs IN
       [op EXCEPT !.k = IF full THEN "send" ELSE "fill", !.m = m,
                  !.todo = IF full THEN {} ELSE ReadyQ(J, B[m].dest)]
(* fillBatch: look for another job, or start sending a full batch.         *)
FillBatch(J, B, m) ==
  LET full == Cardinality(BatchJobs(J, m)) >= MaxBatchJobs IN
  [op EXCEPT !.k = IF full THEN "send" ELSE "fill", !.m = m,
             !.todo = IF full THEN {} ELSE ReadyQ(J, B[m].dest)]

(* processJob of a job that is on no list, for the batch on m: setActive,  *)
(* then prepareJobNeeded, prepareStart or fillBatch.                       *)
processJob(J, B, m, j) ==
  LET S == BatchJobs(J, m)
      slot == IF S = {} THEN 1 ELSE J[Last(J, S)].slot + 1
      J1 == [J EXCEPT ![j] = [@ EXCEPT !.state = "active", !.on = "batch",
                                       !.in = m, !.slot = slot, !.modem = m]]
      Q1 == [q EXCEPT ![j].status = "nobatch"]
      noPoll == j \in Polls /\ m \notin PollModems
      noDocs == "empty" \in Env /\ j \notin Polls
  IN
  \/ /\ noPoll \/ noDocs         \* rejected; setDead finds it with a modem
     /\ setDead(J1, deleteRequest(Q1, j, "failed"), j)
     /\ bat' = B
     /\ op' = Idle
  \/ /\ ~noPoll
     /\ q[j].prep \/ j \in Polls
     /\ job' = J1
     /\ q' = Q1
     /\ bat' = B
     /\ op' = FillBatch(J1, B, m)
     /\ UNCHANGED <<runq, poke, fault>>
  \/ /\ ~noPoll
     /\ ~(q[j].prep \/ j \in Polls)
     /\ job' = [J1 EXCEPT ![j].pid = "live"]
     /\ q' = Q1
     /\ bat' = [B EXCEPT ![m].phase = "prep"]
     /\ op' = Idle
     /\ fault' = IF op.back THEN "PID not empty for Batch::startPrepare()"
                            ELSE fault
     /\ UNCHANGED <<runq, poke>>
  \/ /\ ~noPoll
     /\ ~(q[j].prep \/ j \in Polls)
     /\ "fork" \in Env           \* delayed; then the next case is fallen into
     /\ job' = Delay(Off(J1, j), j)
     /\ q' = Q1
     /\ bat' = B
     /\ op' = [FillBatch(job', B, m) EXCEPT !.back = TRUE]
     /\ UNCHANGED <<runq, poke, fault>>

(* The answers of canJobBatch: nothing is looked at when the batch has no  *)
(* job; job controls may be incompatible.                                  *)
canJobBatch(m, j) ==
  IF BatchJobs(job, m) = {} THEN {TRUE}
  ELSE IF m \notin Group[j] THEN {FALSE}
  ELSE IF JobCtrl THEN BOOLEAN ELSE {TRUE}

(* One iteration of fillBatch over the readyQ of the destination.          *)
fillBatch ==
  /\ fault = "none"
  /\ op.k = "fill"
  /\ \/ /\ op.todo = {}
        /\ op' = [op EXCEPT !.k = "send"]
        /\ UNCHANGED <<job, q, runq, bat, poke, fault>>
     \/ \E j \in Highest(job, op.todo) :
          \/ /\ ~Readable(j)
             /\ setDead(job, q, j)
             /\ op' = [op EXCEPT !.todo = @ \ {j}]
             /\ UNCHANGED bat
          \/ /\ Readable(j) /\ MayReject(j)
             /\ setDead(job, deleteRequest(q, j, "failed"), j)
             /\ op' = [op EXCEPT !.todo = @ \ {j}]
             /\ UNCHANGED bat
          \/ /\ Readable(j) /\ ~MustReject(j) /\ "delay" \in Env
             /\ job' = Delay(Off(job, j), j)
             /\ op' = [op EXCEPT !.todo = @ \ {j}]
             /\ UNCHANGED <<q, runq, bat, poke, fault>>
          \/ /\ Readable(j) /\ ~MustReject(j) /\ TRUE \in canJobBatch(op.m, j)
             /\ processJob(Off(job, j), bat, op.m, j)
          \/ /\ Readable(j) /\ ~MustReject(j) /\ FALSE \in canJobBatch(op.m, j)
             /\ op' = [op EXCEPT !.todo = @ \ {j}]
             /\ UNCHANGED <<job, q, runq, bat, poke, fault>>
  /\ UNCHANGED <<mdm, frames, dphase, cur, calls>>

(* Slip: the lock is kept.                                                 *)
Release_locked(m) ==
  /\ mdm' = [mdm EXCEPT ![m].state = "READY"]
  /\ pokeScheduler
(* What sendDone does first: Modem::release.                               *)
Release(m) ==
  /\ mdm' = [mdm EXCEPT ![m] = [@ EXCEPT !.state = "READY", !.lock = "free"]]
  /\ pokeScheduler

(* sendStart: start faxsend for the jobs of the batch, or finish at once.  *)
sendStart ==
  /\ fault = "none"
  /\ op.k = "send"
  /\ LET m == op.m
         S == BatchJobs(job, m)
         J == [j \in Jobs |-> IF j \in S THEN [job[j] EXCEPT !.pid = "none"] ELSE job[j]]
     IN
     \/ /\ S # {}
        /\ job' = [J EXCEPT ![First(J, S)].pid = "live"]
        /\ bat' = [bat EXCEPT ![m] = [@ EXCEPT !.phase = "send", !.todo = S,
                                               !.called = FALSE]]
        /\ op' = Idle
        /\ fault' = IF op.back THEN "PID not empty for Batch::startPrepare()"
                               ELSE fault
        /\ UNCHANGED <<mdm, poke>>
     \/ /\ S = {} \/ "fork" \in Env
        /\ job' = J
        /\ op' = [op EXCEPT !.k = "done", !.todo = S, !.st = "retry", !.first = TRUE]
        /\ Release(m)
        /\ UNCHANGED <<bat, fault>>
  /\ UNCHANGED <<q, runq, frames, dphase, cur, calls>>

-----------------------------------------------------------------------------
(* The end of an attempt.                                                  *)

(* Slip: no bucket.                                                        *)
RetryPri_anyBucket(p, usr) ==
  IF p # 255 /\ p > 190 THEN p + 1 ELSE IF p > 0 THEN p - 1 ELSE p
(* sendJobDone moves the priority of a job that is to be retried within    *)
(* its bucket of 16, or down when it is a bulk job.                        *)
RetryPri(p, usr) ==
  IF p # 255 /\ p > 190 THEN p + 1
  ELSE IF (p - 1) \div 16 = usr \div 16 THEN p - 1 ELSE p

(* Slip: a job that has been sent is retried if it is being suspended.     *)
Outcome_resend(status, susp) ==
  IF susp \/ status = "reformat" THEN "retry" ELSE status
(* The status that sendJobDone goes by: it retries a job that is being     *)
(* suspended, unless that has been sent, and one to be formatted again.    *)
Outcome(status, susp) ==
  IF (status # "done" /\ susp) \/ status = "reformat" THEN "retry" ELSE status

(* sendJobDone, with the status of the queue file.                         *)
sendJobDone(J, j, status) ==
  LET st == Outcome(status, J[j].susp)
      Q == [q EXCEPT ![j] = [@ EXCEPT !.status = st,
                                      !.prep = q[j].prep /\ status # "reformat"]]
      Covered == [Q EXCEPT ![j].prep = FALSE]
      Ended(s) == [J EXCEPT ![j].state = s]
      Retry(s) == [J EXCEPT ![j] = [@ EXCEPT !.state = s,
                                             !.pri = RetryPri(J[j].pri, UsrPri[j])]]
  IN
  IF st # "retry" THEN setDead(Ended(st), deleteRequest(Q, j, st), j)
  ELSE IF J[j].killed /\ ~J[j].susp
  THEN setDead(Ended("failed"), deleteRequest(Q, j, "failed"), j)
  ELSE \E s \in {"sleeping", "ready"},
          Q1 \in {Q} \cup (IF "cover" \in Env THEN {Covered} ELSE {}) :
       IF J[j].susp                       \* signal the waiting suspendJob
       THEN /\ job' = [Retry(s) EXCEPT ![j].susp = FALSE]
            /\ q' = Q1
            /\ UNCHANGED <<runq, poke, fault>>
       ELSE IF s = "sleeping"
       THEN /\ job' = Sleep(Off(Retry(s), j), j)
            /\ q' = Q1
            /\ UNCHANGED <<runq, poke, fault>>
       ELSE setReadyToRun(Off(Retry(s), j), Q1, j, FALSE)

(* One iteration of sendDone over the jobs of the batch.  The exit status  *)
(* counts for the first job if faxsend has not set its status.             *)
sendDoneJob ==
  /\ fault = "none"
  /\ op.k = "done"
  /\ op.todo # {}
  /\ LET j == First(job, op.todo)
         status == IF op.first /\ q[j].status = "nobatch" THEN op.st ELSE q[j].status
         J == [job EXCEPT ![j].modem = NoModem]
     IN
     /\ op' = [op EXCEPT !.todo = @ \ {j}, !.first = @ /\ ~Readable(j)]
     /\ \/ /\ SelfLocked(j)
           /\ fault' = "flock on itself"
           /\ UNCHANGED <<job, q, runq, poke>>
        \/ /\ ~Readable(j)
           /\ setDead(job, q, j)
        \/ /\ Readable(j) /\ ~SelfLocked(j)
           /\ status = "nobatch"
           /\ setReadyToRun(Off(J, j), q, j, FALSE)
        \/ /\ Readable(j) /\ ~SelfLocked(j)
           /\ status # "nobatch"
           /\ sendJobDone(J, j, status)
  /\ UNCHANGED <<bat, mdm, frames, dphase, cur, calls>>

(* The end of sendDone: the batch is deleted.  A job that is still linked  *)
(* on its list keeps pointing at it.                                       *)
sendDoneEnd ==
  /\ fault = "none"
  /\ op.k = "done"
  /\ op.todo = {}
  /\ LET m == op.m
         d == bat[m].dest
         S == BatchJobs(job, m)
     IN
     /\ job' = [j \in Jobs |-> IF j \in S THEN [job[j] EXCEPT !.on = "freed",
                                                    !.in = NoModem, !.slot = 0]
                                          ELSE job[j]]
     /\ bat' = [bat EXCEPT ![m] = [@ EXCEPT !.phase = "none", !.todo = {},
                                            !.called = FALSE]]
     /\ runq' = DropIfEmpty(job', bat', d)
     /\ op' = Idle
     /\ fault' = IF op.back THEN "batch used after delete"
                 ELSE IF cur = d /\ DestEmpty(job', bat', d)
                 THEN "destination used after delete" ELSE fault
  /\ UNCHANGED <<q, mdm, frames, dphase, cur, poke, calls>>

-----------------------------------------------------------------------------
(* The scheduler.                                                          *)

Top == frames[Len(frames)]
(* Slip: suspendJob dispatches once, without a loop.                       *)
Waiting_once == FALSE
(* The condition of the loop in suspendJob.                                *)
Waiting == job[Top.job].susp

(* An event of phase p (1 FIFO input, 2 timers, 3 children) is dispatched. *)
(* One call of dispatch() takes them in that order.  suspendJob looks at   *)
(* suspendPending between two calls.                                       *)
Dispatching(p) ==
  /\ fault = "none" /\ op.k = "idle" /\ cur = "off"
  /\ dphase > p /\ frames # <<>> => Waiting
Dispatch(p) ==
  /\ Dispatching(p)
  /\ dphase' = IF frames = <<>> THEN 1 ELSE p

(* The timer of schedTimeout goes off: runScheduler begins.                *)
runScheduler ==
  /\ Dispatch(2)
  /\ poke = "due"
  /\ poke' \in {"none", "due"}      \* a second timer may be running
  /\ cur' = "head"
  /\ UNCHANGED <<job, q, runq, bat, mdm, frames, op, calls, fault>>

Scheduling == fault = "none" /\ op.k = "idle" /\ cur # "off"
AnyReady == \E m \in Modems : mdm[m].state = "READY"
Position == IF cur = "head" THEN 0 ELSE Index(runq, cur)

(* Nothing left on the run queue, or no modem: reap the dead jobs.         *)
reapDeadJobs ==
  /\ Scheduling
  /\ Position = Len(runq) \/ ~AnyReady
  /\ job' = [j \in Jobs |-> IF job[j].on = "deadq" THEN NewJob(UsrPri[j]) ELSE job[j]]
  /\ cur' = "off"
  /\ UNCHANGED <<q, runq, bat, mdm, frames, dphase, op, poke, calls, fault>>

(* A destination without ready jobs leaves the run queue.                  *)
emptyDest ==
  /\ Scheduling
  /\ Position < Len(runq) /\ AnyReady
  /\ LET d == runq[Position + 1] IN
     /\ ReadyQ(job, d) = {}
     /\ runq' = Without(runq, d)
  /\ UNCHANGED <<job, q, bat, mdm, frames, dphase, op, cur, poke, calls, fault>>

(* Slip: one off.                                                          *)
isOKToCall_oneOff(d) ==
  Cardinality(Active(bat, d)) + Cardinality(SleepQ(job, d)) <= MaxConcurrentCalls
(* isOKToCall.                                                             *)
isOKToCall(d) ==
  Cardinality(Active(bat, d)) + Cardinality(SleepQ(job, d)) + 1 <= MaxConcurrentCalls

(* findModem: the ready modems that the job may use.                       *)
findModem(j) ==
  {m \in Group[j] : mdm[m].state = "READY" /\ (j \in Polls => m \in PollModems)}

(* Slip: a modem that is ready is taken to be unlocked.                    *)
Lockable_ready(m) == TRUE
(* assignModem can lock a modem that nobody has locked, faxq included.     *)
Lockable(m) == mdm[m].lock = "free"

(* assignModem tries ready modems in turn; those it cannot lock are marked *)
(* BUSY and polled.  L are the ones it tried before it could lock m.       *)
Marked(L) == [m \in Modems |-> IF m \in L
                THEN [mdm[m] EXCEPT !.state = "BUSY", !.poll = TRUE] ELSE mdm[m]]

(* The scheduler considers the best job of the next destination.           *)
scheduleJob ==
  /\ Scheduling
  /\ Position < Len(runq) /\ AnyReady
  /\ LET d == runq[Position + 1]
         free(j) == {m \in findModem(j) : Lockable(m)}
         held(j) == findModem(j) \ free(j)
     IN
     \E j \in Highest(job, ReadyQ(job, d)) :
     /\ cur' = d
     /\ IF job[j].tts \/ job[j].modem # NoModem
        THEN /\ fault' = IF job[j].tts THEN "Sleeping job on run queue"
                         ELSE "Job on run queue holding modem"
             /\ UNCHANGED <<job, q, runq, bat, mdm, op, poke>>
        ELSE
        \/ /\ ~Readable(j)
           /\ setDead(job, q, j)
           /\ UNCHANGED <<bat, mdm, op>>
        \/ /\ Readable(j) /\ MayReject(j)
           /\ setDead(job, deleteRequest(q, j, "failed"), j)
           /\ UNCHANGED <<bat, mdm, op>>
        \/ /\ Readable(j) /\ ~MustReject(j) /\ "delay" \in Env
           /\ job' = Delay(Off(job, j), j)
           /\ UNCHANGED <<q, runq, bat, mdm, op, poke, fault>>
        \/ /\ Readable(j) /\ ~MustReject(j) /\ ~isOKToCall(d)
           /\ job' = [job EXCEPT ![j].state = "blocked"]
           /\ UNCHANGED <<q, runq, bat, mdm, op, poke, fault>>
        \/ /\ Readable(j) /\ ~MustReject(j) /\ isOKToCall(d)
           /\ free(j) = {}                       \* left on the run queue
           /\ mdm' = Marked(held(j))
           /\ UNCHANGED <<job, q, runq, bat, op, poke, fault>>
        \/ /\ Readable(j) /\ ~MustReject(j) /\ isOKToCall(d)
           /\ \E m \in free(j), L \in SUBSET held(j) :   \* startBatch
                /\ mdm' = [Marked(L) EXCEPT ![m] =
                             [@ EXCEPT !.state = "BUSY", !.lock = "faxq"]]
                /\ processJob(Off(job, j),
                     [bat EXCEPT ![m] = [@ EXCEPT !.phase = "fill", !.dest = d]],
                     m, j)
  /\ UNCHANGED <<frames, dphase, calls>>

-----------------------------------------------------------------------------
(* Subprocesses.                                                           *)

(* prepareDone: the preparation of the last job of the batch has ended.    *)
prepareDone(m) ==
  /\ Dispatch(3)
  /\ bat[m].phase = "prep"
  /\ LET S == BatchJobs(job, m)
         B == [bat EXCEPT ![m].phase = "fill"]
         j == Last(job, S)
         J == [job EXCEPT ![j].pid = "none"]
         JN == [J EXCEPT ![j].modem = NoModem]
     IN
     /\ bat' = B
     /\ IF S = {}
        THEN /\ fault' = "No Jobs for Batch::lastJob()"
             /\ op' = op
             /\ UNCHANGED <<job, q, runq, poke>>
        ELSE
        /\ \/ /\ job[j].susp             \* on the suspendq, for suspendJob
              /\ job' = On(Off([JN EXCEPT ![j].susp = FALSE], j), j, "suspendq")
              /\ \E p \in {q[j].prep, TRUE} : q' = [q EXCEPT ![j].prep = p]
              /\ UNCHANGED <<runq, poke, fault>>
           \/ /\ ~job[j].susp            \* done
              /\ job' = J
              /\ q' = [q EXCEPT ![j].prep = TRUE]
              /\ UNCHANGED <<runq, poke, fault>>
           \/ /\ ~job[j].susp            \* failed, or the queue file is gone
              /\ setDead(JN, IF Readable(j) THEN deleteRequest(q, j, "failed") ELSE q, j)
           \/ /\ ~job[j].susp /\ Readable(j)
              /\ "fork" \in Env          \* requeued: a converter did not start
              /\ job' = Delay(JN, j)
              /\ fault' = InsertFault(JN, j)
              /\ UNCHANGED <<q, runq, poke>>
        /\ op' = FillBatch(job', B, m)
  /\ UNCHANGED <<mdm, frames, cur, calls>>

(* faxsend places the call for the next job of its batch.                  *)
sendCall(m) ==
  /\ fault = "none"
  /\ bat[m].phase = "send"
  /\ bat[m].todo # {} /\ ~bat[m].called
  /\ Len(calls) < MaxUnread
  /\ calls' = Append(calls, First(job, bat[m].todo))
  /\ bat' = [bat EXCEPT ![m].called = TRUE]
  /\ UNCHANGED <<job, q, runq, mdm, frames, dphase, op, cur, poke, fault>>

(* faxsend writes the outcome of a job to its queue file.  It goes on to   *)
(* the next job after a success, and when it cannot read the queue file.   *)
sendResult(m) ==
  /\ fault = "none"
  /\ bat[m].phase = "send"
  /\ bat[m].todo # {}
  /\ LET j == First(job, bat[m].todo)
         answered == bat[m].called /\ ~job[j].susp
         tries == q[j].tries
     IN
     \E st \in SendStatus :
     /\ IF bat[m].called THEN st # "nobatch"
        ELSE st \in {"failed", "retry"} \/ (st = "nobatch" /\ "mute" \in Env)
     /\ q' = [q EXCEPT ![j] = [@ EXCEPT !.status = st,
                 !.tries = IF answered /\ tries < MaxTries THEN tries + 1 ELSE tries]]
     /\ bat' = [bat EXCEPT ![m] =
          [@ EXCEPT !.todo = IF st \in {"done", "nobatch"} \/ ~Readable(j)
                             THEN bat[m].todo \ {j} ELSE {},
                    !.called = FALSE]]
  /\ UNCHANGED <<job, runq, mdm, frames, dphase, op, cur, poke, calls, fault>>

(* sendDone begins: faxsend has exited.                                    *)
sendDone(m) ==
  /\ Dispatch(3)
  /\ bat[m].phase = "send"
  /\ bat[m].todo = {} \/ "crash" \in Env
  /\ "late" \in Env \/ Elems(calls) \cap BatchJobs(job, m) = {}
  /\ job' = [j \in Jobs |-> IF j \in BatchJobs(job, m) /\ job[j].pid = "live"
                            THEN [job[j] EXCEPT !.pid = "dead"] ELSE job[j]]
  /\ \E st \in {"retry", "failed", "done"} :
       /\ st = "done" => "mute" \in Env
       /\ op' = [Idle EXCEPT !.k = "done", !.m = m, !.todo = BatchJobs(job, m), !.st = st]
  /\ bat' = [bat EXCEPT ![m] = [@ EXCEPT !.todo = {}, !.called = FALSE]]
  /\ Release(m)
  /\ UNCHANGED <<q, runq, frames, cur, calls, fault>>

(* Slip: suspendPending is not looked at.                                  *)
ctrlJobDone_deaf(j) ==
  /\ Dispatch(3)
  /\ job[j].on = "jcontrolq" /\ job[j].pid = "live"
  /\ setReady(Off([job EXCEPT ![j].pid = "none"], j), q, j)
  /\ UNCHANGED <<bat, mdm, frames, op, cur, calls>>
(* ctrlJobDone: the job control command of j has exited.                   *)
ctrlJobDone(j) ==
  /\ Dispatch(3)
  /\ job[j].on = "jcontrolq" /\ job[j].pid = "live"
  /\ LET J == [job EXCEPT ![j].pid = "none"] IN
     \/ /\ job[j].susp
        /\ job' = [J EXCEPT ![j].susp = FALSE]
        /\ UNCHANGED <<q, runq, poke, fault>>
     \/ /\ ~job[j].susp
        /\ setReady(Off(J, j), q, j)
  /\ UNCHANGED <<bat, mdm, frames, op, cur, calls>>

-----------------------------------------------------------------------------
(* Timers.                                                                 *)

(* runJob: the time to send has come.                                      *)
runJob(j) ==
  /\ Dispatch(2)
  /\ job[j].tts
  /\ LET J == Off([job EXCEPT ![j].tts = FALSE], j) IN
     \E f \in RemoveFaults(job, j) :
     IF f # "none" THEN fault' = f /\ UNCHANGED <<job, q, runq, poke>>
     ELSE IF ~Readable(j) THEN setDead(J, q, j)
     ELSE setReadyToRun(J, q, j, FALSE)
  /\ UNCHANGED <<bat, mdm, frames, op, cur, calls>>

(* timeoutJob: the kill time has come.                                     *)
timeoutJob(j) ==
  /\ "killtime" \in Env
  /\ Dispatch(2)
  /\ job[j].kill
  /\ LET J == [job EXCEPT ![j].kill = FALSE] IN
     IF job[j].state = "active"
     THEN /\ job' = [J EXCEPT ![j].killed = TRUE]
          /\ UNCHANGED <<q, runq, poke, fault>>
     ELSE \E f \in RemoveFaults(job, j) :
     IF f # "none" THEN fault' = f /\ UNCHANGED <<job, q, runq, poke>>
     ELSE setDead(Off([J EXCEPT ![j].state = "failed"], j),
                  IF Readable(j) THEN deleteRequest(q, j, "failed") ELSE q, j)
  /\ UNCHANGED <<bat, mdm, frames, op, cur, calls>>

(* pollForModemLock: lock the modem to see whether it can be locked.       *)
pollForModemLock(m) ==
  /\ Dispatch(2)
  /\ mdm[m].poll
  /\ IF Lockable(m)
     THEN /\ mdm' = [mdm EXCEPT ![m] = [@ EXCEPT !.state = "READY", !.poll = FALSE]]
          /\ pokeScheduler
     ELSE UNCHANGED <<mdm, poke>>
  /\ UNCHANGED <<job, q, runq, bat, frames, op, cur, calls, fault>>

-----------------------------------------------------------------------------
(* Messages.                                                               *)

(* submitJob with the job off its list: reject or time it out, let it wait *)
(* for its time to send, or make it ready.                                 *)
Submit(J, j) ==
  \/ /\ "reject" \in Env \/ "killtime" \in Env
     /\ setDead([J EXCEPT ![j].state = "failed"], deleteRequest(q, j, "failed"), j)
  \/ /\ "pending" \in Env
     /\ job' = On([J EXCEPT ![j] = [@ EXCEPT !.state = "pending", !.tts = TRUE,
                                             !.kill = TRUE]], j, "pendq")
     /\ pokeScheduler
     /\ fault' = InsertFault(J, j)
     /\ UNCHANGED <<q, runq>>
  \/ setReadyToRun([J EXCEPT ![j].kill = TRUE], q, j, TRUE)

(* "S": hfaxd submits a new job, or a job it had suspended.                *)
submitJob(j) ==
  /\ Dispatch(1)
  /\ \/ /\ job[j].state = "gone"
        /\ q[j].dir = "sendq"
        /\ Submit([job EXCEPT ![j].state = "ready"], j)
     \/ /\ job[j].state = "suspended"
        /\ LET J == Off([job EXCEPT ![j].killed = FALSE], j) IN
           IF Readable(j) THEN Submit(J, j) ELSE setDead(J, q, j)
  /\ UNCHANGED <<bat, mdm, frames, op, cur, calls>>

(* What follows the wait in suspendJob: the job leaves its list and is     *)
(* suspended (setSuspend) or terminated (terminateJob).                    *)
AfterSuspend(J, j, cmd) ==
  \E f \in RemoveFaults(J, j) :
  IF f # "none" THEN fault' = f /\ UNCHANGED <<job, q, runq, poke>>
  ELSE LET J1 == Off([J EXCEPT ![j].kill = FALSE], j) IN
       IF cmd = "suspend"
       THEN /\ job' = On([J1 EXCEPT ![j].state = "suspended"], j, "suspendq")
            /\ pokeScheduler
            /\ UNCHANGED <<q, runq, fault>>
       ELSE setDead([J1 EXCEPT ![j].state = "failed"],
                    IF Readable(j) THEN deleteRequest(q, j, "failed") ELSE q, j)

(* The waits in progress, with another one inside them.                    *)
Outer == [i \in 1..Len(frames) |-> [frames[i] EXCEPT !.nested = TRUE]]

(* "X", "Y" (suspend), "K" and "R" (terminate).  A job that is active must *)
(* have a subprocess; suspendJob then waits for it.                        *)
suspendJob(j, cmd) ==
  /\ cmd \in Env
  /\ Dispatching(1)
  /\ ~job[j].susp
  /\ job[j].state \notin {"gone", "done", "failed"}
  /\ \/ /\ job[j].state # "active"
        /\ AfterSuspend([job EXCEPT ![j].tts = job[j].tts
                             /\ job[j].state \notin {"sleeping", "pending"}], j, cmd)
        /\ dphase' = 1
        /\ UNCHANGED frames
     \/ /\ job[j].state = "active"
        /\ job[j].pid # "none"
        /\ Len(frames) < MaxWaits
        /\ job' = [job EXCEPT ![j] = [@ EXCEPT !.susp = TRUE, !.kill = FALSE]]
        /\ frames' = Append(Outer, [job |-> j, cmd |-> cmd, nested |-> FALSE])
        /\ dphase' = 1
        /\ UNCHANGED <<q, runq, poke, fault>>
  /\ UNCHANGED <<bat, mdm, op, cur, calls>>

(* The innermost suspendJob looks at its job again after a dispatch().     *)
resumeSuspend ==
  /\ fault = "none" /\ op.k = "idle" /\ cur = "off"
  /\ frames # <<>> /\ ~Waiting
  /\ LET j == Top.job IN
     IF job[j].state = "gone"
     THEN /\ fault' = "job used after delete"
          /\ UNCHANGED <<job, q, runq, poke>>
     ELSE IF job[j].state \in {"done", "failed"}
     THEN UNCHANGED <<job, q, runq, poke, fault>>
     ELSE AfterSuspend(job, j, Top.cmd)
  /\ frames' = SubSeq(frames, 1, Len(frames) - 1)
  /\ dphase' = 1
  /\ UNCHANGED <<bat, mdm, op, cur, calls>>

(* Slip: the job keeps the pid.                                            *)
doneJob_withPid(J, k) ==
  LET J1 == [J EXCEPT ![k].modem = NoModem] IN
  IF ~Readable(k) THEN setDead(J1, q, k) ELSE sendJobDone(J1, k, q[k].status)
(* doneJob, for the job before one that faxsend has begun to send.         *)
doneJob(J, k) ==
  LET J1 == [J EXCEPT ![k] = [@ EXCEPT !.modem = NoModem, !.pid = "none"]] IN
  IF SelfLocked(k)
  THEN fault' = "flock on itself" /\ UNCHANGED <<job, q, runq, poke>>
  ELSE IF ~Readable(k) THEN setDead(J1, q, k)
  ELSE IF q[k].status = "nobatch"             \* the request is not deleted
  THEN /\ job' = J1
       /\ q' = [q EXCEPT ![k].leak = TRUE]
       /\ UNCHANGED <<runq, poke, fault>>
  ELSE sendJobDone(J1, k, q[k].status)

(* FIFOJobMessage "c": faxsend has placed the call for j.                  *)
FIFOJobMessage ==
  /\ Dispatch(1)
  /\ calls # <<>>
  /\ calls' = Tail(calls)
  /\ LET j == Head(calls) IN
     \/ /\ job[j].state = "gone" \/ job[j].pid # "none"
        /\ UNCHANGED <<job, q, runq, poke, fault>>
     \/ /\ job[j].state # "gone" /\ job[j].pid = "none"
        /\ IF job[j].on # "batch" \/ Before(job, j) = {}
           THEN /\ fault' = "previous job not of the batch"
                /\ UNCHANGED <<job, q, runq, poke>>
           ELSE LET k == Last(job, Before(job, j)) IN
                doneJob([job EXCEPT ![j].pid = job[k].pid], k)
  /\ UNCHANGED <<bat, mdm, frames, op, cur>>

(* FIFOModemMessage: "R" ready, "B" and "U" busy, "D" down.                *)
FIFOModemMessage(m) ==
  /\ Dispatch(1)
  /\ \E s \in {"READY", "BUSY", "DOWN"} :
       /\ s = "READY" \/ "getty" \in Env
       /\ s = "READY" /\ "getty" \notin Env => mdm[m].state = "DOWN"
       /\ mdm' = [mdm EXCEPT ![m] = [@ EXCEPT !.state = s, !.poll = FALSE]]
       /\ IF s = "READY" THEN pokeScheduler ELSE poke' = poke
  /\ UNCHANGED <<job, q, runq, bat, frames, op, cur, calls, fault>>

-----------------------------------------------------------------------------
(* The surroundings.                                                       *)

(* Another program takes or gives back the lock file of a modem.           *)
OtherLock(m) ==
  /\ fault = "none" /\ "uucp" \in Env
  /\ \/ mdm[m].lock = "free" /\ mdm' = [mdm EXCEPT ![m].lock = "other"]
     \/ mdm[m].lock = "other" /\ mdm' = [mdm EXCEPT ![m].lock = "free"]
  /\ UNCHANGED <<job, q, runq, bat, frames, dphase, op, cur, poke, calls, fault>>

(* Another server removes a queue file.                                    *)
Vanish(j) ==
  /\ fault = "none" /\ "vanish" \in Env
  /\ q[j].dir = "sendq"
  /\ q' = [q EXCEPT ![j].dir = "none"]
  /\ UNCHANGED <<job, runq, bat, mdm, frames, dphase, op, cur, poke, calls, fault>>

(* All jobs are gone, the process has ended, or after a dropped poke it    *)
(* waits for the next message.                                             *)
Finished ==
  /\ fault # "none" \/ poke = "dropped" \/ \A j \in Jobs : job[j].state = "gone" /\ q[j].dir # "sendq"
  /\ UNCHANGED vars

-----------------------------------------------------------------------------
Init ==
  /\ job = [j \in Jobs |-> NewJob(UsrPri[j])]
  /\ q \in [Jobs -> { [ dir |-> "sendq", fin |-> "open", status |-> "nobatch",
                        prep |-> p, tries |-> 0, leak |-> FALSE ] : p \in BOOLEAN }]
  /\ runq = <<>>
  /\ \E d \in Dests : bat = [m \in Modems |->
        [phase |-> "none", dest |-> d, todo |-> {}, called |-> FALSE]]
  /\ mdm = [m \in Modems |-> [state |-> "DOWN", lock |-> "free", poll |-> FALSE]]
  /\ frames = <<>>
  /\ dphase = 1
  /\ op = Idle
  /\ cur = "off"
  /\ poke = "due"
  /\ calls = <<>>
  /\ fault = "none"

Next ==
  \/ runScheduler \/ scheduleJob \/ emptyDest \/ reapDeadJobs
  \/ fillBatch \/ sendStart \/ sendDoneJob \/ sendDoneEnd
  \/ \E m \in Modems : prepareDone(m) \/ sendCall(m) \/ sendResult(m) \/ sendDone(m)
                       \/ pollForModemLock(m) \/ FIFOModemMessage(m) \/ OtherLock(m)
  \/ \E j \in Jobs : ctrlJobDone(j) \/ runJob(j) \/ timeoutJob(j) \/ submitJob(j)
                     \/ Vanish(j)
                     \/ \E cmd \in {"suspend", "terminate"} : suspendJob(j, cmd)
  \/ FIFOJobMessage \/ resumeSuspend
  \/ Finished

Spec == Init /\ [][Next]_vars

(* What the surroundings must do for liveness: the timers, FIFO messages   *)
(* and children that are due are dispatched, handlers go on, subprocesses  *)
(* end, modems come up, and a modem does not refuse every call for ever.   *)
Fairness ==
  /\ WF_vars(scheduleJob \/ emptyDest \/ reapDeadJobs \/ fillBatch \/ sendStart
             \/ sendDoneJob \/ sendDoneEnd)
  /\ WF_vars(runScheduler) /\ WF_vars(resumeSuspend) /\ SF_vars(FIFOJobMessage)
  /\ \A m \in Modems :
       /\ SF_vars(prepareDone(m)) /\ SF_vars(sendDone(m))
       /\ WF_vars(sendResult(m)) /\ SF_vars(sendCall(m))
       /\ SF_vars(pollForModemLock(m))
       /\ SF_vars(FIFOModemMessage(m) /\ mdm'[m].state = "READY")
  /\ \A j \in Jobs : SF_vars(ctrlJobDone(j)) /\ SF_vars(runJob(j))

FairSpec == Spec /\ Fairness

-----------------------------------------------------------------------------
(* Properties.                                                             *)

Finishing(m) == op.k = "done" /\ op.m = m

(* faxq holds the UUCP lock of a modem exactly while it has a batch there, *)
(* from assignModem until releaseModem at the start of sendDone.           *)
LockHeld ==
  \A m \in Modems :
     mdm[m].lock = "faxq" <=> bat[m].phase # "none" /\ ~Finishing(m)

(* No destination has more batches in progress than MaxConcurrentCalls     *)
(* allows, however batches, retries and modems interleave (isOKToCall).    *)
ConcurrencyLimit ==
  \A d \in Dests : Cardinality(Active(bat, d)) <= MaxConcurrentCalls

(* A destination with ready jobs is on the run queue, once: setReady,      *)
(* runScheduler and the destructor of DestInfo keep readyQ and runq in     *)
(* step.                                                                   *)
ReadyOnRunq ==
  /\ \A d \in Dests : ReadyQ(job, d) # {} => d \in Elems(runq)
  /\ \A i, k \in 1..Len(runq) : runq[i] = runq[k] => i = k

(* The head of the readyQ of d could be started by a scheduler run now.    *)
Startable(d) ==
  \E j \in Highest(job, ReadyQ(job, d)) : isOKToCall(d) /\ findModem(j) # {}

(* What will move job j on when no handler is running.  A poke that        *)
(* SchedTimeout::start has dropped leaves ready and dead jobs to the next. *)
WillMove(j) ==
  CASE job[j].on \in {"pendq", "sleepQ"} -> job[j].tts
    [] job[j].on = "jcontrolq" -> job[j].pid = "live"
    [] job[j].on = "batch" -> bat[job[j].in].phase \in {"prep", "send"}
    [] job[j].on = "deadq" -> poke # "none"
    [] job[j].on = "suspendq" -> job[j].state = "suspended"
    [] job[j].on = "readyQ" ->
         \/ poke # "none"
         \/ ~Startable(DestOf[j])
         \/ Active(bat, DestOf[j]) # {} \/ SleepQ(job, DestOf[j]) # {}
         \/ \E k \in Jobs : job[k].on = "jcontrolq" /\ DestOf[k] = DestOf[j]
    [] OTHER -> job[j].state = "gone"

(* A batch that is being sent stays on its modem until faxsend has exited, *)
(* whatever faxgetty says of the modem meanwhile: no other batch is        *)
(* started there (assignModem).                                            *)
BatchNotDisturbed ==
  [][\A m \in Modems : bat[m].phase = "send" =>
        \/ bat'[m].phase = "none"
        \/ bat'[m].phase = "send" /\ bat'[m].todo \subseteq bat[m].todo]_vars

(* The priority of a job that is no bulk job rises with its retries but    *)
(* stays in the bucket it was submitted in, so that "normal" and "high"    *)
(* priority jobs do not conflict (sendJobDone).                            *)
PriorityBucket ==
  \A j \in Jobs : UsrPri[j] <= 190 =>
     job[j].pri <= UsrPri[j] /\ job[j].pri \div 16 = UsrPri[j] \div 16

(* No job is forgotten: between two events every job has a timer, a        *)
(* subprocess or a scheduler run ahead of it, is suspended, or waits for a *)
(* modem or for another job to its destination; unless the last poke was   *)
(* dropped because it came in the second in which the scheduler had run.   *)
NoJobForgotten ==
  fault = "none" /\ op.k = "idle" /\ cur = "off" /\ frames = <<>> =>
    \A j \in Jobs : WillMove(j)

(* While a batch has a subprocess, exactly one job of the batch carries    *)
(* its pid, so a client can stop it through that job (suspendJob), also    *)
(* while FIFOJobMessage hands it from job to job; and no job that has left *)
(* its batch carries the pid of a subprocess that runs.                    *)
OneJobHoldsPid ==
  fault = "none" =>
    /\ \A m \in Modems : bat[m].phase \in {"prep", "send"} /\ op.m # m =>
         Cardinality({j \in BatchJobs(job, m) : job[j].pid = "live"}) = 1
    /\ \A j \in Jobs : job[j].pid = "live" => job[j].on \in {"batch", "jcontrolq"}

(* A job is delivered once: after faxsend has recorded success for a job,  *)
(* no retry, suspension or rescheduling makes its queue file undone again, *)
(* as long as no job is torn from its subprocess (see Torn).               *)
DeliveredOnce ==
  [][\A j \in Jobs : q[j].status = "done" => q'[j].status = "done"]_vars

(* Job j has left its list, but not the subprocess or the batch it was in, *)
(* or the timer for its time to send.                                      *)
Torn(j) ==
  \/ job[j].pid = "live" /\ job[j].on \notin {"batch", "jcontrolq"}
  \/ job[j].modem # NoModem /\ job[j].on # "batch"
  \/ job[j].state = "suspended" /\ \E m \in Modems : j \in bat[m].todo
  \/ job[j].tts /\ job[j].state \notin {"sleeping", "pending", "failed"}

(* A suspendJob that had another one inside it is about to return.  While  *)
(* the inner one waited, the job of the outer one may have ended, been     *)
(* submitted again and been started again.                                 *)
OuterReturns == frames # <<>> /\ Top.nested

(* suspendJob returns after the subprocess that has the job has ended: "we *)
(* wait for the process to stop before returning to the caller".  Only one *)
(* that has had another inside it can tear a job from its subprocess.      *)
SuspendedIsStopped ==
  [][\A j \in Jobs : Torn(j)' => Torn(j) \/ OuterReturns]_vars

(* A timer of job j goes off.                                              *)
TimerExpires(j) ==
  (job[j].tts /\ ~job'[j].tts) \/ (job[j].kill /\ ~job'[j].kill)

(* The outcome that deleteRequest records and tells the owner is done      *)
(* exactly when faxsend reported success, and a job that has ended stays   *)
(* so, with its outcome ("job is definitely done").  There are two         *)
(* exceptions: a job that a suspendJob with another inside it tears from   *)
(* its faxsend, and a job one of whose own timers, left armed when it was  *)
(* buried, goes off before it is reaped.                                   *)
OutcomeFinal ==
  [][\A j \in Jobs :
        IF q[j].fin = "open"
        THEN \/ q'[j].fin = "open"
             \/ q'[j].fin = "done" <=> q[j].status = "done"
             \/ OuterReturns
        ELSE job[j].state \in {"gone", "done", "failed"} =>
               \/ /\ q'[j].fin = q[j].fin
                  /\ job'[j].state \in {"gone", "done", "failed"}
               \/ TimerExpires(j)]_vars

(* Every job that is submitted is eventually finished and its outcome told *)
(* to its owner: no destination, modem or retry holds it up for ever.      *)
(* Only a dropped poke that no other poke ever follows does.               *)
JobCompletes ==
  \A j \in Jobs : job[j].state # "gone" ~> (q[j].fin # "open" \/ [](poke = "dropped"))

(* A client that waits for a job to be suspended or terminated gets its    *)
(* answer: the wait of suspendJob ends.                                    *)
SuspendReturns == frames # <<>> ~> frames = <<>>

(* No assertion of the code fails before a suspendJob with another inside  *)
(* it has torn a job from its subprocess.                                  *)
AssertionsHold ==
  [][fault' \in Assertions => fault \in Assertions \/ OuterReturns]_vars
(* Neither does an assertion fail nor is an object used that is not there. *)
NoFault == fault = "none"

-----------------------------------------------------------------------------
(* What comments and assertions of the source say that its code does not   *)
(* keep to in every environment.                                           *)

(* Batch::startPrepare: "PID not empty for Batch::startPrepare()".         *)
PrepareStartsOnce == fault # "PID not empty for Batch::startPrepare()"

(* QLink::insert: "item already on a list".                                *)
OnOneList == fault # "QLink::insert: item already on a list"

(* setDead: "Dead job with modem".                                         *)
DeadHasNoModem == fault # "Dead job with modem"

(* runScheduler: "there are no active contexts holding references to job   *)
(* corpses": no suspendJob waits for a job that has been deleted.          *)
NoCorpseReferenced ==
  \A i \in 1..Len(frames) : job[frames[i].job].state # "gone"

(* sendDone deletes the batch when it is "done with the batch": no job is  *)
(* linked on its list then.                                                *)
NoJobOnFreedBatch == \A j \in Jobs : job[j].on # "freed"

(* FIFOJobMessage: a call for a job without a pid means "a new job as part *)
(* of a batch", with the previous job before it.                           *)
PreviousInBatch == fault # "previous job not of the batch"

(* doneJob leaves a job without a status to "the normal sendDone batch     *)
(* processing", which can read its queue file.                             *)
QueueFileNotHeld == fault # "flock on itself"

(* timeoutJob: a job whose kill time has expired is terminated "unless it  *)
(* is currently being tried": it is not put into a batch any more.         *)
KilledIsNotTried ==
  [][\A j \in Jobs : job[j].killed /\ job[j].on # "batch" => job'[j].on # "batch"]_vars

(* canJobBatch: "we only check the modem is OK": a job goes out on a modem *)
(* of its own class.                                                       *)
BatchedOnOwnModem == \A j \in Jobs : job[j].on = "batch" => job[j].in \in Group[j]

(* runScheduler keeps "the ql = ql->next list" working: the destination at *)
(* its cursor exists.                                                      *)
CursorExists == fault # "destination used after delete"

(* sendJobDone: "Bump the job priority if is not bulk-style in which case  *)
(* we dip" it: a retry never makes the priority number of a bulk job lower.*)
BulkOnlyDips ==
  [][\A j \in Jobs : job[j].pri > 190 /\ job'[j].state # "gone" =>
        job'[j].pri >= job[j].pri]_vars

(* suspendJob signals and waits for "an active subprocess".                *)
SignalsOwnSubprocess ==
  op.k = "idle" => \A j \in Jobs : job[j].susp => job[j].pid # "dead"

=============================================================================
