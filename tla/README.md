# Verification of voip-foip: TLA+ models and proofs

The repository is a collection of voice-over-IP and fax-over-IP programs:
HylaFAX 6.0.5, Asterisk 1.4, CallWeaver 1.2.1, Kamailio 3.1.4 and the SCCP
channel driver chan_sccp 0.2. This directory holds TLA+ models of parts of it,
checked with TLC and proved with TLAPS: the sending side of HylaFAX (the queue
manager **faxq**, its event loop, and the life of a job between faxq and
**faxsend**), and two parts of Asterisk that work under concurrency and loss
(**autoservice** and the T.38 transport **UDPTL**).

## The system and its parts

| Part | Source | Module |
|---|---|---|
| faxq: queue, scheduler, batches, retries, suspension, job control | `hylafax-6.0.5/faxd/faxQueueApp.c++`, `Job`, `QLink`, `Batch`, `DestInfo`, `Modem` | `FaxQueue` |
| What faxq promises about modems and destinations | `faxQueueApp.c++`, `UUCPLock` | `ModemUse`, `FaxQueueUse` |
| Throttle of the scheduler (`SchedTimeout`) | `faxQueueApp.c++` 64-120 | `SchedTimeout` |
| Event loop | `hylafax-6.0.5/libhylafax/Dispatcher.c++` | `Dispatcher` |
| faxsend, queue file, restart of faxq | `faxSendApp.c++`, `FaxSend.c++`, `FaxRequest.c++`, `Class1Send.c++`, `faxQueueApp.c++` | `FaxSend` |
| Background service of channels | `asterisk-1.4/main/autoservice.c`, parts of `channel.c` | `Autoservice` |
| T.38 over UDPTL | `asterisk-1.4/main/udptl.c` | `Udptl` |
| The rest | see "Not modelled" | |

How they interact: hfaxd writes a queue file and tells faxq over a FIFO. faxq
makes the job ready, waits for a modem (faxgetty reports modem states over the
same FIFO), locks the modem with a UUCP lock, prepares the documents in a
subprocess, collects further jobs for the same destination into a batch and
starts faxsend. faxsend reports each call over the FIFO and each result in the
queue file; its exit ends the batch. Everything in faxq runs in one thread under
the Dispatcher. The HylaFAX models are three views of this: `FaxQueue` has many
jobs and takes the result of a call as a choice; `FaxSend` has one job and follows
its pages through calls and crashes; `Dispatcher` has no jobs and shows in which
order and whether at all timers and dead children are served. `Dispatcher`
implements `SchedTimeout`, and `FaxQueue` implements `ModemUse`.

The two Asterisk models stand alone. A thread that is busy elsewhere puts its
channel into autoservice, where one thread reads it; UDPTL carries the T.38
packets of a fax call.

## Modules

* **FaxQueue** models faxq. An event handler is one action, with two exceptions:
  the loop of `runScheduler` (cursor `cur`) and the batch operations `fillBatch`,
  `sendStart` and `sendDone` (`op`), which are taken one iteration at a time while
  no event is dispatched. `suspendJob` dispatches events from inside a handler;
  `frames` is the stack of these waits and `dphase` the position inside one
  `dispatch()` (FIFO input, timers, children).
* **SchedTimeout** models the timer that runs the scheduler at most once a second.
  In `FaxQueue` it is the operator `pokeScheduler`, which may drop any poke that
  finds no timer set: that this happens only in the second of a run takes times,
  which FaxQueue does not have.
* **Dispatcher** extends SchedTimeout with the loop that its timers live in.
* **ModemUse** is the abstract specification of the use of modems: locks, batches
  and the limit on calls. **FaxQueueUse** maps FaxQueue to it.
* **FaxQueueProofs** and **FaxQueueUseProofs** hold the theorems.
* **FaxSend**, **Autoservice** and **Udptl** are described below;
  **DispatcherProofs**, **FaxSendProofs** (telling and limits), **FaxSendPages**
  (pages that must be sent), **FaxSendOutcome** (pages that must not be sent again),
  **AutoserviceProofs** and **UdptlProofs** hold
  theorems about them.
* **MCFaxQueue**, **MCFaxSend** and **MCAutoservice** give values for TLC.
  `Dispatcher` and `Udptl` are run as they are.
* An operator whose comment begins with "Slip" is a deliberately wrong variant of
  the operator after it. No specification uses it; put in the place of that
  operator it makes TLC find a property violated, which shows that the property
  depends on it.

State of `FaxQueue` and the code:

| Variable | Code |
|---|---|
| `job` | the `Job` objects: state, list, modem, pid, `suspendPending`, kill and time-to-send timers, priority |
| `q` | the queue file: directory, outcome, `returned` status, conversion state, number of tries, and whether faxq leaked its lock |
| `runq` | the list of `DestInfo` to serve |
| `bat` | the `Batch` on each modem and the subprocess it waits for |
| `mdm` | `Modem` state, UUCP lock, `lockHandler` timer |
| `poke` | `schedTimeout` is armed ("due"), has dropped the last poke, or was not poked since the last run |
| `frames` | the calls of `suspendJob` that wait, innermost last, and whether another one has waited inside each |
| `calls` | unread "call placed" messages of faxsend |
| `fault` | a failed `fxAssert` or a use of a deleted object; the process ends |

Each action has the name of the handler it models. The constant `Env` selects
what the surroundings may do (failing forks, vanishing queue files, crashing
faxsend, clients, kill times, faxgetty, queue files without documents, other
programs that lock modems), so each run asks one question. The throttle is part
of the program and is in every run.

Abstractions: documents, numbers, page counts and messages are left out; equal
priorities are broken by any order, where the code compares times to send; a
timer that is armed may go off at any time; the modem class of a job is the set
`Group[j]`; rejections and delays by job control are choices.

**Dispatcher.** `pc` is the position in `dispatch`: poll for dead children
(`anyReady`), `waitFor` in its four parts (handler installed, readiness tested,
select, handler restored), then descriptor, timers and children. A child may exit
between any two of them; the signal handler runs at once when it is installed.
`depth` counts the handlers that wait in a `dispatch` of their own, as
`suspendJob` does. Handlers are free to do what faxq's do: poke the scheduler,
start children, set timers.

**FaxSend.** `qf` is the queue file, `fs` the faxsend processes with the request
each holds in memory, `fq` faxq's view of the job. A step of faxq under the file
lock is one action; faxsend takes one per page and writes the file where the code
does. `mishaps` records what has gone wrong (a crash of either program, a SIGTERM,
a modem that fails, a document that vanishes, a remote machine that wants another
format, ...); each kind happens at most once, and each property names those
under which it is not promised. SIGTERM (`Abort`) asks for an abort while the state
of faxsend is SENDING, which begins and ends inside the steps "dial" and "end"; in
either of them, and before, it may also end faxsend at once with nothing written.
After a call that is the mishap "late", which together with the crash of faxsend
makes up `Unwritten`: the last write of a call is missing. Left out: polls, several jobs in one call, kill
times, suspension and continuation cover pages.

**Autoservice.** A critical section of the list lock is one action, and what a
call does between two of them another. `aslist` and `ent` are the list and the
memory of its entries, which is used again after `free`; `as` is the thread with
its private arrays `mons` and `ents`; `call` is where each caller stands. The
counter `as_chan_list_state` is only compared with saved values, so it is kept as
a bit per waiting caller. Frames on a channel are numbered as they come. A soft
hangup is a flag that any thread may set; who reads the channel then first puts a
marker behind what is queued, and behind a marker or a hangup frame nothing more is
queued (`Ended`, `MarksEnd`). The two sections of `ast_queue_hangup` are two
actions, `SoftHangup` and `Arrive`; the first may be missing, as when its trylock fails.

**Udptl.** One direction: `tx` and `rx` are the two ends with their circular
buffers, `net` the datagrams in flight. The n-th packet is the set {n}, so that
XOR is symmetric difference and a wrong repair shows. Packets are short or long
(`Long`); a parity is as long as the longest packet of its group, and so is what
is repaired with it (`udptl.c` 425). Sequence numbers wrap at
`SeqNos` in a datagram and not in `rx_seq_no`, as in the code. The loop over the
secondaries of a datagram counts down to 1 and skips those below `rx_seq_no`; in
the model it is the sequence of those that are left, oldest first (`Newest`).

## Runs

Bounds of FaxQueue: up to three jobs, two destinations, two modems, batches of two,
one or two tries, two waits of `suspendJob` inside one another in `suspend` and one
elsewhere (`MaxWaits`), and up to two unread messages. Two jobs are the least with which batches, blocked jobs and the
handing over of a pid occur; three jobs and two destinations reorder the run queue.
Priorities start next to the ends of their ranges (113 and 254), so that a retry
reaches 112 and 255.

`suspend` has two waits and kill times, and no job control. It goes no further
than the state in which the outer of two waits has torn a job from its
subprocess (`CONSTRAINT NoneTorn`): what follows has no meaning in the code, and the
step into that state is still checked. With job control, two unread messages and
kill times the same run has sixteen million states and passes in twenty minutes.

Bounds of the others:

* `loop`: two children, so that one exits while the other is told; two timers of
  each second; two calls of `dispatch` inside one another.
* `send`: documents of two and one pages, so that a call can end inside a document,
  between documents and at the end; two faxsend processes, since one may outlive
  its faxq; three dials and two tries; three mishaps of the thirteen kinds, so that
  any three kinds meet in any order. Six calls are never used up: `JobEnds`, which
  would fail where the bound stops the job, holds.
* `autoservice`: two threads, one channel of the first alone and one that both use,
  three entries, one start of each thread before its stop, one frame besides the
  hangup until everything has been read. With this, two entries for one channel,
  the reuse of memory after a stop and a stop of one thread during that of the other all happen.
* `udptl`: buffers of 6 slots for 16, sequence numbers that wrap at 12 for 65536 (a
  multiple of the buffer size, as there), span and entries 2, 19 packets, so that
  the buffers are used three times over, the number wraps and a whole buffer of
  packets comes after the wrap; five of the packets are long, alone and next to each
  other; three losses, two datagrams in flight and one other mishap. Buffers of 16
  with span and entries 3, as in `udptl.conf.sample`, pass as well over 40 packets
  with two losses.

| Run | Shows |
|---|---|
| `queue` | `PriorityBucket`, `NoJobForgotten`, `OneJobHoldsPid`, `NoFault` with retries, delays, rejections, cover pages, kill times and crashes of faxsend, and pokes that are dropped |
| `dests` | `ReadyOnRunq` and `BatchNotDisturbed` with three jobs for two destinations, and faxgetty reporting any state of the modem |
| `modems` | `LockHeld`, `ConcurrencyLimit` and the refinement `UsesModems`, with two modems that other programs lock, faxgetty reporting any state at any time, and a poll request |
| `suspend` | `SuspendedIsStopped`, `AssertionsHold`, `DeliveredOnce`, `OutcomeFinal` with clients that suspend and terminate, one inside the wait of another, and kill times |
| `faults` | `DeliveredOnce` with failing forks, vanishing files, queue files without documents, faxgetty and late messages |
| `completes` | liveness: every job ends (`JobCompletes`), or a poke was dropped and no other ever came |
| `suspend_returns` | liveness: waits of `suspendJob` end (`SuspendReturns`) and batches end (`BatchesEnd`) |
| `loop` | Dispatcher: `NoStatusForgotten` and `DeafForASecond`; under fairness `ChildNoticed`; the loop implements SchedTimeout with its fairness (`RunsSchedTimeout`) |
| `send` | FaxSend: what the owner is told is true (`DoneMeansSent`, `FailedMeansUnsent`) and told once (`ToldOnce`); no page is sent twice (`SentOnce`) or lost (`DiskNeverAhead`); `PageHandlingInStep`, `WithinLimits`; every job ends (`JobEnds`) |
| `autoservice` | Autoservice: `NoStaleReference`, `UsesBalanced`, `FramesKept`, `FlagKept`; under fairness `StopReturns` |
| `udptl` | Udptl: `Exact`, `PlayedOnce`, `InOrder`, `RedundancyHeals`, `FecRepairs`, `ReceivedIsPlayed` |
| `v_killed` | counterexample: a faxsend that is killed leaves the status of a finished job in the queue file (`KilledSetsNoStatus`) |

The passing properties are limited to their environments: `NoFault` and
`AssertionsHold`, for example, do not hold when forks fail or queue files vanish.
Others name the step that they except. `SuspendedIsStopped`, `AssertionsHold` and
`OutcomeFinal` except the return of a `suspendJob` that has had another inside it
(`OuterReturns`); `OutcomeFinal` also the step in which a timer of a dead job goes
off. `NoJobForgotten` and `JobCompletes` except a poke that the throttle has
dropped. `Exact` and `PlayedOnce` with parity except a sequence number that starts
again while datagrams are missing (`SlotsFresh`). `FramesKept` and
`FlagKept` are for channels with one user.

Type invariants (`TypeOK`, `DTypeOK`) document the state of each module. They hold
in the same instances, but no run lists them; that of FaxQueue is proved. The same
goes for `HandlerOnlyInWait` and `NoThreadNoEntry`, which are proved.

`v_killed`: the comment in `sendDone` (`faxQueueApp.c++` 1558-1562) says that a
faxsend that is killed has not set the status. `notifyPageSent` (`FaxSend.c++` 899)
writes the file after each page with the status `sendFaxPhaseB` works with, which
is that of a finished job; when faxsend dies after the first page, faxq takes the
job for done and tells its owner so. It is a result about the model, and so are
the disagreements below; none has been reproduced by running the programs.

### Further disagreements

TLC also finds the following violated. They have no configuration of their own.
First, the properties at the end of `FaxQueue`; each instance has jobs a and b, one
destination and modem, `MaxBatchJobs` 2, `MaxConcurrentCalls` 1, `MaxTries` 1,
`MaxWaits` 1, no polls and no job control, but for what the second column gives.

| Property | Instance | What happens |
|---|---|---|
| `NoCorpseReferenced` | `Env` {"suspend"} | `suspendJob` (2245) keeps its `Job&` across `dispatch()`, in which the scheduler may delete the job; 2590: "there are no active contexts holding references to job corpses" |
| `OutcomeFinal` without `TimerExpires` | `Env` {"killtime"} | `timeoutJob` (2394) buries a job and leaves its time-to-send timer, which brings it back; 2945: "job is definitely done" |
| `PrepareStartsOnce` | `Env` {"fork"} | `prepareStart` (457) has no `break` after a failed fork and falls into the code of the parent |
| `OnOneList` | `Env` {"fork"}, job a | `prepareDone` (507) delays a job that is linked on its batch |
| `OnOneList` | `Env` {"fork"}, job a, `JobCtrl` | `setReadyToRun` (1844) makes a job ready that is on jcontrolq |
| `CursorExists` | `Env` {"fork"}, job a, `JobCtrl` | `sendDone` (1619), called in the loop of `runScheduler`, deletes the destination at its cursor |
| `DeadHasNoModem` | `Env` {"vanish"}, job a | `sendDone` (1552) buries a job before it clears its modem |
| `DeadHasNoModem` | `Env` {}, `Polls` {b} | `processJob` (358) rejects a poll request that was batched on a modem that cannot poll |
| `NoJobOnFreedBatch` | `Env` {"suspend"} | `sendDone` (1610) deletes the list that a job to be suspended is linked on |
| `SuspendedIsStopped` without `OuterReturns` | `Env` {"suspend"}, `MaxWaits` 2 | the outer of two waits in `suspendJob` (2246) suspends a job that is being sent again; 2211: "we wait for the process to stop before returning to the caller" |
| `AssertionsHold` without `OuterReturns` | `Env` {"suspend"}, `MaxWaits` 2 | the same takes a job that is being prepared out of its batch, where `prepareDone` then finds none (`Batch.c++` 63); or leaves a job with a modem where none may have one (2048, 2651) |
| `SignalsOwnSubprocess` | `Env` {"suspend"}, `MaxTries` 2 | a job that is tried again has the pid of its last attempt (2228) |
| `PreviousInBatch` | `Env` {"late"} | a call message that is read late (3218) finishes an object that is no job of a batch |
| `QueueFileNotHeld` | `Env` {"mute"} | `doneJob` (1646) keeps the lock that `sendDone` then waits for |
| `KilledIsNotTried` | `Env` {"killtime"}, job a, `JobCtrl` | a kill time that expires in job control (2386) does not keep the job from being sent |
| `BatchedOnOwnModem` | `Env` {}, `Modems` {m1, m2}, `Group` Picky | `canJobBatch` (263) looks at no modem when the batch has become empty |
| `BulkOnlyDips` | `Env` {}, job b | a bulk job at 255 is raised to 254 (1769) |

Numbers are lines of `hylafax-6.0.5/faxd/faxQueueApp.c++`.

In the other modules. Where no property is named, the exclusion it is about is
part of a property (`Without(...)`, `Private`), and TLC gives the counterexample
when it is taken out.

| Property | Instance | What happens |
|---|---|---|
| `PokeLeadsToRun` of SchedTimeout | `FairSpec`, `Delays` {0, 1}, `MaxTimers` 2 | a poke in the second in which the delayed timer has gone off is dropped (`faxQueueApp.c++` 99), although a timer is set "to avoid a stalled run queue" (102); nothing runs until the next poke |
| `ChildAlwaysNoticed` of Dispatcher | that of `loop` | a child that exits between the poll for children and `sigaction`, or between the test of `isReady` and `select`, is not noticed while there is no timer and no input; the comment at `Dispatcher.c++` 577-581 is about the same window |
| `DoneMeansSent` | only "faxsend", or only "late", or only "vanish" | see `v_killed`; the same status is left by a SIGTERM between `changeState(MODEMWAIT)` (`FaxSend.c++` 101) and the last `writeQFile` (`faxSendApp.c++` 206), where `sigCleanup` exits; a second document that cannot be opened counts as sent, because the status is that of the first (`FaxSend.c++` 299, 494) |
| `FailedMeansUnsent` | only "faxq", or only "abort" | the limits are looked at after the last page; a new faxq dials for a job that the old faxsend is just completing |
| `SentOnce` | only "reformat" | after a change of format all pages are sent again |
| `SentOnce` | "faxq" and one of "faxsend" and "late" | the pages confirmed in the document under way are forgotten when faxsend dies or leaves before its last write and a new faxq starts the job again: `FaxSend.c++` 455-458, "we'll only transmit what's left" |
| `WithinLimits` | only "faxq" | a call of the faxsend of the dead faxq counts beside that of the new one; `man/sendq.4f` 311-313 calls the limits maxima |
| `JobEnds` | "faxq_notify" | faxq dies after the queue file has moved to doneq and before the owner is told |
| `StopReturns` | `Faults` with "busy" | deadlock: `ast_hangup` (`channel.c` 1649) holds the channel lock in `ast_autoservice_stop`, and the thread wants the lock; `channel.h`: "It is important that chan is not locked prior to this call" |
| `PlayedOnce`, `InOrder` | "reorder" | a late datagram sets `rx_seq_no` back, so that packets after it are played again; `udptl.c` 326: "This one wasn't seen before" |
| `PlayedOnce` | "switch" | after a change from redundancy to parity a packet is repaired that had been played |
| `Exact` | `Ring` 16, `Span` 5, `Entries` 5 | span times entries is more than the buffer size: while the parities wind up, the groups of older datagrams are overwritten, and one is solved with a later packet |
| `PageHandlingInStep` | only "faxsend", or only "late" | the entry of the page handling is dropped and written before the page count that goes with it |
| `Exact` | `SlotsFresh` taken out, "fec" | after the sequence number has started again a missed slot keeps the packet of the round before (`udptl.c` 353), and a parity gives back the sum of three packets |
| `PlayedOnce` | `SlotsFresh` taken out, "fec" | the first short parities after the wrap let the hunt for packets to repair go back into the round before, and a packet is played again |
| `Exact` with equal lengths | "fec" | a short packet that is repaired has the length of the longest of its group (`udptl.c` 425) |
| `InOrder` | "fec" | a repaired packet is played after those that followed it |
| `ReceivedIsPlayed` | without its last conjunct | the first packet after the sequence number wraps is dropped |
| `FecRepairs` | `Ring` 16, `Span` 4, `Entries` 4 | span times entries is the buffer size, the loop at `udptl.c` 566 ends at once and the parities are empty; `udptl.conf.sample` 24-30 names no such limit |

From reading alone, not modelled: END_DTMF_ONLY stays set when the autoservice thread
cannot be created (`autoservice.c` 221), and a frame is lost when `ast_frdup` fails.

## Fairness

`FairSpec` of FaxQueue assumes that a handler in progress goes on, that the
dispatcher serves timers, FIFO messages and exited children that are due (weak
fairness, or strong where other handlers interrupt), that subprocesses end, that
modems come up, and that faxsend does not fail for ever before it places a call.
The first ones are what `select()` and a single thread give. The last three are
assumptions about the surroundings. `FairSpec` of SchedTimeout lets due timers go
off, the scheduler return and time pass; that the event loop gives it this is
what `RunsSchedTimeout` checks.

`DFairSpec` of Dispatcher has weak fairness of the loop, of the return of the
scheduler and of time. The one strong fairness says that of the passes after a
timer's second has begun one comes late enough in it to find the timer expired:
`earliestTime() < curTime` compares microseconds, which the model leaves out.
Nothing is assumed of children and of input.

`FairSpec` of FaxSend runs both programs, restarts a faxq that died and gives
modems and remote machines no fairness: the limits alone must end the job.
`FairSpec` of Autoservice runs the thread and the callers that are inside a call;
no caller need ever make one, and no frame need arrive (`ast_waitfor_n` has a
timeout).

## Proofs

### FaxQueue

For all jobs, destinations, modems, limits and every `Env`, from
`FaxQueueAssumption`:

| Theorem | Statement |
|---|---|
| `TypeCorrect` | `Spec => []TypeOK` |
| `ReadyOnRunqAlways` | a destination with a ready job is on the run queue, once |
| `PriorityBucketAlways` | retries keep a priority in its bucket |
| `LockHeldAlways` | faxq holds a lock exactly while it has a batch that has not ended |
| `ConcurrencyLimitAlways` | `MaxConcurrentCalls` is kept |
| `BatchNotDisturbedAlways` | no batch is put on a modem that is sending |
| `ImplementsModemUse` | FaxQueue implements `ModemUse` |

*The first three* follow from one inductive invariant, `TypeInv`, which is
`QueueOK` (what the queue management functions change) and `OthersOK` (the rest).
`TypeOK` alone is not enough. `TypeInv` adds that positions on the list of a batch
have a bound, which gives a batch with jobs a last one; that the operation in
progress names a modem; that the priorities are in their buckets; and that the
run queue has every destination with ready jobs, none of them twice. One lemma per
operator (`SetDeadOK`, `SetReadyOK`, `SendJobDoneOK`, ...) and one per action
(`...Step`) carry it.

*The others* follow from `UseInv`, which joins `LockHeld` and `ConcurrencyLimit`
with `OpOK`: the operation in progress is about a batch that exists, and one that
fills or sends is about a batch without a subprocess. Every action is first shown to be of one of five kinds (`Quiet`, `Swap`, `Begin`, `Give`, `Delete`); the
invariant, the action property and the refinement are then proved per kind.

### Dispatcher

For every set of children and every depth of nested calls:

| Theorem | Statement |
|---|---|
| `HandlerOnlyInWaitAlways` | the SIGCHLD handler is installed only during `waitFor` |
| `NoStatusForgottenAlways` | a status that was reaped is announced by `_ready` until it is told |
| `DeafForASecondAlways` | with no scheduler run ahead, pokes are shut out for the rest of one second at most |

The invariant `DInv` adds to the two that there are children whenever the handler
is installed: `waitFor` removes the handler only when it sees some. For the third,
`TInv` says that `started` is set only while a timer is or the scheduler runs, and
that a `lastRun` in the future has a timer at that second or later. It is proved
for each step of SchedTimeout; the other steps of the loop leave its variables
alone.

### FaxSend

For all documents, limits, processes and any number of mishaps, from
`FaxSendAssumption`:

| Theorem | Statement |
|---|---|
| `ToldOnceAlways` | the owner is told the outcome at most once, crashes of faxq included |
| `WithinLimitsAlways` | as long as faxq has not died, the counts stay within `maxdials` and `maxtries` |
| `DiskNeverAheadAlways` | what the queue file no longer asks for has been confirmed, whoever dies and when, unless a document vanished |
| `DoneMeansSentAlways` | "done" is told only when every page was confirmed, unless a call lacks its last write or a document vanished |
| `SentOnceAlways` | no page is confirmed twice, unless documents were formatted anew, or faxq died and a call lacks its last write |

The first two are in `FaxSendProofs`. `SInv` is `Shape`, `Told` and `Limits`. `Told` ties what was told to the
directory of the queue file: a job in sendq was never told. `Limits` says that
without a crash of faxq there is one faxsend at most, and that from the test in
`isJobSendOK` until the call is counted the counts are below the limits, wherever
the count is at that moment (the file, or the memory of faxsend). Steps of
faxsend are first shown to touch one process only (`LocalStep`, `CallStep`,
`LeaveStep`), steps of faxq to happen without one (`IdleStep`).

`DiskNeverAheadAlways` and `DoneMeansSentAlways` are in `FaxSendPages`,
`SentOnceAlways` is in `FaxSendOutcome`. They go along three invariants that build
on each other. `Wanted(items, k)` is the set of pages a list of items asks for when k pages
of its first document have gone out in this call; it is the common measure of the
queue file and of the memory of each faxsend.

* `PInv`: while the job is in sendq, file and faxsends each ask for every page that
  is not confirmed (`Covers`). The file may ask for more than faxsend does, never for
  less. It needs `Whole`: each document has one source and at most one imaged form,
  and either all documents are imaged or none.
* `DInv` adds where "done" means the whole job and where only the document at hand:
  in the file it means the job as soon as no faxsend holds the lock, in faxsend
  before the call and at its end (`Done`); and that a faxsend holds the lock from
  reading the file until it leaves (`Locked`).
* `OInv` adds the converse of `Covers`: nothing that is asked for is confirmed
  (`Fresh`). The file breaks this inside a document, where it is written after each
  page with the old `dirnum`; it is then harmless because the status in the file is
  that of a finished job, which ends it (`Killed`), or because faxq is alive and waits.

Conversion (`Imaged`), its undoing (`Sources`) and the end of a document
(`RemoveAt`) are shown once to keep `Whole` and to change `Wanted` as they should.
Since induction over data is not available, what `FlattenSeq` returns is proved by
looking at the smallest index at which a claim fails.

### Autoservice

For all threads, channels, users and entries, from `AutoserviceAssumption` and
"busy" not in `Faults` (no channel is hung up while it is in service):

| Theorem | Statement |
|---|---|
| `NoStaleReferenceAlways` | the thread never holds a freed entry or a destroyed channel |
| `UsesBalancedAlways` | the use counts on the list are the starts not yet stopped |
| `NoThreadNoEntryAlways` | without a thread the list is empty |
| `FlagKeptAlways` | `END_DTMF_ONLY` of a channel with one user is set while the channel is served, and still set after the stop if its owner had set it |

The heart of `AInv` is `HeldOK`: what the thread holds is on the list, or was
taken off by a stop that waits and has not seen the list rebuilt. It needs `Calls`
(a caller inside start or stop owns an entry that nobody else does), `Linked` (the
list has no entry twice, and each is allocated) and `Exclusive` (who destroys a
channel is the last to know of it). `FInv` adds, for `FlagKept`, that only users of a channel start and stop it
and what the flag and the entry's saved copy of it are at each point of a start
and a stop (`FlagOK`).

### Udptl

For any span and any number of packets, losses and datagrams in flight, from
`UdptlAssumption` and `CodeSizes`: 16 slots, 16 bits of sequence number and fewer
entries than slots, which are the sizes of the code (`MAX_FEC_ENTRIES` is 5). They
are fixed because the argument is about remainders, which the provers decide only
for a literal divisor; TLC checks other sizes.

| Theorem | Statement |
|---|---|
| `ReceivedIsPlayedAlways` | what is read in order is handed on, but for the first packet of each later round of numbers; every scheme, parity included |
| `RedundancyHealsAlways` | until the numbers start again, with redundancy a packet is lost only with as many datagrams after it as there are entries |
| `PlayedOnceAlways` | `PlayedOnce` for schemes other than parity |
| `InOrderAlways` | the action property `InOrder` |
| `ExactAlways` | with parity not among `Schemes`, every frame is a packet that was written, of its length and under its number |

`UInv` says what is in flight: each datagram carries the packet it is numbered for
and, without parity, the ones before it (`Good`), because the writing end still has
the last 16 packets in their slots (`Kept`). `Order` is for a network that keeps the
order: there is a number L with everything that was read below L, everything in
flight at or above L - 1 (the last datagram may come twice), `rx_seq_no` the number
of L - 1 plus one, and nothing from L on handed on (`ReadTo`, `PlayedTo`). L is not a
variable of the code: `rx_seq_no` determines it only up to multiples of 65536. `Run`
then gives what one reading hands on, a run of packets that ends with the one
of the datagram and begins at L or later, from which the theorems follow per action.

### Only model-checked

* Liveness (`JobCompletes`, `SuspendReturns`, `BatchesEnd`,
  `ChildNoticed`, `JobEnds`, `StopReturns`) and
  `RunsSchedTimeout`, which are out of the prover's reach.
* Parity in Udptl: `FecRepairs`, and `Exact` and `PlayedOnce` with the scheme "fec".
  A parity is a sum modulo two over a group, and the groups depend on the product
  of span and entries; both need an induction over data.
* `FramesKept` of Autoservice, `FailedMeansUnsent` and `PageHandlingInStep` of FaxSend.
  The first and the last are about the order of frames and a sum over items, again
  inductions over data; the second needs the order of the items in addition to `OInv`.
* Of FaxQueue, `NoJobForgotten`, `OneJobHoldsPid`, `DeliveredOnce`, and
  `NoFault`, `AssertionsHold`, `SuspendedIsStopped` and `OutcomeFinal`, which hold
  only in the environments of their runs: their invariants would follow each job
  through every operation of a batch and every wait of `suspendJob`.

## Not modelled

Left out of FaxQueue: the quit command, changes of the configuration, restrictions
of modem and time of day by job control, modems whose abilities change, the
reference counts of documents. The order in which destinations are served
(`runScheduler`: "the highest priority job is always processed first") depends on
times to send, which the model does not have.

| Part | Reason |
|---|---|
| faxgetty, T.30 signalling, reception, Class 2 | timed exchanges with a modem and a remote machine; their results are choices in the models |
| hfaxd, triggers, FIFO clients, job control parsing | text protocols and formats; what they ask for is an input of FaxQueue |
| Jitter buffer (`jitterbuf.c`) | decides by timestamps and running statistics of delays, whose ranges are out of TLC's reach |
| Asterisk scheduler (`sched.c`) | a queue of callbacks, run by each user in its own thread; what matters is what the users do |
| IAX2 | retransmission inside a driver of over ten thousand lines; no part of it stands alone |
| CallWeaver | shares its ancestry with Asterisk; its `udptl.c` is of the same origin but has changed, and only Asterisk's is modelled |
| chan_sccp | most steps call into Asterisk's channel core, which is modelled only as far as autoservice uses it |
| Kamailio | transactions and timers of several processes on shared memory; independent of the fax programs |

These make up most of the repository; the models cover the parts named in the first
table and say nothing of the rest.
