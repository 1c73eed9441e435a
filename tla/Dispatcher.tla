----------------------------- MODULE Dispatcher -----------------------------
(***************************************************************************)
(* faxq's event loop (libhylafax/Dispatcher.c++) with the scheduler's      *)
(* timers of SchedTimeout in its timer queue and with its child processes. *)
(* One call of dispatch polls for dead children, waits in select with a    *)
(* SIGCHLD handler, then runs the handlers of the descriptor, of the       *)
(* timers and of the children, in this order.  The handler of the          *)
(* descriptor may call dispatch again and wait in it (suspendJob).  A      *)
(* child may exit at any point.                                            *)
(*                                                                         *)
(* The one descriptor is the FIFO; its handler and the others never ask to *)
(* be called again without new input.  Besides the scheduler's timers      *)
(* there is one of a job: its kill time or its time to send.               *)
(***************************************************************************)
EXTENDS SchedTimeout

CONSTANTS Pids,      \* the child processes
          MaxDepth   \* bound: calls of dispatch in one another

ASSUME DispatcherAssumption == MaxDepth \in Nat

VARIABLES pc,     \* where the innermost dispatch stands
          found,  \* select has found input
          proc,   \* [Pids -> state]: in the child queue from "running" to "reaped"
          ready,  \* ChildQueue::_ready
          hand,   \* sigCLD is the handler of SIGCHLD
          input,  \* the FIFO is readable
          kill,   \* a timer of a job is set
          due,    \* the timers of the scheduler that this pass expires
          depth   \* the handlers that wait in a call of dispatch

dvars == <<pc, found, proc, ready, hand, input, kill, due, depth>>
all == <<vars, dvars>>

Queued == {p \in Pids : proc[p] \in {"running", "zombie", "reaped"}}
Reaped == {p \in Pids : proc[p] = "reaped"}

\* sigCLD and setStatus: the dead children are waited for.
Reap(pr) == [p \in Pids |-> IF pr[p] = "zombie" THEN "reaped" ELSE pr[p]]
sigCLD(pr) ==
    /\ proc' = Reap(pr)
    /\ ready' = (ready \/ \E p \in Pids : pr[p] = "zombie")

-----------------------------------------------------------------------------
(* What handlers do.                                                       *)

\* A handler may poke the scheduler ...
MayPoke == UNCHANGED vars \/ \E s \in Delays : start(s)

\* ... startChild, the children being pr ...
MayStartChild(pr) ==
    proc' = pr \/ \E p \in Pids : pr[p] = "none" /\ proc' = [pr EXCEPT ![p] = "running"]

\* ... and set a timer of a job.
MaySetTimer == kill' \in {kill, TRUE}

-----------------------------------------------------------------------------
(* dispatch.                                                               *)

\* Slip: the children are left to the signal handler.
PollChildren_not == UNCHANGED <<proc, ready>>

\* "poll for pending children"
PollChildren == sigCLD(proc)

anyReady ==
    /\ pc = "anyReady"
    /\ IF Queued # {} THEN PollChildren ELSE UNCHANGED <<proc, ready>>
    /\ pc' = IF Queued # {} /\ ready' THEN "now" ELSE "install"
    /\ found' = FALSE
    /\ UNCHANGED <<vars, hand, input, kill, due, depth>>

\* waitFor: sigaction, "if (!_cqueue->isReady())", and select.
install ==
    /\ pc = "install" /\ pc' = "check"
    /\ hand' = (Queued # {})
    /\ UNCHANGED <<vars, found, proc, ready, input, kill, due, depth>>

check ==
    /\ pc = "check" /\ pc' = IF ready THEN "restore" ELSE "enter"
    /\ UNCHANGED <<vars, found, proc, ready, hand, input, kill, due, depth>>

enter ==
    /\ pc = "enter" /\ pc' = "select"
    /\ UNCHANGED <<vars, found, proc, ready, hand, input, kill, due, depth>>

\* Slip: no timeout.
calculateTimeout_none == FALSE
\* The timeout of select has come: a timer is due.
calculateTimeout == timers[0] > 0 \/ kill

select ==
    /\ pc = "select" /\ pc' = "restore"
    /\ input \/ calculateTimeout
    /\ found' = input
    /\ UNCHANGED <<vars, proc, ready, hand, input, kill, due, depth>>

\* The SIGCHLD handler after waitFor.
OldHandler == FALSE

restore ==
    /\ pc = "restore" /\ pc' = IF found THEN "fds" ELSE "now"
    /\ hand' = IF Queued # {} THEN OldHandler ELSE hand
    /\ UNCHANGED <<vars, found, proc, ready, input, kill, due, depth>>

\* notify: inputReady of the FIFO, which may wait for something by calling dispatch.
fds ==
    /\ pc = "fds" /\ input' = FALSE
    /\ MayPoke /\ MayStartChild(proc) /\ MaySetTimer
    /\ \/ pc' = "now" /\ UNCHANGED depth
       \/ depth < MaxDepth /\ depth' = depth + 1 /\ pc' = "anyReady"
    /\ UNCHANGED <<found, ready, hand, due>>

\* The time TimerQueue::expire gets: in their second, some of the timers are before it.
now ==
    /\ pc = "now" /\ pc' = "timers"
    /\ due' \in 0..timers[0]
    /\ UNCHANGED <<vars, found, proc, ready, hand, input, kill, depth>>

\* TimerQueue::expire: a timer of the scheduler, one of a job, or none before that time.
expire ==
    /\ pc = "timers" /\ due > 0 /\ due' = due - 1
    /\ timerExpired /\ pc' = "scheduler"
    /\ UNCHANGED <<found, proc, ready, hand, input, kill, depth>>

killExpired ==
    /\ pc = "timers" /\ kill /\ kill' = FALSE
    /\ MayPoke /\ MayStartChild(proc)
    /\ UNCHANGED <<pc, found, ready, hand, input, due, depth>>

expired ==
    /\ pc = "timers" /\ due = 0 /\ pc' = "kids"
    /\ UNCHANGED <<vars, found, proc, ready, hand, input, kill, due, depth>>

\* The scheduler starts subprocesses and may be poked while it runs.
runScheduler ==
    /\ pc = "scheduler" /\ MayPoke /\ MayStartChild(proc) /\ MaySetTimer
    /\ UNCHANGED <<pc, found, ready, hand, input, due, depth>>

runSchedulerDone ==
    /\ pc = "scheduler" /\ schedulerDone /\ pc' = "timers"
    /\ UNCHANGED <<found, proc, ready, hand, input, kill, due, depth>>

\* Slip: one child at a time.
NotifyDone_one == TRUE
\* ChildQueue::notify has come to the end of the queue.
NotifyDone == Reaped = {}

childStatus ==
    /\ pc = "kids" /\ ready
    /\ \E p \in Reaped : MayStartChild([proc EXCEPT ![p] = "told"])
    /\ MayPoke /\ MaySetTimer
    /\ UNCHANGED <<pc, found, ready, hand, input, due, depth>>

\* dispatch returns to the main loop, or to a handler that goes on waiting or not.
dispatched ==
    /\ pc = "kids" /\ (ready => NotifyDone)
    /\ ready' = FALSE
    /\ \/ pc' = "anyReady" /\ UNCHANGED depth
       \/ depth > 0 /\ depth' = depth - 1 /\ pc' = "now"
    /\ UNCHANGED <<vars, found, proc, hand, input, kill, due>>

-----------------------------------------------------------------------------
(* The rest of the world.                                                  *)

\* A child dies.  With the handler in place the signal is handled at once, and a
\* select under way returns (EINTR, handleError).
Exit(p) ==
    LET pr == [proc EXCEPT ![p] = "zombie"]
    IN  /\ proc[p] = "running"
        /\ IF hand THEN sigCLD(pr) ELSE proc' = pr /\ UNCHANGED ready
        /\ pc' = IF hand /\ pc = "select" THEN "restore" ELSE pc
        /\ UNCHANGED <<vars, found, hand, input, kill, due, depth>>

\* A message for faxq.
Input ==
    /\ ~input /\ input' = TRUE
    /\ UNCHANGED <<vars, pc, found, proc, ready, hand, kill, due, depth>>

Second == Tick /\ UNCHANGED dvars

DInit ==
    /\ Init
    /\ pc = "anyReady" /\ found = FALSE
    /\ proc = [p \in Pids |-> "none"] /\ ready = FALSE /\ hand = FALSE
    /\ input = FALSE /\ kill = FALSE /\ due = 0 /\ depth = 0

Loop ==
    \/ anyReady \/ install \/ check \/ enter \/ select \/ restore \/ fds
    \/ now \/ expire \/ killExpired \/ expired \/ runScheduler \/ runSchedulerDone
    \/ childStatus \/ dispatched

DNext == Loop \/ Second \/ Input \/ \E p \in Pids : Exit(p)

DSpec == DInit /\ [][DNext]_all

\* faxq runs, its scheduler returns, time goes on, and of the passes after the second
\* of a timer has come, one finds it expired.
DFairSpec ==
    DSpec /\ WF_all(Loop) /\ WF_all(runSchedulerDone) /\ WF_all(Second) /\ SF_all(now /\ due' = timers[0])

-----------------------------------------------------------------------------
DTypeOK ==
    /\ TypeOK
    /\ pc \in {"anyReady", "install", "check", "enter", "select", "restore", "fds",
               "now", "timers", "scheduler", "kids"}
    /\ proc \in [Pids -> {"none", "running", "zombie", "reaped", "told"}]
    /\ {found, ready, hand, input, kill} \subseteq BOOLEAN
    /\ due \in 0..MaxTimers /\ depth \in 0..MaxDepth

\* sigCLD writes to the child queue; it is the signal handler only while waitFor
\* runs, in which nobody else changes the queue, although waitFor decides twice
\* whether there are children.
HandlerOnlyInWait == hand => pc \in {"check", "enter", "select", "restore"}

\* A status that was taken from the kernel is on its way to its handler: "_ready"
\* is not reset while one is left, whatever handlers and nested calls do.
NoStatusForgotten == Reaped # {} => ready

\* A child that dies while a timer of the scheduler is set is told to its handler.
\* (With no timer and no input, one that dies between the poll and select is not.)
ChildNoticed == \A p \in Pids : (proc[p] = "zombie" /\ SomeTimer) ~> proc[p] = "told"

\* The loop gives the scheduler's timers what SchedTimeout takes for granted.
RunsSchedTimeout == FairSpec

\* waitFor: "if SIGCLD is pending then it may be delivered ... we don't want to block
\* in the select": a child that has died is told to its handler.
ChildAlwaysNoticed == \A p \in Pids : proc[p] = "zombie" ~> proc[p] = "told"

=============================================================================
