-------------------------- MODULE DispatcherProofs --------------------------
(***************************************************************************)
(* Proofs about the event loop, for any number of children, timers and     *)
(* calls of dispatch in one another.                                       *)
(***************************************************************************)
EXTENDS Dispatcher, TLAPS

Places == {"anyReady", "install", "check", "enter", "select", "restore", "fds",
           "now", "timers", "scheduler", "kids"}
States == {"none", "running", "zombie", "reaped", "told"}

Shape ==
    /\ pc \in Places
    /\ depth \in Nat
    /\ proc \in [Pids -> States]
    /\ ready \in BOOLEAN /\ hand \in BOOLEAN

\* Inductive: waitFor takes away a handler only when it sees children, so that there
\* must be some whenever the handler is installed.
DInv ==
    /\ Shape
    /\ HandlerOnlyInWait
    /\ hand => Queued # {}
    /\ NoStatusForgotten

LEMMA InvInit == DInit => DInv
<1> SUFFICES ASSUME DInit PROVE DInv
  OBVIOUS
<1>1. Shape
  <2>1. proc \in [Pids -> States]
    BY DEF DInit, States
  <2> QED BY <2>1 DEF DInit, Shape, Places
<1>2. hand = FALSE /\ Reaped = {}
  BY DEF DInit, Reaped
<1> QED BY <1>1, <1>2 DEF DInv, HandlerOnlyInWait, NoStatusForgotten

\* What sigCLD keeps: nobody leaves the queue, and what it takes makes the queue ready.
LEMMA SigCLD ==
  ASSUME NEW pr \in [Pids -> States], ready \in BOOLEAN, sigCLD(pr),
         (\E p \in Pids : pr[p] = "reaped") => ready
  PROVE  /\ proc' \in [Pids -> States] /\ ready' \in BOOLEAN
         /\ NoStatusForgotten'
         /\ \A p \in Pids : pr[p] \in {"running", "zombie", "reaped"}
                             => proc'[p] \in {"running", "zombie", "reaped"}
  BY DEF sigCLD, Reap, States, NoStatusForgotten, Reaped

LEMMA InvStep ==
  ASSUME DInv, [DNext]_all
  PROVE  DInv'
<1> USE DEF DInv
<1>1. CASE anyReady
  <2>1. hand = FALSE /\ hand' = FALSE
    BY <1>1 DEF anyReady, HandlerOnlyInWait, Shape
  <2>2. CASE Queued # {}
    <3>1. sigCLD(proc)
      BY <1>1, <2>2 DEF anyReady, PollChildren
    <3>2. proc' \in [Pids -> States] /\ ready' \in BOOLEAN /\ NoStatusForgotten'
      BY <3>1, SigCLD DEF Shape, NoStatusForgotten, Reaped
    <3> QED
      BY <1>1, <2>1, <3>2 DEF anyReady, Shape, Places, HandlerOnlyInWait
  <2>3. CASE Queued = {}
    BY <1>1, <2>1, <2>3 DEF anyReady, Shape, Places, HandlerOnlyInWait, NoStatusForgotten, Reaped
  <2> QED BY <2>2, <2>3
<1>2. CASE install \/ check \/ enter \/ select \/ restore
  BY <1>2 DEF install, check, enter, select, restore, OldHandler, Shape, Places,
              HandlerOnlyInWait, NoStatusForgotten, Queued, Reaped
<1>3. CASE fds \/ killExpired \/ runScheduler
  <2>1. hand = FALSE /\ hand' = FALSE /\ ready' = ready /\ MayStartChild(proc)
    BY <1>3 DEF fds, killExpired, runScheduler, HandlerOnlyInWait, Shape
  <2>2. proc' \in [Pids -> States] /\ NoStatusForgotten'
    BY <2>1 DEF MayStartChild, Shape, States, NoStatusForgotten, Reaped
  <2>3. pc' \in Places /\ depth' \in Nat
    BY <1>3 DEF fds, killExpired, runScheduler, Shape, Places
  <2> QED BY <2>1, <2>2, <2>3 DEF Shape, HandlerOnlyInWait
<1>4. CASE now \/ expire \/ expired \/ runSchedulerDone
  <2>1. hand = FALSE /\ hand' = FALSE /\ ready' = ready /\ proc' = proc
    BY <1>4 DEF now, expire, expired, runSchedulerDone, HandlerOnlyInWait, Shape
  <2>2. pc' \in Places /\ depth' \in Nat
    BY <1>4 DEF now, expire, expired, runSchedulerDone, Shape, Places
  <2> QED BY <2>1, <2>2 DEF Shape, HandlerOnlyInWait, NoStatusForgotten, Reaped
<1>5. CASE childStatus
  <2>1. hand = FALSE /\ hand' = FALSE /\ ready /\ ready' = ready /\ pc' = pc /\ depth' = depth
    BY <1>5 DEF childStatus, HandlerOnlyInWait, Shape
  <2>2. proc' \in [Pids -> States]
    BY <1>5 DEF childStatus, MayStartChild, Shape, States
  <2> QED BY <2>1, <2>2 DEF Shape, HandlerOnlyInWait, NoStatusForgotten
<1>6. CASE dispatched
  <2>1. hand = FALSE /\ hand' = FALSE /\ proc' = proc /\ ready' = FALSE /\ Reaped = {}
    BY <1>6 DEF dispatched, HandlerOnlyInWait, Shape, NotifyDone, NoStatusForgotten
  <2>2. pc' \in Places /\ depth' \in Nat
    BY <1>6 DEF dispatched, Shape, Places
  <2> QED BY <2>1, <2>2 DEF Shape, HandlerOnlyInWait, NoStatusForgotten, Reaped
<1>7. ASSUME NEW p \in Pids, Exit(p) PROVE DInv'
  <2> DEFINE pr == [proc EXCEPT ![p] = "zombie"]
  <2>1. /\ pr \in [Pids -> States] /\ proc[p] = "running"
        /\ (\E q \in Pids : pr[q] = "reaped") => ready
        /\ hand' = hand /\ depth' = depth
        /\ pc' \in {pc, "restore"} /\ (pc' = pc \/ hand)
    BY <1>7 DEF Exit, Shape, States, NoStatusForgotten, Reaped
  <2>2. CASE hand
    <3>1. sigCLD(pr)
      BY <1>7, <2>2 DEF Exit
    <3> HIDE DEF pr
    <3>2. proc' \in [Pids -> States] /\ ready' \in BOOLEAN /\ NoStatusForgotten'
          /\ (pr[p] = "zombie" => proc'[p] \in {"running", "zombie", "reaped"})
      BY <2>1, <3>1, SigCLD DEF Shape
    <3>3. pr[p] = "zombie"
      BY DEF pr, Shape
    <3> QED
      BY <2>1, <2>2, <3>2, <3>3 DEF Shape, Places, HandlerOnlyInWait, Queued
  <2>3. CASE ~hand
    BY <1>7, <2>1, <2>3 DEF Exit, Shape, Places, HandlerOnlyInWait, NoStatusForgotten, Reaped
  <2> QED BY <2>2, <2>3
<1>8. CASE Second \/ Input \/ UNCHANGED all
  BY <1>8 DEF Second, Input, all, dvars, Shape, HandlerOnlyInWait, NoStatusForgotten, Queued, Reaped
<1> QED
  BY <1>1, <1>2, <1>3, <1>4, <1>5, <1>6, <1>7, <1>8 DEF DNext, Loop

\* sigCLD is the handler of SIGCHLD only while waitFor runs, although waitFor tests
\* twice for children: nothing empties or fills the queue in between.
THEOREM HandlerOnlyInWaitAlways == DSpec => []HandlerOnlyInWait
<1>1. DInv => HandlerOnlyInWait
  BY DEF DInv
<1> QED BY InvInit, InvStep, <1>1, PTL DEF DSpec

\* No status that waitpid has returned is left behind when notify resets _ready, with
\* children that die in any order and handlers that call dispatch again.
THEOREM NoStatusForgottenAlways == DSpec => []NoStatusForgotten
<1>1. DInv => NoStatusForgotten
  BY DEF DInv
<1> QED BY InvInit, InvStep, <1>1, PTL DEF DSpec

-----------------------------------------------------------------------------
(* The timers of the scheduler.                                            *)

\* Inductive: lastRun lies ahead only as far as some timer does.
TInv ==
    /\ timers \in [Bound -> Nat] /\ ahead \in -1..2
    /\ started \in BOOLEAN /\ running \in BOOLEAN
    /\ started => SomeTimer \/ running
    /\ ahead > 0 => \E t \in Bound : t >= ahead /\ timers[t] > 0

LEMMA StartTimer ==
  ASSUME TInv, NEW u \in Bound, startTimer(u)
  PROVE  timers' \in [Bound -> Nat] /\ timers'[u] > 0
  BY DEF TInv, startTimer

LEMMA Start ==
  ASSUME TInv, NEW s \in Delays, start(s)
  PROVE  TInv'
<1>1. s \in Bound /\ Later(s) \in Bound /\ s \in -1..2 /\ Later(s) \in -1..2
  BY SchedTimeoutAssumption DEF Later, Bound
<1>2. running' = running
  BY DEF start
<1>3. CASE startTimer(s) /\ ahead' = s /\ started' = TRUE
  BY <1>1, <1>2, <1>3, StartTimer DEF TInv, SomeTimer
<1>4. CASE startTimer(Later(s)) /\ ahead' = Later(s) /\ started' = started
  BY <1>1, <1>2, <1>4, StartTimer DEF TInv, SomeTimer, Later
<1>5. CASE UNCHANGED <<started, ahead, timers>>
  BY <1>2, <1>5 DEF TInv, SomeTimer
<1> QED BY <1>3, <1>4, <1>5 DEF start

LEMMA TimerStep ==
  ASSUME TInv, [Next]_vars
  PROVE  TInv'
<1>1. CASE \E s \in Delays : start(s)
  BY <1>1, Start
<1>2. CASE timerExpired
  BY <1>2 DEF timerExpired, TInv, Bound
<1>3. CASE schedulerDone
  BY <1>3 DEF schedulerDone, TInv, SomeTimer
<1>4. CASE Tick
  <2>1. /\ timers' \in [Bound -> Nat]
        /\ timers'[0] = timers[0] + timers[1] /\ timers'[1] = timers[2]
        /\ timers[0] \in Nat /\ timers[1] \in Nat /\ timers[2] \in Nat
    BY <1>4 DEF Tick, TInv, Bound
  <2>2. SomeTimer => SomeTimer'
    BY <2>1 DEF SomeTimer, Bound
  <2>3. ahead' \in -1..2 /\ (ahead' > 0 => ahead = 2 /\ ahead' = 1)
    BY <1>4 DEF Tick, TInv
  <2>4. ahead' > 0 => \E t \in Bound : t >= ahead' /\ timers'[t] > 0
    BY <2>1, <2>3 DEF TInv, Bound
  <2> QED BY <1>4, <2>1, <2>2, <2>3, <2>4 DEF Tick, TInv
<1>5. CASE UNCHANGED vars
  BY <1>5 DEF vars, TInv, SomeTimer
<1> QED BY <1>1, <1>2, <1>3, <1>4, <1>5 DEF Next

\* A step of the loop is an operation of SchedTimeout or leaves its state alone.
LEMMA LoopStep ==
  ASSUME [DNext]_all
  PROVE  [Next]_vars
<1>1. MayPoke => [Next]_vars
  BY DEF MayPoke, Next
<1>2. fds \/ killExpired \/ runScheduler \/ childStatus => [Next]_vars
  BY <1>1 DEF fds, killExpired, runScheduler, childStatus
<1>3. expire \/ runSchedulerDone \/ Second => [Next]_vars
  BY DEF expire, runSchedulerDone, Second, Next
<1>4. anyReady \/ install \/ check \/ enter \/ select \/ restore => [Next]_vars
  BY DEF anyReady, install, check, enter, select, restore
<1>5. now \/ expired \/ dispatched \/ Input \/ UNCHANGED all => [Next]_vars
  BY DEF now, expired, dispatched, Input, all
<1>6. (\E p \in Pids : Exit(p)) => [Next]_vars
  BY DEF Exit
<1> QED BY <1>2, <1>3, <1>4, <1>5, <1>6 DEF DNext, Loop

\* start loses a poke for good only in the second in which the timer it had set for
\* one second later has run the scheduler: in no other state is there neither a run
\* ahead nor a timer that the next poke sets.
THEOREM DeafForASecondAlways == DSpec => []DeafForASecond
<1>1. ASSUME DInit PROVE TInv
  <2>1. /\ timers = [t \in Bound |-> 0] /\ ahead = -1
        /\ started = FALSE /\ running = FALSE
    BY <1>1 DEF DInit, Init
  <2>2. timers \in [Bound -> Nat]
    BY <2>1
  <2>3. ahead \in -1..2 /\ ~(ahead > 0)
    BY <2>1
  <2> QED BY <2>1, <2>2, <2>3, Zenon DEF TInv
<1>2. TInv => DeafForASecond
  BY DEF TInv, DeafForASecond, SomeTimer
<1> QED BY <1>1, <1>2, TimerStep, LoopStep, PTL DEF DSpec

=============================================================================
