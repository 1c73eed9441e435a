---------------------------- MODULE SchedTimeout ----------------------------
(***************************************************************************)
(* faxQueueApp::SchedTimeout, which runs the scheduler of faxq after a     *)
(* poke, but at most once in a second.  Times are whole seconds, as        *)
(* Sys::now() gives them, and are kept relative to now: `ahead' is         *)
(* lastRun - now, and timers[t] counts the timers that go off in t         *)
(* seconds.  A timer goes off some time in its second, or later when the   *)
(* dispatcher is held up.                                                  *)
(***************************************************************************)
EXTENDS Integers

CONSTANTS
  Delays,     \* the delays pokeScheduler is called with
  MaxTimers   \* bound: timers in the queue

ASSUME SchedTimeoutAssumption == Delays \subseteq {0, 1} /\ MaxTimers \in Nat

VARIABLES
  started, pending,
  ahead,    \* lastRun - now, -1 standing for every time in the past
  timers,
  running,  \* inSchedule
  wanted    \* the scheduler was poked since it last began

vars == <<started, pending, ahead, timers, running, wanted>>

Bound == 0..2
TypeOK ==
  /\ started \in BOOLEAN /\ pending \in BOOLEAN
  /\ ahead \in -1..2
  /\ timers \in [Bound -> 0..MaxTimers]
  /\ running \in BOOLEAN /\ wanted \in BOOLEAN

SomeTimer == \E t \in Bound : timers[t] > 0

(* Slip: the timer is forgotten.                                           *)
startTimer_not(t) == timers' = timers
(* Dispatcher::startTimer.                                                 *)
startTimer(t) ==
  /\ \A u \in Bound : timers[u] < MaxTimers
  /\ timers' = [timers EXCEPT ![t] = @ + 1]

(* The delay of a poke that comes within the second of the last run.       *)
Later(s) == s + 1

(* pokeScheduler(s), from a handler or from the scheduler itself.          *)
start(s) ==
  /\ wanted' = TRUE
  /\ IF ~started /\ ahead < 0
     THEN /\ started' = TRUE
          /\ pending' = FALSE
          /\ startTimer(s)
          /\ ahead' = s
     ELSE IF ~pending /\ ahead <= 0
     THEN /\ startTimer(Later(s))
          /\ ahead' = Later(s)
          /\ pending' = TRUE
          /\ UNCHANGED started
     ELSE UNCHANGED <<started, pending, ahead, timers>>
  /\ UNCHANGED running

(* timerExpired: the scheduler, which dispatches no events, begins to run, *)
timerExpired ==
  /\ ~running
  /\ timers[0] > 0
  /\ timers' = [timers EXCEPT ![0] = @ - 1]
  /\ running' = TRUE
  /\ wanted' = FALSE
  /\ UNCHANGED <<started, pending, ahead>>
(* and returns.                                                            *)
schedulerDone ==
  /\ running
  /\ running' = FALSE
  /\ started' = FALSE
  /\ UNCHANGED <<pending, ahead, timers, wanted>>

(* The next second begins.                                                 *)
Tick ==
  /\ timers[0] + timers[1] <= MaxTimers
  /\ ahead' = IF ahead = -1 THEN -1 ELSE ahead - 1
  /\ timers' = [t \in Bound |-> IF t = 0 THEN timers[0] + timers[1]
                                ELSE IF t = 1 THEN timers[2] ELSE 0]
  /\ UNCHANGED <<started, pending, running, wanted>>

Init ==
  /\ started = FALSE /\ pending = FALSE
  /\ ahead = -1
  /\ timers = [t \in Bound |-> 0]
  /\ running = FALSE /\ wanted = FALSE

Next == (\E s \in Delays : start(s)) \/ timerExpired \/ schedulerDone \/ Tick

Spec == Init /\ [][Next]_vars
(* The dispatcher runs the timers that are due, the scheduler returns, and *)
(* time goes on.                                                           *)
FairSpec == Spec /\ WF_vars(timerExpired) /\ WF_vars(schedulerDone) /\ WF_vars(Tick)

-----------------------------------------------------------------------------
(* With no run of the scheduler ahead, start is deaf to pokes for the rest *)
(* of one second at most: neither `started' nor `lastRun' stays set when   *)
(* the timer they were set for is gone, which would shut out later pokes.  *)
DeafForASecond == ~running /\ ~SomeTimer => ~started /\ ahead <= 0

(* start: a poke while the scheduler runs or within a second of its run    *)
(* sets a timer "to avoid a stalled run queue": every poke is followed by  *)
(* a run of the scheduler.                                                 *)
PokeLeadsToRun == wanted ~> ~wanted

=============================================================================
