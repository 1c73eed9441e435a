----------------------------- MODULE Autoservice -----------------------------
(***************************************************************************)
(* asterisk-1.4/main/autoservice.c: one background thread reads the        *)
(* channels whose owners are busy elsewhere.  ast_autoservice_start puts a *)
(* channel on aslist, ast_autoservice_stop takes it off and must not       *)
(* return before the thread has dropped its copy of the list, because the  *)
(* entry is freed and the channel may be destroyed next.                   *)
(*                                                                         *)
(* Every critical section of the list lock is one step; what a call does   *)
(* between two sections is a step of its own.  as_chan_list_state is only  *)
(* ever compared with a value saved earlier, so each waiting stop keeps a  *)
(* bit, rebuilt, that says the two differ.                                 *)
(***************************************************************************)
EXTENDS Naturals, FiniteSets, Sequences, Functions

CONSTANTS Threads,      \* the callers: pbx threads, each with its channels
          Channels,
          Users,        \* [Channels -> SUBSET Threads]: who uses which channel
          Framed,       \* the channels on which frames arrive
          Flagged,      \* the channels whose owner may have set END_DTMF_ONLY
          Ents,         \* the memory struct asent comes from
          None,
          MaxUse,       \* bound: starts of a thread not yet stopped
          MaxFrames,    \* bound: frames a channel sees, a hangup apart
          MaxAutomons,  \* MAX_AUTOMONS
          Faults        \* \subseteq {"calloc", "thread", "spurious", "busy"}

ASSUME AutoserviceAssumption ==
    /\ Users \in [Channels -> SUBSET Threads]
    /\ None \notin Threads \cup Channels \cup Ents
    /\ MaxUse \in Nat /\ MaxFrames \in Nat /\ MaxAutomons \in Nat

VARIABLES aslist,   \* the entries in service, newest first
          ent,      \* [Ents -> record]: the memory of each struct asent
          as,       \* the autoservice thread: pc, its array, chan and frame
          call,     \* [Threads -> record]: the call a caller is in
          rebuilt,  \* [Threads -> BOOLEAN]: list state differs from the saved
          uses,     \* [Threads -> [Channels -> Nat]]: starts not yet stopped
          chan,     \* [Channels -> record]: the channel
          came, got \* frames a channel has seen / its owner has been given

vars == <<aslist, ent, as, call, rebuilt, uses, chan, came, got>>

-----------------------------------------------------------------------------
(* Data.  A frame is its position in came[c], which holds its kind; only   *)
(* the kinds autoservice tells apart are kept.  A hangup frame and the     *)
(* end-of-Q marker are one kind: both read as NULL, and behind either no   *)
(* other frame is queued.                                                  *)

Kinds == {"voice", "text", "control", "hangup"}

\* ast_is_deferrable_frame; a hangup is read as NULL and deferred as a frame.
Deferrable(k) == k # "voice"

Freed == [st |-> "free", chan |-> None, use |-> 0, orig |-> FALSE,
          ignore |-> FALSE, deferred |-> <<>>]

Idle == [pc |-> "idle", chan |-> None, ent |-> None, locked |-> FALSE]

\* mons[] and ents[] as one function: the entry a monitored channel is found at.
NoMons == [c \in Channels |-> None]

NoLoop == [pc |-> "none", mon |-> NoMons, chan |-> None, frame |-> 0]

NewChan(flag) == [alive |-> TRUE, softhangup |-> FALSE, readq |-> <<>>,
                  enddtmf |-> flag, was |-> flag]

Listed == {aslist[i] : i \in DOMAIN aslist}

\* The entry a traversal of aslist stops at for channel c, None if there is none.
FindEnt(c) ==
    LET I == {i \in DOMAIN aslist : ent[aslist[i]].chan = c}
    IN  IF I = {} THEN None ELSE aslist[CHOOSE i \in I : \A j \in I : i <= j]

\* AST_LIST_REMOVE of an entry that is on the list.
Without(s, e) ==
    LET k == CHOOSE i \in DOMAIN s : s[i] = e
    IN  [i \in 1..(Len(s) - 1) |-> IF i < k THEN s[i] ELSE s[i + 1]]

LockedBy(c) == {t \in Threads : call[t].locked /\ call[t].chan = c}

-----------------------------------------------------------------------------
Init ==
    /\ aslist = <<>>
    /\ ent = [e \in Ents |-> Freed]
    /\ as = NoLoop
    /\ call = [t \in Threads |-> Idle]
    /\ rebuilt = [t \in Threads |-> FALSE]
    /\ uses = [t \in Threads |-> [c \in Channels |-> 0]]
    /\ \E F \in SUBSET Flagged : chan = [c \in Channels |-> NewChan(c \in F)]
    /\ came = [c \in Channels |-> <<>>]
    /\ got = [c \in Channels |-> <<>>]

(* ------------------------- ast_autoservice_start ----------------------- *)

Starts(t) == FoldFunction(+, 0, uses[t])

\* First section: count one more use of an entry that exists already.
StartLookup(t, c) ==
    /\ call[t].pc = "idle" /\ t \in Users[c]
    /\ chan[c].alive /\ LockedBy(c) = {}
    /\ Starts(t) < MaxUse
    /\ LET e == FindEnt(c) IN
       IF e # None
       THEN /\ ent' = [ent EXCEPT ![e].use = @ + 1]
            /\ uses' = [uses EXCEPT ![t][c] = @ + 1]
            /\ UNCHANGED call
       ELSE /\ call' = [call EXCEPT ![t] = [Idle EXCEPT !.pc = "new", !.chan = c]]
            /\ UNCHANGED <<ent, uses>>
    /\ UNCHANGED <<aslist, as, rebuilt, chan, came, got>>

\* ast_calloc, then END_DTMF_ONLY is read and set under the channel lock.
StartAlloc(t) ==
    /\ call[t].pc = "new"
    /\ \E e \in Ents : ent[e].st = "free"
    /\ LET c == call[t].chan
           e == CHOOSE e \in Ents : ent[e].st = "free"   \* whichever malloc has
       IN
       /\ ent' = [ent EXCEPT ![e] = [Freed EXCEPT !.st = "used", !.chan = c,
                                     !.use = 1, !.orig = chan[c].enddtmf]]
       /\ chan' = [chan EXCEPT ![c].enddtmf = TRUE]
       /\ call' = [call EXCEPT ![t].pc = "insert", ![t].ent = e]
    /\ UNCHANGED <<aslist, as, rebuilt, uses, came, got>>

\* ast_calloc fails: -1.
StartNoMemory(t) ==
    /\ call[t].pc = "new"
    /\ "calloc" \in Faults \/ \A e \in Ents : ent[e].st # "free"
    /\ call' = [call EXCEPT ![t] = Idle]
    /\ UNCHANGED <<aslist, ent, as, rebuilt, uses, chan, came, got>>

\* Slip: the waiting thread is not signalled.
Signal_not(pc) == IF pc = "none" THEN "top" ELSE pc
\* The thread after an insertion: created, signalled if it may wait for a first
\* entry, or left alone.
Signal(pc) == CASE pc = "none" -> "top"
                [] pc = "cond" /\ aslist = <<>> -> "woken"
                [] OTHER -> pc

\* Second section: wake the thread if it may be waiting for a first entry,
\* insert, and create the thread if there is none.
StartInsert(t) ==
    /\ call[t].pc = "insert"
    /\ aslist' = <<call[t].ent>> \o aslist
    /\ as' = [as EXCEPT !.pc = Signal(as.pc)]
    /\ uses' = [uses EXCEPT ![t][call[t].chan] = @ + 1]
    /\ call' = [call EXCEPT ![t] = Idle]
    /\ UNCHANGED <<ent, rebuilt, chan, came, got>>

\* The list after an insertion that is taken back.
Undo(e) == Without(<<e>> \o aslist, e)
\* The thread cannot be created: the entry goes again, the channel's flag stays.
StartNoThread(t) ==
    /\ "thread" \in Faults
    /\ call[t].pc = "insert" /\ as.pc = "none"
    /\ aslist' = Undo(call[t].ent)
    /\ ent' = [ent EXCEPT ![call[t].ent] = Freed]
    /\ call' = [call EXCEPT ![t] = Idle]
    /\ UNCHANGED <<as, rebuilt, uses, chan, came, got>>

(* -------------------------- ast_autoservice_stop ----------------------- *)

\* Slip: use_count is not looked at.
LastUse_any(e) == e # None

\* An entry that this stop is the last of.
LastUse(e) == e # None /\ ent[e].use <= 1

\* The section: save the list state, drop one use, unlink at the last one.
\* Without an entry to free the call is over; ast_hangup (locked) goes on to
\* destroy the channel.
StopSection(t, c, locked) ==
    LET e == FindEnt(c)
        last == LastUse(e)
    IN  /\ ent' = IF e = None THEN ent ELSE [ent EXCEPT ![e].use = @ - 1]
        /\ aslist' = IF last THEN Without(aslist, e) ELSE aslist
        /\ rebuilt' = [rebuilt EXCEPT ![t] = FALSE]
        /\ uses' = IF uses[t][c] > 0 THEN [uses EXCEPT ![t][c] = @ - 1] ELSE uses
        /\ call' = [call EXCEPT ![t] =
              [pc |-> IF last THEN "wait" ELSE IF locked THEN "destroy" ELSE "idle",
               chan |-> IF last \/ locked THEN c ELSE None,
               ent |-> IF last THEN e ELSE None,
               locked |-> locked]]

Stop(t, c) ==
    /\ call[t].pc = "idle" /\ uses[t][c] > 0
    /\ StopSection(t, c, FALSE)
    /\ UNCHANGED <<as, chan, came, got>>

\* A list that was built by inserting at its head, in the order of insertion.
OldestFirst(d) == [i \in 1..Len(d) |-> d[Len(d) + 1 - i]]

\* The frames ast_autoservice_stop puts back: deferred_frames is newest first
\* and each frame goes to the head of the readq, unless its type is ignored.
Requeue(d, q, c, ignore) ==
    OldestFirst(SelectSeq(d, LAMBDA f : ~(ignore /\ came[c][f] = "text"))) \o q

\* Slip: the stop does not wait for the list to be rebuilt.
Rebuilt_now(t) == TRUE
\* as_chan_list_state is no longer the one saved in the section.
Rebuilt(t) == rebuilt[t]

\* Slip: END_DTMF_ONLY is cleared whoever set it.
RestoreFlag_clear(flag, orig) == FALSE
RestoreFlag(flag, orig) == IF orig THEN flag ELSE FALSE

\* The list has been rebuilt: restore the flag, requeue the frames, free.
StopFinish(t) ==
    LET e == call[t].ent
        c == call[t].chan
    IN  /\ call[t].pc = "wait" /\ Rebuilt(t)
        /\ chan' = [chan EXCEPT
              ![c].enddtmf = RestoreFlag(@, ent[e].orig),
              ![c].readq = Requeue(ent[e].deferred, @, c, ent[e].ignore)]
        /\ ent' = [ent EXCEPT ![e] = Freed]
        /\ call' = [call EXCEPT ![t] =
              IF @.locked THEN [@ EXCEPT !.pc = "destroy", !.ent = None] ELSE Idle]
        /\ rebuilt' = [rebuilt EXCEPT ![t] = FALSE]
        /\ UNCHANGED <<aslist, as, uses, came, got>>

\* ast_autoservice_ignore(chan, AST_FRAME_TEXT)
Ignore(t, c) ==
    /\ call[t].pc = "idle" /\ uses[t][c] > 0 /\ FindEnt(c) # None
    /\ ent' = [ent EXCEPT ![FindEnt(c)].ignore = TRUE]
    /\ UNCHANGED <<aslist, as, call, rebuilt, uses, chan, came, got>>

(* ---------------------------- autoservice_run -------------------------- *)

\* The traversal that fills mons[] and ents[]: channels not hung up, the first
\* MaxAutomons of them.  With nothing to watch the thread sleeps 10 ms.
Collect ==
    LET live == {i \in DOMAIN aslist : ~chan[ent[aslist[i]].chan].softhangup}
        taken == {i \in live : Cardinality({j \in live : j < i}) < MaxAutomons}
        mon == [c \in Channels |->
                  IF \E i \in taken : aslist[i] = FindEnt(c) THEN FindEnt(c) ELSE None]
    IN  as' = [NoLoop EXCEPT !.pc = IF mon = NoMons THEN "top" ELSE "waitfor",
                             !.mon = mon]

\* Top of the loop: the list state moves on, and every stop that waits sees it.
AsTop ==
    /\ as.pc = "top"
    /\ rebuilt' = [t \in Threads |-> call[t].pc = "wait"]
    /\ IF aslist = <<>> THEN as' = [NoLoop EXCEPT !.pc = "cond"] ELSE Collect
    /\ UNCHANGED <<aslist, ent, call, uses, chan, came, got>>

\* ast_cond_wait returns: signalled, or (POSIX allows it) not.
AsWake ==
    /\ as.pc = "woken" /\ Collect
    /\ UNCHANGED <<aslist, ent, call, rebuilt, uses, chan, came, got>>

AsSpurious ==
    /\ "spurious" \in Faults /\ as.pc = "cond" /\ Collect
    /\ UNCHANGED <<aslist, ent, call, rebuilt, uses, chan, came, got>>

Monitored == {c \in Channels : as.mon[c] # None}

\* ast_waitfor_n: takes and drops the lock of every channel, polls, and returns
\* one that can be read, or none after 50 ms or at SIGURG.
AsWaitfor ==
    /\ as.pc = "waitfor"
    /\ \A c \in Monitored : LockedBy(c) = {}
    /\ \/ \E c \in Monitored : /\ chan[c].readq # <<>>
                               /\ as' = [as EXCEPT !.pc = "read", !.chan = c]
       \/ as' = [NoLoop EXCEPT !.pc = "top"]
    /\ UNCHANGED <<aslist, ent, call, rebuilt, uses, chan, came, got>>

\* The last frame on the readq is a hangup or the end-of-Q marker.
Ended(c) == chan[c].readq # <<>> /\ came[c][chan[c].readq[Len(chan[c].readq)]] = "hangup"

\* __ast_read takes the first frame off the readq of c; once the channel is hung up
\* it first marks the end of the queue.
MarksEnd(c) == chan[c].softhangup /\ ~Ended(c)
Marked(c) == IF MarksEnd(c) THEN Append(came[c], "hangup") ELSE came[c]
TakeFrame(c) ==
    chan' = [chan EXCEPT
        ![c].readq = Tail(IF MarksEnd(c) THEN Append(@, Len(came[c]) + 1) ELSE @),
        ![c].softhangup = @ \/ came[c][Head(chan[c].readq)] = "hangup"]

\* ast_read: gives up with a null frame when the channel stays locked; a frame
\* that is not deferrable is freed.
AsRead ==
    LET c == as.chan
        f == Head(chan[c].readq)
    IN  /\ as.pc = "read"
        /\ IF LockedBy(c) # {} \/ chan[c].readq = <<>>
           THEN as' = [NoLoop EXCEPT !.pc = "top"] /\ UNCHANGED <<chan, came>>
           ELSE /\ TakeFrame(c) /\ came' = [came EXCEPT ![c] = Marked(c)]
                /\ as' = IF Deferrable(came[c][f])
                         THEN [as EXCEPT !.pc = "defer", !.frame = f]
                         ELSE [NoLoop EXCEPT !.pc = "top"]
        /\ UNCHANGED <<aslist, ent, call, rebuilt, uses, got>>

\* Slip: the frame goes to the tail.
InsertHead_tail(f, d) == Append(d, f)
InsertHead(f, d) == <<f>> \o d
\* The frame goes to the head of the deferred frames of the channel's entry.
AsDefer ==
    /\ as.pc = "defer"
    /\ ent' = [ent EXCEPT ![as.mon[as.chan]].deferred = InsertHead(as.frame, @)]
    /\ as' = [NoLoop EXCEPT !.pc = "top"]
    /\ UNCHANGED <<aslist, call, rebuilt, uses, chan, came, got>>

(* ------------------------------- channels ------------------------------ *)

\* Nobody is inside a call about c, nor counts on its being served.
AtRest(c) ==
    /\ \A t \in Threads : uses[t][c] = 0
    /\ \A t \in Threads : call[t].chan # c

\* __ast_queue_frame at the tail: behind a hangup or the end-of-Q marker nothing is
\* queued, and a hangup takes the place of the marker.
Arrive(c, k) ==
    /\ chan[c].alive /\ c \in Framed /\ LockedBy(c) = {}
    /\ Len(came[c]) < MaxFrames \/ (k = "hangup" /\ Len(came[c]) = MaxFrames)
    /\ ~Ended(c)
    /\ came' = [came EXCEPT ![c] = Append(@, k)]
    /\ chan' = [chan EXCEPT ![c].readq = Append(@, Len(came[c]) + 1)]
    /\ UNCHANGED <<aslist, ent, as, call, rebuilt, uses, got>>

\* The first section of ast_queue_hangup, which queues the frame only after it and
\* also when the trylock has failed; and ast_softhangup.
SoftHangup(c) ==
    /\ chan[c].alive /\ c \in Framed /\ LockedBy(c) = {} /\ ~chan[c].softhangup
    /\ chan' = [chan EXCEPT ![c].softhangup = TRUE]
    /\ UNCHANGED <<aslist, ent, as, call, rebuilt, uses, came, got>>

\* ast_read by the owner, who reads only a channel it has not left to autoservice.
\* came and got start anew when everything has been read.
OwnerRead(t, c) ==
    /\ call[t].pc = "idle" /\ t \in Users[c] /\ chan[c].alive
    /\ AtRest(c) /\ chan[c].readq # <<>>
    /\ TakeFrame(c)
    /\ LET all == chan'[c].readq = <<>>
       IN  /\ came' = [came EXCEPT ![c] = IF all THEN <<>> ELSE Marked(c)]
           /\ got' = [got EXCEPT ![c] = IF all THEN <<>> ELSE Append(@, Head(chan[c].readq))]
    /\ UNCHANGED <<aslist, ent, as, call, rebuilt, uses>>

\* ast_hangup: locks the channel and calls ast_autoservice_stop on it.
Hangup(t, c) ==
    /\ call[t].pc = "idle" /\ t \in Users[c] /\ chan[c].alive
    /\ \A u \in Threads : call[u].chan # c
    /\ \A u \in Threads \ {t} : uses[u][c] = 0
    /\ "busy" \in Faults \/ uses[t][c] = 0
    /\ StopSection(t, c, TRUE)
    /\ UNCHANGED <<as, chan, came, got>>

\* ... and ast_channel_free destroys it, frames and all.
Destroy(t) ==
    LET c == call[t].chan
    IN  /\ call[t].pc = "destroy"
        /\ chan' = [chan EXCEPT ![c] = [NewChan(FALSE) EXCEPT !.alive = FALSE]]
        /\ came' = [came EXCEPT ![c] = <<>>]
        /\ got' = [got EXCEPT ![c] = <<>>]
        /\ call' = [call EXCEPT ![t] = Idle]
        /\ UNCHANGED <<aslist, ent, as, rebuilt, uses>>

\* ast_channel_alloc: the memory serves a new call.
Allocate(c) ==
    /\ ~chan[c].alive
    /\ \E F \in SUBSET Flagged : chan' = [chan EXCEPT ![c] = NewChan(c \in F)]
    /\ UNCHANGED <<aslist, ent, as, call, rebuilt, uses, came, got>>

-----------------------------------------------------------------------------
AutoserviceThread == AsTop \/ AsWake \/ AsWaitfor \/ AsRead \/ AsDefer

\* What a caller does once it is inside a call.
Inside(t) ==
    \/ StartAlloc(t) \/ StartNoMemory(t) \/ StartInsert(t) \/ StartNoThread(t)
    \/ StopFinish(t) \/ Destroy(t)

Caller(t) ==
    \/ Inside(t)
    \/ \E c \in Channels : \/ StartLookup(t, c) \/ Stop(t, c) \/ Ignore(t, c)
                          \/ OwnerRead(t, c) \/ Hangup(t, c)

Next ==
    \/ AutoserviceThread \/ AsSpurious
    \/ \E t \in Threads : Caller(t)
    \/ \E c \in Channels : Allocate(c) \/ SoftHangup(c) \/ \E k \in Kinds : Arrive(c, k)

Spec == Init /\ [][Next]_vars

\* The scheduler lets the thread and every caller inside a call go on.
FairSpec ==
    /\ Spec
    /\ WF_vars(AutoserviceThread)
    /\ \A t \in Threads : WF_vars(Inside(t))

-----------------------------------------------------------------------------
(* Properties.                                                             *)

TypeOK ==
    /\ aslist \in Seq(Ents)
    /\ ent \in [Ents -> [st : {"free", "used"}, chan : Channels \cup {None},
                         use : Nat, orig : BOOLEAN, ignore : BOOLEAN,
                         deferred : Seq(Nat)]]
    /\ as \in [pc : {"none", "top", "cond", "woken", "waitfor", "read", "defer"},
               mon : [Channels -> Ents \cup {None}],
               chan : Channels \cup {None}, frame : Nat]
    /\ call \in [Threads -> [pc : {"idle", "new", "insert", "wait", "destroy"},
                             chan : Channels \cup {None},
                             ent : Ents \cup {None}, locked : BOOLEAN]]
    /\ rebuilt \in [Threads -> BOOLEAN]
    /\ uses \in [Threads -> [Channels -> Nat]]
    /\ chan \in [Channels -> [alive : BOOLEAN, softhangup : BOOLEAN,
                              readq : Seq(Nat), enddtmf : BOOLEAN, was : BOOLEAN]]
    /\ came \in [Channels -> Seq(Kinds)]
    /\ got \in [Channels -> Seq(Nat)]

\* What the thread still points to in mons[] and ents[].
Held == IF as.pc \in {"waitfor", "read", "defer"} THEN Monitored ELSE {}

\* "Now autoservice thread should have no references to our entry and we can
\* safely destroy it": between two rebuilds of its list the thread never holds
\* an entry that ast_autoservice_stop has freed, nor a channel that was
\* destroyed after the stop returned.
NoStaleReference ==
    \A c \in Held : ent[as.mon[c]].st = "used" /\ ent[as.mon[c]].chan = c /\ chan[c].alive

\* The uses counted on the list for channel c, and the starts that have returned
\* and are not yet stopped.
Counted(c) == UNION {{e} \X (1..ent[e].use) : e \in {e \in Listed : ent[e].chan = c}}
Started(c) == UNION {{t} \X (1..uses[t][c]) : t \in Threads}

\* use_count "will ensure that it doesn't actually get stopped until it gets
\* stopped for the last time": the uses counted on the list for a channel are
\* the starts that have returned and are not yet stopped, whoever made them.
UsesBalanced == \A c \in Channels : Cardinality(Counted(c)) = Cardinality(Started(c))

\* "There will only be a single member in the list at this point": as long as
\* no autoservice thread exists, no channel is on the list to wait for it.
NoThreadNoEntry == as.pc = "none" => aslist = <<>>

\* A channel with one user, whose calls are therefore one after the other.
Private == {c \in Channels : \A t, u \in Users[c] : t = u}

\* "we'll end up with them in the right order for the channel's readq": what
\* the owner has read, what the entry holds, what the thread has in hand and
\* what is queued are, in that order, the control and hangup frames the channel
\* has seen, none lost and none twice, whatever the thread and the owner do.
FramesKept ==
    \A c \in Private :
       LET mine == {e \in Ents : ent[e].st = "used" /\ ent[e].chan = c}
           d == IF mine = {} THEN <<>> ELSE ent[CHOOSE e \in mine : TRUE].deferred
           hand == IF as.pc = "defer" /\ as.chan = c THEN <<as.frame>> ELSE <<>>
           all == got[c] \o OldestFirst(d) \o hand \o chan[c].readq
           Kept(f) == came[c][f] \in {"control", "hangup"}
       IN  chan[c].alive =>
             SelectSeq(all, Kept) = SelectSeq([i \in DOMAIN came[c] |-> i], Kept)

\* END_DTMF_ONLY is on while a private channel is served, and a flag its owner
\* had set is never taken away by the stop.
FlagKept ==
    \A c \in Private : chan[c].alive /\ (chan[c].was \/ FindEnt(c) # None)
                        => chan[c].enddtmf

\* ast_autoservice_stop returns: the thread always comes round to rebuild its
\* list, also when it was waiting on as_cond, so that no caller spins forever.
StopReturns == \A t \in Threads : call[t].pc = "wait" ~> call[t].pc # "wait"

=============================================================================
