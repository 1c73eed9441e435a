------------------------------- MODULE FaxSend -------------------------------
(***************************************************************************)
(* One job between faxq and faxsend, seen through its queue file.          *)
(*                                                                         *)
(* faxq prepares the documents and starts a faxsend process; faxsend reads *)
(* the queue file, dials, sends page after page and writes the file after  *)
(* every page, after every document and at its end; faxq reads the result  *)
(* from the file when the process has gone.  Either process may die at any *)
(* point, and a faxq that is started again knows only what is on the disk, *)
(* while the faxsend of its predecessor may still be running.              *)
(*                                                                         *)
(* flock on the queue file makes every access of faxq one step; faxsend    *)
(* holds the lock from reading the file to its end.                        *)
(***************************************************************************)
EXTENDS Naturals, Sequences, FiniteSetsExt

CONSTANTS Docs,       \* Seq(Nat \ {0}): the pages of each document
          Procs,      \* slots for faxsend processes
          MaxDials, MaxTries,   \* the job's limits
          MaxCalls,   \* bound: calls of faxsend that are looked at
          Mishaps,    \* what may happen once each, see Mishap below
          MaxMishaps  \* bound: mishaps of one behaviour

ASSUME FaxSendAssumption ==
    /\ Docs \in Seq(Nat \ {0})
    /\ {"none", "free"} \cap Procs = {}
    /\ MaxDials \in Nat /\ MaxTries \in Nat /\ MaxCalls \in Nat /\ MaxMishaps \in Nat

VARIABLES qf,        \* the queue file
          lock,      \* who holds the flock: a faxsend or "free"
          fq,        \* faxq: where the job stands, and its faxsend
          fs,        \* [Procs -> record]: the faxsend processes
          confirmed, \* [AllPages -> Nat]: confirmations by the remote fax
          told,      \* the final notices sent to the owner
          calls,     \* processes started
          mishaps    \* the mishaps so far

vars == <<qf, lock, fq, fs, confirmed, told, calls, mishaps>>

AllPages == UNION {{<<d, p>> : p \in 0..(Docs[d] - 1)} : d \in DOMAIN Docs}

\* Something that need not happen happens, for the first time.
Mishap(k) ==
    /\ k \in Mishaps \ mishaps /\ Cardinality(mishaps) < MaxMishaps
    /\ mishaps' = mishaps \cup {k}

-----------------------------------------------------------------------------
(* The request: an item is a source document, one saved after conversion,  *)
(* or a converted one with the page to go on with (dirnum).                *)

Item(op, d) == [op |-> op, doc |-> d, dirnum |-> 0]

NewRequest ==
    [dir |-> "sendq", status |-> "nobatch",
     items |-> [d \in DOMAIN Docs |-> Item("source", d)],
     npages |-> 0, ntries |-> 0, totdials |-> 0, tottries |-> 0, pph |-> 0]

\* findItem(send_fax): the first one, 0 if there is none.
FindFax(items) ==
    LET I == {i \in DOMAIN items : items[i].op = "fax"}
    IN  IF I = {} THEN 0 ELSE Min(I)

PagesLeft(items) ==
    MapThenSumSet(LAMBDA i : Docs[items[i].doc] - items[i].dirnum,
                  {i \in DOMAIN items : items[i].op = "fax"})

\* Two helpers of SequencesExt.  That module is not extended: everything in it and
\* in Bags would be in the context of every obligation of the proofs.
FlattenSeq(ss) ==
    LET upTo[i \in 1..Len(ss)] == IF i = 1 THEN ss[i] ELSE upTo[i - 1] \o ss[i]
    IN  IF ss = <<>> THEN <<>> ELSE upTo[Len(ss)]
RemoveAt(s, i) == SubSeq(s, 1, i - 1) \o SubSeq(s, i + 1, Len(s))

\* The items after conversion: a source is saved, its imaged form inserted behind it.
Imaged(items) ==
    FlattenSeq([i \in DOMAIN items |->
                   IF items[i].op = "source"
                   THEN <<Item("saved", items[i].doc), Item("fax", items[i].doc)>>
                   ELSE <<items[i]>>])

\* prepareJob: page handling is worked out when there is none.
Converted(r) ==
    [r EXCEPT !.items = Imaged(r.items),
              !.pph = IF r.pph = 0 THEN PagesLeft(Imaged(r.items)) ELSE r.pph]

\* The items without the imaged forms, and these as sources again.
NotImaged(items) ==
    FlattenSeq([i \in DOMAIN items |-> IF items[i].op = "fax" THEN <<>> ELSE <<items[i]>>])
Sources(items) ==
    LET kept == NotImaged(items)
    IN  [i \in DOMAIN kept |-> Item("source", kept[i].doc)]

\* Slip: the page handling of the old format is kept.
Unformatted_pph(r) == [r EXCEPT !.items = Sources(r.items), !.status = "retry"]

\* sendJobDone after send_reformat: imaged forms go, every source is converted anew.
Unformatted(r) == [r EXCEPT !.items = Sources(r.items), !.pph = 0, !.status = "retry"]

-----------------------------------------------------------------------------
NoProc == [pc |-> "none", req |-> NewRequest, prev |-> 0, dosetup |-> FALSE,
           abort |-> FALSE, exit |-> "none"]

Init ==
    /\ qf = NewRequest
    /\ lock = "free"
    /\ fq = [pc |-> "ready", proc |-> "none", why |-> "none"]
    /\ fs = [p \in Procs |-> NoProc]
    /\ confirmed = [x \in AllPages |-> 0]
    /\ told = <<>>
    /\ calls = 0
    /\ mishaps = {}

(* --------------------------------- faxq -------------------------------- *)

\* faxq goes on with the job at pc.
Go(pc) == [pc |-> pc, proc |-> "none", why |-> "none"]

\* Slip: the file stays in sendq.
DeleteRequest_stay(r, why) ==
    /\ qf' = [r EXCEPT !.items = NotImaged(r.items)]
    /\ fq' = [Go("notify") EXCEPT !.why = why]

\* deleteRequest: the file, without imaged documents, is written in doneq ...
DeleteRequest(r, why) ==
    /\ qf' = [r EXCEPT !.dir = "doneq", !.items = NotImaged(r.items)]
    /\ fq' = [Go("notify") EXCEPT !.why = why]

\* ... and the owner is told.
NotifySender ==
    /\ fq.pc = "notify"
    /\ told' = Append(told, fq.why)
    /\ fq' = Go("idle")
    /\ UNCHANGED <<qf, lock, fs, confirmed, calls, mishaps>>

\* Slip: only the dials are looked at.
Refused_dials(r) == r.totdials >= MaxDials

\* isJobSendOK: one of the limits has been reached.
Refused(r) == r.totdials >= MaxDials \/ r.tottries >= MaxTries

\* isJobSendOK, then processJob: the status on the disk is cleared, documents to
\* convert go to the preparation subprocess.
Process ==
    /\ fq.pc = "ready" /\ lock = "free"
    /\ \/ Refused(qf) /\ DeleteRequest([qf EXCEPT !.status = "failed"], "failed")
       \/ /\ ~Refused(qf)
          /\ qf' = [qf EXCEPT !.status = "nobatch"]
          /\ fq' = Go(IF \E i \in DOMAIN qf.items : qf.items[i].op = "source"
                      THEN "prepare" ELSE "send")
    /\ UNCHANGED <<lock, fs, confirmed, told, calls, mishaps>>

\* prepareJob and prepareDone; a document that cannot be converted ends the job.
Prepare ==
    /\ fq.pc = "prepare"
    /\ \/ /\ qf' = Converted(qf)
          /\ fq' = Go("send")
          /\ UNCHANGED mishaps
       \/ Mishap("convert") /\ DeleteRequest(qf, "failed")
    /\ UNCHANGED <<lock, fs, confirmed, told, calls>>

\* Slip: the job is on no queue.
Requeued_lost == Go("idle")

\* delayJob or setReadyToRun: the job will be processed again.
Requeued == Go("ready")

\* sendStart: fork and exec faxsend; sendDone(batch, send_retry) without a fork.
SendStart ==
    /\ fq.pc = "send" /\ calls < MaxCalls
    /\ \/ \E p \in Procs :
             /\ fs[p].pc = "none"
             /\ fs' = [fs EXCEPT ![p] = [NoProc EXCEPT !.pc = "exec"]]
             /\ fq' = [Go("sending") EXCEPT !.proc = p]
             /\ calls' = calls + 1
             /\ UNCHANGED mishaps
       \/ /\ Mishap("fork")
          /\ fq' = Requeued
          /\ UNCHANGED <<fs, calls>>
    /\ UNCHANGED <<qf, lock, confirmed, told>>

\* sendDone: the result is the status in the file, or the exit status where
\* faxsend has left the file alone.
Result(r, exit) ==
    IF r.status # "nobatch" THEN r.status
    ELSE IF exit = "signal" THEN "failed" ELSE exit

\* sendDone and sendJobDone when the process is gone.
SendDone ==
    /\ fq.pc = "sending" /\ fs[fq.proc].pc = "exited" /\ lock = "free"
    /\ LET st == Result(qf, fs[fq.proc].exit) IN
       \/ st = "reformat" /\ qf' = Unformatted(qf) /\ fq' = Requeued
       \/ st = "retry" /\ qf' = [qf EXCEPT !.status = st] /\ fq' = Requeued
       \/ st = "failed" /\ DeleteRequest([qf EXCEPT !.status = st], "failed")
       \/ st = "done" /\ DeleteRequest(qf, "done")
    /\ fs' = [fs EXCEPT ![fq.proc] = NoProc]
    /\ UNCHANGED <<lock, confirmed, told, calls, mishaps>>

\* faxq dies; only the files and the processes it has started remain.
FaxqCrash ==
    /\ fq.pc # "down"
    /\ Mishap(IF fq.pc = "notify" THEN "faxq_notify" ELSE "faxq")
    /\ fq' = Go("down")
    /\ fs' = [p \in Procs |-> IF fs[p].pc = "exited" THEN NoProc ELSE fs[p]]
    /\ UNCHANGED <<qf, lock, confirmed, told, calls>>

\* scanQueueDirectory and submitJob of a new faxq; flock(LOCK_SH) waits.
FaxqRestart ==
    /\ fq.pc = "down" /\ (qf.dir = "sendq" => lock = "free")
    /\ fq' = Go(IF qf.dir = "sendq" THEN "ready" ELSE "idle")
    /\ UNCHANGED <<qf, lock, fs, confirmed, told, calls, mishaps>>

(* ------------------------------- faxsend ------------------------------- *)

\* Process p is gone, its lock with it; only the faxq that started it hears of it.
Exit(p, code) ==
    /\ fs' = [fs EXCEPT ![p] = IF fq.proc = p
                               THEN [NoProc EXCEPT !.pc = "exited", !.exit = code]
                               ELSE NoProc]
    /\ lock' = IF lock = p THEN "free" ELSE lock

\* writeQFile of process p's request r.
Write(r) == qf' = [r EXCEPT !.dir = qf.dir]

\* Up to the open of the queue file, which is no longer in sendq once the job
\* has ended; without a modem the file is left alone.
Open(p) ==
    /\ fs[p].pc = "exec"
    /\ \/ /\ qf.dir = "sendq"
          /\ fs' = [fs EXCEPT ![p].pc = "opened"]
          /\ UNCHANGED <<lock, mishaps>>
       \/ qf.dir # "sendq" /\ Exit(p, "failed") /\ UNCHANGED mishaps
       \/ Mishap("modem") /\ Exit(p, "retry")
    /\ UNCHANGED <<qf, fq, confirmed, told, calls>>

\* flock(LOCK_EX), readQFile.
Read(p) ==
    /\ fs[p].pc = "opened" /\ lock = "free"
    /\ lock' = p
    /\ fs' = [fs EXCEPT ![p].pc = "dial", ![p].req = qf]
    /\ UNCHANGED <<qf, fq, confirmed, told, calls, mishaps>>

\* The memory of p moves to pc with request r, nothing else changes.
Step(p, pc, r) ==
    /\ fs' = [fs EXCEPT ![p].pc = pc, ![p].req = r]
    /\ UNCHANGED <<qf, lock, fq, confirmed, told, calls>>

\* A call that was not answered by a fax machine: busy, no answer, no carrier ...
CallFailed(r, st) == [r EXCEPT !.status = st, !.totdials = @ + 1]

\* sendFax up to the answered call.  An aborted call counts nowhere.
Dial(p) ==
    LET r == fs[p].req IN
    /\ fs[p].pc = "dial"
    /\ \/ /\ ~fs[p].abort
          /\ \E st \in {"retry", "failed"} : Step(p, "end", CallFailed(r, st))
       \/ /\ ~fs[p].abort
          /\ Step(p, "prologue", [r EXCEPT !.tottries = @ + 1, !.totdials = @ + 1])
       \/ fs[p].abort /\ Step(p, "end", r)
    /\ UNCHANGED mishaps

\* getPrologue and sendClientCapabilitiesOK, before the first document.
Prologue(p) ==
    LET r == fs[p].req IN
    /\ fs[p].pc = "prologue" /\ UNCHANGED mishaps
    /\ \/ \E st \in {"retry", "failed"} : Step(p, "end", [r EXCEPT !.status = st])
       \/ /\ fs' = [fs EXCEPT ![p] = [@ EXCEPT !.pc = "doc", !.dosetup = TRUE,
                                       !.req = [r EXCEPT !.status = "failed"]]]
          /\ UNCHANGED <<qf, lock, fq, confirmed, told, calls>>

\* sendFax gives up before it dials: lockModem fails, before the state is SENDING, or
\* the modem cannot be set up for the job.  Neither an abort nor a limit is looked at.
NoModem(p) ==
    /\ fs[p].pc = "dial"
    /\ \E k \in (IF fs[p].abort THEN {"setup"} ELSE {"modemlock", "setup"}) :
          LET st == IF k = "modemlock" THEN "retry" ELSE "failed"
          IN  Mishap(k) /\ Write([fs[p].req EXCEPT !.status = st]) /\ Exit(p, st)
    /\ UNCHANGED <<fq, confirmed, told, calls>>

\* sendFaxPhaseB up to the first page.  A document that cannot be opened, or has
\* no page dirnum, leaves the status as it is, and the status is what says whether
\* it was sent.
Doc(p) ==
    LET r == fs[p].req
        i == FindFax(r.items)
        hasPage == i # 0 /\ r.items[i].dirnum < Docs[r.items[i].doc]
        Setup(st) == [r EXCEPT !.status = st]
    IN  /\ fs[p].pc = "doc"
        /\ \/ i = 0 /\ Step(p, "end", r) /\ UNCHANGED mishaps
           \/ /\ i # 0
              /\ \/ Mishap("vanish")
                 \/ ~hasPage /\ UNCHANGED mishaps
              /\ Step(p, IF r.status = "done" THEN "docsent" ELSE "end", r)
           \/ /\ hasPage /\ fs[p].dosetup
              /\ \/ Step(p, "end", Setup("failed")) /\ UNCHANGED mishaps
                 \/ Step(p, "end", Setup("reformat")) /\ Mishap("reformat")
           \/ /\ hasPage /\ UNCHANGED mishaps
              /\ fs' = [fs EXCEPT ![p] = [@ EXCEPT !.pc = "page", !.prev = r.npages,
                           !.req = IF fs[p].dosetup THEN Setup("done") ELSE r]]
              /\ UNCHANGED <<qf, lock, fq, confirmed, told, calls>>

\* Slips: dirnum stays; dirnum moves one too far.
PhaseBDone_stay(r, prev, st) ==
    IF r.npages = prev
    THEN [r EXCEPT !.ntries = @ + 1, !.status = IF r.ntries + 1 > 2 THEN "failed" ELSE st]
    ELSE [r EXCEPT !.ntries = 0, !.status = st]
PhaseBDone_far(r, prev, st) ==
    IF r.npages = prev
    THEN [r EXCEPT !.ntries = @ + 1, !.status = IF r.ntries + 1 > 2 THEN "failed" ELSE st]
    ELSE [r EXCEPT !.items[FindFax(r.items)].dirnum = @ + (r.npages - prev) + 1,
                   !.ntries = 0, !.status = st]

\* The rest of sendFaxPhaseB once the modem's sendPhaseB has returned st: dirnum
\* moves on by the pages sent, or one more fruitless try is counted.
PhaseBDone(r, prev, st) ==
    IF r.npages = prev
    THEN [r EXCEPT !.ntries = @ + 1, !.status = IF r.ntries + 1 > 2 THEN "failed" ELSE st]
    ELSE [r EXCEPT !.items[FindFax(r.items)].dirnum = @ + (r.npages - prev),
                   !.ntries = 0, !.status = st]

Returned(p, r, st) ==
    LET r1 == PhaseBDone(r, fs[p].prev, st)
    IN  fs' = [fs EXCEPT ![p].pc = IF r1.status = "done" THEN "docsent" ELSE "end",
                         ![p].req = r1]

\* Slip: asked after the directory has moved on.
LastPage_early(d, pg) == pg + 2 >= Docs[d]

\* TIFFLastDirectory.
LastPage(d, pg) == pg + 1 = Docs[d]

\* decodePPM finds an entry for the page.
decodePPM(r) == r.pph > 0

\* sendPhaseB, one page: not confirmed, or confirmed (an RTN that rtnHandling says
\* to ignore counts as one), counted and written to the queue file by notifyPageSent
\* before its page handling is dropped.  EOP is the last entry of the page handling.
Page(p) ==
    LET r == fs[p].req
        i == FindFax(r.items)
        d == r.items[i].doc
        pg == r.items[i].dirnum + (r.npages - fs[p].prev)
        sent == [r EXCEPT !.npages = @ + 1]
        next == [sent EXCEPT !.pph = @ - 1]
        lastPage == LastPage(d, pg)
    IN  /\ fs[p].pc = "page"
        /\ \/ /\ Returned(p, r, "failed")      \* aborted, no page handling, RTN: give up
              /\ UNCHANGED <<qf, confirmed, mishaps>>
           \/ /\ ~fs[p].abort /\ decodePPM(r) /\ Returned(p, r, "retry")
              /\ UNCHANGED <<qf, confirmed, mishaps>>
           \/ /\ ~fs[p].abort /\ decodePPM(r)
              /\ Write(sent)
              /\ confirmed' = [confirmed EXCEPT ![<<d, pg>>] = @ + 1]
              /\ \/ lastPage /\ Returned(p, next, "done") /\ UNCHANGED mishaps
                 \/ /\ ~lastPage /\ UNCHANGED mishaps
                    /\ fs' = [fs EXCEPT ![p].req = next]
                 \/ ~lastPage /\ Mishap("reformat") /\ Returned(p, next, "reformat")
                 \/ r.pph > 1 /\ Mishap("pip") /\ Returned(p, next, "failed")
        /\ UNCHANGED <<lock, fq, told, calls>>

\* notifyDocumentSent: the document leaves the request, on the disk too.
DocSent(p) ==
    LET r == [fs[p].req EXCEPT !.items = RemoveAt(@, FindFax(@))]
    IN  /\ fs[p].pc = "docsent"
        /\ Write(r)
        /\ fs' = [fs EXCEPT ![p] = [@ EXCEPT !.pc = "doc", !.req = r, !.dosetup = FALSE]]
        /\ UNCHANGED <<lock, fq, confirmed, told, calls, mishaps>>

\* Slip: the limits are looked at whatever the outcome.
FinalStatus_any(r, abort) ==
    IF abort THEN "retry"
    ELSE IF r.totdials = MaxDials \/ r.tottries = MaxTries THEN "failed" ELSE r.status

\* The end of sendFax: an abort, then the limits.
FinalStatus(r, abort) ==
    CASE abort -> "retry"
      [] ~abort /\ r.status = "retry"
                /\ (r.totdials = MaxDials \/ r.tottries = MaxTries) -> "failed"
      [] OTHER -> r.status

End(p) ==
    LET st == FinalStatus(fs[p].req, fs[p].abort)
    IN  /\ fs[p].pc = "end"
        /\ Write([fs[p].req EXCEPT !.status = st])
        /\ Exit(p, st)
        /\ UNCHANGED <<fq, confirmed, told, calls, mishaps>>

Running(p) == fs[p].pc \notin {"none", "exited"}

\* faxsend dies where it stands.
FaxsendCrash(p) ==
    /\ Running(p) /\ Mishap("faxsend") /\ Exit(p, "signal")
    /\ UNCHANGED <<qf, fq, confirmed, told, calls>>

\* SIGTERM, sigCleanup: an abort is asked for while the state is SENDING, which it is
\* from some point of "dial" to some point of "end".  Before and after faxsend leaves
\* at once, and what it has in memory is not written ("late" if there was a call).
Abort(p) ==
    /\ \/ /\ fs[p].pc \in {"exec", "opened", "dial"} /\ ~fs[p].abort
          /\ Mishap("abort") /\ Exit(p, "failed")
       \/ /\ Running(p) /\ fs[p].pc \notin {"exec", "opened"}
          /\ Mishap("abort")
          /\ fs' = [fs EXCEPT ![p].abort = TRUE] /\ UNCHANGED lock
       \/ fs[p].pc = "end" /\ Mishap("late") /\ Exit(p, "failed")
    /\ UNCHANGED <<qf, fq, confirmed, told, calls>>

-----------------------------------------------------------------------------
Faxq == Process \/ Prepare \/ SendStart \/ SendDone \/ NotifySender \/ FaxqRestart

Faxsend(p) ==
    \/ Open(p) \/ Read(p) \/ Dial(p) \/ NoModem(p) \/ Prologue(p)
    \/ Doc(p) \/ Page(p) \/ DocSent(p) \/ End(p)

Next ==
    \/ Faxq \/ FaxqCrash
    \/ \E p \in Procs : Faxsend(p) \/ FaxsendCrash(p) \/ Abort(p)

Spec == Init /\ [][Next]_vars

\* The scheduler runs both programs, and a faxq that died is started again.
FairSpec == Spec /\ WF_vars(Faxq) /\ \A p \in Procs : WF_vars(Faxsend(p))

-----------------------------------------------------------------------------
(* Properties.  Each names the mishaps under which it is not promised.     *)

Without(K) == mishaps \cap K = {}

Statuses == {"nobatch", "retry", "failed", "done", "reformat"}

Requests == [dir : {"sendq", "doneq"}, status : Statuses,
             items : Seq([op : {"source", "saved", "fax"}, doc : DOMAIN Docs, dirnum : Nat]),
             npages : Nat, ntries : Nat, totdials : Nat, tottries : Nat, pph : Nat]

TypeOK ==
    /\ qf \in Requests
    /\ lock \in Procs \cup {"free"}
    /\ fq \in [pc : {"ready", "prepare", "send", "sending", "notify", "idle", "down"},
               proc : Procs \cup {"none"}, why : {"none", "done", "failed"}]
    /\ fs \in [Procs -> [pc : {"none", "exec", "opened", "dial", "prologue", "doc", "page",
                              "docsent", "end", "exited"},
                         req : Requests, prev : Nat, dosetup : BOOLEAN, abort : BOOLEAN,
                         exit : Statuses \cup {"none", "signal"}]]
    /\ confirmed \in [AllPages -> Nat]
    /\ told \in Seq({"done", "failed"})
    /\ calls \in Nat /\ mishaps \subseteq Mishaps

AllConfirmed == \A x \in AllPages : confirmed[x] > 0

\* faxsend has left without the write that ends its call.
Unwritten == {"faxsend", "late"}

\* The owner is told "done" only when the remote fax has confirmed every page of
\* every document, however many calls it took, and also when faxq died on the way or
\* SIGTERM ended a call.  It is not promised when the last write is missing.
DoneMeansSent ==
    Without(Unwritten \cup {"vanish"}) /\ "done" \in Range(told) => AllConfirmed

\* The owner of a job that was delivered in full is not told that it failed.
FailedMeansUnsent ==
    Without({"faxq", "abort"}) /\ "failed" \in Range(told) => ~AllConfirmed

\* "if we terminate prematurely we'll only transmit what's left": a page that was
\* confirmed is not sent again by a later call, nor by the faxsend of a new faxq
\* while the old one is still at work.  It is not promised when faxsend has left a
\* call without its last write and faxq has died as well.
SentOnce ==
    Without({"reformat"}) /\ (Without({"faxq"}) \/ Without(Unwritten)) =>
       \A x \in AllPages : confirmed[x] <= 1

\* What the queue file no longer asks for has been confirmed: the pages before
\* dirnum, and every page of a document whose imaged form is gone.  This is what
\* makes a crash of either program at any point lose no page.
DiskNeverAhead ==
    Without({"vanish"}) /\ qf.dir = "sendq" =>
       \A x \in AllPages :
          (\A i \in DOMAIN qf.items :
              qf.items[i].doc = x[1] => \/ qf.items[i].op = "saved"
                                        \/ qf.items[i].op = "fax" /\ x[2] < qf.items[i].dirnum)
          => confirmed[x] > 0

\* The page handling in the file has one entry for each page still to be sent, after
\* every call that has made its last write.
PageHandlingInStep ==
    Without(Unwritten \cup {"vanish"}) /\ lock = "free" /\ fq.pc \in {"send", "sending"}
       => qf.pph = PagesLeft(qf.items)

\* "The maximum number of times the server should dial the phone", and the same
\* for tries: faxq looks at the limits before every call, faxsend counts after
\* it, and between the two there are writes of the file, aborts and crashes of
\* faxsend.
WithinLimits ==
    Without({"faxq"}) => qf.totdials <= MaxDials /\ qf.tottries <= MaxTries

\* The owner is told the outcome once.
ToldOnce == Len(told) <= 1

\* What the comment in sendDone says of a faxsend that was killed: "If something
\* went wrong (like a exec problem, segfault, etc) ... it won't set req->status".
\* notifyPageSent writes the status sendFaxPhaseB works with, which is send_done.
KilledSetsNoStatus ==
    fq.pc = "sending" /\ fs[fq.proc].exit = "signal" => qf.status = "nobatch"

\* The limits end every job: its owner is told in the end.
JobEnds == <>(told # <<>> \/ ~Without({"faxq_notify"}))

=============================================================================
