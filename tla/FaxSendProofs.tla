---------------------------- MODULE FaxSendProofs ----------------------------
(***************************************************************************)
(* Proofs about one job between faxq and faxsend, for any documents, any   *)
(* limits and any number of mishaps: the owner is told once (ToldOnce),    *)
(* the limits are kept (WithinLimits), and which pages a list of items     *)
(* asks for, for the modules that extend this one.                         *)
(***************************************************************************)
EXTENDS FaxSend, TLAPS, WellFoundedInduction

ReqFields == {"dir", "status", "items", "npages", "ntries", "totdials", "tottries", "pph"}
FqFields == {"pc", "proc", "why"}
ProcFields == {"pc", "req", "prev", "dosetup", "abort", "exit"}

\* What the proofs need of a request: its fields, and its two counts.
Req(r) == DOMAIN r = ReqFields /\ r.totdials \in Nat /\ r.tottries \in Nat
SameCounts(r, s) == r.totdials = s.totdials /\ r.tottries = s.tottries

Shape ==
    /\ Req(qf)
    /\ DOMAIN fq = FqFields
    /\ DOMAIN fs = Procs
    /\ \A p \in Procs : DOMAIN fs[p] = ProcFields /\ Req(fs[p].req)

\* The job is in sendq while faxq works on it, and the owner is told after the file
\* has been moved to doneq.
Told ==
    /\ qf.dir \in {"sendq", "doneq"}
    /\ fq.pc \in {"ready", "prepare", "send", "sending"} => qf.dir = "sendq"
    /\ fq.pc \in {"notify", "idle"} => qf.dir = "doneq"
    /\ qf.dir = "sendq" \/ fq.pc = "notify" => told = <<>>
    /\ ToldOnce

Under(r) == r.totdials < MaxDials /\ r.tottries < MaxTries
AtMost(r) == r.totdials <= MaxDials /\ r.tottries <= MaxTries

\* As long as faxq has not died there is one faxsend at most, and between the test
\* in isJobSendOK and the count of its call nothing else counts.
OneProc ==
    /\ fq.pc = "sending" => fq.proc \in Procs
    /\ fq.pc # "sending" => fq.proc = "none"
    /\ \A p \in Procs \ {fq.proc} : fs[p].pc = "none"
CountOf(p) ==
    /\ fs[p].pc \in {"exec", "opened"} => Under(qf)
    /\ fs[p].pc = "dial" => Under(fs[p].req)
    /\ Running(p) /\ fs[p].pc \notin {"exec", "opened"} => AtMost(fs[p].req)
Counts ==
    /\ AtMost(qf)
    /\ fq.pc \in {"prepare", "send"} => Under(qf)
    /\ \A p \in Procs : CountOf(p)
Limits == Without({"faxq"}) => OneProc /\ Counts

SInv == Shape /\ Told /\ Limits

-----------------------------------------------------------------------------
(* What a step of a faxsend does to the rest.                              *)

\* Process p moves; the others, faxq and the owner see nothing of it.
Local(p) ==
    /\ fq' = fq /\ told' = told /\ mishaps \subseteq mishaps'
    /\ Req(qf') /\ qf'.dir = qf.dir
    /\ DOMAIN fs' = Procs /\ \A q \in Procs \ {p} : fs'[q] = fs[q]
    /\ DOMAIN fs'[p] = ProcFields /\ Req(fs'[p].req)

\* ... and its counts are in order after it, if they were before.
Counted(p) == AtMost(qf) /\ CountOf(p) => AtMost(qf') /\ CountOf(p)'

LEMMA LocalStep ==
  ASSUME SInv, NEW p \in Procs, Running(p), Local(p), Counted(p)
  PROVE  SInv'
<1>1. Shape'
  BY DEF SInv, Shape, Local
<1>2. Told'
  BY DEF SInv, Told, Local, ToldOnce
<1>3. Limits'
  <2> SUFFICES ASSUME Without({"faxq"})' PROVE OneProc' /\ Counts'
    BY DEF Limits
  <2>1. OneProc /\ Counts
    BY DEF SInv, Limits, Without, Local
  <2>2. fq.proc = p /\ fq.pc = "sending" /\ \A q \in Procs \ {p} : fs'[q].pc = "none"
    BY <2>1, FaxSendAssumption DEF OneProc, Running, Local
  <2>3. OneProc'
    BY <2>1, <2>2 DEF OneProc, Local
  <2>4. AtMost(qf') /\ CountOf(p)'
    BY <2>1 DEF Counts, Counted
  <2>5. ASSUME NEW q \in Procs \ {p} PROVE CountOf(q)'
    BY <2>2 DEF CountOf, Running
  <2> QED BY <2>2, <2>3, <2>4, <2>5 DEF Counts, Local, AtMost
<1> QED BY <1>1, <1>2, <1>3 DEF SInv

LEMMA NewIsReq == Req(NewRequest) /\ NewRequest.totdials = 0 /\ NewRequest.tottries = 0
  BY DEF Req, NewRequest, ReqFields

LEMMA NoProcShape ==
  DOMAIN NoProc = ProcFields /\ NoProc.req = NewRequest /\ NoProc.pc = "none"
  BY DEF NoProc, ProcFields

LEMMA ExitOK ==
  ASSUME Shape, NEW p \in Procs, NEW code, Exit(p, code)
  PROVE  /\ DOMAIN fs' = Procs /\ \A q \in Procs \ {p} : fs'[q] = fs[q]
         /\ DOMAIN fs'[p] = ProcFields /\ Req(fs'[p].req) /\ ~Running(p)'
<1> DEFINE gone == [NoProc EXCEPT !.pc = "exited", !.exit = code]
<1>1. DOMAIN gone = ProcFields /\ gone.req = NewRequest /\ gone.pc = "exited"
  BY NoProcShape DEF ProcFields
<1>2. DOMAIN fs' = Procs /\ (\A q \in Procs \ {p} : fs'[q] = fs[q]) /\ fs'[p] \in {gone, NoProc}
  BY DEF Exit, Shape
<1> HIDE DEF gone
<1> QED BY <1>1, <1>2, NewIsReq, NoProcShape DEF Running

LEMMA WriteOK ==
  ASSUME Shape, NEW r, Req(r), Write(r)
  PROVE  Req(qf') /\ qf'.dir = qf.dir /\ SameCounts(qf', r)
  BY DEF Shape, Req, Write, SameCounts, ReqFields

LEMMA StepOK ==
  ASSUME Shape, NEW p \in Procs, NEW pc, NEW r, Req(r), Step(p, pc, r)
  PROVE  /\ UNCHANGED <<qf, fq, told>>
         /\ DOMAIN fs' = Procs /\ \A q \in Procs \ {p} : fs'[q] = fs[q]
         /\ DOMAIN fs'[p] = ProcFields /\ fs'[p].req = r /\ fs'[p].pc = pc
  BY DEF Shape, Step, ProcFields

LEMMA MishapOK ==
  ASSUME NEW k, Mishap(k)
  PROVE  mishaps \subseteq mishaps'
  BY DEF Mishap

-----------------------------------------------------------------------------
(* Every step of a faxsend is such a step.                                 *)

LEMMA PhaseBDoneOK ==
  ASSUME NEW r, Req(r), NEW prev, NEW st
  PROVE  Req(PhaseBDone(r, prev, st)) /\ SameCounts(PhaseBDone(r, prev, st), r)
<1>1. CASE r.npages = prev
  BY <1>1 DEF PhaseBDone, Req, SameCounts, ReqFields
<1>2. CASE r.npages # prev
  BY <1>2 DEF PhaseBDone, Req, SameCounts, ReqFields
<1> QED BY <1>1, <1>2

\* A step in which p's counts stay, or p has just left.
LEMMA SameCounted ==
  ASSUME Shape, NEW p \in Procs,
         \/ SameCounts(qf', qf)
         \/ Running(p) /\ fs[p].pc \notin {"exec", "opened"} /\ SameCounts(qf', fs[p].req),
         \/ ~Running(p)'
         \/ /\ fs'[p].pc \notin {"exec", "opened", "dial"}
            /\ Running(p) /\ fs[p].pc \notin {"exec", "opened"}
            /\ SameCounts(fs'[p].req, fs[p].req)
  PROVE  Counted(p)
  BY DEF Counted, CountOf, Running, AtMost, SameCounts

LEMMA OpenStep ==
  ASSUME SInv, NEW p \in Procs, Open(p)
  PROVE  SInv'
<1> USE DEF SInv
<1>1. Running(p) /\ qf' = qf /\ fq' = fq /\ told' = told /\ mishaps \subseteq mishaps' /\ Req(qf')
  BY MishapOK DEF Open, Running, Shape
<1>2. CASE fs' = [fs EXCEPT ![p].pc = "opened"]
  <2>1. Local(p)
    BY <1>1, <1>2 DEF Local, Shape, ProcFields
  <2>2. Counted(p)
    BY <1>1, <1>2 DEF Counted, CountOf, Running, Shape, ProcFields, Open
  <2> QED BY <1>1, <2>1, <2>2, LocalStep
<1>3. CASE \E code : Exit(p, code)
  <2> PICK code : Exit(p, code)
    BY <1>3
  <2>1. Local(p)
    BY <1>1, ExitOK DEF Local
  <2>2. Counted(p)
    BY <1>1, ExitOK, SameCounted DEF SameCounts
  <2> QED BY <1>1, <2>1, <2>2, LocalStep
<1> QED BY <1>2, <1>3 DEF Open

LEMMA ReadStep ==
  ASSUME SInv, NEW p \in Procs, Read(p)
  PROVE  SInv'
<1> USE DEF SInv
<1>1. Running(p) /\ qf' = qf
  BY DEF Read, Running
<1>2. /\ DOMAIN fs' = Procs /\ \A q \in Procs \ {p} : fs'[q] = fs[q]
      /\ DOMAIN fs'[p] = ProcFields /\ fs'[p].req = qf /\ fs'[p].pc = "dial"
  BY DEF Read, Shape, ProcFields
<1>3. Local(p)
  BY <1>2 DEF Read, Local, Shape
<1>4. Counted(p)
  BY <1>1, <1>2 DEF Counted, CountOf, Running, Read
<1> QED BY <1>1, <1>3, <1>4, LocalStep

LEMMA DialStep ==
  ASSUME SInv, NEW p \in Procs, Dial(p)
  PROVE  SInv'
<1> USE DEF SInv
<1> DEFINE r == fs[p].req
<1>1. Running(p) /\ Req(r) /\ fs[p].pc = "dial" /\ mishaps \subseteq mishaps'
  BY MishapOK DEF Dial, Running, Shape
<1> DEFINE Good(s) == /\ Req(s) /\ s.totdials \in {r.totdials, r.totdials + 1}
                      /\ s.tottries \in {r.tottries, r.tottries + 1}
<1>a. /\ Good(r)
      /\ \A st : Good(CallFailed(r, st))
      /\ Good([r EXCEPT !.tottries = @ + 1, !.totdials = @ + 1])
  BY <1>1 DEF Req, ReqFields, CallFailed
<1> HIDE DEF Good
<1>b. \E s : Good(s) /\ (Step(p, "end", s) \/ Step(p, "prologue", s))
  BY <1>a, Zenon DEF Dial
<1>2. PICK s, pc : Step(p, pc, s) /\ pc \in {"end", "prologue"} /\ Good(s)
  BY <1>b, Zenon
<1> USE DEF Good
<1>3. /\ UNCHANGED <<qf, fq, told>>
      /\ DOMAIN fs' = Procs /\ \A q \in Procs \ {p} : fs'[q] = fs[q]
      /\ DOMAIN fs'[p] = ProcFields /\ fs'[p].req = s /\ fs'[p].pc = pc
  BY <1>2, StepOK
<1>4. Local(p)
  BY <1>1, <1>2, <1>3 DEF Local, Shape
<1>5. Under(r) => AtMost(s)
  BY <1>1, <1>2, FaxSendAssumption DEF Under, AtMost, Req
<1>6. Counted(p)
  BY <1>1, <1>2, <1>3, <1>5 DEF Counted, CountOf, Running
<1> QED BY <1>1, <1>4, <1>6, LocalStep

\* A step of the call itself: p's request changes, its counts and the file's do not.
LEMMA CallStep ==
  ASSUME SInv, NEW p \in Procs, NEW s,
         fs[p].pc \in {"dial", "prologue", "doc", "page", "docsent", "end"},
         fq' = fq, told' = told, mishaps \subseteq mishaps',
         Req(s), SameCounts(s, fs[p].req),
         DOMAIN fs' = Procs, \A q \in Procs \ {p} : fs'[q] = fs[q],
         DOMAIN fs'[p] = ProcFields,
         fs'[p].req = s, fs'[p].pc \notin {"exec", "opened", "dial"},
         qf' = qf \/ (Req(qf') /\ qf'.dir = qf.dir /\ SameCounts(qf', fs[p].req))
  PROVE  SInv'
<1>1. Running(p) /\ fs[p].pc \notin {"exec", "opened"}
  BY DEF Running
<1>2. Local(p)
  BY DEF Local, SInv, Shape
<1>3. Counted(p)
  BY <1>1, SameCounted DEF SInv, SameCounts
<1> QED BY <1>1, <1>2, <1>3, LocalStep

\* The process leaves, with or without a last write of its request.
LEMMA LeaveStep ==
  ASSUME SInv, NEW p \in Procs, NEW code, Running(p), Exit(p, code),
         fq' = fq, told' = told, mishaps \subseteq mishaps',
         \/ qf' = qf
         \/ /\ fs[p].pc \notin {"exec", "opened"}
            /\ Req(qf') /\ qf'.dir = qf.dir /\ SameCounts(qf', fs[p].req)
  PROVE  SInv'
<1>1. Local(p)
  BY ExitOK DEF Local, SInv, Shape
<1>2. Counted(p)
  BY ExitOK, SameCounted DEF SInv, SameCounts
<1> QED BY <1>1, <1>2, LocalStep

LEMMA StatusOK ==
  ASSUME NEW r, Req(r), NEW st
  PROVE  Req([r EXCEPT !.status = st]) /\ SameCounts([r EXCEPT !.status = st], r)
  BY DEF Req, SameCounts, ReqFields

LEMMA PrologueStep ==
  ASSUME SInv, NEW p \in Procs, Prologue(p)
  PROVE  SInv'
<1> USE DEF SInv
<1> DEFINE r == fs[p].req
<1>1. fs[p].pc = "prologue" /\ Req(r) /\ mishaps' = mishaps
  BY DEF Prologue, Shape
<1>2. ASSUME NEW st, Step(p, "end", [r EXCEPT !.status = st]) PROVE SInv'
  BY <1>1, <1>2, StatusOK, StepOK, CallStep
<1>3. ASSUME fs' = [fs EXCEPT ![p] = [@ EXCEPT !.pc = "doc", !.dosetup = TRUE,
                                       !.req = [r EXCEPT !.status = "failed"]]],
             UNCHANGED <<qf, lock, fq, confirmed, told, calls>>
      PROVE  SInv'
  <2> DEFINE s == [r EXCEPT !.status = "failed"]
  <2>1. Req(s) /\ SameCounts(s, r)
    BY <1>1, StatusOK
  <2> HIDE DEF s
  <2>2. /\ DOMAIN fs' = Procs /\ \A q \in Procs \ {p} : fs'[q] = fs[q]
        /\ DOMAIN fs'[p] = ProcFields /\ fs'[p].req = s /\ fs'[p].pc = "doc"
    BY <1>3 DEF s, Shape, ProcFields
  <2> QED BY <1>1, <1>3, <2>1, <2>2, CallStep
<1> QED BY <1>2, <1>3 DEF Prologue

LEMMA NoModemStep ==
  ASSUME SInv, NEW p \in Procs, NoModem(p)
  PROVE  SInv'
<1>1. PICK k \in {"modemlock", "setup"}, st \in {"retry", "failed"} :
         Mishap(k) /\ Write([fs[p].req EXCEPT !.status = st]) /\ Exit(p, st)
  BY Zenon DEF NoModem
<1> DEFINE s == [fs[p].req EXCEPT !.status = st]
<1>2. Req(s) /\ SameCounts(s, fs[p].req)
  BY StatusOK DEF SInv, Shape
<1>3. Req(qf') /\ qf'.dir = qf.dir /\ SameCounts(qf', s)
  BY <1>1, <1>2, WriteOK DEF SInv
<1> HIDE DEF s
<1>4. SameCounts(qf', fs[p].req)
  BY <1>2, <1>3 DEF SameCounts
<1>5. /\ Running(p) /\ fs[p].pc \notin {"exec", "opened"}
      /\ fq' = fq /\ told' = told /\ mishaps \subseteq mishaps'
  BY <1>1, MishapOK DEF NoModem, Running
<1> QED BY <1>1, <1>3, <1>4, <1>5, LeaveStep

LEMMA DocStep ==
  ASSUME SInv, NEW p \in Procs, Doc(p)
  PROVE  SInv'
<1> USE DEF SInv
<1> DEFINE r == fs[p].req
<1>1. fs[p].pc = "doc" /\ Req(r) /\ mishaps \subseteq mishaps'
  BY MishapOK DEF Doc, Shape
<1>2. ASSUME NEW st, Step(p, "end", [r EXCEPT !.status = st]) PROVE SInv'
  BY <1>1, <1>2, StatusOK, StepOK, CallStep
<1>3. ASSUME NEW pc \in {"end", "docsent"}, Step(p, pc, r) PROVE SInv'
  BY <1>1, <1>3, StepOK, CallStep DEF SameCounts
<1>4. ASSUME NEW s \in {r, [r EXCEPT !.status = "done"]},
             fs' = [fs EXCEPT ![p] = [@ EXCEPT !.pc = "page", !.prev = r.npages, !.req = s]],
             UNCHANGED <<qf, lock, fq, confirmed, told, calls>>
      PROVE  SInv'
  <2>1. Req(s) /\ SameCounts(s, r)
    <3>1. CASE s = r
      BY <1>1, <3>1 DEF SameCounts
    <3>2. CASE s = [r EXCEPT !.status = "done"]
      BY <1>1, <3>2, StatusOK
    <3> QED BY <1>4, <3>1, <3>2
  <2>2. /\ DOMAIN fs' = Procs /\ \A q \in Procs \ {p} : fs'[q] = fs[q]
        /\ DOMAIN fs'[p] = ProcFields /\ fs'[p].req = s /\ fs'[p].pc = "page"
    BY <1>4 DEF Shape, ProcFields
  <2> QED BY <1>1, <1>4, <2>1, <2>2, CallStep
<1> DEFINE s == IF fs[p].dosetup THEN [r EXCEPT !.status = "done"] ELSE r
           pc == IF r.status = "done" THEN "docsent" ELSE "end"
<1>5. s \in {r, [r EXCEPT !.status = "done"]} /\ pc \in {"end", "docsent"}
  OBVIOUS
<1>6. \/ Step(p, "end", r) \/ Step(p, pc, r)
      \/ Step(p, "end", [r EXCEPT !.status = "failed"])
      \/ Step(p, "end", [r EXCEPT !.status = "reformat"])
      \/ /\ fs' = [fs EXCEPT ![p] = [@ EXCEPT !.pc = "page", !.prev = r.npages, !.req = s]]
         /\ UNCHANGED <<qf, lock, fq, confirmed, told, calls>>
  BY Zenon DEF Doc
<1> HIDE DEF s, pc, r
<1> QED BY <1>2, <1>3, <1>4, <1>5, <1>6, Zenon

LEMMA ReturnedStep ==
  ASSUME SInv, NEW p \in Procs, NEW r, NEW st,
         fs[p].pc = "page", Req(r), SameCounts(r, fs[p].req), Returned(p, r, st),
         fq' = fq, told' = told, mishaps \subseteq mishaps',
         qf' = qf \/ (Req(qf') /\ qf'.dir = qf.dir /\ SameCounts(qf', fs[p].req))
  PROVE  SInv'
<1> DEFINE s == PhaseBDone(r, fs[p].prev, st)
<1>1. Req(s) /\ SameCounts(s, fs[p].req)
  BY PhaseBDoneOK DEF SameCounts
<1> HIDE DEF s
<1>2. /\ DOMAIN fs' = Procs /\ \A q \in Procs \ {p} : fs'[q] = fs[q]
      /\ DOMAIN fs'[p] = ProcFields /\ fs'[p].req = s /\ fs'[p].pc \in {"docsent", "end"}
  BY DEF Returned, s, SInv, Shape, ProcFields
<1> QED BY <1>1, <1>2, CallStep

LEMMA PageStep ==
  ASSUME SInv, NEW p \in Procs, Page(p)
  PROVE  SInv'
<1> DEFINE r == fs[p].req
           sent == [r EXCEPT !.npages = @ + 1]
           next == [sent EXCEPT !.pph = @ - 1]
<1>1. /\ fs[p].pc = "page" /\ Req(r) /\ mishaps \subseteq mishaps'
      /\ fq' = fq /\ told' = told
  BY MishapOK DEF Page, SInv, Shape
<1>2. Req(sent) /\ SameCounts(sent, r)
  BY <1>1 DEF Req, SameCounts, ReqFields
<1>3. Req(next) /\ SameCounts(next, r)
  BY <1>1 DEF Req, SameCounts, ReqFields
<1>4. ASSUME Write(sent)
      PROVE  Req(qf') /\ qf'.dir = qf.dir /\ SameCounts(qf', r)
  <2> HIDE DEF sent
  <2> QED BY <1>2, <1>4, WriteOK DEF SInv, SameCounts
<1>5. ASSUME NEW st, Returned(p, r, st), qf' = qf PROVE SInv'
  BY <1>1, <1>5, ReturnedStep DEF SameCounts
<1>6. ASSUME NEW st, Write(sent), Returned(p, next, st) PROVE SInv'
  <2> HIDE DEF sent, next
  <2> QED BY <1>1, <1>3, <1>4, <1>6, ReturnedStep
<1>7. ASSUME Write(sent), fs' = [fs EXCEPT ![p].req = next] PROVE SInv'
  <2>1. /\ DOMAIN fs' = Procs /\ \A q \in Procs \ {p} : fs'[q] = fs[q]
        /\ DOMAIN fs'[p] = ProcFields /\ fs'[p].req = next /\ fs'[p].pc = "page"
    <3> HIDE DEF next
    <3> QED BY <1>1, <1>7 DEF SInv, Shape, ProcFields
  <2> HIDE DEF sent, next
  <2> QED BY <1>1, <1>3, <1>4, <1>7, <2>1, CallStep
<1>8. \/ qf' = qf /\ \E st : Returned(p, r, st)
      \/ Write(sent) /\ \E st : Returned(p, next, st)
      \/ Write(sent) /\ fs' = [fs EXCEPT ![p].req = next]
  BY Zenon DEF Page
<1> HIDE DEF r, sent, next
<1> QED BY <1>5, <1>6, <1>7, <1>8, Zenon

LEMMA DocSentStep ==
  ASSUME SInv, NEW p \in Procs, DocSent(p)
  PROVE  SInv'
<1> DEFINE items == RemoveAt(fs[p].req.items, FindFax(fs[p].req.items))
           s == [fs[p].req EXCEPT !.items = items]
<1>1. fs[p].pc = "docsent" /\ Req(fs[p].req)
  BY DEF DocSent, SInv, Shape
<1>2. /\ Write(s) /\ UNCHANGED <<fq, told, mishaps>>
      /\ fs' = [fs EXCEPT ![p] = [@ EXCEPT !.pc = "doc", !.req = s, !.dosetup = FALSE]]
  BY DEF DocSent
<1> HIDE DEF items
<1>3. Req(s) /\ SameCounts(s, fs[p].req)
  BY <1>1 DEF Req, SameCounts, ReqFields
<1> HIDE DEF s
<1>4. Req(qf') /\ qf'.dir = qf.dir /\ SameCounts(qf', fs[p].req)
  BY <1>2, <1>3, WriteOK DEF SInv, SameCounts
<1>5. /\ DOMAIN fs' = Procs /\ \A q \in Procs \ {p} : fs'[q] = fs[q]
      /\ DOMAIN fs'[p] = ProcFields /\ fs'[p].req = s /\ fs'[p].pc = "doc"
  BY <1>2 DEF SInv, Shape, ProcFields
<1> QED BY <1>1, <1>2, <1>3, <1>4, <1>5, CallStep

LEMMA EndStep ==
  ASSUME SInv, NEW p \in Procs, End(p)
  PROVE  SInv'
<1> PICK st : Write([fs[p].req EXCEPT !.status = st]) /\ Exit(p, st)
  BY DEF End
<1> DEFINE s == [fs[p].req EXCEPT !.status = st]
<1>1. Req(s) /\ SameCounts(s, fs[p].req)
  BY StatusOK DEF SInv, Shape
<1>2. Req(qf') /\ qf'.dir = qf.dir /\ SameCounts(qf', s)
  BY <1>1, WriteOK DEF SInv
<1> HIDE DEF s
<1>3. SameCounts(qf', fs[p].req)
  BY <1>1, <1>2 DEF SameCounts
<1>4. Running(p) /\ fs[p].pc \notin {"exec", "opened"} /\ UNCHANGED <<fq, told, mishaps>>
  BY DEF End, Running
<1> QED BY <1>2, <1>3, <1>4, LeaveStep

LEMMA CrashStep ==
  ASSUME SInv, NEW p \in Procs, FaxsendCrash(p)
  PROVE  SInv'
  BY LeaveStep, MishapOK DEF FaxsendCrash

LEMMA AbortStep ==
  ASSUME SInv, NEW p \in Procs, Abort(p)
  PROVE  SInv'
<1>1. Running(p) /\ UNCHANGED <<qf, fq, told>> /\ mishaps \subseteq mishaps'
  BY MishapOK DEF Abort, Running
<1>2. ASSUME Exit(p, "failed") PROVE SInv'
  BY <1>1, <1>2, LeaveStep
<1>3. ASSUME fs' = [fs EXCEPT ![p].abort = TRUE] PROVE SInv'
  <2>1. /\ DOMAIN fs' = Procs /\ \A q \in Procs \ {p} : fs'[q] = fs[q]
        /\ DOMAIN fs'[p] = ProcFields /\ fs'[p].req = fs[p].req /\ fs'[p].pc = fs[p].pc
    BY <1>3 DEF SInv, Shape, ProcFields
  <2>2. Local(p)
    BY <1>1, <2>1 DEF Local, SInv, Shape
  <2>3. Counted(p)
    BY <1>1, <2>1 DEF Counted, CountOf, Running
  <2> QED BY <1>1, <2>2, <2>3, LocalStep
<1> QED BY <1>2, <1>3 DEF Abort

-----------------------------------------------------------------------------
(* The steps of faxq.                                                      *)

LEMMA GoOK ==
  \A pc : DOMAIN Go(pc) = FqFields /\ Go(pc).pc = pc /\ Go(pc).proc = "none"
  BY DEF Go, FqFields

\* The end of a job: the counts stay, the file moves to doneq.
LEMMA DeleteOK ==
  ASSUME NEW r, Req(r), NEW why, DeleteRequest(r, why)
  PROVE  /\ Req(qf') /\ qf'.dir = "doneq" /\ SameCounts(qf', r)
         /\ DOMAIN fq' = FqFields /\ fq'.pc = "notify" /\ fq'.proc = "none"
<1>1. qf' = [r EXCEPT !.dir = "doneq", !.items = NotImaged(r.items)]
  BY DEF DeleteRequest
<1>2. Req(qf') /\ qf'.dir = "doneq" /\ SameCounts(qf', r)
  BY <1>1 DEF Req, SameCounts, ReqFields
<1>3. fq' = [pc |-> "notify", proc |-> "none", why |-> why]
  BY DEF DeleteRequest, Go
<1> QED BY <1>2, <1>3 DEF FqFields

\* A step of faxq after which no process of its own is left: the counts of the
\* file stay, and where it will go on to a call the limits have been looked at.
LEMMA IdleStep ==
  ASSUME SInv, DOMAIN fq' = FqFields, Req(qf'), SameCounts(qf', qf), Told',
         mishaps \subseteq mishaps', DOMAIN fs' = Procs,
         \A p \in Procs : fs'[p] = NoProc \/ fs'[p] = fs[p],
         fq'.proc = "none", fq'.pc # "sending",
         Without({"faxq"})' /\ OneProc /\ Counts =>
            /\ \A p \in Procs : fs'[p].pc = "none"
            /\ fq'.pc \in {"prepare", "send"} => Under(qf')
  PROVE  SInv'
<1>1. Shape'
  BY NoProcShape, NewIsReq DEF SInv, Shape
<1>2. Limits'
  <2> SUFFICES ASSUME Without({"faxq"})' PROVE OneProc' /\ Counts'
    BY DEF Limits
  <2>1. OneProc /\ Counts
    BY DEF SInv, Limits, Without
  <2>2. \A p \in Procs : fs'[p].pc = "none"
    BY <2>1
  <2>3. OneProc'
    BY <2>2 DEF OneProc
  <2>4. \A p \in Procs : CountOf(p)'
    BY <2>2 DEF CountOf, Running
  <2> QED BY <2>1, <2>3, <2>4 DEF Counts, AtMost, SameCounts
<1> QED BY <1>1, <1>2 DEF SInv

LEMMA NoneRunning ==
  ASSUME OneProc, fq.pc # "sending"
  PROVE  \A p \in Procs : fs[p].pc = "none"
  BY FaxSendAssumption DEF OneProc

LEMMA NotifySenderStep ==
  ASSUME SInv, NotifySender
  PROVE  SInv'
<1>1. told = <<>> /\ qf.dir = "doneq"
  BY DEF SInv, Told, NotifySender
<1>2. told' = <<fq.why>>
  BY <1>1 DEF NotifySender
<1>3. Len(told') <= 1
  BY <1>2
<1>4. Told'
  BY <1>1, <1>3, GoOK DEF Told, ToldOnce, NotifySender
<1> QED BY <1>4, GoOK, IdleStep, NoneRunning DEF NotifySender, SInv, Shape, SameCounts

LEMMA ProcessStep ==
  ASSUME SInv, Process
  PROVE  SInv'
<1>1. Req(qf) /\ told = <<>> /\ UNCHANGED <<fs, told, mishaps>> /\ fq.pc = "ready"
      /\ qf.dir = "sendq"
  BY DEF Process, SInv, Shape, Told
<1>2. CASE Refused(qf) /\ DeleteRequest([qf EXCEPT !.status = "failed"], "failed")
  <2> DEFINE r == [qf EXCEPT !.status = "failed"]
  <2>1. Req(r) /\ SameCounts(r, qf) /\ DeleteRequest(r, "failed")
    BY <1>1, <1>2, StatusOK
  <2> HIDE DEF r
  <2>2. /\ Req(qf') /\ qf'.dir = "doneq" /\ SameCounts(qf', qf)
        /\ DOMAIN fq' = FqFields /\ fq'.pc = "notify" /\ fq'.proc = "none"
    BY <2>1, DeleteOK DEF SameCounts
  <2>3. Told'
    BY <1>1, <2>2 DEF Told, ToldOnce
  <2> QED BY <1>1, <2>2, <2>3, IdleStep, NoneRunning DEF SInv, Shape
<1>3. CASE /\ ~Refused(qf)
           /\ qf' = [qf EXCEPT !.status = "nobatch"]
           /\ fq' = Go(IF \E i \in DOMAIN qf.items : qf.items[i].op = "source"
                       THEN "prepare" ELSE "send")
  <2>1. Req(qf') /\ SameCounts(qf', qf) /\ qf'.dir = "sendq"
    BY <1>1, <1>3, StatusOK DEF Req, ReqFields
  <2>2. DOMAIN fq' = FqFields /\ fq'.pc \in {"prepare", "send"} /\ fq'.proc = "none"
    BY <1>3, GoOK
  <2>3. Told'
    BY <1>1, <2>1, <2>2 DEF Told, ToldOnce
  <2>4. Under(qf')
    BY <1>1, <1>3, <2>1, FaxSendAssumption DEF Under, Refused, SameCounts, Req
  <2> QED BY <1>1, <2>1, <2>2, <2>3, <2>4, IdleStep, NoneRunning DEF SInv, Shape
<1> QED BY <1>2, <1>3 DEF Process

LEMMA FormatOK ==
  ASSUME NEW r, Req(r)
  PROVE  /\ Req(Converted(r)) /\ SameCounts(Converted(r), r) /\ Converted(r).dir = r.dir
         /\ Req(Unformatted(r)) /\ SameCounts(Unformatted(r), r) /\ Unformatted(r).dir = r.dir
<1> DEFINE pph == IF r.pph = 0 THEN PagesLeft(Imaged(r.items)) ELSE r.pph
<1>3. Converted(r) = [r EXCEPT !.items = Imaged(r.items), !.pph = pph]
  BY Zenon DEF Converted
<1>4. Unformatted(r) = [r EXCEPT !.items = Sources(r.items), !.pph = 0, !.status = "retry"]
  BY Zenon DEF Unformatted
<1> HIDE DEF pph
<1>5. Req(Converted(r)) /\ SameCounts(Converted(r), r) /\ Converted(r).dir = r.dir
  BY <1>3 DEF Req, SameCounts, ReqFields
<1>6. Req(Unformatted(r)) /\ SameCounts(Unformatted(r), r) /\ Unformatted(r).dir = r.dir
  BY <1>4 DEF Req, SameCounts, ReqFields
<1> QED BY <1>5, <1>6

LEMMA PrepareStep ==
  ASSUME SInv, Prepare
  PROVE  SInv'
<1>1. /\ Req(qf) /\ told = <<>> /\ UNCHANGED <<fs, told>> /\ fq.pc = "prepare"
      /\ qf.dir = "sendq" /\ mishaps \subseteq mishaps' /\ DOMAIN fs = Procs
  BY MishapOK DEF Prepare, SInv, Shape, Told
<1>2. ASSUME DeleteRequest(qf, "failed") PROVE SInv'
  <2>1. /\ Req(qf') /\ qf'.dir = "doneq" /\ SameCounts(qf', qf)
        /\ DOMAIN fq' = FqFields /\ fq'.pc = "notify" /\ fq'.proc = "none"
    BY <1>1, <1>2, DeleteOK
  <2>2. Told'
    BY <1>1, <2>1 DEF Told, ToldOnce
  <2> QED BY <1>1, <2>1, <2>2, IdleStep, NoneRunning
<1>3. ASSUME qf' = Converted(qf), fq' = Go("send") PROVE SInv'
  <2>1. Req(qf') /\ SameCounts(qf', qf) /\ qf'.dir = "sendq"
    BY <1>1, <1>3, FormatOK
  <2>2. DOMAIN fq' = FqFields /\ fq'.pc = "send" /\ fq'.proc = "none"
    BY <1>3, GoOK
  <2>3. Told'
    BY <1>1, <2>1, <2>2 DEF Told, ToldOnce
  <2>4. Counts => Under(qf')
    BY <1>1, <2>1 DEF Counts, Under, SameCounts
  <2> QED BY <1>1, <2>1, <2>2, <2>3, <2>4, IdleStep, NoneRunning
<1> QED BY <1>2, <1>3 DEF Prepare

LEMMA SendStartStep ==
  ASSUME SInv, SendStart
  PROVE  SInv'
<1>1. /\ Req(qf) /\ told = <<>> /\ UNCHANGED <<qf, told>> /\ fq.pc = "send"
      /\ qf.dir = "sendq" /\ mishaps \subseteq mishaps' /\ DOMAIN fs = Procs
  BY MishapOK DEF SendStart, SInv, Shape, Told
<1>2. ASSUME fq' = Requeued, fs' = fs PROVE SInv'
  <2>1. DOMAIN fq' = FqFields /\ fq'.pc = "ready" /\ fq'.proc = "none"
    BY <1>2, GoOK DEF Requeued
  <2>2. Told'
    BY <1>1, <2>1 DEF Told, ToldOnce
  <2> QED BY <1>1, <1>2, <2>1, <2>2, IdleStep, NoneRunning DEF SameCounts
<1>3. ASSUME NEW p \in Procs,
             fs' = [fs EXCEPT ![p] = [NoProc EXCEPT !.pc = "exec"]],
             fq' = [Go("sending") EXCEPT !.proc = p]
      PROVE  SInv'
  <2> DEFINE new == [NoProc EXCEPT !.pc = "exec"]
  <2>1. DOMAIN new = ProcFields /\ new.req = NewRequest /\ new.pc = "exec"
    BY NoProcShape DEF ProcFields
  <2> HIDE DEF new
  <2>2. /\ DOMAIN fs' = Procs /\ \A q \in Procs \ {p} : fs'[q] = fs[q]
        /\ fs'[p] = new
    BY <1>1, <1>3 DEF new
  <2>3. fq' = [pc |-> "sending", proc |-> p, why |-> "none"]
    BY <1>3 DEF Go
  <2>4. DOMAIN fq' = FqFields /\ fq'.pc = "sending" /\ fq'.proc = p
    BY <2>3 DEF FqFields
  <2>5. Shape'
    BY <1>1, <2>1, <2>2, <2>4, NewIsReq DEF SInv, Shape
  <2>6. Told'
    BY <1>1, <2>4 DEF Told, ToldOnce
  <2>7. Limits'
    <3> SUFFICES ASSUME Without({"faxq"})' PROVE OneProc' /\ Counts'
      BY DEF Limits
    <3>1. OneProc /\ Counts
      BY <1>1 DEF SInv, Limits, Without
    <3>2. \A q \in Procs : fs[q].pc = "none"
      BY <1>1, <3>1, NoneRunning
    <3>3. OneProc'
      BY <2>2, <2>4, <3>2 DEF OneProc
    <3>4. ASSUME NEW q \in Procs \ {p} PROVE CountOf(q)'
      BY <2>2, <3>2 DEF CountOf, Running
    <3>5. CountOf(p)'
      BY <1>1, <2>1, <2>2, <3>1 DEF CountOf, Running, Counts
    <3> QED BY <1>1, <2>4, <3>1, <3>3, <3>4, <3>5 DEF Counts
  <2> QED BY <2>5, <2>6, <2>7 DEF SInv
<1> QED BY <1>2, <1>3 DEF SendStart

LEMMA SendDoneStep ==
  ASSUME SInv, SendDone
  PROVE  SInv'
<1>1. /\ Req(qf) /\ told = <<>> /\ UNCHANGED <<told, mishaps>> /\ fq.pc = "sending"
      /\ qf.dir = "sendq" /\ DOMAIN fs = Procs
      /\ fs' = [fs EXCEPT ![fq.proc] = NoProc]
  BY DEF SendDone, SInv, Shape, Told
<1>2. DOMAIN fs' = Procs /\ \A p \in Procs : fs'[p] = NoProc \/ fs'[p] = fs[p]
  BY <1>1
<1>3. OneProc => \A p \in Procs : fs'[p].pc = "none"
  BY <1>1, NoProcShape DEF OneProc
<1>4. ASSUME NEW r, Req(r), SameCounts(r, qf), NEW why, DeleteRequest(r, why) PROVE SInv'
  <2>1. /\ Req(qf') /\ qf'.dir = "doneq" /\ SameCounts(qf', qf)
        /\ DOMAIN fq' = FqFields /\ fq'.pc = "notify" /\ fq'.proc = "none"
    BY <1>4, DeleteOK DEF SameCounts
  <2>2. Told'
    BY <1>1, <2>1 DEF Told, ToldOnce
  <2> QED BY <1>1, <1>2, <1>3, <2>1, <2>2, IdleStep
<1>5. ASSUME Req(qf'), SameCounts(qf', qf), qf'.dir = "sendq", fq' = Requeued PROVE SInv'
  <2>1. DOMAIN fq' = FqFields /\ fq'.pc = "ready" /\ fq'.proc = "none"
    BY <1>5, GoOK DEF Requeued
  <2>2. Told'
    BY <1>1, <1>5, <2>1 DEF Told, ToldOnce
  <2> QED BY <1>1, <1>2, <1>3, <1>5, <2>1, <2>2, IdleStep
<1>6. ASSUME qf' = Unformatted(qf), fq' = Requeued PROVE SInv'
  BY <1>1, <1>5, <1>6, FormatOK
<1>7. ASSUME NEW st, qf' = [qf EXCEPT !.status = st], fq' = Requeued PROVE SInv'
  <2>1. Req(qf') /\ SameCounts(qf', qf) /\ qf'.dir = "sendq"
    BY <1>1, <1>7, StatusOK DEF Req, ReqFields
  <2> QED BY <1>5, <1>7, <2>1
<1>8. ASSUME NEW st, DeleteRequest([qf EXCEPT !.status = st], "failed") PROVE SInv'
  BY <1>1, <1>4, <1>8, StatusOK
<1>9. ASSUME DeleteRequest(qf, "done") PROVE SInv'
  BY <1>1, <1>4, <1>9 DEF SameCounts
<1> QED BY <1>6, <1>7, <1>8, <1>9, Zenon DEF SendDone

LEMMA FaxqCrashStep ==
  ASSUME SInv, FaxqCrash
  PROVE  SInv'
<1>1. /\ UNCHANGED <<qf, told>> /\ mishaps \subseteq mishaps'
      /\ Without({"faxq"})' => fq.pc = "notify"
  BY MishapOK DEF FaxqCrash, Mishap, Without
<1>2. DOMAIN fq' = FqFields /\ fq'.pc = "down" /\ fq'.proc = "none"
  BY GoOK DEF FaxqCrash
<1>3. DOMAIN fs' = Procs /\ \A p \in Procs : fs'[p] = NoProc \/ fs'[p] = fs[p]
  BY DEF FaxqCrash
<1>4. Told'
  BY <1>1, <1>2 DEF SInv, Told, ToldOnce
<1>5. Without({"faxq"})' /\ OneProc => \A p \in Procs : fs'[p].pc = "none"
  BY <1>1, <1>3, NoneRunning, NoProcShape
<1> QED BY <1>1, <1>2, <1>3, <1>4, <1>5, IdleStep DEF SInv, Shape, SameCounts

LEMMA FaxqRestartStep ==
  ASSUME SInv, FaxqRestart
  PROVE  SInv'
<1>1. UNCHANGED <<qf, fs, told, mishaps>> /\ fq.pc = "down"
  BY DEF FaxqRestart
<1>2. /\ DOMAIN fq' = FqFields /\ fq'.proc = "none"
      /\ fq'.pc = IF qf.dir = "sendq" THEN "ready" ELSE "idle"
  BY GoOK DEF FaxqRestart
<1>3. qf.dir \in {"sendq", "doneq"}
  BY DEF SInv, Told
<1>4. Told'
  BY <1>1, <1>2, <1>3 DEF SInv, Told, ToldOnce
<1> QED BY <1>1, <1>2, <1>4, IdleStep, NoneRunning DEF SInv, Shape, SameCounts

-----------------------------------------------------------------------------
(* The invariant and what follows from it.                                 *)

LEMMA InvInit == Init => SInv
<1> SUFFICES ASSUME Init PROVE SInv
  OBVIOUS
<1>1. \A p \in Procs : fs[p] = NoProc
  BY DEF Init
<1>2. Shape
  BY <1>1, NewIsReq, NoProcShape DEF Init, Shape, FqFields
<1>3. Told
  BY DEF Init, Told, ToldOnce, NewRequest
<1>4. OneProc
  BY <1>1, NoProcShape DEF Init, OneProc
<1>5. Counts
  BY <1>1, NewIsReq, NoProcShape, FaxSendAssumption DEF Init, Counts, CountOf, Running, AtMost
<1> QED BY <1>2, <1>3, <1>4, <1>5 DEF SInv, Limits

LEMMA InvNext == SInv /\ [Next]_vars => SInv'
<1> SUFFICES ASSUME SInv, [Next]_vars PROVE SInv'
  OBVIOUS
<1>1. ASSUME Faxq PROVE SInv'
  BY <1>1, ProcessStep, PrepareStep, SendStartStep, SendDoneStep, NotifySenderStep,
     FaxqRestartStep DEF Faxq
<1>2. ASSUME NEW p \in Procs, Faxsend(p) PROVE SInv'
  BY <1>2, OpenStep, ReadStep, DialStep, NoModemStep, PrologueStep, DocStep, PageStep,
     DocSentStep, EndStep DEF Faxsend
<1>3. ASSUME UNCHANGED vars PROVE SInv'
  <2>1. Shape' /\ Told'
    BY <1>3 DEF vars, SInv, Shape, Told, ToldOnce
  <2>2. Limits'
    BY <1>3 DEF vars, SInv, Limits, Without, OneProc, Counts, CountOf, Running
  <2> QED BY <2>1, <2>2 DEF SInv
<1> QED BY <1>1, <1>2, <1>3, FaxqCrashStep, CrashStep, AbortStep DEF Next

\* deleteRequest and notifySender tell the owner of the outcome once, whatever
\* happens to either program and whenever: between the two the file is in doneq
\* already, where a new faxq does not look.
THEOREM ToldOnceAlways == Spec => []ToldOnce
<1>1. SInv => ToldOnce
  BY DEF SInv, Told
<1> QED BY <1>1, InvInit, InvNext, PTL DEF Spec

\* As long as faxq has not died with the job in hand, no job is dialled or tried
\* more often than its limits say: isJobSendOK looks at counts that the only
\* running faxsend has left in the file.
THEOREM WithinLimitsAlways == Spec => []WithinLimits
<1>1. SInv => WithinLimits
  BY DEF SInv, Limits, Counts, AtMost, WithinLimits
<1> QED BY <1>1, InvInit, InvNext, PTL DEF Spec

-----------------------------------------------------------------------------
(* The items of a request, and the pages they ask for.                     *)

Items == [op : {"source", "saved", "fax"}, doc : DOMAIN Docs, dirnum : Nat]

\* Every document has one source, saved or not, and at most one imaged form;
\* conversion is of all or none.
Whole(items) ==
    /\ items \in Seq(Items)
    /\ \A d \in DOMAIN Docs : \E i \in DOMAIN items : items[i].doc = d /\ items[i].op # "fax"
    /\ \A i, j \in DOMAIN items : ~(items[i].op = "fax" /\ items[j].op = "source")
    /\ \A i, j \in DOMAIN items :
          items[i].doc = items[j].doc /\ (items[i].op = "fax" <=> items[j].op = "fax") => i = j

NoFax(items) == \A i \in DOMAIN items : items[i].op # "fax"
NoSource(items) == \A i \in DOMAIN items : items[i].op # "source"

\* Item it asks for page x, when k pages of it have been sent in this call.
Asks(it, x, k) ==
    it.doc = x[1] /\ (it.op = "source" \/ (it.op = "fax" /\ it.dirnum + k <= x[2]))

\* The pages still asked for, when k pages of the first imaged document have been
\* sent in this call.
Wanted(items, k) ==
    {x \in AllPages : \E i \in DOMAIN items :
                         Asks(items[i], x, IF i = FindFax(items) THEN k ELSE 0)}

\* Every page that c has no confirmation of is asked for.
Covers(c, items, k) == \A x \in AllPages : c[x] = 0 => x \in Wanted(items, k)

-----------------------------------------------------------------------------
(* Lists of items: what FlattenSeq makes of a sequence of sequences.       *)

\* What concatenation and subsequences consist of.
LEMMA ConcatFacts ==
  ASSUME NEW S, NEW s \in Seq(S), NEW t \in Seq(S)
  PROVE  /\ s \o t \in Seq(S)
         /\ Len(s \o t) = Len(s) + Len(t)
         /\ \A i \in 1..(Len(s) + Len(t)) :
               (s \o t)[i] = IF i <= Len(s) THEN s[i] ELSE t[i - Len(s)]
OBVIOUS

LEMMA SubSeqFacts ==
  ASSUME NEW S, NEW s, NEW m \in Int, NEW n \in Int, \A i \in m..n : s[i] \in S
  PROVE  /\ SubSeq(s, m, n) \in Seq(S)
         /\ Len(SubSeq(s, m, n)) = IF m <= n THEN n - m + 1 ELSE 0
         /\ \A i \in 1..(n - m + 1) : SubSeq(s, m, n)[i] = s[m + i - 1]
OBVIOUS

LEMMA Smallest ==
  ASSUME NEW I \in SUBSET Nat, I # {}
  PROVE  \E i \in I : \A j \in I : i <= j
<1> DEFINE Less == {ss \in Nat \X Nat : ss[1] < ss[2]}
<1>1. OpToRel(<, Nat) = Less
  BY Zenon DEF OpToRel
<1>2. PICK i \in I : \A j \in I : ~(<<j, i>> \in OpToRel(<, Nat))
  BY NatLessThanWellFounded, WFMin, Zenon
<1>3. ASSUME NEW j \in I PROVE i <= j
  <2>1. <<j, i>> \notin Less
    BY <1>1, <1>2, Zenon
  <2>2. j < i => <<j, i>> \in Less
    OBVIOUS
  <2> QED BY <2>1, <2>2
<1> QED BY <1>3

\* f[i] is the first i sequences of ss, one behind the other.
Spread(ss, n, f) == f = [i \in 1..n |-> IF i = 1 THEN ss[i] ELSE f[i - 1] \o ss[i]]

LEMMA SpreadExists ==
  ASSUME NEW ss, NEW n \in Nat
  PROVE  \E f : Spread(ss, n, f)
<1> DEFINE Bad == {m \in Nat : ~\E f : Spread(ss, m, f)}
<1>1. ASSUME NEW m \in Bad, \A j \in Bad : m <= j PROVE FALSE
  <2>1. CASE m = 0
    <3> DEFINE f == [i \in 1..0 |-> 0]
    <3>1. Spread(ss, 0, f)
      BY DEF Spread
    <3> QED BY <2>1, <3>1
  <2>2. CASE m # 0
    <3>1. m - 1 \in Nat /\ m - 1 \notin Bad
      BY <1>1, <2>2
    <3>2. PICK f : Spread(ss, m - 1, f)
      BY <3>1, Zenon
    <3> DEFINE last == IF m = 1 THEN ss[1] ELSE f[m - 1] \o ss[m]
               g == [i \in 1..m |-> IF i = m THEN last ELSE f[i]]
    <3>3. \A i \in 1..(m - 1) : f[i] = IF i = 1 THEN ss[i] ELSE f[i - 1] \o ss[i]
      BY <3>2, Zenon DEF Spread
    <3>4. \A i \in 1..m : g[i] = IF i = 1 THEN ss[i] ELSE g[i - 1] \o ss[i]
      <4>1. ASSUME NEW i \in 1..(m - 1) PROVE g[i] = IF i = 1 THEN ss[i] ELSE g[i - 1] \o ss[i]
        <5>1. g[i] = f[i] /\ (i # 1 => g[i - 1] = f[i - 1])
          BY <3>1
        <5> QED BY <3>3, <5>1
      <4>2. g[m] = IF m = 1 THEN ss[m] ELSE g[m - 1] \o ss[m]
        <5>1. g[m] = last /\ (m # 1 => g[m - 1] = f[m - 1])
          BY <3>1
        <5> QED BY <5>1
      <4> HIDE DEF g
      <4>3. \A i \in 1..m : i = m \/ i \in 1..(m - 1)
        BY <3>1
      <4> QED BY <4>1, <4>2, <4>3
    <3>5. Spread(ss, m, g)
      BY <3>4, Zenon DEF Spread
    <3> QED BY <3>5
  <2> QED BY <2>1, <2>2
<1>2. Bad \in SUBSET Nat
  OBVIOUS
<1>3. Bad = {}
  BY <1>1, <1>2, Smallest, Zenon
<1> QED BY <1>3

\* Every member of w is one of the first m sequences of ss, at[k] and off[k] say
\* which and where, and every one of them is in w once.
Places(ss, m, w, at, off) ==
    /\ at \in [1..Len(w) -> 1..m] /\ off \in [1..Len(w) -> Nat]
    /\ \A k \in 1..Len(w) : off[k] \in 1..Len(ss[at[k]]) /\ w[k] = ss[at[k]][off[k]]
    /\ \A k, l \in 1..Len(w) : at[k] = at[l] /\ off[k] = off[l] => k = l
    /\ \A i \in 1..m : \A j \in 1..Len(ss[i]) : \E k \in 1..Len(w) : at[k] = i /\ off[k] = j

LEMMA PlacesOne ==
  ASSUME NEW S, NEW ss \in Seq(Seq(S)), Len(ss) # 0
  PROVE  \E at, off : Places(ss, 1, ss[1], at, off)
<1> DEFINE at == [k \in 1..Len(ss[1]) |-> 1]
           off == [k \in 1..Len(ss[1]) |-> k]
<1>1. ss[1] \in Seq(S)
  OBVIOUS
<1>2. Places(ss, 1, ss[1], at, off)
  BY <1>1 DEF Places
<1> QED BY <1>2

\* Places of W elements are followed by those of N elements of the next sequence.
Follows(W, N, m, at, off, at2, off2) ==
    /\ at2 \in [1..(W + N) -> 1..(m + 1)] /\ off2 \in [1..(W + N) -> Nat]
    /\ \A k \in 1..W : k \in 1..(W + N) /\ at2[k] = at[k] /\ off2[k] = off[k] /\ at2[k] # m + 1
    /\ \A k \in 1..N : W + k \in 1..(W + N) /\ at2[W + k] = m + 1 /\ off2[W + k] = k
    /\ \A k \in 1..(W + N) : k \in 1..W \/ \E l \in 1..N : k = W + l

LEMMA PlacesFollow ==
  ASSUME NEW W \in Nat, NEW N \in Nat, NEW m \in Nat,
         NEW at \in [1..W -> 1..m], NEW off \in [1..W -> Nat]
  PROVE  Follows(W, N, m, at, off, [k \in 1..(W + N) |-> IF k <= W THEN at[k] ELSE m + 1],
                                   [k \in 1..(W + N) |-> IF k <= W THEN off[k] ELSE k - W])
<1>1. ASSUME NEW k \in 1..(W + N) PROVE k \in 1..W \/ \E l \in 1..N : k = W + l
  <2>1. CASE k <= W
    BY <2>1
  <2>2. CASE ~(k <= W)
    <3>1. k - W \in 1..N /\ k = W + (k - W)
      BY <2>2
    <3> QED BY <3>1
  <2> QED BY <2>1, <2>2
<1>2. \A k \in 1..W : k \in 1..(W + N) /\ k <= W /\ at[k] # m + 1 /\ at[k] \in 1..(m + 1)
  OBVIOUS
<1>3. \A k \in 1..N : W + k \in 1..(W + N) /\ ~(W + k <= W) /\ (W + k) - W = k
  OBVIOUS
<1>4. \A k \in 1..(W + N) : ~(k <= W) => k - W \in Nat /\ m + 1 \in 1..(m + 1)
  OBVIOUS
<1>5. \A k \in 1..(W + N) : k <= W => k \in 1..W
  OBVIOUS
<1> QED BY <1>1, <1>2, <1>3, <1>4, <1>5 DEF Follows

LEMMA PlacesMore ==
  ASSUME NEW S, NEW ss \in Seq(Seq(S)), NEW m \in 1..(Len(ss) - 1), NEW w \in Seq(S),
         NEW at, NEW off, Places(ss, m, w, at, off)
  PROVE  \E at2, off2 : Places(ss, m + 1, w \o ss[m + 1], at2, off2)
<1> DEFINE v == w \o ss[m + 1]
           W == Len(w)
           N == Len(ss[m + 1])
           at2 == [k \in 1..(W + N) |-> IF k <= W THEN at[k] ELSE m + 1]
           off2 == [k \in 1..(W + N) |-> IF k <= W THEN off[k] ELSE k - W]
<1>1. /\ W \in Nat /\ N \in Nat /\ m \in Nat /\ Len(v) = W + N
      /\ \A k \in 1..W : v[k] = w[k]
      /\ \A k \in 1..N : v[W + k] = ss[m + 1][k]
  <2>1. ss[m + 1] \in Seq(S)
    OBVIOUS
  <2> QED BY <2>1
<1>2. at \in [1..W -> 1..m] /\ off \in [1..W -> Nat]
  BY DEF Places
<1>3. Follows(W, N, m, at, off, at2, off2)
  <2> HIDE DEF W, N
  <2> QED BY <1>1, <1>2, PlacesFollow
<1> HIDE DEF v, W, N, at2, off2
<1>4. /\ \A k \in 1..W : off[k] \in 1..Len(ss[at[k]]) /\ w[k] = ss[at[k]][off[k]]
      /\ \A k, l \in 1..W : at[k] = at[l] /\ off[k] = off[l] => k = l
      /\ \A i \in 1..m : \A j \in 1..Len(ss[i]) : \E k \in 1..W : at[k] = i /\ off[k] = j
  BY Zenon DEF Places, W
<1>5. ASSUME NEW k \in 1..(W + N)
      PROVE  off2[k] \in 1..Len(ss[at2[k]]) /\ v[k] = ss[at2[k]][off2[k]]
  <2>1. CASE k \in 1..W
    BY <1>1, <1>3, <1>4, <2>1, Zenon DEF Follows
  <2>2. ASSUME NEW l \in 1..N, k = W + l
        PROVE  off2[k] \in 1..Len(ss[at2[k]]) /\ v[k] = ss[at2[k]][off2[k]]
    BY <1>1, <1>3, <2>2, Zenon DEF Follows, N
  <2> QED BY <1>3, <2>1, <2>2, Zenon DEF Follows
<1>6. ASSUME NEW k \in 1..(W + N), NEW l \in 1..(W + N), at2[k] = at2[l], off2[k] = off2[l]
      PROVE  k = l
  <2>1. CASE k \in 1..W /\ l \in 1..W
    <3>1. at[k] = at[l] /\ off[k] = off[l]
      BY <1>3, <1>6, <2>1, Zenon DEF Follows
    <3> QED BY <1>4, <2>1, <3>1, Zenon
  <2>2. ASSUME NEW h \in 1..N, k = W + h PROVE k = l
    <3>1. at2[l] = m + 1 /\ off2[l] = h
      BY <1>3, <1>6, <2>2, Zenon DEF Follows
    <3>2. PICK g \in 1..N : l = W + g
      BY <1>3, <3>1, Zenon DEF Follows
    <3> QED BY <1>3, <2>2, <3>1, <3>2, Zenon DEF Follows
  <2>3. ASSUME NEW h \in 1..N, l = W + h PROVE k = l
    <3>1. at2[k] = m + 1 /\ off2[k] = h
      BY <1>3, <1>6, <2>3, Zenon DEF Follows
    <3>2. PICK g \in 1..N : k = W + g
      BY <1>3, <3>1, Zenon DEF Follows
    <3> QED BY <1>3, <2>3, <3>1, <3>2, Zenon DEF Follows
  <2> QED BY <1>3, <2>1, <2>2, <2>3, Zenon DEF Follows
<1>7. ASSUME NEW i \in 1..(m + 1), NEW j \in 1..Len(ss[i])
      PROVE  \E k \in 1..(W + N) : at2[k] = i /\ off2[k] = j
  <2>1. CASE i \in 1..m
    <3>1. PICK k \in 1..W : at[k] = i /\ off[k] = j
      BY <1>4, <2>1, Zenon
    <3> QED BY <1>3, <3>1, Zenon DEF Follows
  <2>2. CASE i = m + 1
    BY <1>3, <2>2, Zenon DEF Follows, N
  <2>3. i \in 1..m \/ i = m + 1
    BY <1>1
  <2> QED BY <2>1, <2>2, <2>3
<1>8. Places(ss, m + 1, v, at2, off2)
  <2>1. at2 \in [1..Len(v) -> 1..(m + 1)] /\ off2 \in [1..Len(v) -> Nat]
    BY <1>1, <1>3, Zenon DEF Follows
  <2>2. \A k \in 1..Len(v) : off2[k] \in 1..Len(ss[at2[k]]) /\ v[k] = ss[at2[k]][off2[k]]
    BY <1>1, <1>5, Zenon
  <2>3. \A k, l \in 1..Len(v) : at2[k] = at2[l] /\ off2[k] = off2[l] => k = l
    BY <1>1, <1>6, Zenon
  <2>4. \A i \in 1..(m + 1) : \A j \in 1..Len(ss[i]) :
           \E k \in 1..Len(v) : at2[k] = i /\ off2[k] = j
    <3>1. 1..Len(v) = 1..(W + N)
      BY <1>1, Zenon
    <3>2. ASSUME NEW i \in 1..(m + 1), NEW j \in 1..Len(ss[i])
          PROVE  \E k \in 1..Len(v) : at2[k] = i /\ off2[k] = j
      <4>1. PICK k \in 1..(W + N) : at2[k] = i /\ off2[k] = j
        BY <1>7, Zenon
      <4> QED BY <3>1, <4>1, Zenon
    <3> QED BY <3>2, Zenon
  <2> QED BY <2>1, <2>2, <2>3, <2>4, Zenon DEF Places
<1> QED BY <1>8, Zenon DEF v

LEMMA FlattenPlaces ==
  ASSUME NEW S, NEW ss \in Seq(Seq(S))
  PROVE  /\ FlattenSeq(ss) \in Seq(S)
         /\ \E at, off : Places(ss, Len(ss), FlattenSeq(ss), at, off)
<1>1. CASE Len(ss) = 0
  <2>1. ss = <<>> /\ FlattenSeq(ss) = <<>>
    BY <1>1 DEF FlattenSeq
  <2>2. Places(ss, Len(ss), <<>>, <<>>, <<>>)
    BY <1>1 DEF Places
  <2>3. <<>> \in Seq(S)
    OBVIOUS
  <2> QED BY <2>1, <2>2, <2>3, Zenon
<1>2. CASE Len(ss) # 0
  <2> DEFINE n == Len(ss)
             f == CHOOSE f : Spread(ss, n, f)
  <2>1. n \in Nat /\ FlattenSeq(ss) = f[n]
    BY <1>2 DEF FlattenSeq, Spread
  <2>2. Spread(ss, n, f)
    BY <2>1, SpreadExists
  <2>3. \A i \in 1..n : f[i] = IF i = 1 THEN ss[i] ELSE f[i - 1] \o ss[i]
    BY <2>2, Zenon DEF Spread
  <2> HIDE DEF f
  <2> DEFINE Good(m) == f[m] \in Seq(S) /\ \E at, off : Places(ss, m, f[m], at, off)
             Bad == {m \in 1..n : ~Good(m)}
  <2>4. ASSUME NEW m \in Bad, \A j \in Bad : m <= j PROVE FALSE
    <3>1. CASE m = 1
      <4>1. f[1] = ss[1] /\ ss[1] \in Seq(S)
        BY <1>2, <2>1, <2>3
      <4>2. Good(1)
        BY <1>2, <4>1, PlacesOne
      <4> QED BY <3>1, <4>2
    <3>2. CASE m # 1
      <4>0. m \in 1..n /\ \A j \in 1..n : ~Good(j) => m <= j
        BY <2>4
      <4> HIDE DEF Good
      <4>1. m - 1 \in 1..n /\ Good(m - 1) /\ m - 1 \in 1..(Len(ss) - 1)
        BY <2>1, <4>0, <3>2
      <4>2. PICK at, off : f[m - 1] \in Seq(S) /\ Places(ss, m - 1, f[m - 1], at, off)
        BY <4>1 DEF Good
      <4>3. f[m] = f[m - 1] \o ss[m] /\ ss[m] \in Seq(S) /\ (m - 1) + 1 = m
        <5>1. f[m] = f[m - 1] \o ss[m]
          BY <2>3, <3>2, <4>0, Zenon
        <5>2. ss[m] \in Seq(S) /\ (m - 1) + 1 = m
          BY <2>1, <4>0
        <5> QED BY <5>1, <5>2
      <4>4. \E at2, off2 : Places(ss, (m - 1) + 1, f[m - 1] \o ss[(m - 1) + 1], at2, off2)
        BY <4>1, <4>2, PlacesMore
      <4>5. Good(m)
        BY <4>2, <4>3, <4>4 DEF Good
      <4> QED BY <2>4, <4>5
    <3> QED BY <3>1, <3>2
  <2>5. Bad \in SUBSET Nat
    BY <2>1
  <2>6. Bad = {}
    BY <2>4, <2>5, Smallest, Zenon
  <2>7. Good(n)
    BY <1>2, <2>1, <2>6
  <2> QED BY <2>1, <2>7
<1> QED BY <1>1, <1>2

-----------------------------------------------------------------------------
(* The operations on items.                                                *)

LEMMA ItemOK ==
  ASSUME NEW d \in DOMAIN Docs, NEW op \in {"source", "saved", "fax"}
  PROVE  Item(op, d) \in Items /\ Item(op, d).op = op /\ Item(op, d).doc = d /\ Item(op, d).dirnum = 0
  BY DEF Item, Items

\* Seen from a page the items of Imaged are those before it, a source being an
\* imaged form of which nothing was sent.
LEMMA ImagedOK ==
  ASSUME NEW items, Whole(items)
  PROVE  /\ Whole(Imaged(items)) /\ NoSource(Imaged(items))
         /\ \A i \in DOMAIN items : \E k \in DOMAIN Imaged(items) :
               Imaged(items)[k] = IF items[i].op = "source" THEN Item("fax", items[i].doc) ELSE items[i]
         /\ \A k \in DOMAIN Imaged(items) : Imaged(items)[k].op = "fax" =>
               \E i \in DOMAIN items :
                  \/ items[i] = Imaged(items)[k]
                  \/ items[i].op = "source" /\ Imaged(items)[k] = Item("fax", items[i].doc)
<1> DEFINE P(i) == IF items[i].op = "source"
                   THEN <<Item("saved", items[i].doc), Item("fax", items[i].doc)>>
                   ELSE <<items[i]>>
           ss == [i \in DOMAIN items |-> P(i)]
           w == Imaged(items)
<1>0. items \in Seq(Items) /\ \A i \in DOMAIN items : items[i] \in Items
  BY DEF Whole
<1>1. items \in Seq(Items) /\ \A i \in DOMAIN items : items[i] \in Items /\ items[i].doc \in DOMAIN Docs
  BY <1>0 DEF Items
<1>2. ASSUME NEW i \in DOMAIN items
      PROVE  /\ P(i) \in Seq(Items)
             /\ items[i].op = "source" => /\ Len(P(i)) = 2 /\ P(i)[1] = Item("saved", items[i].doc)
                                          /\ P(i)[2] = Item("fax", items[i].doc)
             /\ items[i].op # "source" => Len(P(i)) = 1 /\ P(i)[1] = items[i]
  BY <1>1, ItemOK
<1>a. DOMAIN items = 1..Len(items) /\ Len(items) \in Nat
  BY <1>1
<1>4. w = FlattenSeq(ss)
  BY DEF Imaged
<1> HIDE DEF P
<1>3. ss \in Seq(Seq(Items)) /\ Len(ss) = Len(items) /\ DOMAIN items = 1..Len(items)
      /\ \A i \in DOMAIN items : ss[i] = P(i)
  BY <1>a, <1>2
<1> HIDE DEF ss, P, w
<1>5. w \in Seq(Items) /\ \E at, off : Places(ss, Len(items), w, at, off)
  BY <1>3, <1>4, FlattenPlaces
<1>6. PICK at, off : Places(ss, Len(items), w, at, off)
  BY <1>5
<1>7. DOMAIN w = 1..Len(w)
  BY <1>5
<1>8. ASSUME NEW k \in DOMAIN w
      PROVE  /\ at[k] \in DOMAIN items
             /\ \/ items[at[k]].op = "source" /\ off[k] = 1 /\ w[k] = Item("saved", items[at[k]].doc)
                \/ items[at[k]].op = "source" /\ off[k] = 2 /\ w[k] = Item("fax", items[at[k]].doc)
                \/ items[at[k]].op # "source" /\ off[k] = 1 /\ w[k] = items[at[k]]
  <2>1. at[k] \in DOMAIN items /\ off[k] \in 1..Len(ss[at[k]]) /\ w[k] = ss[at[k]][off[k]]
    BY <1>3, <1>6, <1>7 DEF Places
  <2>2. off[k] \in 1..Len(P(at[k])) /\ w[k] = P(at[k])[off[k]]
    BY <1>3, <2>1
  <2>3. CASE items[at[k]].op = "source"
    BY <1>2, <2>1, <2>2, <2>3
  <2>4. CASE items[at[k]].op # "source"
    BY <1>2, <2>1, <2>2, <2>4
  <2> QED BY <2>3, <2>4
<1>9. ASSUME NEW k \in DOMAIN w
      PROVE  /\ w[k].doc = items[at[k]].doc
             /\ items[at[k]].op = "source" => /\ w[k].op = "saved" <=> off[k] = 1
                                              /\ w[k].op = "fax" <=> off[k] = 2
             /\ items[at[k]].op # "source" => w[k].op = items[at[k]].op /\ off[k] = 1
  BY <1>1, <1>8, ItemOK
<1>10. ASSUME NEW i \in DOMAIN items, NEW j \in 1..Len(P(i))
       PROVE  \E k \in DOMAIN w : at[k] = i /\ off[k] = j
  <2>1. i \in 1..Len(items) /\ j \in 1..Len(ss[i])
    BY <1>3, <1>10
  <2>2. \A h \in 1..Len(items) : \A o \in 1..Len(ss[h]) : \E k \in 1..Len(w) : at[k] = h /\ off[k] = o
    BY <1>6 DEF Places
  <2>3. \E k \in 1..Len(w) : at[k] = i /\ off[k] = j
    BY <2>1, <2>2, Zenon
  <2> QED BY <1>7, <2>3
<1>11. NoSource(w)
  BY <1>8, <1>9 DEF NoSource
<1>12. ASSUME NEW i \in DOMAIN items
       PROVE  \E k \in DOMAIN w :
                 w[k] = IF items[i].op = "source" THEN Item("fax", items[i].doc) ELSE items[i]
  <2>1. CASE items[i].op = "source"
    <3>0. 2 \in 1..Len(P(i))
      BY <1>2, <2>1
    <3>1. PICK k \in DOMAIN w : at[k] = i /\ off[k] = 2
      BY <1>10, <3>0, Zenon
    <3> QED BY <1>8, <2>1, <3>1
  <2>2. CASE items[i].op # "source"
    <3>0. 1 \in 1..Len(P(i))
      BY <1>2, <2>2
    <3>1. PICK k \in DOMAIN w : at[k] = i /\ off[k] = 1
      BY <1>10, <3>0, Zenon
    <3> QED BY <1>8, <2>2, <3>1
  <2> QED BY <2>1, <2>2
<1>13. ASSUME NEW k \in DOMAIN w, w[k].op = "fax"
       PROVE  \E i \in DOMAIN items : \/ items[i] = w[k]
                                      \/ items[i].op = "source" /\ w[k] = Item("fax", items[i].doc)
  BY <1>8, <1>9, <1>13
<1>14. ASSUME NEW d \in DOMAIN Docs PROVE \E k \in DOMAIN w : w[k].doc = d /\ w[k].op # "fax"
  <2>1. PICK i \in DOMAIN items : items[i].doc = d /\ items[i].op # "fax"
    BY DEF Whole
  <2>0. 1 \in 1..Len(P(i))
    BY <1>2
  <2>2. PICK k \in DOMAIN w : at[k] = i /\ off[k] = 1
    BY <1>10, <2>0, Zenon
  <2> QED BY <1>9, <2>1, <2>2
<1>15. ASSUME NEW k \in DOMAIN w, NEW l \in DOMAIN w, w[k].doc = w[l].doc,
              w[k].op = "fax" <=> w[l].op = "fax"
       PROVE  k = l
  <2>1. items[at[k]].doc = items[at[l]].doc /\ at[k] \in DOMAIN items /\ at[l] \in DOMAIN items
    BY <1>8, <1>9, <1>15, Zenon
  <2>2. at[k] = at[l]
    <3>1. CASE items[at[k]].op = "source" \/ items[at[l]].op = "source"
      BY <2>1, <3>1 DEF Whole
    <3>2. CASE items[at[k]].op # "source" /\ items[at[l]].op # "source"
      BY <1>9, <1>15, <2>1, <3>2 DEF Whole
    <3> QED BY <3>1, <3>2
  <2>3. off[k] = off[l]
    BY <1>8, <1>9, <1>15, <2>2
  <2> QED BY <1>6, <1>7, <2>2, <2>3 DEF Places
<1>16. Whole(w)
  BY <1>5, <1>11, <1>14, <1>15 DEF Whole, NoSource
<1> QED BY <1>11, <1>12, <1>13, <1>16 DEF w

LEMMA NotImagedOK ==
  ASSUME NEW items, items \in Seq(Items)
  PROVE  /\ NotImaged(items) \in Seq(Items) /\ NoFax(NotImaged(items))
         /\ \A i \in DOMAIN items : items[i].op # "fax" =>
               \E k \in DOMAIN NotImaged(items) : NotImaged(items)[k] = items[i]
         /\ Whole(items) => \A k, l \in DOMAIN NotImaged(items) :
               NotImaged(items)[k].doc = NotImaged(items)[l].doc => k = l
<1> DEFINE P(i) == IF items[i].op = "fax" THEN <<>> ELSE <<items[i]>>
           ss == [i \in DOMAIN items |-> P(i)]
           w == NotImaged(items)
<1>1. ASSUME NEW i \in DOMAIN items
      PROVE  /\ P(i) \in Seq(Items)
             /\ items[i].op = "fax" => Len(P(i)) = 0
             /\ items[i].op # "fax" => Len(P(i)) = 1 /\ P(i)[1] = items[i]
  OBVIOUS
<1>a. DOMAIN items = 1..Len(items) /\ Len(items) \in Nat
  OBVIOUS
<1>3. w = FlattenSeq(ss)
  BY DEF NotImaged
<1> HIDE DEF P
<1>2. ss \in Seq(Seq(Items)) /\ Len(ss) = Len(items) /\ DOMAIN items = 1..Len(items)
      /\ \A i \in DOMAIN items : ss[i] = P(i)
  BY <1>a, <1>1
<1> HIDE DEF ss, P, w
<1>4. w \in Seq(Items) /\ \E at, off : Places(ss, Len(items), w, at, off)
  BY <1>2, <1>3, FlattenPlaces
<1>5. PICK at, off : Places(ss, Len(items), w, at, off)
  BY <1>4
<1>b. DOMAIN w = 1..Len(w)
  BY <1>4
<1>6. ASSUME NEW k \in DOMAIN w
      PROVE  at[k] \in DOMAIN items /\ items[at[k]].op # "fax" /\ off[k] = 1 /\ w[k] = items[at[k]]
  <2>1. at[k] \in DOMAIN items /\ off[k] \in 1..Len(P(at[k])) /\ w[k] = P(at[k])[off[k]]
    BY <1>2, <1>b, <1>5 DEF Places
  <2> QED BY <1>1, <2>1
<1>7. ASSUME NEW i \in DOMAIN items, items[i].op # "fax"
      PROVE  \E k \in DOMAIN w : w[k] = items[i]
  <2>1. \A h \in 1..Len(items) : \A o \in 1..Len(ss[h]) : \E k \in 1..Len(w) : at[k] = h /\ off[k] = o
    BY <1>5 DEF Places
  <2>2. 1 \in 1..Len(ss[i]) /\ i \in 1..Len(items)
    BY <1>1, <1>2, <1>7
  <2>3. PICK k \in DOMAIN w : at[k] = i
    BY <1>b, <2>1, <2>2, Zenon
  <2> QED BY <1>6, <2>3
<1>8. ASSUME Whole(items), NEW k \in DOMAIN w, NEW l \in DOMAIN w, w[k].doc = w[l].doc
      PROVE  k = l
  <2>1. at[k] = at[l] /\ off[k] = off[l]
    BY <1>6, <1>8 DEF Whole
  <2> QED BY <1>b, <1>5, <2>1 DEF Places
<1> QED BY <1>4, <1>6, <1>7, <1>8 DEF NoFax, w

LEMMA SourcesOK ==
  ASSUME NEW items, Whole(items)
  PROVE  /\ Whole(Sources(items))
         /\ \A k \in DOMAIN Sources(items) : Sources(items)[k].op = "source"
<1> DEFINE kept == NotImaged(items)
           w == Sources(items)
<1>1. items \in Seq(Items)
  BY DEF Whole
<1>2. /\ kept \in Seq(Items)
      /\ \A i \in DOMAIN items : items[i].op # "fax" => \E k \in DOMAIN kept : kept[k] = items[i]
      /\ \A k, l \in DOMAIN kept : kept[k].doc = kept[l].doc => k = l
  BY <1>1, NotImagedOK
<1>3. w = [i \in DOMAIN kept |-> Item("source", kept[i].doc)]
  BY DEF Sources
<1> HIDE DEF kept, w
<1>4. DOMAIN kept = 1..Len(kept) /\ Len(kept) \in Nat /\ \A i \in DOMAIN kept : kept[i] \in Items
  BY <1>2
<1>5. \A i \in DOMAIN kept : kept[i].doc \in DOMAIN Docs
  BY <1>4 DEF Items
<1>6. ASSUME NEW i \in DOMAIN kept
      PROVE  w[i] \in Items /\ w[i].op = "source" /\ w[i].doc = kept[i].doc
  BY <1>3, <1>5, ItemOK
<1>7. w \in Seq(Items) /\ DOMAIN w = DOMAIN kept
  BY <1>3, <1>4, <1>6
<1>8. ASSUME NEW d \in DOMAIN Docs PROVE \E k \in DOMAIN w : w[k].doc = d /\ w[k].op # "fax"
  <2>1. PICK i \in DOMAIN items : items[i].doc = d /\ items[i].op # "fax"
    BY DEF Whole
  <2>2. PICK k \in DOMAIN kept : kept[k] = items[i]
    BY <1>2, <2>1
  <2> QED BY <1>6, <1>7, <2>1, <2>2
<1>9. \A k, l \in DOMAIN w : w[k].doc = w[l].doc => k = l
  BY <1>2, <1>6, <1>7
<1>10. \A k \in DOMAIN w : w[k].op = "source"
  BY <1>6, <1>7
<1> QED BY <1>7, <1>8, <1>9, <1>10 DEF Whole, w

LEMMA FindFaxOK ==
  ASSUME NEW items \in Seq(Items)
  PROVE  \/ FindFax(items) = 0 /\ NoFax(items)
         \/ /\ FindFax(items) \in DOMAIN items /\ FindFax(items) # 0
            /\ items[FindFax(items)].op = "fax"
<1> DEFINE I == {i \in DOMAIN items : items[i].op = "fax"}
<1>1. CASE I = {}
  BY <1>1 DEF FindFax, NoFax
<1>2. CASE I # {}
  <2>1. I \subseteq Nat /\ 0 \notin I
    OBVIOUS
  <2>2. \E x \in I : \A y \in I : x <= y
    BY <1>2, <2>1, Smallest
  <2>3. Min(I) \in I
    BY <2>2 DEF Min
  <2>4. FindFax(items) = Min(I)
    BY <1>2 DEF FindFax
  <2> QED BY <2>1, <2>3, <2>4
<1> QED BY <1>1, <1>2

-----------------------------------------------------------------------------
(* What the operations do to the pages asked for.                          *)

LEMMA PageOf ==
  ASSUME NEW x
  PROVE  x \in AllPages <=> \E d \in DOMAIN Docs : \E n \in 0..(Docs[d] - 1) : x = <<d, n>>
  BY DEF AllPages

LEMMA PageParts ==
  ASSUME NEW x \in AllPages
  PROVE  x[1] \in DOMAIN Docs /\ x[2] \in Nat /\ x[2] < Docs[x[1]] /\ x = <<x[1], x[2]>>
<1>1. PICK d \in DOMAIN Docs : \E n \in 0..(Docs[d] - 1) : x = <<d, n>>
  BY PageOf
<1>2. PICK n \in 0..(Docs[d] - 1) : x = <<d, n>>
  BY <1>1
<1>3. Docs[d] \in Nat
  BY FaxSendAssumption
<1> QED BY <1>2, <1>3

LEMMA ItemParts ==
  ASSUME NEW items, Whole(items), NEW i \in DOMAIN items
  PROVE  /\ items[i] \in Items /\ items[i].doc \in DOMAIN Docs /\ items[i].dirnum \in Nat
         /\ items[i].op \in {"source", "saved", "fax"} /\ Docs[items[i].doc] \in Nat
         /\ i \in Nat /\ i # 0
<1>1. items \in Seq(Items)
  BY DEF Whole
<1>2. items[i] \in Items /\ i \in Nat /\ i # 0
  BY <1>1
<1>3. items[i].doc \in DOMAIN Docs /\ items[i].dirnum \in Nat /\ items[i].op \in {"source", "saved", "fax"}
  BY <1>2 DEF Items
<1> QED BY <1>2, <1>3, FaxSendAssumption

LEMMA ImagedWanted ==
  ASSUME NEW items, Whole(items)
  PROVE  Wanted(Imaged(items), 0) = Wanted(items, 0)
<1> DEFINE w == Imaged(items)
<1>0. /\ Whole(w) /\ NoSource(w)
      /\ \A i \in DOMAIN items : \E k \in DOMAIN w :
            w[k] = IF items[i].op = "source" THEN Item("fax", items[i].doc) ELSE items[i]
      /\ \A k \in DOMAIN w : w[k].op = "fax" =>
            \E i \in DOMAIN items :
               \/ items[i] = w[k]
               \/ items[i].op = "source" /\ w[k] = Item("fax", items[i].doc)
  BY ImagedOK
<1> HIDE DEF w
<1>1. ASSUME NEW x \in AllPages, NEW i \in DOMAIN items, Asks(items[i], x, 0)
      PROVE  \E k \in DOMAIN w : Asks(w[k], x, 0)
  <2>1. PICK k \in DOMAIN w : w[k] = IF items[i].op = "source" THEN Item("fax", items[i].doc) ELSE items[i]
    BY <1>0
  <2>2. CASE items[i].op = "source"
    BY <1>1, <2>1, <2>2, PageParts, ItemParts, ItemOK DEF Asks
  <2>3. CASE items[i].op # "source"
    BY <1>1, <2>1, <2>3
  <2> QED BY <2>2, <2>3
<1>2. ASSUME NEW x \in AllPages, NEW k \in DOMAIN w, Asks(w[k], x, 0)
      PROVE  \E i \in DOMAIN items : Asks(items[i], x, 0)
  <2>1. w[k].op = "fax"
    BY <1>0, <1>2 DEF Asks, NoSource
  <2>2. PICK i \in DOMAIN items : \/ items[i] = w[k]
                                  \/ items[i].op = "source" /\ w[k] = Item("fax", items[i].doc)
    BY <1>0, <2>1
  <2>3. CASE items[i] = w[k]
    BY <1>2, <2>3
  <2>4. CASE items[i].op = "source" /\ w[k] = Item("fax", items[i].doc)
    BY <1>2, <2>4, ItemParts, ItemOK DEF Asks
  <2> QED BY <2>2, <2>3, <2>4
<1> QED BY <1>1, <1>2 DEF Wanted, w

LEMMA SourcesWanted ==
  ASSUME NEW items, Whole(items)
  PROVE  Wanted(Sources(items), 0) = AllPages
<1> DEFINE w == Sources(items)
<1>1. Whole(w) /\ \A k \in DOMAIN w : w[k].op = "source"
  BY SourcesOK
<1> HIDE DEF w
<1>2. ASSUME NEW x \in AllPages PROVE \E k \in DOMAIN w : Asks(w[k], x, 0)
  BY <1>1, PageParts DEF Whole, Asks
<1> QED BY <1>2 DEF Wanted, w

\* What is left when the first imaged document has gone.
LEMMA RemoveOK ==
  ASSUME NEW items, Whole(items), FindFax(items) # 0
  PROVE  LET i == FindFax(items)
             w == RemoveAt(items, i)
         IN  /\ Whole(w)
             /\ \A k \in DOMAIN w : \E j \in DOMAIN items \ {i} : w[k] = items[j]
             /\ \A j \in DOMAIN items \ {i} : \E k \in DOMAIN w : w[k] = items[j]
<1> DEFINE i == FindFax(items)
           w == RemoveAt(items, i)
           a == SubSeq(items, 1, i - 1)
           b == SubSeq(items, i + 1, Len(items))
           n == Len(items)
           from(k) == IF k < i THEN k ELSE k + 1
<1>1. items \in Seq(Items) /\ n \in Nat /\ DOMAIN items = 1..n
  BY DEF Whole
<1>2. i \in 1..n /\ items[i].op = "fax"
  BY <1>1, FindFaxOK
<1>3. w = a \o b
  BY DEF RemoveAt
<1> HIDE DEF i, w, n
<1>4. a \in Seq(Items) /\ Len(a) = i - 1 /\ \A k \in 1..(i - 1) : a[k] = items[k]
  <2>1. \A k \in 1..(i - 1) : items[k] \in Items
    BY <1>1, <1>2
  <2>2. 1 \in Int /\ i - 1 \in Int
    BY <1>1, <1>2
  <2>3. /\ a \in Seq(Items) /\ Len(a) = IF 1 <= i - 1 THEN (i - 1) - 1 + 1 ELSE 0
        /\ \A k \in 1..((i - 1) - 1 + 1) : a[k] = items[1 + k - 1]
    BY <2>1, <2>2, SubSeqFacts
  <2> HIDE DEF a
  <2> QED BY <1>1, <1>2, <2>3
<1>5. b \in Seq(Items) /\ Len(b) = n - i /\ \A k \in 1..(n - i) : b[k] = items[i + k]
  <2>1. \A k \in (i + 1)..n : items[k] \in Items
    BY <1>1, <1>2
  <2>2. i + 1 \in Int /\ n \in Int
    BY <1>1, <1>2
  <2>3. /\ b \in Seq(Items) /\ Len(b) = IF i + 1 <= n THEN n - (i + 1) + 1 ELSE 0
        /\ \A k \in 1..(n - (i + 1) + 1) : b[k] = items[(i + 1) + k - 1]
    BY <2>1, <2>2, SubSeqFacts DEF n
  <2> HIDE DEF b
  <2>4. n - (i + 1) + 1 = n - i /\ (~(i + 1 <= n) => n - i = 0) /\ i \in Nat
    BY <1>1, <1>2
  <2>5. Len(b) = n - i
    BY <2>3, <2>4
  <2>6. ASSUME NEW k \in 1..(n - i) PROVE b[k] = items[i + k]
    <3>1. (i + 1) + k - 1 = i + k
      BY <2>4
    <3> QED BY <2>3, <2>4, <3>1
  <2> QED BY <2>3, <2>5, <2>6
<1> HIDE DEF a, b
<1>6. /\ w \in Seq(Items) /\ Len(w) = n - 1
      /\ \A k \in 1..(n - 1) : w[k] = IF k <= i - 1 THEN a[k] ELSE b[k - (i - 1)]
  <2>1. /\ w \in Seq(Items) /\ Len(w) = Len(a) + Len(b)
        /\ \A k \in 1..(Len(a) + Len(b)) : w[k] = IF k <= Len(a) THEN a[k] ELSE b[k - Len(a)]
    BY <1>3, <1>4, <1>5, ConcatFacts
  <2>2. Len(a) + Len(b) = n - 1
    BY <1>1, <1>2, <1>4, <1>5
  <2> QED BY <1>4, <2>1, <2>2
<1>7. DOMAIN w = 1..(n - 1)
  BY <1>6
<1>8. ASSUME NEW k \in 1..(n - 1)
      PROVE  w[k] = items[from(k)] /\ from(k) \in 1..n /\ from(k) # i
  <2>1. CASE k < i
    BY <1>1, <1>2, <1>4, <1>6, <2>1
  <2>2. CASE ~(k < i)
    <3>1. k - (i - 1) \in 1..(n - i) /\ i + (k - (i - 1)) = k + 1
      BY <1>1, <1>2, <2>2
    <3>2. w[k] = b[k - (i - 1)]
      BY <1>1, <1>2, <1>6, <2>2
    <3>3. w[k] = items[k + 1]
      BY <1>5, <3>1, <3>2
    <3> QED BY <1>1, <1>2, <2>2, <3>3
  <2> QED BY <2>1, <2>2
<1>9. ASSUME NEW j \in 1..n, j # i PROVE \E k \in 1..(n - 1) : from(k) = j
  <2>1. CASE j < i
    BY <1>1, <1>2, <2>1
  <2>2. CASE ~(j < i)
    <3>1. j - 1 \in 1..(n - 1) /\ from(j - 1) = j
      BY <1>1, <1>2, <1>9, <2>2
    <3> QED BY <3>1
  <2> QED BY <2>1, <2>2
<1>10. \A k, l \in 1..(n - 1) : from(k) = from(l) => k = l
  BY <1>1, <1>2
<1> HIDE DEF from
<1>11. \A k \in DOMAIN w : \E j \in DOMAIN items \ {i} : w[k] = items[j]
  BY <1>1, <1>7, <1>8
<1>12. ASSUME NEW j \in DOMAIN items \ {i} PROVE \E k \in DOMAIN w : w[k] = items[j]
  <2>1. PICK k \in 1..(n - 1) : from(k) = j
    BY <1>1, <1>9
  <2> QED BY <1>7, <1>8, <2>1
<1>13. ASSUME NEW d \in DOMAIN Docs PROVE \E k \in DOMAIN w : w[k].doc = d /\ w[k].op # "fax"
  <2>1. PICK j \in DOMAIN items : items[j].doc = d /\ items[j].op # "fax"
    BY DEF Whole
  <2> QED BY <1>2, <1>12, <2>1
<1>14. \A k, l \in DOMAIN w : ~(w[k].op = "fax" /\ w[l].op = "source")
  BY <1>11 DEF Whole
<1>15. ASSUME NEW k \in DOMAIN w, NEW l \in DOMAIN w, w[k].doc = w[l].doc,
              w[k].op = "fax" <=> w[l].op = "fax"
       PROVE  k = l
  <2>1. from(k) = from(l)
    BY <1>1, <1>7, <1>8, <1>15 DEF Whole
  <2> QED BY <1>7, <1>10, <2>1
<1>16. Whole(w)
  BY <1>6, <1>13, <1>14, <1>15 DEF Whole
<1> QED BY <1>11, <1>12, <1>16 DEF i, w

LEMMA RemoveWanted ==
  ASSUME NEW items, Whole(items), FindFax(items) # 0
  PROVE  LET i == FindFax(items)
             w == RemoveAt(items, i)
         IN  /\ Wanted(w, 0) \subseteq Wanted(items, 0)
             /\ items[i].dirnum >= Docs[items[i].doc] => Wanted(w, 0) = Wanted(items, 0)
<1> DEFINE i == FindFax(items)
           w == RemoveAt(items, i)
<1>1. /\ \A k \in DOMAIN w : \E j \in DOMAIN items \ {i} : w[k] = items[j]
      /\ \A j \in DOMAIN items \ {i} : \E k \in DOMAIN w : w[k] = items[j]
  BY RemoveOK
<1>2. i \in DOMAIN items /\ items[i].op = "fax"
  BY FindFaxOK DEF Whole
<1> HIDE DEF i, w
<1>3. ASSUME NEW x \in AllPages, NEW k \in DOMAIN w, Asks(w[k], x, 0)
      PROVE  \E j \in DOMAIN items : Asks(items[j], x, 0)
  BY <1>1, <1>3
<1>4. ASSUME NEW x \in AllPages, NEW j \in DOMAIN items, Asks(items[j], x, 0),
             items[i].dirnum >= Docs[items[i].doc]
      PROVE  \E k \in DOMAIN w : Asks(w[k], x, 0)
  <2>1. j # i
    BY <1>2, <1>4, PageParts, ItemParts DEF Asks
  <2> QED BY <1>1, <1>4, <2>1
<1>5. Wanted(w, 0) \subseteq Wanted(items, 0)
  BY <1>3 DEF Wanted
<1>6. items[i].dirnum >= Docs[items[i].doc] => Wanted(items, 0) \subseteq Wanted(w, 0)
  BY <1>4 DEF Wanted
<1> QED BY <1>5, <1>6 DEF i, w

\* dirnum moves on by the n pages sent.
Advanced(items, n) ==
    IF n = 0 THEN items ELSE [items EXCEPT ![FindFax(items)].dirnum = @ + n]

LEMMA AdvancedOK ==
  ASSUME NEW items, Whole(items), FindFax(items) # 0, NEW n \in Nat
  PROVE  LET i == FindFax(items)
             w == Advanced(items, n)
         IN  /\ Whole(w) /\ FindFax(w) = i /\ DOMAIN w = DOMAIN items
             /\ \A j \in DOMAIN items : w[j].op = items[j].op /\ w[j].doc = items[j].doc
             /\ \A j \in DOMAIN items \ {i} : w[j] = items[j]
             /\ w[i].dirnum = items[i].dirnum + n
<1> DEFINE i == FindFax(items)
           w == Advanced(items, n)
<1>1. i \in DOMAIN items /\ items[i].op = "fax" /\ items \in Seq(Items)
  BY FindFaxOK DEF Whole
<1>2. items[i] \in Items /\ items[i].dirnum \in Nat
  BY <1>1, ItemParts
<1> HIDE DEF i
<1>3. /\ DOMAIN w = DOMAIN items
      /\ \A j \in DOMAIN items \ {i} : w[j] = items[j]
      /\ w[i].op = items[i].op /\ w[i].doc = items[i].doc /\ w[i].dirnum = items[i].dirnum + n
      /\ w[i] \in Items /\ w \in Seq(Items)
  <2>1. CASE n = 0
    BY <1>1, <1>2, <2>1 DEF Advanced
  <2>2. CASE n # 0
    <3> DEFINE it == [items[i] EXCEPT !.dirnum = @ + n]
    <3>1. /\ it \in Items /\ it.op = items[i].op /\ it.doc = items[i].doc
          /\ it.dirnum = items[i].dirnum + n
      BY <1>2 DEF Items
    <3>2. w = [items EXCEPT ![i] = it]
      BY <2>2 DEF Advanced, i
    <3> HIDE DEF it, w
    <3> QED BY <1>1, <3>1, <3>2
  <2> QED BY <2>1, <2>2
<1> HIDE DEF w
<1>4. \A j \in DOMAIN items : w[j].op = items[j].op /\ w[j].doc = items[j].doc
  BY <1>3
<1>5. Whole(w)
  BY <1>3, <1>4 DEF Whole
<1>6. {j \in DOMAIN w : w[j].op = "fax"} = {j \in DOMAIN items : items[j].op = "fax"}
  BY <1>3, <1>4
<1>7. FindFax(w) = i
  BY <1>6, Zenon DEF FindFax, i
<1> QED BY <1>3, <1>4, <1>5, <1>7 DEF i, w

LEMMA AdvancedWanted ==
  ASSUME NEW items, Whole(items), FindFax(items) # 0, NEW n \in Nat
  PROVE  Wanted(Advanced(items, n), 0) = Wanted(items, n)
<1> DEFINE i == FindFax(items)
           w == Advanced(items, n)
<1>1. /\ DOMAIN w = DOMAIN items
      /\ \A j \in DOMAIN items : w[j].op = items[j].op /\ w[j].doc = items[j].doc
      /\ \A j \in DOMAIN items \ {i} : w[j] = items[j]
      /\ w[i].dirnum = items[i].dirnum + n
  BY AdvancedOK
<1>2. i \in DOMAIN items /\ items[i].dirnum \in Nat
  BY FindFaxOK, ItemParts DEF Whole
<1> HIDE DEF i, w
<1>3. ASSUME NEW x \in AllPages, NEW j \in DOMAIN items
      PROVE  Asks(w[j], x, 0) <=> Asks(items[j], x, IF j = i THEN n ELSE 0)
  <2>1. CASE j = i
    BY <1>1, <1>2, <2>1 DEF Asks
  <2>2. CASE j # i
    BY <1>1, <2>2, Zenon
  <2> QED BY <2>1, <2>2
<1> QED BY <1>1, <1>3, Zenon DEF Wanted, i, w

\* The page that is sent next, and what is asked for when it is confirmed.
LEMMA SentWanted ==
  ASSUME NEW items, Whole(items), FindFax(items) # 0, NEW n \in Nat,
         items[FindFax(items)].dirnum + n < Docs[items[FindFax(items)].doc]
  PROVE  LET i == FindFax(items)
             x == <<items[i].doc, items[i].dirnum + n>>
         IN  x \in AllPages /\ x \in Wanted(items, n) /\ Wanted(items, n + 1) = Wanted(items, n) \ {x}
<1> DEFINE i == FindFax(items)
           x == <<items[i].doc, items[i].dirnum + n>>
<1>1. i \in DOMAIN items /\ items[i].op = "fax"
  BY FindFaxOK DEF Whole
<1>2. items[i].dirnum \in Nat /\ items[i].doc \in DOMAIN Docs /\ Docs[items[i].doc] \in Nat
  BY <1>1, ItemParts
<1>3. items[i].dirnum + n \in 0..(Docs[items[i].doc] - 1)
  BY <1>2
<1>4. x \in AllPages
  BY <1>2, <1>3, PageOf
<1>5. x[1] = items[i].doc /\ x[2] = items[i].dirnum + n
  OBVIOUS
<1> HIDE DEF i, x
<1>6. ASSUME NEW y \in AllPages
      PROVE  Asks(items[i], y, n + 1) <=> Asks(items[i], y, n) /\ y # x
  BY <1>1, <1>2, <1>4, <1>5, PageParts DEF Asks
<1>7. ASSUME NEW j \in DOMAIN items, j # i PROVE ~Asks(items[j], x, 0)
  BY <1>1, <1>5, <1>7, ItemParts DEF Asks, Whole
<1>8. Asks(items[i], x, n)
  BY <1>1, <1>2, <1>5 DEF Asks
<1>9. ASSUME NEW y \in AllPages
      PROVE  y \in Wanted(items, n + 1) <=> y \in Wanted(items, n) /\ y # x
  BY <1>1, <1>6, <1>7 DEF Wanted, i
<1>10. x \in Wanted(items, n)
  BY <1>1, <1>4, <1>8, Zenon DEF Wanted, i
<1>11. Wanted(items, n + 1) = Wanted(items, n) \ {x}
  BY <1>9 DEF Wanted
<1> QED BY <1>4, <1>10, <1>11 DEF i, x

LEMMA WantedLess ==
  ASSUME NEW items, Whole(items), NEW n \in Nat
  PROVE  Wanted(items, n) \subseteq Wanted(items, 0)
<1>1. ASSUME NEW x \in AllPages, NEW j \in DOMAIN items, Asks(items[j], x, n)
      PROVE  Asks(items[j], x, 0)
  BY <1>1, PageParts, ItemParts DEF Asks
<1> QED BY <1>1 DEF Wanted

LEMMA NothingWanted ==
  ASSUME NEW items, Whole(items), FindFax(items) = 0, NoSource(items)
  PROVE  Wanted(items, 0) = {}
<1>1. NoFax(items)
  BY FindFaxOK DEF Whole
<1> QED BY <1>1 DEF NoFax, NoSource, Wanted, Asks

LEMMA NewWanted ==
  Whole(NewRequest.items) /\ NewRequest.npages = 0 /\ Wanted(NewRequest.items, 0) = AllPages
<1> DEFINE w == NewRequest.items
<1>1. w = [d \in DOMAIN Docs |-> Item("source", d)] /\ NewRequest.npages = 0
  BY DEF NewRequest
<1>2. DOMAIN Docs = 1..Len(Docs) /\ Len(Docs) \in Nat
  BY FaxSendAssumption
<1> HIDE DEF w
<1>3. \A d \in DOMAIN Docs : w[d] \in Items /\ w[d].op = "source" /\ w[d].doc = d
  BY <1>1, ItemOK
<1>4. w \in Seq(Items) /\ DOMAIN w = DOMAIN Docs
  BY <1>1, <1>2, <1>3
<1>5. Whole(w)
  BY <1>3, <1>4 DEF Whole
<1>6. \A x \in AllPages : \E d \in DOMAIN w : Asks(w[d], x, 0)
  BY <1>3, <1>4, PageParts DEF Asks
<1>7. Wanted(w, 0) = AllPages
  BY <1>6 DEF Wanted
<1> QED BY <1>1, <1>5, <1>7 DEF w

=============================================================================
