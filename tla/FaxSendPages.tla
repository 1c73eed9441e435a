---------------------------- MODULE FaxSendPages ----------------------------
(***************************************************************************)
(* Proofs about the pages of a job: what the queue file no longer asks for *)
(* has been confirmed (DiskNeverAhead), and "done" means that every page   *)
(* was (DoneMeansSent).                                                    *)
(***************************************************************************)
EXTENDS FaxSendProofs

Loaded(p) == fs[p].pc \in {"dial", "prologue", "doc", "page", "docsent", "end"}

\* The request of a faxsend that has read the queue file.  At a page there is one
\* to send, and a document that has been sent has none left.
ReqOK(r) == r.npages \in Nat /\ Whole(r.items)
ProcOK(p) ==
    LET r == fs[p].req
        i == FindFax(r.items)
        k == IF fs[p].pc = "page" THEN r.npages - fs[p].prev ELSE 0
    IN  Loaded(p) =>
          /\ ReqOK(r)
          /\ fs[p].pc = "page" =>
                /\ fs[p].prev \in Nat /\ fs[p].prev <= r.npages
                /\ i # 0 /\ r.items[i].dirnum + k < Docs[r.items[i].doc]
          /\ fs[p].pc = "docsent" => i # 0
          /\ Without({"vanish"}) =>
                /\ Covers(confirmed, r.items, k)
                /\ fs[p].pc = "docsent" => r.items[i].dirnum >= Docs[r.items[i].doc]

\* Nothing is asked of a job that has ended: an old faxsend may still work on it.
PagesOK ==
    qf.dir = "sendq" =>
       /\ ReqOK(qf)
       /\ Without({"vanish"}) => Covers(confirmed, qf.items, 0)
       /\ \A p \in Procs : ProcOK(p)

PInv == SInv /\ confirmed \in [AllPages -> Nat] /\ PagesOK

-----------------------------------------------------------------------------
(* What the steps of a faxsend change.                                     *)

Apart(p) ==
    /\ fq' = fq /\ told' = told /\ mishaps \subseteq mishaps' /\ qf'.dir = qf.dir
    /\ \A q \in Procs \ {p} : fs'[q] = fs[q]

\* p has gone.
Left(p, code) ==
    /\ fs'[p].pc = IF fq.proc = p THEN "exited" ELSE "none"
    /\ fs'[p].exit = IF fq.proc = p THEN code ELSE "none"
    /\ lock' = IF lock = p THEN "free" ELSE lock

\* p has written its request, with status st.
Wrote(p, st) ==
    qf'.items = fs[p].req.items /\ qf'.npages = fs[p].req.npages /\ qf'.status = st

\* p is at pc with items, npages and status as given.
At(p, pc, items, npages, st) ==
    /\ fs'[p].pc = pc /\ fs'[p].exit = fs[p].exit
    /\ fs'[p].req.items = items /\ fs'[p].req.npages = npages /\ fs'[p].req.status = st

\* p goes on to pc, nothing but its status changes.
Calls(p, pc, st) ==
    /\ At(p, pc, fs[p].req.items, fs[p].req.npages, st)
    /\ qf' = qf /\ lock' = lock /\ confirmed' = confirmed

LEMMA ExitFx ==
  ASSUME Shape, NEW p \in Procs, NEW code, Exit(p, code)
  PROVE  Left(p, code) /\ \A q \in Procs \ {p} : fs'[q] = fs[q]
<1> DEFINE gone == [NoProc EXCEPT !.pc = "exited", !.exit = code]
<1>1. gone.pc = "exited" /\ gone.exit = code /\ NoProc.pc = "none" /\ NoProc.exit = "none"
  BY DEF NoProc
<1>2. /\ fs'[p] = IF fq.proc = p THEN gone ELSE NoProc
      /\ lock' = IF lock = p THEN "free" ELSE lock
      /\ \A q \in Procs \ {p} : fs'[q] = fs[q]
  BY DEF Exit, Shape
<1> HIDE DEF gone
<1> QED BY <1>1, <1>2 DEF Left

LEMMA StepFx ==
  ASSUME Shape, NEW p \in Procs, NEW pc, NEW r, Step(p, pc, r)
  PROVE  /\ At(p, pc, r.items, r.npages, r.status)
         /\ fs'[p].prev = fs[p].prev /\ fs'[p].dosetup = fs[p].dosetup
         /\ qf' = qf /\ lock' = lock /\ confirmed' = confirmed /\ fq' = fq /\ told' = told
         /\ \A q \in Procs \ {p} : fs'[q] = fs[q]
<1>1. /\ fs'[p].pc = pc /\ fs'[p].req = r /\ fs'[p].exit = fs[p].exit
      /\ fs'[p].prev = fs[p].prev /\ fs'[p].dosetup = fs[p].dosetup
      /\ \A q \in Procs \ {p} : fs'[q] = fs[q]
  BY DEF Step, Shape, ProcFields
<1> QED BY <1>1, Zenon DEF Step, At

LEMMA WriteFx ==
  ASSUME Shape, NEW p \in Procs, NEW st, Write([fs[p].req EXCEPT !.status = st])
  PROVE  Wrote(p, st) /\ qf'.dir = qf.dir
<1> DEFINE r == fs[p].req
<1>1. DOMAIN r = ReqFields
  BY DEF Shape, Req
<1>2. qf' = [[r EXCEPT !.status = st] EXCEPT !.dir = qf.dir]
  BY DEF Write
<1> HIDE DEF r
<1> QED BY <1>1, <1>2 DEF Wrote, ReqFields, r

\* Before it has read the file, and also when it goes there.
Outside(p) ==
    /\ ~Loaded(p) /\ ~Loaded(p)' /\ qf' = qf /\ confirmed' = confirmed
    /\ \/ fs'[p].pc = "opened" /\ fs'[p].exit = fs[p].exit /\ lock' = lock
       \/ \E code \in {"failed", "retry"} : Left(p, code)
       \/ ~Without(Unwritten)' /\ Left(p, "signal")

LEMMA OpenFx ==
  ASSUME Shape, NEW p \in Procs, Open(p)
  PROVE  Apart(p) /\ Outside(p)
<1>1. /\ fs[p].pc = "exec" /\ qf' = qf /\ fq' = fq /\ confirmed' = confirmed /\ told' = told
      /\ mishaps \subseteq mishaps'
  BY MishapOK DEF Open
<1>2. CASE fs' = [fs EXCEPT ![p].pc = "opened"] /\ lock' = lock
  <2>1. fs'[p].pc = "opened" /\ fs'[p].exit = fs[p].exit /\ \A q \in Procs \ {p} : fs'[q] = fs[q]
    BY <1>2 DEF Shape, ProcFields
  <2> QED BY <1>1, <1>2, <2>1 DEF Apart, Outside, Loaded
<1>3. ASSUME NEW code \in {"failed", "retry"}, Exit(p, code) PROVE Apart(p) /\ Outside(p)
  <2>1. Left(p, code) /\ \A q \in Procs \ {p} : fs'[q] = fs[q]
    BY <1>3, ExitFx
  <2>2. ~Loaded(p) /\ ~Loaded(p)'
    BY <1>1, <2>1 DEF Loaded, Left
  <2> QED BY <1>1, <2>1, <2>2 DEF Apart, Outside
<1> QED BY <1>2, <1>3, Zenon DEF Open

LEMMA ReadFx ==
  ASSUME Shape, NEW p \in Procs, Read(p)
  PROVE  /\ Apart(p) /\ ~Loaded(p) /\ lock = "free" /\ lock' = p
         /\ qf' = qf /\ confirmed' = confirmed /\ mishaps' = mishaps
         /\ At(p, "dial", qf.items, qf.npages, qf.status)
<1>1. /\ fs'[p].pc = "dial" /\ fs'[p].exit = fs[p].exit /\ fs'[p].req = qf
      /\ \A q \in Procs \ {p} : fs'[q] = fs[q]
  BY DEF Read, Shape, ProcFields
<1> QED BY <1>1, Zenon DEF Read, Apart, At, Loaded

LEMMA StatusFx ==
  ASSUME NEW r, Req(r), NEW st
  PROVE  LET s == [r EXCEPT !.status = st]
         IN  s.items = r.items /\ s.npages = r.npages /\ s.status = st
  BY DEF Req, ReqFields

LEMMA StatusStepFx ==
  ASSUME Shape, NEW p \in Procs, NEW pc, NEW st, mishaps \subseteq mishaps',
         Step(p, pc, [fs[p].req EXCEPT !.status = st])
  PROVE  Apart(p) /\ Calls(p, pc, st) /\ fs'[p].dosetup = fs[p].dosetup
<1> DEFINE c == [fs[p].req EXCEPT !.status = st]
<1>1. c.items = fs[p].req.items /\ c.npages = fs[p].req.npages /\ c.status = st
  BY StatusFx DEF Shape
<1>2. Step(p, pc, c)
  OBVIOUS
<1> HIDE DEF c
<1> QED BY <1>1, <1>2, StepFx DEF Apart, Calls

LEMMA DialFx ==
  ASSUME Shape, NEW p \in Procs, Dial(p)
  PROVE  /\ Apart(p) /\ fs[p].pc = "dial" /\ mishaps' = mishaps
         /\ \/ \E st \in {"retry", "failed", fs[p].req.status} : Calls(p, "end", st)
            \/ Calls(p, "prologue", fs[p].req.status)
<1> DEFINE r == fs[p].req
           t == [r EXCEPT !.tottries = @ + 1, !.totdials = @ + 1]
<1>1. Req(r) /\ fs[p].pc = "dial" /\ mishaps' = mishaps
  BY DEF Dial, Shape
<1>2. t.items = r.items /\ t.npages = r.npages /\ t.status = r.status
  BY <1>1 DEF Req, ReqFields
<1>3. ASSUME NEW st PROVE LET c == CallFailed(r, st)
                          IN  c.items = r.items /\ c.npages = r.npages /\ c.status = st
  BY <1>1 DEF Req, ReqFields, CallFailed
<1>4. ASSUME NEW pc, NEW c, Step(p, pc, c), c.items = r.items, c.npages = r.npages
      PROVE  Apart(p) /\ Calls(p, pc, c.status)
  BY <1>1, <1>4, StepFx DEF Apart, Calls
<1>5. \/ \E st \in {"retry", "failed"} : Step(p, "end", CallFailed(r, st))
      \/ Step(p, "prologue", t)
      \/ Step(p, "end", r)
  BY Zenon DEF Dial
<1> HIDE DEF t
<1> QED BY <1>1, <1>2, <1>3, <1>4, <1>5

LEMMA PrologueFx ==
  ASSUME Shape, NEW p \in Procs, Prologue(p)
  PROVE  /\ Apart(p) /\ fs[p].pc = "prologue" /\ mishaps' = mishaps
         /\ \/ \E st \in {"retry", "failed"} : Calls(p, "end", st)
            \/ Calls(p, "doc", "failed") /\ fs'[p].dosetup
<1> DEFINE r == fs[p].req
           s == [r EXCEPT !.status = "failed"]
<1>1. Req(r) /\ fs[p].pc = "prologue" /\ mishaps' = mishaps
  BY DEF Prologue, Shape
<1>2. ASSUME NEW st, Step(p, "end", [r EXCEPT !.status = st])
      PROVE  Apart(p) /\ Calls(p, "end", st)
  BY <1>1, <1>2, StatusStepFx
<1>3. s.items = r.items /\ s.npages = r.npages /\ s.status = "failed"
  BY <1>1, StatusFx
<1>4. ASSUME fs' = [fs EXCEPT ![p] = [@ EXCEPT !.pc = "doc", !.dosetup = TRUE, !.req = s]],
             UNCHANGED <<qf, lock, fq, confirmed, told, calls>>
      PROVE  Apart(p) /\ Calls(p, "doc", "failed") /\ fs'[p].dosetup
  <2> HIDE DEF s
  <2>1. /\ fs'[p].pc = "doc" /\ fs'[p].req = s /\ fs'[p].exit = fs[p].exit /\ fs'[p].dosetup
        /\ \A q \in Procs \ {p} : fs'[q] = fs[q]
    BY <1>4 DEF Shape, ProcFields
  <2> QED BY <1>1, <1>3, <1>4, <2>1 DEF Apart, Calls, At
<1> QED BY <1>1, <1>2, <1>4 DEF Prologue

LEMMA MishapFx ==
  ASSUME NEW k, Mishap(k)
  PROVE  k \in mishaps' /\ mishaps' = mishaps \cup {k}
  BY DEF Mishap

LEMMA NoModemFx ==
  ASSUME Shape, NEW p \in Procs, NoModem(p)
  PROVE  /\ Apart(p) /\ fs[p].pc = "dial" /\ confirmed' = confirmed
         /\ \E st \in {"retry", "failed"} : Wrote(p, st) /\ Left(p, st)
<1>1. PICK k \in {"modemlock", "setup"}, st \in {"retry", "failed"} :
         Mishap(k) /\ Write([fs[p].req EXCEPT !.status = st]) /\ Exit(p, st)
  BY Zenon DEF NoModem
<1>2. Wrote(p, st) /\ qf'.dir = qf.dir
  BY <1>1, WriteFx
<1>3. Left(p, st) /\ \A q \in Procs \ {p} : fs'[q] = fs[q]
  BY <1>1, ExitFx
<1> QED BY <1>1, <1>2, <1>3, MishapOK DEF NoModem, Apart

LEMMA DocFx ==
  ASSUME Shape, NEW p \in Procs, Doc(p)
  PROVE  LET r == fs[p].req
             i == FindFax(r.items)
             hasPage == i # 0 /\ r.items[i].dirnum < Docs[r.items[i].doc]
         IN  /\ Apart(p) /\ fs[p].pc = "doc"
             /\ \/ i = 0 /\ Calls(p, "end", r.status)
                \/ /\ i # 0 /\ ("vanish" \in mishaps' \/ ~hasPage)
                   /\ Calls(p, IF r.status = "done" THEN "docsent" ELSE "end", r.status)
                \/ Calls(p, "end", "failed")
                \/ "reformat" \in mishaps' /\ Calls(p, "end", "reformat")
                \/ /\ hasPage /\ fs'[p].prev = r.npages
                   /\ Calls(p, "page", IF fs[p].dosetup THEN "done" ELSE r.status)
<1> DEFINE r == fs[p].req
           i == FindFax(r.items)
           hasPage == i # 0 /\ r.items[i].dirnum < Docs[r.items[i].doc]
           pc == IF r.status = "done" THEN "docsent" ELSE "end"
           s == IF fs[p].dosetup THEN [r EXCEPT !.status = "done"] ELSE r
<1>1. fs[p].pc = "doc" /\ Req(r) /\ mishaps \subseteq mishaps'
  BY MishapOK DEF Doc, Shape
<1>2. \/ i = 0 /\ Step(p, "end", r)
      \/ i # 0 /\ (Mishap("vanish") \/ ~hasPage) /\ Step(p, pc, r)
      \/ Step(p, "end", [r EXCEPT !.status = "failed"])
      \/ Step(p, "end", [r EXCEPT !.status = "reformat"]) /\ Mishap("reformat")
      \/ /\ hasPage
         /\ fs' = [fs EXCEPT ![p] = [@ EXCEPT !.pc = "page", !.prev = r.npages, !.req = s]]
         /\ UNCHANGED <<qf, lock, fq, confirmed, told, calls>>
  BY Zenon DEF Doc
<1>3. ASSUME NEW c, Step(p, c, r) PROVE Apart(p) /\ Calls(p, c, r.status)
  BY <1>1, <1>3, StepFx DEF Apart, Calls
<1>4. ASSUME NEW st, Step(p, "end", [r EXCEPT !.status = st])
      PROVE  Apart(p) /\ Calls(p, "end", st)
  BY <1>1, <1>4, StatusStepFx
<1>5. s.items = r.items /\ s.npages = r.npages
      /\ s.status = IF fs[p].dosetup THEN "done" ELSE r.status
  BY <1>1, StatusFx
<1>6. ASSUME fs' = [fs EXCEPT ![p] = [@ EXCEPT !.pc = "page", !.prev = r.npages, !.req = s]],
             UNCHANGED <<qf, lock, fq, confirmed, told, calls>>
      PROVE  /\ Apart(p) /\ fs'[p].prev = r.npages
             /\ Calls(p, "page", IF fs[p].dosetup THEN "done" ELSE r.status)
  <2> HIDE DEF s
  <2>1. /\ fs'[p].pc = "page" /\ fs'[p].req = s /\ fs'[p].exit = fs[p].exit
        /\ fs'[p].prev = r.npages /\ \A q \in Procs \ {p} : fs'[q] = fs[q]
    BY <1>6 DEF Shape, ProcFields
  <2> QED BY <1>1, <1>5, <1>6, <2>1 DEF Apart, Calls, At
<1> HIDE DEF r, i, s, pc, hasPage
<1>7. \/ i = 0 /\ Apart(p) /\ Calls(p, "end", r.status)
      \/ i # 0 /\ ("vanish" \in mishaps' \/ ~hasPage) /\ Apart(p) /\ Calls(p, pc, r.status)
      \/ Apart(p) /\ Calls(p, "end", "failed")
      \/ "reformat" \in mishaps' /\ Apart(p) /\ Calls(p, "end", "reformat")
      \/ /\ hasPage /\ fs'[p].prev = r.npages /\ Apart(p)
         /\ Calls(p, "page", IF fs[p].dosetup THEN "done" ELSE r.status)
  BY <1>2, <1>3, <1>4, <1>6, MishapFx, Zenon
<1> QED BY <1>1, <1>7, Zenon DEF r, i, pc, hasPage

LEMMA ReturnedFx ==
  ASSUME Shape, NEW p \in Procs, NEW r, Req(r), NEW st,
         r.npages \in Nat, fs[p].prev \in Nat, fs[p].prev <= r.npages, Returned(p, r, st)
  PROVE  /\ \A q \in Procs \ {p} : fs'[q] = fs[q]
         /\ \E end \in {st, "failed"} :
               /\ At(p, IF end = "done" THEN "docsent" ELSE "end",
                     Advanced(r.items, r.npages - fs[p].prev), r.npages, end)
               /\ r.npages # fs[p].prev => end = st
<1> DEFINE prev == fs[p].prev
           r1 == PhaseBDone(r, prev, st)
<1>1. /\ r1.items = Advanced(r.items, r.npages - prev) /\ r1.npages = r.npages
      /\ r1.status \in {st, "failed"} /\ (r.npages # prev => r1.status = st)
  <2>1. CASE r.npages = prev
    <3>1. /\ r1.items = r.items /\ r1.npages = r.npages
          /\ r1.status = IF r.ntries + 1 > 2 THEN "failed" ELSE st
      BY <2>1 DEF PhaseBDone, Req, ReqFields
    <3>2. r.npages - prev = 0
      BY <2>1
    <3> HIDE DEF r1
    <3> QED BY <2>1, <3>1, <3>2 DEF Advanced
  <2>2. CASE r.npages # prev
    <3> DEFINE items == [r.items EXCEPT ![FindFax(r.items)].dirnum = @ + (r.npages - prev)]
    <3>1. r1 = [r EXCEPT !.items = items, !.ntries = 0, !.status = st]
      BY <2>2 DEF PhaseBDone
    <3>2. r.npages - prev # 0
      BY <2>2
    <3>3. items = Advanced(r.items, r.npages - prev)
      BY <3>2 DEF Advanced
    <3> HIDE DEF items, r1
    <3> QED BY <2>2, <3>1, <3>3 DEF Req, ReqFields
  <2> QED BY <2>1, <2>2
<1>2. fs' = [fs EXCEPT ![p].pc = IF r1.status = "done" THEN "docsent" ELSE "end", ![p].req = r1]
  BY DEF Returned
<1> HIDE DEF r1
<1>3. /\ fs'[p].pc = IF r1.status = "done" THEN "docsent" ELSE "end"
      /\ fs'[p].req = r1 /\ fs'[p].exit = fs[p].exit
      /\ \A q \in Procs \ {p} : fs'[q] = fs[q]
  BY <1>2 DEF Shape, ProcFields
<1> QED BY <1>1, <1>3, Zenon DEF At

\* In every state a page that is confirmed is one of the documents', or no page.
LEMMA PageKind ==
  ASSUME Shape, NEW p \in Procs, Page(p)
  PROVE  /\ Apart(p) /\ lock' = lock /\ fs[p].pc = "page"
         /\ fs'[p].pc \in {"page", "docsent", "end"} /\ fs'[p].exit = fs[p].exit
         /\ confirmed \in [AllPages -> Nat] =>
               confirmed' \in [AllPages -> Nat] /\ \A x \in AllPages : confirmed'[x] >= confirmed[x]
<1> DEFINE r == fs[p].req
           x == <<r.items[FindFax(r.items)].doc,
                  r.items[FindFax(r.items)].dirnum + (r.npages - fs[p].prev)>>
           sent == [r EXCEPT !.npages = @ + 1]
           next == [sent EXCEPT !.pph = @ - 1]
<1>1. /\ lock' = lock /\ fq' = fq /\ told' = told /\ fs[p].pc = "page" /\ mishaps \subseteq mishaps'
  BY MishapOK, Zenon DEF Page
<1>2. /\ qf' = qf \/ Write(sent)
      /\ confirmed' = confirmed \/ confirmed' = [confirmed EXCEPT ![x] = @ + 1]
      /\ (\E c, st : Returned(p, c, st)) \/ fs' = [fs EXCEPT ![p].req = next]
  BY Zenon DEF Page
<1> HIDE DEF x, next
<1>3. qf'.dir = qf.dir
  <2>1. DOMAIN r = ReqFields
    BY DEF Shape, Req
  <2> HIDE DEF r
  <2> QED BY <1>2, <2>1 DEF Write, ReqFields
<1>4. /\ \A q \in Procs \ {p} : fs'[q] = fs[q]
      /\ fs'[p].pc \in {"page", "docsent", "end"} /\ fs'[p].exit = fs[p].exit
  <2>1. CASE fs' = [fs EXCEPT ![p].req = next]
    BY <1>1, <2>1 DEF Shape, ProcFields
  <2>2. ASSUME NEW c, NEW st, Returned(p, c, st)
        PROVE  /\ \A q \in Procs \ {p} : fs'[q] = fs[q]
               /\ fs'[p].pc \in {"page", "docsent", "end"} /\ fs'[p].exit = fs[p].exit
    <3> DEFINE r1 == PhaseBDone(c, fs[p].prev, st)
    <3>1. fs' = [fs EXCEPT ![p].pc = IF r1.status = "done" THEN "docsent" ELSE "end", ![p].req = r1]
      BY <2>2 DEF Returned
    <3> HIDE DEF r1
    <3> QED BY <3>1 DEF Shape, ProcFields
  <2> QED BY <1>2, <2>1, <2>2, Zenon
<1>5. ASSUME confirmed \in [AllPages -> Nat]
      PROVE  confirmed' \in [AllPages -> Nat] /\ \A y \in AllPages : confirmed'[y] >= confirmed[y]
  BY <1>2, <1>5
<1> QED BY <1>1, <1>3, <1>4, <1>5 DEF Apart

LEMMA PageFx ==
  ASSUME Shape, NEW p \in Procs, Page(p),
         fs[p].req.npages \in Nat, fs[p].prev \in Nat, fs[p].prev <= fs[p].req.npages
  PROVE  LET r == fs[p].req
             i == FindFax(r.items)
             k == r.npages - fs[p].prev
             x == <<r.items[i].doc, r.items[i].dirnum + k>>
         IN  \/ /\ qf' = qf /\ confirmed' = confirmed
                /\ \E st \in {"retry", "failed"} :
                      At(p, "end", Advanced(r.items, k), r.npages, st)
             \/ /\ confirmed' = [confirmed EXCEPT ![x] = @ + 1]
                /\ qf'.items = r.items /\ qf'.npages = r.npages + 1 /\ qf'.status = r.status
                /\ \/ /\ LastPage(r.items[i].doc, r.items[i].dirnum + k)
                      /\ At(p, "docsent", Advanced(r.items, k + 1), r.npages + 1, "done")
                   \/ /\ ~LastPage(r.items[i].doc, r.items[i].dirnum + k)
                      /\ At(p, "page", r.items, r.npages + 1, r.status)
                      /\ fs'[p].prev = fs[p].prev
                   \/ \E st \in {"failed", "reformat"} :
                         /\ At(p, "end", Advanced(r.items, k + 1), r.npages + 1, st)
                         /\ st = "reformat" => "reformat" \in mishaps'
<1> DEFINE r == fs[p].req
           i == FindFax(r.items)
           k == r.npages - fs[p].prev
           x == <<r.items[i].doc, r.items[i].dirnum + k>>
           sent == [r EXCEPT !.npages = @ + 1]
           next == [sent EXCEPT !.pph = @ - 1]
           last == LastPage(r.items[i].doc, r.items[i].dirnum + k)
<1>1. Req(r) /\ DOMAIN r = ReqFields
  BY DEF Shape, Req
<1>2. /\ Req(next) /\ next.items = r.items /\ next.npages = r.npages + 1 /\ next.status = r.status
  BY <1>1 DEF Req, ReqFields
<1>3. ASSUME Write(sent)
      PROVE  qf'.items = r.items /\ qf'.npages = r.npages + 1 /\ qf'.status = r.status
  BY <1>1, <1>3 DEF Write, ReqFields
<1>4. \/ qf' = qf /\ confirmed' = confirmed /\ \E st \in {"retry", "failed"} : Returned(p, r, st)
      \/ /\ Write(sent) /\ confirmed' = [confirmed EXCEPT ![x] = @ + 1]
         /\ \/ last /\ Returned(p, next, "done")
            \/ ~last /\ fs' = [fs EXCEPT ![p].req = next]
            \/ Mishap("reformat") /\ Returned(p, next, "reformat")
            \/ Returned(p, next, "failed")
  BY Zenon DEF Page
<1> HIDE DEF next, sent, x, last
<1>5. ASSUME NEW st \in {"retry", "failed"}, Returned(p, r, st)
      PROVE  \E end \in {"retry", "failed"} : At(p, "end", Advanced(r.items, k), r.npages, end)
  <2>1. PICK end \in {st, "failed"} :
           At(p, IF end = "done" THEN "docsent" ELSE "end", Advanced(r.items, k), r.npages, end)
    BY <1>1, <1>5, ReturnedFx
  <2>2. end \in {"retry", "failed"} /\ end # "done"
    BY Zenon
  <2> QED BY <2>1, <2>2, Zenon
<1>6. ASSUME NEW st, Returned(p, next, st)
      PROVE  At(p, IF st = "done" THEN "docsent" ELSE "end", Advanced(r.items, k + 1), r.npages + 1, st)
  <2>1. next.npages \in Nat /\ fs[p].prev <= next.npages /\ next.npages # fs[p].prev
        /\ next.npages - fs[p].prev = k + 1
    BY <1>2
  <2> HIDE DEF k
  <2>2. PICK end \in {st, "failed"} :
           /\ At(p, IF end = "done" THEN "docsent" ELSE "end",
                 Advanced(next.items, next.npages - fs[p].prev), next.npages, end)
           /\ next.npages # fs[p].prev => end = st
    BY <1>2, <1>6, <2>1, ReturnedFx
  <2> QED BY <1>2, <2>1, <2>2
<1>7. ASSUME fs' = [fs EXCEPT ![p].req = next]
      PROVE  At(p, "page", r.items, r.npages + 1, r.status) /\ fs'[p].prev = fs[p].prev
  <2>1. /\ fs'[p].pc = fs[p].pc /\ fs'[p].req = next /\ fs'[p].exit = fs[p].exit
        /\ fs'[p].prev = fs[p].prev
    BY <1>7 DEF Shape, ProcFields
  <2> QED BY <1>2, <2>1, Zenon DEF At, Page
<1>8. CASE qf' = qf /\ confirmed' = confirmed /\ \E st \in {"retry", "failed"} : Returned(p, r, st)
  BY <1>5, <1>8, Zenon
<1>9. CASE /\ Write(sent) /\ confirmed' = [confirmed EXCEPT ![x] = @ + 1]
           /\ \/ last /\ Returned(p, next, "done")
              \/ ~last /\ fs' = [fs EXCEPT ![p].req = next]
              \/ Mishap("reformat") /\ Returned(p, next, "reformat")
              \/ Returned(p, next, "failed")
  <2>1. qf'.items = r.items /\ qf'.npages = r.npages + 1 /\ qf'.status = r.status
    BY <1>3, <1>9
  <2>2. \/ last /\ At(p, "docsent", Advanced(r.items, k + 1), r.npages + 1, "done")
        \/ ~last /\ At(p, "page", r.items, r.npages + 1, r.status) /\ fs'[p].prev = fs[p].prev
        \/ "reformat" \in mishaps' /\ At(p, "end", Advanced(r.items, k + 1), r.npages + 1, "reformat")
        \/ At(p, "end", Advanced(r.items, k + 1), r.npages + 1, "failed")
    BY <1>6, <1>7, <1>9, MishapFx
  <2> QED BY <1>9, <2>1, <2>2, Zenon DEF x, last
<1> QED BY <1>4, <1>8, <1>9, Zenon

LEMMA DocSentFx ==
  ASSUME Shape, NEW p \in Procs, DocSent(p)
  PROVE  LET r == fs[p].req
             items == RemoveAt(r.items, FindFax(r.items))
         IN  /\ Apart(p) /\ fs[p].pc = "docsent" /\ lock' = lock /\ confirmed' = confirmed
             /\ mishaps' = mishaps
             /\ qf'.items = items /\ qf'.npages = r.npages /\ qf'.status = r.status
             /\ At(p, "doc", items, r.npages, r.status) /\ fs'[p].dosetup = FALSE
<1> DEFINE r == fs[p].req
           items == RemoveAt(r.items, FindFax(r.items))
           s == [r EXCEPT !.items = items]
<1>1. DOMAIN r = ReqFields
  BY DEF Shape, Req
<1>2. /\ Write(s) /\ UNCHANGED <<lock, fq, confirmed, told, mishaps>> /\ fs[p].pc = "docsent"
      /\ fs' = [fs EXCEPT ![p] = [@ EXCEPT !.pc = "doc", !.req = s, !.dosetup = FALSE]]
  BY DEF DocSent
<1> HIDE DEF items
<1>3. DOMAIN s = ReqFields /\ s.items = items /\ s.npages = r.npages /\ s.status = r.status
  BY <1>1 DEF ReqFields
<1> HIDE DEF s
<1>4. qf'.items = items /\ qf'.npages = r.npages /\ qf'.status = r.status /\ qf'.dir = qf.dir
  BY <1>2, <1>3 DEF Write, ReqFields
<1>5. /\ fs'[p].pc = "doc" /\ fs'[p].req = s /\ fs'[p].exit = fs[p].exit
      /\ fs'[p].dosetup = FALSE /\ \A q \in Procs \ {p} : fs'[q] = fs[q]
  BY <1>2 DEF Shape, ProcFields
<1> QED BY <1>2, <1>3, <1>4, <1>5 DEF Apart, At, items

LEMMA EndFx ==
  ASSUME Shape, NEW p \in Procs, End(p)
  PROVE  /\ Apart(p) /\ fs[p].pc = "end" /\ confirmed' = confirmed /\ mishaps' = mishaps
         /\ \E st \in {"retry", "failed", fs[p].req.status} : Wrote(p, st) /\ Left(p, st)
<1> DEFINE st == FinalStatus(fs[p].req, fs[p].abort)
<1>1. /\ Write([fs[p].req EXCEPT !.status = st]) /\ Exit(p, st) /\ fs[p].pc = "end"
      /\ UNCHANGED <<fq, confirmed, told, mishaps>>
  BY DEF End
<1>2. st \in {"retry", "failed", fs[p].req.status}
  BY DEF FinalStatus
<1> HIDE DEF st
<1>3. Wrote(p, st) /\ qf'.dir = qf.dir
  BY <1>1, WriteFx
<1>4. Left(p, st) /\ \A q \in Procs \ {p} : fs'[q] = fs[q]
  BY <1>1, ExitFx
<1> QED BY <1>1, <1>2, <1>3, <1>4 DEF Apart

LEMMA CrashFx ==
  ASSUME Shape, NEW p \in Procs, FaxsendCrash(p)
  PROVE  /\ Apart(p) /\ Running(p) /\ ~Without(Unwritten)' /\ qf' = qf /\ confirmed' = confirmed
         /\ Left(p, "signal")
<1>1. Left(p, "signal") /\ \A q \in Procs \ {p} : fs'[q] = fs[q]
  BY ExitFx DEF FaxsendCrash
<1>2. ~Without(Unwritten)'
  BY MishapFx DEF FaxsendCrash, Without, Unwritten
<1> QED BY <1>1, <1>2, MishapFx DEF FaxsendCrash, Apart

\* An abort of a call is seen later; SIGTERM before or after it ends the process.
LEMMA AbortFx ==
  ASSUME Shape, NEW p \in Procs, Abort(p)
  PROVE  /\ Apart(p) /\ Running(p) /\ qf' = qf /\ confirmed' = confirmed
         /\ \/ Outside(p)
            \/ /\ fs[p].pc = "dial" \/ ~Without(Unwritten)'
               /\ Left(p, "failed")
            \/ /\ Calls(p, fs[p].pc, fs[p].req.status)
               /\ fs'[p].prev = fs[p].prev /\ fs'[p].dosetup = fs[p].dosetup
<1>1. Running(p) /\ UNCHANGED <<qf, fq, told, confirmed>> /\ mishaps \subseteq mishaps'
  BY MishapOK DEF Abort, Running
<1>2. CASE /\ Exit(p, "failed")
           /\ fs[p].pc \in {"exec", "opened", "dial"} \/ Mishap("late")
  <2>1. Left(p, "failed") /\ \A q \in Procs \ {p} : fs'[q] = fs[q]
    BY <1>2, ExitFx
  <2>2. ~Loaded(p)'
    BY <2>1 DEF Loaded, Left
  <2>3. fs[p].pc \in {"exec", "opened"} => ~Loaded(p)
    BY DEF Loaded
  <2>4. Mishap("late") => ~Without(Unwritten)'
    BY MishapFx DEF Without, Unwritten
  <2> QED BY <1>1, <1>2, <2>1, <2>2, <2>3, <2>4 DEF Apart, Outside
<1>3. CASE /\ fs[p].pc \notin {"exec", "opened"}
           /\ fs' = [fs EXCEPT ![p].abort = TRUE] /\ UNCHANGED lock
  <2>1. /\ fs'[p].pc = fs[p].pc /\ fs'[p].req = fs[p].req /\ fs'[p].exit = fs[p].exit
        /\ fs'[p].prev = fs[p].prev /\ fs'[p].dosetup = fs[p].dosetup
        /\ \A q \in Procs \ {p} : fs'[q] = fs[q]
    BY <1>3 DEF Shape, ProcFields
  <2> QED BY <1>1, <1>3, <2>1 DEF Apart, Calls, At
<1> QED BY <1>2, <1>3, Zenon DEF Abort

-----------------------------------------------------------------------------
(* What the steps of faxq change.                                          *)

\* The processes, but for one that is started or forgotten.
ProcsKept ==
    /\ lock' = lock /\ confirmed' = confirmed
    /\ \A p \in Procs :
          \/ fs'[p] = fs[p]
          \/ /\ fs[p].pc \in {"none", "exited"} /\ fs'[p].exit = "none"
             /\ fs'[p].pc \in {"none", "exec"}

\* faxq goes on with the job at pc.
On(pc) == fq'.pc = pc /\ fq'.why = "none" /\ told' = told

\* The job has ended.
Ended(why) ==
    /\ qf'.dir = "doneq" /\ NoFax(qf'.items)
    /\ fq'.pc = "notify" /\ fq'.why = why /\ told' = told

\* The file, with items and status as given.
File(items, st) ==
    qf'.dir = "sendq" /\ qf'.items = items /\ qf'.npages = qf.npages /\ qf'.status = st

LEMMA GoFx == \A pc : Go(pc).pc = pc /\ Go(pc).why = "none"
  BY DEF Go

LEMMA DeleteFx ==
  ASSUME NEW r, Req(r), r.items \in Seq(Items), NEW why, DeleteRequest(r, why), told' = told
  PROVE  Ended(why)
<1>1. qf' = [r EXCEPT !.dir = "doneq", !.items = NotImaged(r.items)]
  BY DEF DeleteRequest
<1>2. NoFax(NotImaged(r.items))
  BY NotImagedOK
<1>3. qf'.dir = "doneq" /\ qf'.items = NotImaged(r.items)
  BY <1>1 DEF Req, ReqFields
<1>4. fq' = [pc |-> "notify", proc |-> "none", why |-> why]
  BY DEF DeleteRequest, Go
<1> QED BY <1>2, <1>3, <1>4 DEF Ended

LEMMA ProcessFx ==
  ASSUME PInv, Process
  PROVE  /\ ProcsKept /\ mishaps' = mishaps /\ qf.dir = "sendq" /\ lock = "free" /\ fs' = fs
         /\ \/ Ended("failed")
            \/ /\ File(qf.items, "nobatch")
               /\ \/ On("prepare") /\ \E i \in DOMAIN qf.items : qf.items[i].op = "source"
                  \/ On("send")
<1>1. /\ Req(qf) /\ UNCHANGED <<fs, told, mishaps, lock, confirmed>> /\ fq.pc = "ready"
      /\ qf.dir = "sendq" /\ qf.items \in Seq(Items) /\ lock = "free"
  BY DEF Process, PInv, SInv, Shape, Told, PagesOK, ReqOK, Whole
<1>2. CASE DeleteRequest([qf EXCEPT !.status = "failed"], "failed")
  <2> DEFINE r == [qf EXCEPT !.status = "failed"]
  <2>1. Req(r) /\ r.items = qf.items /\ DeleteRequest(r, "failed")
    BY <1>1, <1>2, StatusOK, StatusFx
  <2> HIDE DEF r
  <2>2. Ended("failed")
    BY <1>1, <2>1, DeleteFx
  <2> QED BY <1>1, <2>2 DEF ProcsKept
<1>3. CASE /\ qf' = [qf EXCEPT !.status = "nobatch"]
           /\ fq' = Go(IF \E i \in DOMAIN qf.items : qf.items[i].op = "source"
                       THEN "prepare" ELSE "send")
  <2>1. File(qf.items, "nobatch")
    BY <1>1, <1>3 DEF File, Req, ReqFields
  <2>2. \/ On("prepare") /\ \E i \in DOMAIN qf.items : qf.items[i].op = "source"
        \/ On("send")
    BY <1>1, <1>3, GoFx DEF On
  <2> QED BY <1>1, <2>1, <2>2 DEF ProcsKept
<1> QED BY <1>2, <1>3 DEF Process

LEMMA PrepareFx ==
  ASSUME PInv, Prepare
  PROVE  /\ ProcsKept /\ mishaps \subseteq mishaps' /\ qf.dir = "sendq" /\ fs' = fs
         /\ fq.pc = "prepare"
         /\ Ended("failed") \/ (File(Imaged(qf.items), qf.status) /\ On("send") /\ mishaps' = mishaps)
<1>1. /\ Req(qf) /\ UNCHANGED <<fs, told, lock, confirmed>> /\ fq.pc = "prepare"
      /\ qf.dir = "sendq" /\ qf.items \in Seq(Items) /\ mishaps \subseteq mishaps'
  BY MishapOK, Zenon DEF Prepare, PInv, SInv, Shape, Told, PagesOK, ReqOK, Whole
<1>2. CASE DeleteRequest(qf, "failed")
  BY <1>1, <1>2, DeleteFx, Zenon DEF ProcsKept
<1>3. CASE qf' = Converted(qf) /\ fq' = Go("send") /\ mishaps' = mishaps
  <2> DEFINE pph == IF qf.pph = 0 THEN PagesLeft(Imaged(qf.items)) ELSE qf.pph
  <2>1. qf' = [qf EXCEPT !.items = Imaged(qf.items), !.pph = pph]
    BY <1>3, Zenon DEF Converted
  <2> HIDE DEF pph
  <2>2. File(Imaged(qf.items), qf.status)
    BY <1>1, <2>1 DEF File, Req, ReqFields
  <2> QED BY <1>1, <1>3, <2>2, GoFx DEF ProcsKept, On
<1> QED BY <1>2, <1>3, Zenon DEF Prepare

LEMMA NewProc ==
  LET new == [NoProc EXCEPT !.pc = "exec"] IN new.pc = "exec" /\ new.exit = "none"
  BY DEF NoProc

LEMMA SendStartFx ==
  ASSUME PInv, SendStart
  PROVE  /\ ProcsKept /\ mishaps \subseteq mishaps' /\ qf' = qf /\ qf.dir = "sendq"
         /\ fq.pc = "send" /\ (On("ready") \/ On("sending"))
<1>1. /\ UNCHANGED <<qf, told, lock, confirmed>> /\ fq.pc = "send" /\ qf.dir = "sendq"
      /\ mishaps \subseteq mishaps' /\ DOMAIN fs = Procs
  BY MishapOK DEF SendStart, PInv, SInv, Shape, Told
<1>2. CASE fq' = Requeued /\ fs' = fs
  BY <1>1, <1>2, GoFx DEF Requeued, On, ProcsKept
<1>3. ASSUME NEW p \in Procs, fs[p].pc = "none",
             fs' = [fs EXCEPT ![p] = [NoProc EXCEPT !.pc = "exec"]],
             fq' = [Go("sending") EXCEPT !.proc = p]
      PROVE  ProcsKept /\ On("sending")
  <2> DEFINE new == [NoProc EXCEPT !.pc = "exec"]
  <2>1. new.pc = "exec" /\ new.exit = "none"
    BY NewProc
  <2> HIDE DEF new
  <2>2. fs'[p] = new /\ \A q \in Procs \ {p} : fs'[q] = fs[q]
    BY <1>1, <1>3 DEF new
  <2>3. fq' = [pc |-> "sending", proc |-> p, why |-> "none"]
    BY <1>3 DEF Go
  <2>4. fq'.pc = "sending" /\ fq'.why = "none"
    BY <2>3
  <2>5. On("sending")
    BY <1>1, <2>4 DEF On
  <2>6. ASSUME NEW q \in Procs
        PROVE  \/ fs'[q] = fs[q]
               \/ /\ fs[q].pc \in {"none", "exited"} /\ fs'[q].exit = "none"
                  /\ fs'[q].pc \in {"none", "exec"}
    BY <1>3, <2>1, <2>2, Zenon
  <2> QED BY <1>1, <2>5, <2>6 DEF ProcsKept
<1> QED BY <1>1, <1>2, <1>3 DEF SendStart

LEMMA SendDoneFx ==
  ASSUME PInv, SendDone
  PROVE  LET exit == fs[fq.proc].exit
             result == IF qf.status # "nobatch" THEN qf.status
                       ELSE IF exit = "signal" THEN "failed" ELSE exit
         IN  /\ ProcsKept /\ mishaps' = mishaps /\ qf.dir = "sendq" /\ lock = "free"
             /\ fq.pc = "sending" /\ fs[fq.proc].pc = "exited"
             /\ \/ result = "reformat" /\ File(Sources(qf.items), "retry") /\ On("ready")
                \/ result = "retry" /\ File(qf.items, "retry") /\ On("ready")
                \/ Ended("failed")
                \/ result = "done" /\ Ended("done")
<1> DEFINE st == Result(qf, fs[fq.proc].exit)
<1>1. /\ Req(qf) /\ UNCHANGED <<told, lock, confirmed, mishaps>> /\ fq.pc = "sending"
      /\ qf.dir = "sendq" /\ qf.items \in Seq(Items) /\ lock = "free" /\ DOMAIN fs = Procs
      /\ fs' = [fs EXCEPT ![fq.proc] = NoProc] /\ fs[fq.proc].pc = "exited"
  BY DEF SendDone, PInv, SInv, Shape, Told, PagesOK, ReqOK, Whole
<1>2. ProcsKept
  BY <1>1 DEF ProcsKept, NoProc
<1>3. \/ st = "reformat" /\ qf' = Unformatted(qf) /\ fq' = Requeued
      \/ st = "retry" /\ qf' = [qf EXCEPT !.status = st] /\ fq' = Requeued
      \/ st = "failed" /\ DeleteRequest([qf EXCEPT !.status = st], "failed")
      \/ st = "done" /\ DeleteRequest(qf, "done")
  BY Zenon DEF SendDone
<1>4. st = IF qf.status # "nobatch" THEN qf.status
           ELSE IF fs[fq.proc].exit = "signal" THEN "failed" ELSE fs[fq.proc].exit
  BY Zenon DEF Result
<1> HIDE DEF st
<1>5. CASE st = "reformat" /\ qf' = Unformatted(qf) /\ fq' = Requeued
  <2>1. qf' = [qf EXCEPT !.items = Sources(qf.items), !.pph = 0, !.status = "retry"]
    BY <1>5, Zenon DEF Unformatted
  <2>2. File(Sources(qf.items), "retry")
    BY <1>1, <2>1 DEF File, Req, ReqFields
  <2> QED BY <1>1, <1>2, <1>4, <1>5, <2>2, GoFx DEF Requeued, On
<1>6. CASE st = "retry" /\ qf' = [qf EXCEPT !.status = st] /\ fq' = Requeued
  <2>1. File(qf.items, "retry")
    BY <1>1, <1>6 DEF File, Req, ReqFields
  <2> QED BY <1>1, <1>2, <1>4, <1>6, <2>1, GoFx DEF Requeued, On
<1>7. CASE st = "failed" /\ DeleteRequest([qf EXCEPT !.status = st], "failed")
  <2> DEFINE r == [qf EXCEPT !.status = st]
  <2>a. Req(r) /\ r.items = qf.items
    BY <1>1, StatusOK, StatusFx, Zenon
  <2>1. Req(r) /\ r.items = qf.items /\ DeleteRequest(r, "failed")
    BY <1>7, <2>a
  <2> HIDE DEF r
  <2>2. Ended("failed")
    BY <1>1, <2>1, DeleteFx
  <2> QED BY <1>1, <1>2, <2>2
<1>8. CASE st = "done" /\ DeleteRequest(qf, "done")
  <2>1. Ended("done")
    BY <1>1, <1>8, DeleteFx
  <2> QED BY <1>1, <1>2, <1>4, <1>8, <2>1
<1> QED BY <1>3, <1>5, <1>6, <1>7, <1>8

LEMMA RestFx ==
  ASSUME PInv, NotifySender \/ FaxqCrash \/ FaxqRestart
  PROVE  /\ ProcsKept /\ mishaps \subseteq mishaps' /\ qf' = qf
         /\ \/ fq.pc = "notify" /\ told' = Append(told, fq.why) /\ fq'.pc = "idle"
            \/ On("down") /\ (fq.pc = "notify" \/ "faxq" \in mishaps')
            \/ On("ready") /\ mishaps' = mishaps /\ fq.pc = "down"
            \/ On("idle") /\ mishaps' = mishaps /\ fq.pc = "down"
<1>1. CASE NotifySender
  BY <1>1, GoFx DEF NotifySender, ProcsKept
<1>2. CASE FaxqCrash
  <2>1. \A p \in Procs : fs'[p] = IF fs[p].pc = "exited" THEN NoProc ELSE fs[p]
    BY <1>2 DEF FaxqCrash
  <2>2. NoProc.pc = "none" /\ NoProc.exit = "none"
    BY DEF NoProc
  <2>3. UNCHANGED <<qf, lock, confirmed, told>>
    BY <1>2 DEF FaxqCrash
  <2>4. ProcsKept
    BY <2>1, <2>2, <2>3 DEF ProcsKept
  <2>5. mishaps \subseteq mishaps' /\ (fq.pc = "notify" \/ "faxq" \in mishaps')
    BY <1>2 DEF FaxqCrash, Mishap
  <2>6. fq'.pc = "down" /\ fq'.why = "none"
    BY <1>2, GoFx DEF FaxqCrash
  <2> QED BY <2>3, <2>4, <2>5, <2>6 DEF On
<1>3. CASE FaxqRestart
  BY <1>3, GoFx DEF FaxqRestart, ProcsKept, On
<1> QED BY <1>1, <1>2, <1>3

-----------------------------------------------------------------------------
(* What the file does not ask for has been confirmed.                      *)

Grows == confirmed' \in [AllPages -> Nat] /\ \A x \in AllPages : confirmed'[x] >= confirmed[x]

LEMMA SameGrows ==
  ASSUME confirmed \in [AllPages -> Nat], confirmed' = confirmed
  PROVE  Grows
  BY DEF Grows

LEMMA CoversGrows ==
  ASSUME NEW c \in [AllPages -> Nat], NEW d \in [AllPages -> Nat],
         \A x \in AllPages : d[x] >= c[x], NEW items, NEW k, Covers(c, items, k)
  PROVE  Covers(d, items, k)
  BY DEF Covers

\* A process that does not move, while pages are confirmed.
LEMMA OtherPages ==
  ASSUME confirmed \in [AllPages -> Nat], Grows, mishaps \subseteq mishaps',
         NEW q \in Procs, fs'[q] = fs[q], ProcOK(q)
  PROVE  ProcOK(q)'
<1> DEFINE r == fs[q].req
           k == IF fs[q].pc = "page" THEN r.npages - fs[q].prev ELSE 0
<1>1. Covers(confirmed, r.items, k) => Covers(confirmed', r.items, k)
  BY CoversGrows DEF Grows
<1>2. Without({"vanish"})' => Without({"vanish"})
  BY DEF Without
<1> QED BY <1>1, <1>2, Zenon DEF ProcOK, Loaded

LEMMA PagesStep ==
  ASSUME PInv, SInv', NEW p \in Procs, Apart(p), Grows,
         qf.dir = "sendq" => /\ ReqOK(qf')
                             /\ Without({"vanish"})' => Covers(confirmed', qf'.items, 0)
                             /\ ProcOK(p)'
  PROVE  PInv'
<1>1. ASSUME NEW q \in Procs, q # p, qf.dir = "sendq" PROVE ProcOK(q)'
  BY <1>1, OtherPages DEF PInv, PagesOK, Apart
<1> QED BY <1>1, Zenon DEF PInv, PagesOK, Apart, Grows

\* The file as it was.
LEMMA FileKept ==
  ASSUME PInv, Grows, mishaps \subseteq mishaps', qf' = qf, qf.dir = "sendq"
  PROVE  ReqOK(qf') /\ (Without({"vanish"})' => Covers(confirmed', qf'.items, 0))
<1>1. ReqOK(qf) /\ (Without({"vanish"}) => Covers(confirmed, qf.items, 0))
  BY DEF PInv, PagesOK
<1>2. Without({"vanish"})' => Without({"vanish"})
  BY DEF Without
<1> QED BY <1>1, <1>2, CoversGrows DEF PInv, Grows

\* A process that has gone, or has not begun.
LEMMA OutsidePages ==
  ASSUME PInv, SInv', NEW p \in Procs, Apart(p), ~Loaded(p)', qf' = qf, confirmed' = confirmed
  PROVE  PInv'
<1>1. Grows
  BY SameGrows DEF PInv
<1>2. qf.dir = "sendq" => ReqOK(qf') /\ (Without({"vanish"})' => Covers(confirmed', qf'.items, 0))
  BY <1>1, FileKept DEF Apart
<1>3. ProcOK(p)'
  BY Zenon DEF ProcOK
<1> QED BY <1>1, <1>2, <1>3, PagesStep

LEMMA ReadPages ==
  ASSUME PInv, SInv', NEW p \in Procs, Read(p)
  PROVE  PInv'
<1>1. /\ Apart(p) /\ qf' = qf /\ confirmed' = confirmed /\ mishaps' = mishaps
      /\ At(p, "dial", qf.items, qf.npages, qf.status)
  BY ReadFx DEF PInv, SInv
<1>2. Grows
  BY <1>1, SameGrows, Zenon DEF PInv
<1>3. ASSUME qf.dir = "sendq" PROVE ProcOK(p)'
  <2>1. ReqOK(qf) /\ (Without({"vanish"}) => Covers(confirmed, qf.items, 0))
    BY <1>3 DEF PInv, PagesOK
  <2> QED BY <1>1, <2>1, Zenon DEF ProcOK, At, ReqOK, Without
<1> QED BY <1>1, <1>2, <1>3, FileKept, PagesStep DEF Apart

\* A step of the call in which no page is sent.
LEMMA CallPages ==
  ASSUME PInv, SInv', NEW p \in Procs, Apart(p), Loaded(p), NEW pc, NEW st, Calls(p, pc, st),
         fs[p].pc # "page", pc # "page",
         qf.dir = "sendq" /\ pc = "docsent" =>
            LET r == fs[p].req
                i == FindFax(r.items)
            IN  i # 0 /\ (Without({"vanish"})' => r.items[i].dirnum >= Docs[r.items[i].doc])
  PROVE  PInv'
<1> DEFINE r == fs[p].req
<1>1. /\ qf' = qf /\ confirmed' = confirmed /\ mishaps \subseteq mishaps'
      /\ fs'[p].pc = pc /\ fs'[p].req.items = r.items /\ fs'[p].req.npages = r.npages
  BY Zenon DEF Apart, Calls, At
<1>2. Grows
  BY <1>1, SameGrows DEF PInv
<1>3. ASSUME qf.dir = "sendq" PROVE ProcOK(p)'
  <2>1. ReqOK(r) /\ (Without({"vanish"}) => Covers(confirmed, r.items, 0))
    BY <1>3, Zenon DEF PInv, PagesOK, ProcOK
  <2>2. Without({"vanish"})' => Without({"vanish"})
    BY <1>1, Zenon DEF Without
  <2>3. ReqOK(fs'[p].req)
    BY <1>1, <2>1, Zenon DEF ReqOK
  <2>4. Without({"vanish"})' => Covers(confirmed', fs'[p].req.items, 0)
    BY <1>1, <2>1, <2>2
  <2> QED BY <1>1, <1>3, <2>3, <2>4, Zenon DEF ProcOK
<1> QED BY <1>1, <1>2, <1>3, FileKept, PagesStep, Zenon

LEMMA DocPages ==
  ASSUME PInv, SInv', NEW p \in Procs, Doc(p)
  PROVE  PInv'
<1> DEFINE r == fs[p].req
           i == FindFax(r.items)
           hasPage == i # 0 /\ r.items[i].dirnum < Docs[r.items[i].doc]
<1>1. /\ Apart(p) /\ fs[p].pc = "doc"
      /\ \/ \E st : Calls(p, "end", st)
         \/ /\ i # 0 /\ ("vanish" \in mishaps' \/ ~hasPage)
            /\ Calls(p, IF r.status = "done" THEN "docsent" ELSE "end", r.status)
         \/ hasPage /\ fs'[p].prev = r.npages /\ \E st : Calls(p, "page", st)
  BY DocFx, Zenon DEF PInv, SInv
<1>2. Loaded(p)
  BY <1>1 DEF Loaded
<1>3. qf.dir = "sendq" =>
         /\ ReqOK(r) /\ (Without({"vanish"}) => Covers(confirmed, r.items, 0))
         /\ i # 0 => r.items[i].dirnum \in Nat /\ Docs[r.items[i].doc] \in Nat
  <2>1. qf.dir = "sendq" => ReqOK(r) /\ (Without({"vanish"}) => Covers(confirmed, r.items, 0))
    BY <1>1, <1>2, Zenon DEF PInv, PagesOK, ProcOK
  <2>2. ASSUME ReqOK(r), i # 0 PROVE r.items[i].dirnum \in Nat /\ Docs[r.items[i].doc] \in Nat
    <3>1. Whole(r.items) /\ r.items \in Seq(Items)
      BY <2>2, Zenon DEF ReqOK, Whole
    <3>2. i \in DOMAIN r.items
      BY <2>2, <3>1, FindFaxOK
    <3> QED BY <3>1, <3>2, ItemParts
  <2> QED BY <2>1, <2>2, Zenon
<1>4. CASE \E st : Calls(p, "end", st)
  <2>1. PICK st : Calls(p, "end", st)
    BY <1>4, Zenon
  <2> QED BY <1>1, <1>2, <2>1, CallPages, Zenon
<1>5. CASE /\ i # 0 /\ ("vanish" \in mishaps' \/ ~hasPage)
           /\ Calls(p, IF r.status = "done" THEN "docsent" ELSE "end", r.status)
  <2>1. qf.dir = "sendq" /\ Without({"vanish"})' => r.items[i].dirnum >= Docs[r.items[i].doc]
    <3>1. SUFFICES ASSUME qf.dir = "sendq", Without({"vanish"})'
                   PROVE  r.items[i].dirnum >= Docs[r.items[i].doc]
      OBVIOUS
    <3>2. "vanish" \notin mishaps'
      BY <3>1, Zenon DEF Without
    <3>3. i # 0 /\ ~hasPage
      BY <1>5, <3>2, Zenon
    <3>4. ~(r.items[i].dirnum < Docs[r.items[i].doc])
      BY <3>3
    <3>5. r.items[i].dirnum \in Nat /\ Docs[r.items[i].doc] \in Nat
      BY <1>3, <3>1, <3>3, Zenon
    <3>6. \A a, b \in Nat : ~(a < b) => a >= b
      OBVIOUS
    <3> HIDE DEF i, r, hasPage
    <3> QED BY <3>4, <3>5, <3>6, Zenon
  <2>2. CASE r.status = "done"
    BY <1>1, <1>2, <1>5, <2>1, <2>2, CallPages, Zenon
  <2>3. CASE r.status # "done"
    BY <1>1, <1>2, <1>5, <2>3, CallPages, Zenon
  <2> QED BY <2>2, <2>3, Zenon
<1>6. CASE hasPage /\ fs'[p].prev = r.npages /\ \E st : Calls(p, "page", st)
  <2>1. /\ qf' = qf /\ confirmed' = confirmed /\ mishaps \subseteq mishaps'
        /\ fs'[p].pc = "page" /\ fs'[p].req.items = r.items /\ fs'[p].req.npages = r.npages
    BY <1>1, <1>6, Zenon DEF Apart, Calls, At
  <2>2. Grows
    BY <2>1, SameGrows DEF PInv
  <2>3. ASSUME qf.dir = "sendq" PROVE ProcOK(p)'
    <3>1. Without({"vanish"})' => Without({"vanish"})
      BY <2>1 DEF Without
    <3>2. r.npages \in Nat /\ r.npages - r.npages = 0 /\ r.npages <= r.npages
      <4>1. ReqOK(r)
        BY <1>3, <2>3, Zenon
      <4>2. r.npages \in Nat
        BY <4>1 DEF ReqOK
      <4>3. \A n \in Nat : n - n = 0 /\ n <= n
        OBVIOUS
      <4> HIDE DEF r
      <4> QED BY <4>2, <4>3
    <3>3. r.items[i].dirnum + 0 = r.items[i].dirnum
      <4>1. i # 0
        BY <1>6, Zenon
      <4>2. r.items[i].dirnum \in Nat
        BY <1>3, <2>3, <4>1
      <4>3. \A n \in Nat : n + 0 = n
        OBVIOUS
      <4> HIDE DEF i, r
      <4> QED BY <4>2, <4>3, Zenon
    <3>4. ReqOK(fs'[p].req)
      BY <1>3, <2>1, <2>3, Zenon DEF ReqOK
    <3>5. fs'[p].req.npages - fs'[p].prev = 0
      BY <1>6, <2>1, <3>2, Zenon
    <3> QED BY <1>3, <1>6, <2>1, <2>3, <3>1, <3>2, <3>3, <3>4, <3>5, Zenon DEF ProcOK
  <2> QED BY <1>1, <2>1, <2>2, <2>3, FileKept, PagesStep, Zenon
<1> QED BY <1>1, <1>4, <1>5, <1>6, Zenon

\* What the page that has been confirmed means for the pages asked for.
LEMMA ConfirmedCovers ==
  ASSUME confirmed \in [AllPages -> Nat], NEW items, Whole(items), FindFax(items) # 0, NEW k \in Nat,
         items[FindFax(items)].dirnum + k < Docs[items[FindFax(items)].doc],
         Covers(confirmed, items, k),
         confirmed' = [confirmed EXCEPT ![<<items[FindFax(items)].doc, items[FindFax(items)].dirnum + k>>] = @ + 1]
  PROVE  Covers(confirmed', items, k + 1) /\ Covers(confirmed', items, 0)
<1> DEFINE x == <<items[FindFax(items)].doc, items[FindFax(items)].dirnum + k>>
<1>1. x \in AllPages /\ Wanted(items, k + 1) = Wanted(items, k) \ {x}
  BY SentWanted, Zenon
<1>2. confirmed' = [confirmed EXCEPT ![x] = @ + 1]
  BY Zenon
<1> HIDE DEF x
<1>3. confirmed'[x] # 0 /\ \A y \in AllPages : y # x => confirmed'[y] = confirmed[y]
  BY <1>1, <1>2
<1>4. Covers(confirmed', items, k + 1)
  BY <1>1, <1>3, Zenon DEF Covers
<1>5. Wanted(items, k) \subseteq Wanted(items, 0)
  BY WantedLess
<1> QED BY <1>1, <1>4, <1>5, Zenon DEF Covers

LEMMA PagePages ==
  ASSUME PInv, SInv', NEW p \in Procs, Page(p)
  PROVE  PInv'
<1> DEFINE r == fs[p].req
           i == FindFax(r.items)
           k == r.npages - fs[p].prev
           x == <<r.items[i].doc, r.items[i].dirnum + k>>
<1>1. Apart(p) /\ fs[p].pc = "page" /\ Grows
  BY PageKind, Zenon DEF PInv, SInv, Grows
<1>2. Without({"vanish"})' => Without({"vanish"})
  BY <1>1 DEF Apart, Without
<1> SUFFICES ASSUME qf.dir = "sendq"
             PROVE  /\ ReqOK(qf') /\ (Without({"vanish"})' => Covers(confirmed', qf'.items, 0))
                    /\ ProcOK(p)'
  BY <1>1, PagesStep
<1>3. /\ r.npages \in Nat /\ Whole(r.items) /\ fs[p].prev \in Nat /\ fs[p].prev <= r.npages
      /\ i # 0 /\ r.items[i].dirnum + k < Docs[r.items[i].doc]
      /\ Without({"vanish"}) => Covers(confirmed, r.items, k)
  BY <1>1, Zenon DEF PInv, PagesOK, ProcOK, Loaded, ReqOK
<1>4. k \in Nat /\ k + 1 \in Nat
  <2>1. \A a, b \in Nat : b <= a => a - b \in Nat /\ (a - b) + 1 \in Nat
    OBVIOUS
  <2> QED BY <1>3, <2>1, Zenon
<1>5. i \in DOMAIN r.items /\ r.items[i].dirnum \in Nat /\ Docs[r.items[i].doc] \in Nat
  BY <1>3, FindFaxOK, ItemParts, Zenon DEF Whole
<1>6. \A n \in Nat : LET w == Advanced(r.items, n) IN
         /\ Whole(w) /\ FindFax(w) = i /\ w[i].dirnum = r.items[i].dirnum + n
         /\ w[i].doc = r.items[i].doc /\ Wanted(w, 0) = Wanted(r.items, n)
  BY <1>3, <1>5, AdvancedOK, AdvancedWanted, Zenon
<1>7. \/ /\ qf' = qf /\ confirmed' = confirmed
         /\ \E st : At(p, "end", Advanced(r.items, k), r.npages, st)
      \/ /\ confirmed' = [confirmed EXCEPT ![x] = @ + 1]
         /\ qf'.items = r.items /\ qf'.npages = r.npages + 1
         /\ \/ /\ LastPage(r.items[i].doc, r.items[i].dirnum + k)
               /\ At(p, "docsent", Advanced(r.items, k + 1), r.npages + 1, "done")
            \/ /\ ~LastPage(r.items[i].doc, r.items[i].dirnum + k)
               /\ At(p, "page", r.items, r.npages + 1, r.status)
               /\ fs'[p].prev = fs[p].prev
            \/ \E st : At(p, "end", Advanced(r.items, k + 1), r.npages + 1, st)
  <2> HIDE DEF x
  <2> QED BY <1>3, PageFx, Zenon DEF PInv, SInv, x
<1> HIDE DEF r, i, k, x
<1>8. CASE /\ qf' = qf /\ confirmed' = confirmed
           /\ \E st : At(p, "end", Advanced(r.items, k), r.npages, st)
  <2>1. ReqOK(qf') /\ (Without({"vanish"})' => Covers(confirmed', qf'.items, 0))
    BY <1>1, <1>8, FileKept, Zenon DEF Apart
  <2>2. Without({"vanish"})' => Covers(confirmed', Advanced(r.items, k), 0)
    BY <1>2, <1>3, <1>4, <1>6, <1>8, Zenon DEF Covers
  <2>3. /\ fs'[p].pc = "end" /\ fs'[p].req.items = Advanced(r.items, k)
        /\ fs'[p].req.npages = r.npages
    BY <1>8, Zenon DEF At
  <2>4. ProcOK(p)'
    BY <1>3, <1>4, <1>6, <2>2, <2>3 DEF ProcOK, ReqOK
  <2> QED BY <2>1, <2>4
<1>9. CASE /\ confirmed' = [confirmed EXCEPT ![x] = @ + 1]
           /\ qf'.items = r.items /\ qf'.npages = r.npages + 1
           /\ \/ /\ LastPage(r.items[i].doc, r.items[i].dirnum + k)
                 /\ At(p, "docsent", Advanced(r.items, k + 1), r.npages + 1, "done")
              \/ /\ ~LastPage(r.items[i].doc, r.items[i].dirnum + k)
                 /\ At(p, "page", r.items, r.npages + 1, r.status)
                 /\ fs'[p].prev = fs[p].prev
              \/ \E st : At(p, "end", Advanced(r.items, k + 1), r.npages + 1, st)
  <2>1. Without({"vanish"})' => Covers(confirmed', r.items, k + 1) /\ Covers(confirmed', r.items, 0)
    BY <1>2, <1>3, <1>4, <1>9, ConfirmedCovers, Zenon DEF PInv, i, x
  <2>2. Without({"vanish"})' => Covers(confirmed', Advanced(r.items, k + 1), 0)
    BY <1>4, <1>6, <2>1, Zenon DEF Covers
  <2>3. ReqOK(qf') /\ (Without({"vanish"})' => Covers(confirmed', qf'.items, 0))
    BY <1>3, <1>9, <2>1 DEF ReqOK
  <2>4. CASE At(p, "docsent", Advanced(r.items, k + 1), r.npages + 1, "done")
             /\ LastPage(r.items[i].doc, r.items[i].dirnum + k)
    <3>1. /\ fs'[p].pc = "docsent" /\ fs'[p].req.items = Advanced(r.items, k + 1)
          /\ fs'[p].req.npages = r.npages + 1
      BY <2>4 DEF At
    <3>2. r.items[i].dirnum + (k + 1) >= Docs[r.items[i].doc]
      BY <1>4, <1>5, <2>4 DEF LastPage
    <3>3. ReqOK(fs'[p].req)
      <4>1. r.npages + 1 \in Nat /\ Whole(Advanced(r.items, k + 1))
        BY <1>3, <1>4, <1>6
      <4> QED BY <3>1, <4>1, Zenon DEF ReqOK
    <3>4. LET w == fs'[p].req.items
          IN  FindFax(w) # 0 /\ w[FindFax(w)].dirnum >= Docs[w[FindFax(w)].doc]
      BY <1>3, <1>4, <1>6, <3>1, <3>2
    <3> QED BY <2>2, <2>3, <3>1, <3>3, <3>4 DEF ProcOK
  <2>5. CASE /\ ~LastPage(r.items[i].doc, r.items[i].dirnum + k)
             /\ At(p, "page", r.items, r.npages + 1, r.status)
             /\ fs'[p].prev = fs[p].prev
    <3>1. /\ fs'[p].pc = "page" /\ fs'[p].req.items = r.items
          /\ fs'[p].req.npages = r.npages + 1 /\ fs'[p].prev = fs[p].prev
      BY <2>5, Zenon DEF At
    <3>2. fs'[p].req.npages - fs'[p].prev = k + 1 /\ fs'[p].prev \in Nat
          /\ fs'[p].prev <= fs'[p].req.npages
      BY <1>3, <3>1 DEF k
    <3>3. r.items[i].dirnum + (k + 1) < Docs[r.items[i].doc]
      BY <1>3, <1>4, <1>5, <2>5 DEF LastPage
    <3>4. ReqOK(fs'[p].req)
      BY <1>3, <3>1 DEF ReqOK
    <3> QED BY <1>3, <2>1, <2>3, <3>1, <3>2, <3>3, <3>4 DEF ProcOK, i
  <2>6. CASE \E st : At(p, "end", Advanced(r.items, k + 1), r.npages + 1, st)
    <3>1. /\ fs'[p].pc = "end" /\ fs'[p].req.items = Advanced(r.items, k + 1)
          /\ fs'[p].req.npages = r.npages + 1
      BY <2>6 DEF At
    <3>2. r.npages + 1 \in Nat /\ Whole(Advanced(r.items, k + 1))
      BY <1>3, <1>4, <1>6
    <3>3. ReqOK(fs'[p].req)
      BY <3>1, <3>2, Zenon DEF ReqOK
    <3> QED BY <2>2, <2>3, <3>1, <3>3, Zenon DEF ProcOK
  <2> QED BY <1>9, <2>4, <2>5, <2>6, Zenon
<1> QED BY <1>7, <1>8, <1>9, Zenon

LEMMA DocSentPages ==
  ASSUME PInv, SInv', NEW p \in Procs, DocSent(p)
  PROVE  PInv'
<1> DEFINE r == fs[p].req
           w == RemoveAt(r.items, FindFax(r.items))
<1>1. /\ Apart(p) /\ fs[p].pc = "docsent" /\ confirmed' = confirmed /\ mishaps' = mishaps
      /\ qf'.items = w /\ qf'.npages = r.npages
      /\ fs'[p].pc = "doc" /\ fs'[p].req.items = w /\ fs'[p].req.npages = r.npages
  BY DocSentFx, Zenon DEF PInv, SInv, At
<1>2. Grows
  BY <1>1, SameGrows DEF PInv
<1>3. ASSUME qf.dir = "sendq"
      PROVE  r.npages \in Nat /\ Whole(w) /\ (Without({"vanish"})' => Covers(confirmed', w, 0))
  <2>1. /\ r.npages \in Nat /\ Whole(r.items) /\ FindFax(r.items) # 0
        /\ Without({"vanish"}) =>
              /\ Covers(confirmed, r.items, 0)
              /\ r.items[FindFax(r.items)].dirnum >= Docs[r.items[FindFax(r.items)].doc]
    BY <1>1, <1>3, Zenon DEF PInv, PagesOK, ProcOK, Loaded, ReqOK
  <2>2. Whole(w)
    BY <2>1, RemoveOK, Zenon
  <2>3. Without({"vanish"}) => Wanted(w, 0) = Wanted(r.items, 0)
    BY <2>1, RemoveWanted
  <2> HIDE DEF w
  <2> QED BY <1>1, <2>1, <2>2, <2>3 DEF Covers, Without
<1> HIDE DEF w
<1>4. ASSUME qf.dir = "sendq" PROVE ProcOK(p)'
  BY <1>1, <1>3, <1>4, Zenon DEF ProcOK, ReqOK
<1>5. ASSUME qf.dir = "sendq"
      PROVE  ReqOK(qf') /\ (Without({"vanish"})' => Covers(confirmed', qf'.items, 0))
  BY <1>1, <1>3, <1>5, Zenon DEF ReqOK
<1> QED BY <1>1, <1>2, <1>4, <1>5, PagesStep, Zenon

\* The last write.
LEMMA LastPages ==
  ASSUME PInv, SInv', NEW p \in Procs, Apart(p), fs[p].pc \in {"dial", "end"},
         confirmed' = confirmed, NEW st, Wrote(p, st), ~Loaded(p)'
  PROVE  PInv'
<1>1. Grows
  BY SameGrows DEF PInv
<1>2. ASSUME qf.dir = "sendq"
      PROVE  ReqOK(qf') /\ (Without({"vanish"})' => Covers(confirmed', qf'.items, 0))
  <2>1. ReqOK(fs[p].req) /\ (Without({"vanish"}) => Covers(confirmed, fs[p].req.items, 0))
    BY <1>2, Zenon DEF PInv, PagesOK, ProcOK, Loaded
  <2>2. Without({"vanish"})' => Without({"vanish"})
    BY DEF Apart, Without
  <2> QED BY <2>1, <2>2 DEF Wrote, ReqOK
<1>3. ProcOK(p)'
  BY Zenon DEF ProcOK
<1> QED BY <1>1, <1>2, <1>3, PagesStep, Zenon

LEMMA LeftUnloaded ==
  ASSUME NEW p \in Procs, NEW code, Left(p, code)
  PROVE  ~Loaded(p)'
  BY DEF Left, Loaded

LEMMA FaxsendPages ==
  ASSUME PInv, SInv', NEW p \in Procs, Faxsend(p) \/ FaxsendCrash(p) \/ Abort(p)
  PROVE  PInv'
<1>0. Shape
  BY Zenon DEF PInv, SInv
<1>1. CASE Open(p)
  BY <1>0, <1>1, OpenFx, OutsidePages DEF Outside
<1>2. CASE Read(p)
  BY <1>2, ReadPages, Zenon
<1>3. CASE Dial(p)
  <2>1. /\ Apart(p) /\ fs[p].pc = "dial"
        /\ (\E st : Calls(p, "end", st)) \/ (\E st : Calls(p, "prologue", st))
    BY <1>0, <1>3, DialFx
  <2>2. Loaded(p)
    BY <2>1 DEF Loaded
  <2> QED BY <2>1, <2>2, CallPages, Zenon
<1>4. CASE NoModem(p)
  BY <1>0, <1>4, NoModemFx, LeftUnloaded, LastPages, Zenon
<1>5. CASE Prologue(p)
  <2>1. /\ Apart(p) /\ fs[p].pc = "prologue"
        /\ (\E st : Calls(p, "end", st)) \/ (\E st : Calls(p, "doc", st))
    BY <1>0, <1>5, PrologueFx
  <2>2. Loaded(p)
    BY <2>1 DEF Loaded
  <2> QED BY <2>1, <2>2, CallPages
<1>6. CASE Doc(p)
  BY <1>6, DocPages
<1>7. CASE Page(p)
  BY <1>7, PagePages
<1>8. CASE DocSent(p)
  BY <1>8, DocSentPages
<1>9. CASE End(p)
  BY <1>0, <1>9, EndFx, LeftUnloaded, LastPages
<1>10. CASE FaxsendCrash(p)
  BY <1>0, <1>10, CrashFx, LeftUnloaded, OutsidePages
<1>11. CASE Abort(p)
  <2>1. /\ Apart(p) /\ qf' = qf /\ confirmed' = confirmed
        /\ \/ Outside(p) \/ Left(p, "failed")
           \/ Calls(p, fs[p].pc, fs[p].req.status) /\ fs'[p].prev = fs[p].prev
    BY <1>0, <1>11, AbortFx, Zenon
  <2>2. CASE Outside(p) \/ Left(p, "failed")
    BY <2>1, <2>2, LeftUnloaded, OutsidePages, Zenon DEF Outside
  <2>3. CASE Calls(p, fs[p].pc, fs[p].req.status) /\ fs'[p].prev = fs[p].prev
    <3>1. /\ fs'[p].pc = fs[p].pc /\ fs'[p].req.items = fs[p].req.items
          /\ fs'[p].req.npages = fs[p].req.npages /\ fs'[p].prev = fs[p].prev
      BY <2>3, Zenon DEF Calls, At
    <3>2. Grows
      BY <2>1, SameGrows DEF PInv
    <3>3. Without({"vanish"})' => Without({"vanish"})
      BY <2>1 DEF Apart, Without
    <3>4. ASSUME qf.dir = "sendq" PROVE ProcOK(p)'
      <4>1. ProcOK(p)
        BY <3>4 DEF PInv, PagesOK
      <4> QED BY <2>1, <3>1, <3>3, <4>1, Zenon DEF ProcOK, Loaded, ReqOK
    <3> QED BY <2>1, <3>2, <3>4, FileKept, PagesStep DEF Apart
  <2> QED BY <2>1, <2>2, <2>3
<1> QED BY <1>1, <1>2, <1>3, <1>4, <1>5, <1>6, <1>7, <1>8, <1>9, <1>10, <1>11 DEF Faxsend

\* A step of faxq after which the job is still in sendq.
LEMMA FaxqPagesStep ==
  ASSUME PInv, SInv', ProcsKept, mishaps \subseteq mishaps',
         qf'.dir = "sendq" =>
            /\ qf.dir = "sendq" /\ qf'.npages = qf.npages
            /\ qf'.items \in {qf.items, Imaged(qf.items), Sources(qf.items)}
  PROVE  PInv'
<1>1. Grows
  BY SameGrows, Zenon DEF PInv, ProcsKept
<1> SUFFICES ASSUME qf'.dir = "sendq"
             PROVE  /\ ReqOK(qf') /\ (Without({"vanish"})' => Covers(confirmed', qf'.items, 0))
                    /\ \A p \in Procs : ProcOK(p)'
  BY <1>1 DEF PInv, PagesOK, Grows
<1>2. ReqOK(qf) /\ (Without({"vanish"}) => Covers(confirmed, qf.items, 0))
  BY DEF PInv, PagesOK
<1>3. Without({"vanish"})' => Without({"vanish"})
  BY DEF Without
<1>4. Whole(qf.items) /\ qf.npages \in Nat
  BY <1>2 DEF ReqOK
<1>5. /\ Whole(Imaged(qf.items)) /\ Wanted(Imaged(qf.items), 0) = Wanted(qf.items, 0)
      /\ Whole(Sources(qf.items)) /\ Wanted(Sources(qf.items), 0) = AllPages
  BY <1>4, ImagedOK, ImagedWanted, SourcesOK, SourcesWanted, Zenon
<1>6. Whole(qf'.items) /\ Wanted(qf.items, 0) \subseteq Wanted(qf'.items, 0)
  <2>1. Wanted(qf.items, 0) \subseteq AllPages
    BY Zenon DEF Wanted
  <2> QED BY <1>4, <1>5, <2>1, Zenon
<1>7. ReqOK(qf') /\ (Without({"vanish"})' => Covers(confirmed', qf'.items, 0))
  BY <1>2, <1>3, <1>4, <1>6, Zenon DEF ReqOK, Covers, ProcsKept
<1>8. ASSUME NEW p \in Procs PROVE ProcOK(p)'
  <2>1. CASE fs'[p] = fs[p]
    BY <1>1, <2>1, OtherPages DEF PInv, PagesOK
  <2>2. CASE fs'[p].pc \in {"none", "exec"}
    BY <2>2, Zenon DEF ProcOK, Loaded
  <2> QED BY <2>1, <2>2, Zenon DEF ProcsKept
<1> QED BY <1>7, <1>8, Zenon

LEMMA FaxqPages ==
  ASSUME PInv, SInv', Faxq \/ FaxqCrash
  PROVE  PInv'
<1>1. CASE Process
  BY <1>1, ProcessFx, FaxqPagesStep, Zenon DEF Ended, File
<1>2. CASE Prepare
  BY <1>2, PrepareFx, FaxqPagesStep DEF Ended, File
<1>3. CASE SendStart
  BY <1>3, SendStartFx, FaxqPagesStep, Zenon
<1>4. CASE SendDone
  <2>1. /\ ProcsKept /\ mishaps' = mishaps /\ qf.dir = "sendq"
        /\ \/ File(Sources(qf.items), "retry")
           \/ File(qf.items, "retry")
           \/ \E why : Ended(why)
    BY <1>4, SendDoneFx
  <2> QED BY <2>1, FaxqPagesStep, Zenon DEF Ended, File
<1>5. CASE NotifySender \/ FaxqCrash \/ FaxqRestart
  BY <1>5, RestFx, FaxqPagesStep
<1> QED BY <1>1, <1>2, <1>3, <1>4, <1>5 DEF Faxq

LEMMA PagesInit ==
  ASSUME Init
  PROVE  PInv
<1>1. SInv
  BY InvInit
<1>2. confirmed = [x \in AllPages |-> 0] /\ qf = NewRequest /\ \A p \in Procs : fs[p] = NoProc
  BY DEF Init
<1>3. ReqOK(qf) /\ Covers(confirmed, qf.items, 0)
  BY <1>2, NewWanted DEF ReqOK, Covers
<1>4. \A p \in Procs : ProcOK(p)
  BY <1>2, NoProcShape, Zenon DEF ProcOK, Loaded
<1> QED BY <1>1, <1>2, <1>3, <1>4 DEF PInv, PagesOK

LEMMA PagesNext ==
  ASSUME PInv, [Next]_vars
  PROVE  PInv'
<1>1. SInv'
  BY InvNext DEF PInv
<1>2. CASE UNCHANGED vars
  <2>1. UNCHANGED <<qf, fs, confirmed, mishaps>>
    BY <1>2 DEF vars
  <2>2. PagesOK'
    BY <2>1, Zenon DEF PInv, PagesOK, ProcOK, Loaded, Without
  <2> QED BY <1>1, <2>1, <2>2 DEF PInv
<1>3. CASE Faxq \/ FaxqCrash
  BY <1>1, <1>3, FaxqPages
<1>4. CASE \E p \in Procs : Faxsend(p) \/ FaxsendCrash(p) \/ Abort(p)
  BY <1>1, <1>4, FaxsendPages
<1> QED BY <1>2, <1>3, <1>4 DEF Next

\* DiskNeverAhead: what the queue file no longer asks for has been confirmed,
\* whoever dies and whenever, and with any number of old faxsends at work.
THEOREM DiskNeverAheadAlways == Spec => []DiskNeverAhead
<1>1. PInv => DiskNeverAhead
  <2> SUFFICES ASSUME PInv, Without({"vanish"}), qf.dir = "sendq", NEW x \in AllPages,
                      \A i \in DOMAIN qf.items : qf.items[i].doc = x[1] =>
                         \/ qf.items[i].op = "saved"
                         \/ qf.items[i].op = "fax" /\ x[2] < qf.items[i].dirnum
               PROVE  confirmed[x] > 0
    BY Zenon DEF DiskNeverAhead
  <2>1. Covers(confirmed, qf.items, 0) /\ Whole(qf.items)
    BY Zenon DEF PInv, PagesOK, ReqOK
  <2>2. \A i \in DOMAIN qf.items : ~Asks(qf.items[i], x, 0)
    BY <2>1, PageParts, ItemParts DEF Asks
  <2>3. x \notin Wanted(qf.items, 0)
    BY <2>2, Zenon DEF Wanted
  <2>4. confirmed[x] \in Nat
    BY DEF PInv
  <2> QED BY <2>1, <2>3, <2>4 DEF Covers
<1> QED BY <1>1, PagesInit, PagesNext, PTL DEF Spec

-----------------------------------------------------------------------------
(* "done" is said of a job whose pages were all confirmed.                 *)

Known == fq.pc = "sending" => fq.proc \in Procs

\* A faxsend holds the lock from reading the file to its end.
Locked == \A p \in Procs : Loaded(p) <=> lock = p

\* "done" in a file that nobody is at work on, or not yet in a call, or as the end of
\* a call, is of a job all of whose pages were confirmed.  In a call it is of a document.
DoneOK(p) ==
    LET r == fs[p].req
    IN  /\ fs[p].pc \in {"dial", "end"} /\ r.status = "done" => AllConfirmed
        /\ fs[p].pc = "dial" /\ qf.status = "done" => AllConfirmed
        /\ fs[p].pc = "doc" /\ r.status = "done" => NoSource(r.items)
        /\ fs[p].pc = "exited" /\ fs[p].exit = "done" => AllConfirmed
Done ==
    Without({"faxsend", "late", "vanish"}) =>
       /\ qf.dir = "sendq" => /\ lock = "free" /\ qf.status = "done" => AllConfirmed
                              /\ \A p \in Procs : DoneOK(p)
       /\ fq.pc = "notify" /\ fq.why = "done" => AllConfirmed
       /\ "done" \in Range(told) => AllConfirmed

DInv == PInv /\ Known /\ Locked /\ Done

LEMMA FreeNotProc == "free" \notin Procs
  BY FaxSendAssumption, Zenon

\* A process leaves, or moves while it keeps the lock or has no part in it.
LEMMA LockedStep ==
  ASSUME Locked, NEW p \in Procs, \A q \in Procs \ {p} : fs'[q] = fs[q],
         \/ Loaded(p)' /\ Loaded(p) /\ lock' = lock
         \/ Loaded(p)' /\ lock = "free" /\ lock' = p
         \/ ~Loaded(p)' /\ lock' = IF lock = p THEN "free" ELSE lock
  PROVE  Locked'
<1>1. Loaded(p)' <=> lock' = p
  BY FreeNotProc DEF Locked
<1>2. ASSUME NEW q \in Procs, q # p PROVE Loaded(q)' <=> lock' = q
  <2>1. Loaded(q)' <=> Loaded(q)
    BY <1>2 DEF Loaded
  <2> QED BY <1>2, <2>1, FreeNotProc DEF Locked
<1> QED BY <1>1, <1>2, Zenon DEF Locked

LEMMA UnlockedStep ==
  ASSUME Locked, NEW p \in Procs, Apart(p), Outside(p)
  PROVE  Locked' /\ lock' = lock
<1>1. lock # p /\ ~Loaded(p)'
  BY DEF Outside, Locked
<1>2. lock' = lock
  BY <1>1 DEF Outside, Left
<1> QED BY <1>1, <1>2, LockedStep DEF Apart

LEMMA CallsLocked ==
  ASSUME Locked, NEW p \in Procs, Apart(p), Loaded(p), NEW pc, NEW items, NEW npages, NEW st,
         pc \in {"dial", "prologue", "doc", "page", "docsent", "end"},
         At(p, pc, items, npages, st), lock' = lock
  PROVE  Locked'
<1>1. Loaded(p)'
  BY DEF At, Loaded
<1> QED BY <1>1, LockedStep DEF Apart

LEMMA LeftLocked ==
  ASSUME Locked, NEW p \in Procs, Apart(p), NEW code, Left(p, code)
  PROVE  Locked'
<1>1. ~Loaded(p)' /\ lock' = IF lock = p THEN "free" ELSE lock
  BY LeftUnloaded DEF Left
<1> QED BY <1>1, LockedStep DEF Apart

LEMMA FaxqLocked ==
  ASSUME Locked, ProcsKept
  PROVE  Locked'
<1>1. ASSUME NEW p \in Procs PROVE Loaded(p)' <=> Loaded(p)
  <2>1. CASE fs'[p] = fs[p]
    BY <2>1 DEF Loaded
  <2>2. CASE fs[p].pc \in {"none", "exited"} /\ fs'[p].pc \in {"none", "exec"}
    BY <2>2 DEF Loaded
  <2> QED BY <2>1, <2>2 DEF ProcsKept
<1> QED BY <1>1 DEF Locked, ProcsKept

LEMMA ConfirmedStays ==
  ASSUME confirmed \in [AllPages -> Nat], Grows, AllConfirmed
  PROVE  AllConfirmed'
  BY DEF Grows, AllConfirmed

LEMMA DoneStep ==
  ASSUME DInv, NEW p \in Procs, Apart(p), Grows, Loaded(p) \/ qf' = qf,
         qf.dir = "sendq" /\ Without({"faxsend", "late", "vanish"})' =>
            /\ lock' = "free" /\ qf'.status = "done" => AllConfirmed'
            /\ DoneOK(p)'
  PROVE  Done'
<1> SUFFICES ASSUME Without({"faxsend", "late", "vanish"})'
             PROVE  /\ qf'.dir = "sendq" => /\ lock' = "free" /\ qf'.status = "done" => AllConfirmed'
                                            /\ \A q \in Procs : DoneOK(q)'
                    /\ fq'.pc = "notify" /\ fq'.why = "done" => AllConfirmed'
                    /\ "done" \in Range(told)' => AllConfirmed'
  BY DEF Done
<1>1. Without({"faxsend", "late", "vanish"})
  BY DEF Without, Apart
<1>2. AllConfirmed => AllConfirmed'
  BY ConfirmedStays DEF DInv, PInv
<1>3. ASSUME NEW q \in Procs, q # p, qf.dir = "sendq" PROVE DoneOK(q)'
  <2>1. DoneOK(q) /\ fs'[q] = fs[q]
    BY <1>1, <1>3 DEF DInv, Done, Apart
  <2>2. fs[q].pc = "dial" => qf' = qf
    BY <1>3, Zenon DEF DInv, Locked, Loaded
  <2> QED BY <1>2, <2>1, <2>2 DEF DoneOK
<1>4. fq' = fq /\ told' = told /\ qf'.dir = qf.dir
  BY DEF Apart
<1>5. Range(told)' = Range(told)
  BY <1>4 DEF Range
<1> QED BY <1>1, <1>2, <1>3, <1>4, <1>5 DEF DInv, Done

\* A process that is at work keeps the lock, so of its file nothing is asked.
LEMMA AtWorkDone ==
  ASSUME DInv, NEW p \in Procs, Apart(p), Grows, Loaded(p), lock' = lock,
         NEW pc, NEW items, NEW npages, NEW st, At(p, pc, items, npages, st),
         pc \in {"prologue", "doc", "page", "docsent", "end"},
         qf.dir = "sendq" /\ Without({"faxsend", "late", "vanish"})' /\ st = "done" =>
            /\ pc = "end" => AllConfirmed'
            /\ pc = "doc" => NoSource(items)
  PROVE  Locked' /\ Done'
<1>1. Locked'
  BY CallsLocked DEF DInv
<1>2. lock' # "free"
  BY FreeNotProc DEF DInv, Locked
<1>3. ASSUME qf.dir = "sendq", Without({"faxsend", "late", "vanish"})' PROVE DoneOK(p)'
  BY <1>3 DEF At, DoneOK
<1> QED BY <1>1, <1>2, <1>3, DoneStep

LEMMA OutsideDone ==
  ASSUME DInv, NEW p \in Procs, Apart(p), Outside(p)
  PROVE  Locked' /\ Done'
<1>1. Locked' /\ lock' = lock
  BY UnlockedStep DEF DInv
<1>2. Grows /\ qf' = qf /\ confirmed' = confirmed
  BY SameGrows DEF DInv, PInv, Outside
<1>3. ASSUME Without({"faxsend", "late", "vanish"})' PROVE DoneOK(p)'
  <2>1. fs'[p].pc = "opened" \/ \E code \in {"failed", "retry"} : Left(p, code)
    BY <1>3, Zenon DEF Outside, Without, Unwritten
  <2> QED BY <2>1 DEF DoneOK, Left
<1>4. ASSUME qf.dir = "sendq", Without({"faxsend", "late", "vanish"})', lock' = "free", qf'.status = "done"
      PROVE  AllConfirmed'
  <2>1. AllConfirmed
    BY <1>1, <1>2, <1>4 DEF DInv, Done, Apart, Without
  <2> QED BY <1>2, <2>1, ConfirmedStays DEF DInv, PInv
<1> QED BY <1>1, <1>2, <1>3, <1>4, DoneStep

LEMMA ReadDone ==
  ASSUME DInv, NEW p \in Procs, Read(p)
  PROVE  Locked' /\ Done'
<1>1. /\ Apart(p) /\ lock = "free" /\ lock' = p /\ UNCHANGED <<qf, confirmed, mishaps>>
      /\ At(p, "dial", qf.items, qf.npages, qf.status)
  BY ReadFx DEF DInv, PInv, SInv
<1>2. Loaded(p)'
  BY <1>1 DEF At, Loaded
<1>3. Locked'
  BY <1>1, <1>2, LockedStep DEF DInv, Apart
<1>4. Grows
  BY <1>1, SameGrows DEF DInv, PInv
<1>5. ASSUME qf.dir = "sendq", Without({"faxsend", "late", "vanish"})' PROVE DoneOK(p)'
  <2>1. qf.status = "done" => AllConfirmed
    BY <1>1, <1>5 DEF DInv, Done, Without
  <2>2. AllConfirmed => AllConfirmed'
    BY <1>4, ConfirmedStays DEF DInv, PInv
  <2> QED BY <1>1, <2>1, <2>2 DEF At, DoneOK
<1> QED BY <1>1, <1>3, <1>4, <1>5, FreeNotProc, DoneStep

\* With no imaged document left after one that was sent, nothing is left.
LEMMA NothingLeft ==
  ASSUME DInv, NEW p \in Procs, fs[p].pc = "doc", qf.dir = "sendq", Without({"faxsend", "late", "vanish"}),
         fs[p].req.status = "done", FindFax(fs[p].req.items) = 0
  PROVE  AllConfirmed
<1>1. NoSource(fs[p].req.items)
  BY Zenon DEF DInv, Done, DoneOK
<1>2. Whole(fs[p].req.items) /\ Covers(confirmed, fs[p].req.items, 0)
  BY DEF DInv, PInv, PagesOK, ProcOK, Loaded, ReqOK, Without
<1>3. Wanted(fs[p].req.items, 0) = {}
  BY <1>1, <1>2, NothingWanted
<1>4. \A x \in AllPages : confirmed[x] \in Nat /\ confirmed[x] # 0
  BY <1>2, <1>3 DEF Covers, DInv, PInv
<1> QED BY <1>4 DEF AllConfirmed

LEMMA DocDone ==
  ASSUME DInv, NEW p \in Procs, Doc(p)
  PROVE  Locked' /\ Done'
<1> DEFINE r == fs[p].req
           i == FindFax(r.items)
<1>1. /\ Apart(p) /\ fs[p].pc = "doc"
      /\ \/ i = 0 /\ Calls(p, "end", r.status)
         \/ r.status = "done" /\ Calls(p, "docsent", r.status)
         \/ r.status # "done" /\ Calls(p, "end", r.status)
         \/ Calls(p, "end", "failed")
         \/ Calls(p, "end", "reformat")
         \/ \E st : Calls(p, "page", st)
  BY DocFx, Zenon DEF DInv, PInv, SInv
<1>2. Loaded(p) /\ confirmed' = confirmed
  BY <1>1 DEF Loaded, Calls
<1>3. Grows
  BY <1>2, SameGrows DEF DInv, PInv
<1>4. PICK pc, st : /\ Calls(p, pc, st)
                    /\ pc \in {"end", "docsent", "page"}
                    /\ pc = "end" /\ st = "done" => i = 0 /\ r.status = "done"
  BY <1>1
<1>5. ASSUME qf.dir = "sendq", Without({"faxsend", "late", "vanish"})', st = "done", pc = "end"
      PROVE  AllConfirmed'
  <2>1. Without({"faxsend", "late", "vanish"})
    BY <1>1, <1>5 DEF Apart, Without
  <2>2. AllConfirmed
    BY <1>1, <1>4, <1>5, <2>1, NothingLeft
  <2> QED BY <1>3, <2>2, ConfirmedStays DEF DInv, PInv
<1>6. At(p, pc, r.items, r.npages, st) /\ lock' = lock
  BY <1>4 DEF Calls
<1> HIDE DEF r, i
<1> QED BY <1>1, <1>2, <1>3, <1>4, <1>5, <1>6, AtWorkDone

LEMMA PageDone ==
  ASSUME DInv, PInv', NEW p \in Procs, Page(p)
  PROVE  Locked' /\ Done'
<1>1. Apart(p) /\ fs[p].pc = "page" /\ Grows /\ lock' = lock
  BY PageKind DEF DInv, PInv, SInv, Grows
<1>2. Loaded(p)
  BY <1>1 DEF Loaded
<1>3. \E pc, items, npages, st :
         /\ At(p, pc, items, npages, st) /\ pc \in {"page", "docsent", "end"}
         /\ qf.dir = "sendq" /\ pc = "end" => st # "done"
  <2>1. CASE qf.dir = "sendq"
    <3>1. /\ fs[p].req.npages \in Nat /\ fs[p].prev \in Nat /\ fs[p].prev <= fs[p].req.npages
      BY <1>1, <1>2, <2>1, Zenon DEF DInv, PInv, PagesOK, ProcOK, ReqOK
    <3>2. Shape
      BY DEF DInv, PInv, SInv
    <3>3. \/ \E items, npages, st : At(p, "end", items, npages, st) /\ st \in {"retry", "failed", "reformat"}
          \/ \E items, npages, st : At(p, "docsent", items, npages, st)
          \/ \E items, npages, st : At(p, "page", items, npages, st)
      BY <3>1, <3>2, PageFx, Zenon
    <3> QED BY <3>3
  <2>2. CASE qf.dir # "sendq"
    <3>1. fs'[p].pc \in {"page", "docsent", "end"} /\ fs'[p].exit = fs[p].exit
      BY PageKind DEF DInv, PInv, SInv
    <3> QED BY <2>2, <3>1 DEF At
  <2> QED BY <2>1, <2>2
<1> QED BY <1>1, <1>2, <1>3, AtWorkDone

LEMMA DocSentDone ==
  ASSUME DInv, NEW p \in Procs, DocSent(p)
  PROVE  Locked' /\ Done'
<1> DEFINE r == fs[p].req
           i == FindFax(r.items)
           w == RemoveAt(r.items, i)
<1>1. /\ Apart(p) /\ fs[p].pc = "docsent" /\ confirmed' = confirmed /\ lock' = lock
      /\ At(p, "doc", w, r.npages, r.status)
  BY DocSentFx DEF DInv, PInv, SInv
<1>2. Loaded(p) /\ Grows
  BY <1>1, SameGrows, Zenon DEF DInv, PInv, Loaded
<1>3. ASSUME qf.dir = "sendq" PROVE NoSource(w)
  <2>1. Whole(r.items) /\ i # 0
    BY <1>1, <1>2, <1>3, Zenon DEF DInv, PInv, PagesOK, ProcOK, ReqOK
  <2>2. i \in DOMAIN r.items /\ r.items[i].op = "fax"
    BY <2>1, FindFaxOK, Zenon DEF Whole
  <2>3. NoSource(r.items)
    BY <2>1, <2>2 DEF Whole, NoSource
  <2>4. \A k \in DOMAIN w : \E j \in DOMAIN r.items \ {i} : w[k] = r.items[j]
    BY <2>1, RemoveOK
  <2> HIDE DEF w, i
  <2> QED BY <2>3, <2>4 DEF NoSource
<1> HIDE DEF w
<1> QED BY <1>1, <1>2, <1>3, AtWorkDone

\* The last write of a process, and its exit.
LEMMA LastDone ==
  ASSUME DInv, NEW p \in Procs, Apart(p), Loaded(p), confirmed' = confirmed,
         NEW st, Wrote(p, st), Left(p, st),
         st = "done" => fs[p].pc = "end" /\ fs[p].req.status = "done"
  PROVE  Locked' /\ Done'
<1>1. Locked'
  BY LeftLocked DEF DInv
<1>2. Grows
  BY SameGrows DEF DInv, PInv
<1>3. ASSUME qf.dir = "sendq", Without({"faxsend", "late", "vanish"})', st = "done" PROVE AllConfirmed'
  <2>1. Without({"faxsend", "late", "vanish"})
    BY <1>3 DEF Apart, Without
  <2>2. AllConfirmed
    BY <1>3, <2>1 DEF DInv, Done, DoneOK
  <2> QED BY <1>2, <2>2, ConfirmedStays DEF DInv, PInv
<1>4. ASSUME qf.dir = "sendq", Without({"faxsend", "late", "vanish"})' PROVE DoneOK(p)'
  BY <1>3, <1>4 DEF DoneOK, Left
<1>5. qf'.status = st
  BY DEF Wrote
<1> QED BY <1>1, <1>2, <1>3, <1>4, <1>5, DoneStep

\* It leaves, and has not dialled or something is not promised any more.
LEMMA GoneDone ==
  ASSUME DInv, NEW p \in Procs, Apart(p), qf' = qf, confirmed' = confirmed,
         NEW code, code # "done", Left(p, code), fs[p].pc = "dial" \/ ~Without(Unwritten)'
  PROVE  Locked' /\ Done'
<1>1. Locked'
  BY LeftLocked DEF DInv
<1>2. Grows
  BY SameGrows DEF DInv, PInv
<1>3. ASSUME qf.dir = "sendq", Without({"faxsend", "late", "vanish"})'
      PROVE  DoneOK(p)' /\ (qf'.status = "done" => AllConfirmed')
  <2>1. Without({"faxsend", "late", "vanish"}) /\ fs[p].pc = "dial"
    BY <1>3 DEF Apart, Without, Unwritten
  <2>2. qf.status = "done" => AllConfirmed
    BY <1>3, <2>1 DEF DInv, Done, DoneOK
  <2>3. AllConfirmed => AllConfirmed'
    BY <1>2, ConfirmedStays DEF DInv, PInv
  <2> QED BY <2>2, <2>3 DEF DoneOK, Left
<1> QED BY <1>1, <1>2, <1>3, DoneStep

LEMMA FaxsendDone ==
  ASSUME DInv, PInv', NEW p \in Procs, Faxsend(p) \/ FaxsendCrash(p) \/ Abort(p)
  PROVE  Locked' /\ Done'
<1>0. Shape /\ confirmed \in [AllPages -> Nat]
  BY DEF DInv, PInv, SInv
<1>1. CASE Open(p)
  BY <1>0, <1>1, OpenFx, OutsideDone
<1>2. CASE Read(p)
  BY <1>2, ReadDone
<1>3. CASE Dial(p)
  <2>1. /\ Apart(p) /\ fs[p].pc = "dial" /\ mishaps' = mishaps
        /\ \/ \E st \in {"retry", "failed", fs[p].req.status} : Calls(p, "end", st)
           \/ Calls(p, "prologue", fs[p].req.status)
    BY <1>0, <1>3, DialFx
  <2>2. Loaded(p) /\ Grows
    BY <1>0, <2>1, SameGrows DEF Loaded, Calls
  <2>3. qf.dir = "sendq" /\ Without({"faxsend", "late", "vanish"})' /\ fs[p].req.status = "done" => AllConfirmed'
    BY <1>0, <2>1, <2>2, ConfirmedStays DEF DInv, Done, DoneOK, Without
  <2> QED BY <2>1, <2>2, <2>3, AtWorkDone DEF Calls
<1>4. CASE NoModem(p)
  <2>1. /\ Apart(p) /\ fs[p].pc = "dial" /\ confirmed' = confirmed
        /\ \E st \in {"retry", "failed"} : Wrote(p, st) /\ Left(p, st)
    BY <1>0, <1>4, NoModemFx
  <2>2. Loaded(p)
    BY <2>1 DEF Loaded
  <2> QED BY <2>1, <2>2, LastDone
<1>5. CASE Prologue(p)
  <2>1. /\ Apart(p) /\ fs[p].pc = "prologue"
        /\ \E pc \in {"end", "doc"}, st \in {"retry", "failed"} : Calls(p, pc, st)
    BY <1>0, <1>5, PrologueFx
  <2>2. Loaded(p) /\ Grows
    BY <1>0, <2>1, SameGrows DEF Loaded, Calls
  <2> QED BY <2>1, <2>2, AtWorkDone DEF Calls
<1>6. CASE Doc(p)
  BY <1>6, DocDone
<1>7. CASE Page(p)
  BY <1>7, PageDone
<1>8. CASE DocSent(p)
  BY <1>8, DocSentDone
<1>9. CASE End(p)
  <2>1. /\ Apart(p) /\ fs[p].pc = "end" /\ confirmed' = confirmed
        /\ \E st \in {"retry", "failed", fs[p].req.status} : Wrote(p, st) /\ Left(p, st)
    BY <1>0, <1>9, EndFx
  <2>2. Loaded(p)
    BY <2>1 DEF Loaded
  <2> QED BY <2>1, <2>2, LastDone
<1>10. CASE FaxsendCrash(p)
  <2>1. /\ Apart(p) /\ ~Without(Unwritten)' /\ qf' = qf /\ confirmed' = confirmed
        /\ Left(p, "signal")
    BY <1>0, <1>10, CrashFx
  <2> QED BY <2>1, GoneDone
<1>11. CASE Abort(p)
  <2>1. /\ Apart(p) /\ qf' = qf /\ confirmed' = confirmed
        /\ \/ Outside(p)
           \/ (fs[p].pc = "dial" \/ ~Without(Unwritten)') /\ Left(p, "failed")
           \/ Calls(p, fs[p].pc, fs[p].req.status)
    BY <1>0, <1>11, AbortFx, Zenon
  <2>2. CASE Outside(p)
    BY <2>1, <2>2, OutsideDone
  <2>4. CASE (fs[p].pc = "dial" \/ ~Without(Unwritten)') /\ Left(p, "failed")
    BY <2>1, <2>4, GoneDone
  <2>3. CASE Calls(p, fs[p].pc, fs[p].req.status)
    <3>1. /\ qf' = qf /\ lock' = lock /\ fs'[p].pc = fs[p].pc /\ fs'[p].exit = fs[p].exit
          /\ fs'[p].req.items = fs[p].req.items /\ fs'[p].req.status = fs[p].req.status
      BY <2>3 DEF Calls, At
    <3>2. Locked'
      <4>1. \A q \in Procs : Loaded(q)' <=> Loaded(q)
        BY <2>1, <3>1 DEF Loaded, Apart
      <4> QED BY <3>1, <4>1 DEF DInv, Locked
    <3>3. Grows
      BY <1>0, <2>1, SameGrows
    <3>4. AllConfirmed => AllConfirmed'
      BY <1>0, <3>3, ConfirmedStays
    <3>5. Without({"faxsend", "late", "vanish"})' => Without({"faxsend", "late", "vanish"})
      BY <2>1, Zenon DEF Apart, Without
    <3>6. ASSUME qf.dir = "sendq", Without({"faxsend", "late", "vanish"})'
          PROVE  DoneOK(p)' /\ (lock' = "free" /\ qf'.status = "done" => AllConfirmed')
      <4>1. DoneOK(p) /\ (lock = "free" /\ qf.status = "done" => AllConfirmed)
        BY <3>5, <3>6 DEF DInv, Done
      <4> QED BY <3>1, <3>4, <4>1 DEF DoneOK, NoSource
    <3> QED BY <2>1, <3>2, <3>3, <3>6, DoneStep
  <2> QED BY <2>1, <2>2, <2>3, <2>4
<1> QED BY <1>1, <1>2, <1>3, <1>4, <1>5, <1>6, <1>7, <1>8, <1>9, <1>10, <1>11 DEF Faxsend

\* A step of faxq.
LEMMA FaxqDoneStep ==
  ASSUME DInv, ProcsKept, mishaps \subseteq mishaps',
         qf'.dir = "sendq" => qf.dir = "sendq" /\ qf'.status \in {qf.status, "nobatch", "retry"},
         Without({"faxsend", "late", "vanish"}) =>
            /\ fq'.pc = "notify" /\ fq'.why = "done" => AllConfirmed
            /\ "done" \in Range(told)' => AllConfirmed
  PROVE  Locked' /\ Done'
<1>1. Locked'
  BY FaxqLocked DEF DInv
<1>2. AllConfirmed => AllConfirmed'
  BY DEF ProcsKept, AllConfirmed
<1>3. Without({"faxsend", "late", "vanish"})' => Without({"faxsend", "late", "vanish"})
  BY DEF Without
<1>4. ASSUME Without({"faxsend", "late", "vanish"})', qf'.dir = "sendq", NEW p \in Procs PROVE DoneOK(p)'
  <2>1. DoneOK(p)
    BY <1>3, <1>4 DEF DInv, Done
  <2>2. CASE fs'[p] = fs[p]
    <3>1. qf'.status = "done" => qf.status = "done"
      BY <1>4
    <3> QED BY <1>2, <2>1, <2>2, <3>1 DEF DoneOK
  <2>3. CASE fs'[p].pc \in {"none", "exec"}
    BY <2>3 DEF DoneOK
  <2> QED BY <2>2, <2>3 DEF ProcsKept
<1>5. ASSUME Without({"faxsend", "late", "vanish"})', qf'.dir = "sendq", lock' = "free", qf'.status = "done"
      PROVE  AllConfirmed'
  BY <1>2, <1>3, <1>5 DEF DInv, Done, ProcsKept
<1> QED BY <1>1, <1>2, <1>3, <1>4, <1>5 DEF Done

LEMMA FaxqDone ==
  ASSUME DInv, Faxq \/ FaxqCrash
  PROVE  Locked' /\ Done'
<1>0. PInv /\ (Without({"faxsend", "late", "vanish"}) /\ "done" \in Range(told) => AllConfirmed)
  BY DEF DInv, Done
<1>a. told' = told => Range(told)' = Range(told)
  BY DEF Range
<1>1. CASE Process
  BY <1>0, <1>1, <1>a, ProcessFx, FaxqDoneStep DEF Ended, File, On
<1>2. CASE Prepare
  BY <1>0, <1>2, <1>a, PrepareFx, FaxqDoneStep DEF Ended, File, On
<1>3. CASE SendStart
  BY <1>0, <1>3, <1>a, SendStartFx, FaxqDoneStep DEF On
<1>4. CASE SendDone
  <2>1. /\ ProcsKept /\ mishaps' = mishaps /\ qf.dir = "sendq" /\ lock = "free"
        /\ fq.pc = "sending" /\ fs[fq.proc].pc = "exited"
        /\ \/ \E items : File(items, "retry") /\ On("ready")
           \/ Ended("failed")
           \/ (qf.status = "done" \/ fs[fq.proc].exit = "done") /\ Ended("done")
    BY <1>0, <1>4, SendDoneFx
  <2>2. ASSUME Without({"faxsend", "late", "vanish"}), qf.status = "done" \/ fs[fq.proc].exit = "done"
        PROVE  AllConfirmed
    <3>1. CASE qf.status = "done"
      BY <2>1, <2>2, <3>1 DEF DInv, Done
    <3>2. CASE fs[fq.proc].exit = "done" /\ fq.proc \in Procs
      BY <2>1, <2>2, <3>2 DEF DInv, Done, DoneOK
    <3>3. fq.proc \in Procs
      BY <2>1 DEF DInv, Known
    <3> QED BY <2>2, <3>1, <3>2, <3>3
  <2> QED BY <1>0, <1>a, <2>1, <2>2, FaxqDoneStep DEF Ended, File, On
<1>5. CASE NotifySender \/ FaxqCrash \/ FaxqRestart
  <2>1. /\ ProcsKept /\ mishaps \subseteq mishaps' /\ qf' = qf
        /\ \/ fq.pc = "notify" /\ told' = Append(told, fq.why) /\ fq'.pc = "idle"
           \/ fq'.why = "none" /\ told' = told
    BY <1>0, <1>5, RestFx DEF On
  <2>2. CASE fq.pc = "notify" /\ told' = Append(told, fq.why) /\ fq'.pc = "idle"
    <3>1. told = <<>>
      BY <1>0, <2>2 DEF PInv, SInv, Told
    <3>2. told' = <<fq.why>>
      BY <2>2, <3>1
    <3>3. "done" \in Range(told)' => fq.why = "done"
      BY <3>2 DEF Range
    <3>4. Without({"faxsend", "late", "vanish"}) /\ fq.why = "done" => AllConfirmed
      BY <2>2 DEF DInv, Done
    <3> QED BY <2>1, <2>2, <3>3, <3>4, FaxqDoneStep
  <2>3. CASE fq'.why = "none" /\ told' = told
    BY <1>0, <1>a, <2>1, <2>3, FaxqDoneStep
  <2> QED BY <2>1, <2>2, <2>3
<1> QED BY <1>1, <1>2, <1>3, <1>4, <1>5 DEF Faxq

LEMMA KnownNext ==
  ASSUME PInv, Known, Next
  PROVE  Known'
<1>0. Shape
  BY DEF PInv, SInv
<1>1. ASSUME NEW p \in Procs, Faxsend(p) \/ FaxsendCrash(p) \/ Abort(p) PROVE Known'
  <2>1. fq' = fq
    BY <1>1, Zenon DEF Faxsend, Open, Read, Dial, NoModem, Prologue, Doc, Page, DocSent, End,
       FaxsendCrash, Abort, Step
  <2> QED BY <2>1 DEF Known
<1>2. CASE Process
  <2>1. fq'.pc \in {"notify", "prepare", "send"}
    BY <1>2, ProcessFx DEF Ended, On
  <2> QED BY <2>1 DEF Known
<1>3. CASE Prepare
  <2>1. fq'.pc \in {"notify", "send"}
    BY <1>3, PrepareFx DEF Ended, On
  <2> QED BY <2>1 DEF Known
<1>4. CASE SendStart
  <2>1. ASSUME NEW p \in Procs, fq' = [Go("sending") EXCEPT !.proc = p] PROVE Known'
    <3>1. fq' = [pc |-> "sending", proc |-> p, why |-> "none"]
      BY <2>1 DEF Go
    <3> QED BY <3>1 DEF Known
  <2>2. ASSUME fq' = Requeued PROVE Known'
    BY <2>2, GoFx DEF Requeued, Known
  <2> QED BY <1>4, <2>1, <2>2 DEF SendStart
<1>5. CASE SendDone
  <2>1. fq'.pc \in {"notify", "ready"}
    BY <1>5, SendDoneFx DEF Ended, On
  <2> QED BY <2>1, Zenon DEF Known
<1>6. CASE NotifySender \/ FaxqCrash \/ FaxqRestart
  <2>1. fq'.pc \in {"idle", "down", "ready"}
    BY <1>6, RestFx DEF On
  <2> QED BY <2>1 DEF Known
<1> QED BY <1>1, <1>2, <1>3, <1>4, <1>5, <1>6 DEF Next, Faxq

LEMMA DoneInit ==
  ASSUME Init
  PROVE  DInv
<1>1. PInv
  BY PagesInit
<1>2. /\ qf = NewRequest /\ lock = "free" /\ (\A p \in Procs : fs[p] = NoProc) /\ told = <<>>
      /\ fq = [pc |-> "ready", proc |-> "none", why |-> "none"]
  BY DEF Init
<1>3. Known /\ Locked
  BY <1>2, NoProcShape, FreeNotProc DEF Known, Locked, Loaded
<1>4. NewRequest.status # "done" /\ Range(told) = {}
  BY <1>2 DEF NewRequest, Range
<1>5. \A p \in Procs : DoneOK(p)
  BY <1>2, NoProcShape DEF DoneOK
<1> QED BY <1>1, <1>2, <1>3, <1>4, <1>5 DEF DInv, Done

LEMMA DoneNext ==
  ASSUME DInv, [Next]_vars
  PROVE  DInv'
<1>1. PInv'
  BY PagesNext DEF DInv
<1>2. CASE UNCHANGED vars
  <2>1. UNCHANGED <<qf, fs, lock, fq, told, confirmed, mishaps>>
    BY <1>2 DEF vars
  <2>2. Known' /\ Locked'
    BY <2>1, Zenon DEF DInv, Known, Locked, Loaded
  <2>3. Done'
    BY <2>1 DEF DInv, Done, DoneOK, Without, AllConfirmed, NoSource, Range
  <2> QED BY <1>1, <2>2, <2>3 DEF DInv
<1>3. CASE Next
  <2>1. Known'
    BY <1>3, KnownNext DEF DInv
  <2>2. CASE Faxq \/ FaxqCrash
    BY <1>1, <2>1, <2>2, FaxqDone DEF DInv
  <2>3. CASE \E p \in Procs : Faxsend(p) \/ FaxsendCrash(p) \/ Abort(p)
    BY <1>1, <2>1, <2>3, FaxsendDone DEF DInv
  <2> QED BY <1>3, <2>2, <2>3 DEF Next
<1> QED BY <1>2, <1>3

\* DoneMeansSent: sendDone reads "done" from the file or the exit status only when
\* every page of every document has been confirmed, also after crashes of faxq and
\* aborted calls, as long as every call has made its last write.
THEOREM DoneMeansSentAlways == Spec => []DoneMeansSent
<1>1. DInv => DoneMeansSent
  BY DEF DInv, Done, DoneMeansSent, Without, Unwritten
<1> QED BY <1>1, DoneInit, DoneNext, PTL DEF Spec

=============================================================================
