--------------------------- MODULE FaxSendOutcome ---------------------------
(***************************************************************************)
(* Proof that no page is confirmed twice (SentOnce).                       *)
(***************************************************************************)
EXTENDS FaxSendPages

\* Nothing that is asked for has been confirmed, and so nothing is sent twice.
Fresh(c, items, k) == \A x \in Wanted(items, k) : c[x] = 0
Sent(p) == IF fs[p].pc = "page" THEN fs[p].req.npages - fs[p].prev ELSE 0
Calm == Without({"reformat"}) /\ (Without({"faxq"}) \/ Without(Unwritten))

\* The file is behind while faxsend is in a call.  If that is where it left, its
\* status is "done" and sendDone ends the job.
Killed == fq.pc = "sending" /\ fs[fq.proc].pc = "exited" /\ qf.status = "done"
FileOnce ==
    /\ qf.status # "reformat"
    /\ fq.pc = "prepare" => NoFax(qf.items)
    /\ lock = "free" => Fresh(confirmed, qf.items, 0) \/ (~Without(Unwritten) /\ Killed)
    /\ Without({"faxq"}) => Fresh(confirmed, qf.items, 0) \/ qf.status = "done"

\* What a faxsend at work has yet to send is fresh, in the file too until it dials;
\* while a new faxq has documents converted, an old faxsend has none to send.
InDocument(p) == fs[p].pc \in {"page", "docsent"} \/ (fs[p].pc = "doc" /\ ~fs[p].dosetup)
OnceOK(p) ==
    LET r == fs[p].req
    IN  /\ Loaded(p) =>
              /\ Fresh(confirmed, r.items, Sent(p)) /\ r.status # "reformat"
              /\ fq.pc = "prepare" => NoFax(r.items)
              /\ InDocument(p) => r.status = "done"
              /\ fs[p].pc = "dial" => Fresh(confirmed, qf.items, 0)
        /\ fs[p].exit # "reformat"

\* After the end of the job nobody sends anything.
ClosedOK(p) == Loaded(p) => NoFax(fs[p].req.items) /\ fs[p].pc \notin {"page", "docsent"}
Closed == NoFax(qf.items) /\ \A p \in Procs : ClosedOK(p)

Once ==
    Calm => /\ \A x \in AllPages : confirmed[x] <= 1
            /\ qf.dir = "sendq" => FileOnce /\ \A p \in Procs : OnceOK(p)
            /\ qf.dir # "sendq" => Closed

OInv == DInv /\ Once

-----------------------------------------------------------------------------
(* No page is sent twice.                                                  *)

LEMMA CalmBefore ==
  ASSUME mishaps \subseteq mishaps', Calm'
  PROVE  Calm /\ (Without({"faxq"})' => Without({"faxq"}))
  BY DEF Calm, Without

\* A faxsend that leaves in a call, or another one that is there when it has, is the
\* one that faxq waits for.
LEMMA OwnProc ==
  ASSUME SInv, mishaps \subseteq mishaps', Calm', ~Without(Unwritten)',
         NEW p \in Procs, Running(p)
  PROVE  fq.proc = p /\ fq.pc = "sending" /\ Without({"faxq"})
<1>1. Without({"faxq"})
  BY DEF Calm, Without
<1>2. OneProc
  BY <1>1 DEF SInv, Limits
<1> QED BY <1>1, <1>2, FaxSendAssumption DEF OneProc, Running

LEMMA NoFaxFind ==
  ASSUME NEW items
  PROVE  NoFax(items) => FindFax(items) = 0
  BY DEF NoFax, FindFax

LEMMA OnceStep ==
  ASSUME OInv, NEW p \in Procs, Apart(p), Loaded(p) \/ (qf' = qf /\ confirmed' = confirmed),
         Calm /\ Calm' /\ qf.dir = "sendq" =>
            (\A x \in AllPages : confirmed'[x] <= 1) /\ FileOnce' /\ OnceOK(p)',
         Calm /\ Calm' /\ qf.dir # "sendq" =>
            confirmed' = confirmed /\ NoFax(qf'.items) /\ ClosedOK(p)'
  PROVE  Once'
<1> SUFFICES ASSUME Calm'
             PROVE  /\ \A x \in AllPages : confirmed'[x] <= 1
                    /\ qf'.dir = "sendq" => FileOnce' /\ \A q \in Procs : OnceOK(q)'
                    /\ qf'.dir # "sendq" => Closed'
  BY DEF Once
<1>1. Calm /\ qf'.dir = qf.dir /\ fq' = fq
  BY CalmBefore, Zenon DEF Apart
<1>2. ASSUME NEW q \in Procs, q # p, qf.dir = "sendq" PROVE OnceOK(q)'
  <2>1. OnceOK(q) /\ fs'[q] = fs[q]
    BY <1>1, <1>2 DEF OInv, Once, Apart
  <2>2. Loaded(q) => qf' = qf /\ confirmed' = confirmed
    BY <1>2 DEF OInv, DInv, Locked
  <2>3. Sent(q)' = Sent(q) /\ (Loaded(q)' <=> Loaded(q)) /\ (InDocument(q)' <=> InDocument(q))
    BY <2>1, Zenon DEF Sent, Loaded, InDocument
  <2> QED BY <1>1, <2>1, <2>2, <2>3, Zenon DEF OnceOK
<1>3. ASSUME NEW q \in Procs, q # p, qf.dir # "sendq" PROVE ClosedOK(q)'
  <2>1. ClosedOK(q) /\ fs'[q] = fs[q]
    BY <1>1, <1>3 DEF OInv, Once, Closed, Apart
  <2> QED BY <2>1, Zenon DEF ClosedOK, Loaded
<1>4. CASE qf.dir = "sendq"
  BY <1>1, <1>2, <1>4
<1>5. CASE qf.dir # "sendq"
  BY <1>1, <1>3, <1>5 DEF OInv, Once, Closed
<1> QED BY <1>4, <1>5

\* The file and the lock stay, and what is asked of them.
LEMMA FileOnceKept ==
  ASSUME OInv, Calm, qf.dir = "sendq", qf' = qf, lock' = lock, fq' = fq, confirmed' = confirmed,
         mishaps \subseteq mishaps', Calm',
         fq.pc = "sending" /\ fs[fq.proc].pc = "exited" => fs'[fq.proc] = fs[fq.proc]
  PROVE  FileOnce'
<1>1. FileOnce
  BY DEF OInv, Once
<1>2. Killed => Killed'
  BY DEF Killed
<1>3. (Without({"faxq"})' => Without({"faxq"})) /\ (~Without(Unwritten) => ~Without(Unwritten)')
  BY CalmBefore, Zenon DEF Without
<1> QED BY <1>1, <1>2, <1>3 DEF FileOnce

LEMMA OutsideOnce ==
  ASSUME OInv, NEW p \in Procs, Running(p), Apart(p), Outside(p)
  PROVE  Once'
<1>1. qf' = qf /\ confirmed' = confirmed /\ lock' = lock /\ ~Loaded(p)'
  BY UnlockedStep, Zenon DEF OInv, DInv, Outside
<1>2. ASSUME Calm, Calm', qf.dir = "sendq"
      PROVE  (\A x \in AllPages : confirmed'[x] <= 1) /\ FileOnce' /\ OnceOK(p)'
  <2>1. OnceOK(p) /\ \A x \in AllPages : confirmed[x] <= 1
    BY <1>2, Zenon DEF OInv, Once
  <2>2. fs'[p].exit # "reformat"
    BY <2>1 DEF Outside, Left, OnceOK
  <2>3. fq.pc = "sending" /\ fs[fq.proc].pc = "exited" => fs'[fq.proc] = fs[fq.proc]
    BY Zenon DEF OInv, DInv, Known, Running, Apart
  <2>4. FileOnce'
    BY <1>1, <1>2, <2>3, FileOnceKept DEF Apart
  <2> QED BY <1>1, <2>1, <2>2, <2>4 DEF OnceOK
<1>3. ASSUME Calm, qf.dir # "sendq" PROVE NoFax(qf'.items) /\ ClosedOK(p)'
  BY <1>1, <1>3, Zenon DEF OInv, Once, Closed, ClosedOK
<1> QED BY <1>1, <1>2, <1>3, OnceStep

LEMMA ReadOnce ==
  ASSUME OInv, NEW p \in Procs, Read(p)
  PROVE  Once'
<1>1. /\ Apart(p) /\ ~Loaded(p) /\ lock = "free" /\ lock' = p
      /\ qf' = qf /\ confirmed' = confirmed /\ mishaps' = mishaps
      /\ At(p, "dial", qf.items, qf.npages, qf.status) /\ Running(p)
  BY ReadFx DEF OInv, DInv, PInv, SInv, Read, Running
<1>2. ASSUME Calm, Calm', qf.dir = "sendq"
      PROVE  (\A x \in AllPages : confirmed'[x] <= 1) /\ FileOnce' /\ OnceOK(p)'
  <2>1. FileOnce /\ OnceOK(p) /\ \A x \in AllPages : confirmed[x] <= 1
    BY <1>2 DEF OInv, Once
  <2>2. Fresh(confirmed, qf.items, 0)
    <3>1. CASE ~Without(Unwritten) /\ Killed
      <4>1. fq.proc = p
        BY <1>1, <1>2, <3>1, OwnProc DEF OInv, DInv, PInv, Without
      <4> QED BY <1>1, <3>1, <4>1 DEF Killed, Running
    <3>2. CASE Fresh(confirmed, qf.items, 0)
      BY <3>2
    <3> QED BY <1>1, <2>1, <3>1, <3>2 DEF FileOnce
  <2>3. lock' # "free" /\ fq' = fq
    BY <1>1, FreeNotProc DEF Apart
  <2>4. FileOnce'
    BY <1>1, <2>1, <2>3 DEF FileOnce, Without
  <2>5. OnceOK(p)'
    BY <1>1, <2>1, <2>2, <2>3, Zenon DEF At, OnceOK, FileOnce, Sent, InDocument
  <2> QED BY <1>1, <2>1, <2>4, <2>5
<1>3. ASSUME Calm, qf.dir # "sendq" PROVE NoFax(qf'.items) /\ ClosedOK(p)'
  BY <1>1, <1>3 DEF OInv, Once, Closed, ClosedOK, At
<1> QED BY <1>1, <1>2, <1>3, OnceStep

\* A step of the call in which nothing is sent.
LEMMA CallsOnce ==
  ASSUME OInv, NEW p \in Procs, Apart(p), Loaded(p), NEW pc, NEW st, Calls(p, pc, st),
         pc # "dial",
         Calm /\ Calm' /\ qf.dir = "sendq" =>
            /\ st # "reformat" /\ Sent(p)' = Sent(p)
            /\ InDocument(p)' => st = "done",
         Calm /\ qf.dir # "sendq" => pc \notin {"page", "docsent"}
  PROVE  Once'
<1>1. /\ qf' = qf /\ confirmed' = confirmed /\ lock' = lock /\ fq' = fq
      /\ fs'[p].pc = pc /\ fs'[p].req.items = fs[p].req.items /\ fs'[p].req.status = st
      /\ fs'[p].exit = fs[p].exit
  BY Zenon DEF Calls, At, Apart
<1>2. ASSUME Calm, Calm', qf.dir = "sendq"
      PROVE  (\A x \in AllPages : confirmed'[x] <= 1) /\ FileOnce' /\ OnceOK(p)'
  <2>1. OnceOK(p) /\ \A x \in AllPages : confirmed[x] <= 1
    BY <1>2 DEF OInv, Once
  <2>2. fq.pc = "sending" /\ fs[fq.proc].pc = "exited" => fs'[fq.proc] = fs[fq.proc]
    BY Zenon DEF OInv, DInv, Known, Loaded, Apart
  <2>3. FileOnce'
    BY <1>1, <1>2, <2>2, FileOnceKept DEF Apart
  <2>4. OnceOK(p)'
    BY <1>1, <1>2, <2>1, Zenon DEF OnceOK
  <2> QED BY <1>1, <2>1, <2>3, <2>4
<1>3. ASSUME Calm, qf.dir # "sendq" PROVE NoFax(qf'.items) /\ ClosedOK(p)'
  BY <1>1, <1>3, Zenon DEF OInv, Once, Closed, ClosedOK
<1> QED BY <1>1, <1>2, <1>3, OnceStep, Zenon

LEMMA DocOnce ==
  ASSUME OInv, NEW p \in Procs, Doc(p)
  PROVE  Once'
<1> DEFINE r == fs[p].req
           i == FindFax(r.items)
<1>1. /\ Apart(p) /\ fs[p].pc = "doc"
      /\ \/ \E st \in {"failed", r.status} : Calls(p, "end", st)
         \/ i # 0 /\ r.status = "done" /\ Calls(p, "docsent", r.status)
         \/ "reformat" \in mishaps' /\ Calls(p, "end", "reformat")
         \/ /\ i # 0 /\ fs'[p].prev = r.npages
            /\ Calls(p, "page", IF fs[p].dosetup THEN "done" ELSE r.status)
  BY DocFx, Zenon DEF OInv, DInv, PInv, SInv
<1>2. Loaded(p) /\ Sent(p) = 0
  BY <1>1 DEF Loaded, Sent
<1>3. ASSUME Calm, qf.dir # "sendq" PROVE i = 0
  BY <1>2, <1>3, NoFaxFind DEF OInv, Once, Closed, ClosedOK
<1>4. ASSUME Calm, qf.dir = "sendq"
      PROVE  /\ r.npages \in Nat /\ r.status # "reformat"
             /\ InDocument(p) => r.status = "done"
  BY <1>2, <1>4, Zenon DEF OInv, DInv, PInv, PagesOK, ProcOK, ReqOK, Once, OnceOK
<1> HIDE DEF i
<1>5. ASSUME NEW st \in {"failed", r.status}, Calls(p, "end", st) PROVE Once'
  <2>1. Sent(p)' = 0 /\ ~InDocument(p)'
    BY <1>5, Zenon DEF Calls, At, Sent, InDocument
  <2> QED BY <1>1, <1>2, <1>4, <1>5, <2>1, CallsOnce, Zenon
<1>6. ASSUME i # 0, r.status = "done", Calls(p, "docsent", r.status) PROVE Once'
  <2>1. Sent(p)' = 0
    BY <1>6, Zenon DEF Calls, At, Sent
  <2> QED BY <1>1, <1>2, <1>3, <1>6, <2>1, CallsOnce
<1>7. ASSUME "reformat" \in mishaps', Calls(p, "end", "reformat") PROVE Once'
  <2>1. ~Calm'
    BY <1>7, Zenon DEF Calm, Without
  <2> QED BY <2>1 DEF Once
<1>8. ASSUME i # 0, fs'[p].prev = r.npages, NEW st, Calls(p, "page", st),
             st = IF fs[p].dosetup THEN "done" ELSE r.status
      PROVE  Once'
  <2>1. ASSUME Calm, qf.dir = "sendq" PROVE Sent(p)' = 0 /\ st = "done"
    <3>1. Sent(p)' = r.npages - r.npages
      BY <1>8, Zenon DEF Calls, At, Sent
    <3>2. ~fs[p].dosetup => InDocument(p)
      BY <1>1, Zenon DEF InDocument
    <3> HIDE DEF r
    <3> QED BY <1>4, <1>8, <2>1, <3>1, <3>2
  <2> QED BY <1>1, <1>2, <1>3, <1>8, <2>1, CallsOnce
<1> QED BY <1>1, <1>5, <1>6, <1>7, <1>8

\* A page that is confirmed was fresh, and is not asked for any more.
LEMMA PageOnce ==
  ASSUME OInv, NEW p \in Procs, Page(p)
  PROVE  Once'
<1> DEFINE r == fs[p].req
           i == FindFax(r.items)
           k == r.npages - fs[p].prev
           x == <<r.items[i].doc, r.items[i].dirnum + k>>
<1>1. Apart(p) /\ fs[p].pc = "page" /\ lock' = lock /\ fs'[p].exit = fs[p].exit
  BY PageKind, Zenon DEF OInv, DInv, PInv, SInv
<1>2. Loaded(p) /\ Sent(p) = k /\ InDocument(p)
  BY <1>1 DEF Loaded, Sent, InDocument
<1>3. ASSUME Calm, qf.dir # "sendq" PROVE FALSE
  BY <1>1, <1>2, <1>3, Zenon DEF OInv, Once, Closed, ClosedOK
<1>4. ASSUME Calm, Calm', qf.dir = "sendq"
      PROVE  (\A y \in AllPages : confirmed'[y] <= 1) /\ FileOnce' /\ OnceOK(p)'
  <2>1. /\ r.npages \in Nat /\ fs[p].prev \in Nat /\ fs[p].prev <= r.npages
        /\ Whole(r.items) /\ i # 0 /\ r.items[i].dirnum + k < Docs[r.items[i].doc]
    BY <1>1, <1>2, <1>4, Zenon DEF OInv, DInv, PInv, PagesOK, ProcOK, ReqOK
  <2>2. k \in Nat /\ k + 1 \in Nat
    <3>1. \A a, b \in Nat : b <= a => a - b \in Nat /\ (a - b) + 1 \in Nat
      OBVIOUS
    <3>2. r.npages \in Nat /\ fs[p].prev \in Nat /\ fs[p].prev <= r.npages
      BY <2>1
    <3> HIDE DEF i, r, x
    <3> QED BY <3>1, <3>2, Zenon
  <2>3. /\ FileOnce /\ (\A y \in AllPages : confirmed[y] <= 1) /\ fs[p].exit # "reformat"
        /\ Fresh(confirmed, r.items, k) /\ r.status = "done" /\ (fq.pc = "prepare" => NoFax(r.items))
    BY <1>2, <1>4, Zenon DEF OInv, Once, OnceOK
  <2>4. fq.pc # "prepare" /\ lock' # "free" /\ fq' = fq
    <3>1. lock = p
      BY <1>2 DEF OInv, DInv, Locked
    <3> QED BY <1>1, <2>1, <2>3, <3>1, NoFaxFind, FreeNotProc DEF Apart
  <2>5. /\ Wanted(Advanced(r.items, k), 0) = Wanted(r.items, k)
        /\ Wanted(Advanced(r.items, k + 1), 0) = Wanted(r.items, k + 1)
    BY <2>1, <2>2, AdvancedWanted, Zenon
  <2>6. x \in AllPages /\ x \in Wanted(r.items, k) /\ Wanted(r.items, k + 1) = Wanted(r.items, k) \ {x}
    BY <2>1, <2>2, SentWanted, Zenon
  <2>7. Shape /\ confirmed \in [AllPages -> Nat]
    BY DEF OInv, DInv, PInv, SInv
  <2>8. \/ /\ qf' = qf /\ confirmed' = confirmed
           /\ \E st \in {"retry", "failed"} :
                 At(p, "end", Advanced(r.items, k), r.npages, st)
        \/ /\ confirmed' = [confirmed EXCEPT ![x] = @ + 1]
           /\ qf'.items = r.items /\ qf'.npages = r.npages + 1 /\ qf'.status = r.status
           /\ \/ At(p, "docsent", Advanced(r.items, k + 1), r.npages + 1, "done")
              \/ /\ At(p, "page", r.items, r.npages + 1, r.status)
                 /\ fs'[p].prev = fs[p].prev
              \/ \E st \in {"failed", "reformat"} :
                    /\ At(p, "end", Advanced(r.items, k + 1), r.npages + 1, st)
                    /\ st = "reformat" => "reformat" \in mishaps'
    BY <2>1, <2>7, PageFx, Zenon
  <2>9. Wanted(r.items, k) \subseteq AllPages /\ "reformat" \notin mishaps'
    BY <1>4, Zenon DEF Wanted, Calm, Without
  <2> HIDE DEF i, x
  <2>10. CASE qf' = qf /\ confirmed' = confirmed
    <3>1. FileOnce'
      BY <1>1, <1>4, <2>3, <2>4, <2>10, CalmBefore, Zenon DEF FileOnce, Apart
    <3>2. PICK st \in {"retry", "failed"} : At(p, "end", Advanced(r.items, k), r.npages, st)
      <4>1. CASE \E st \in {"retry", "failed"} : At(p, "end", Advanced(r.items, k), r.npages, st)
        BY <4>1
      <4>2. CASE confirmed' = [confirmed EXCEPT ![x] = @ + 1]
        <5>1. confirmed'[x] = confirmed[x] + 1 /\ confirmed[x] \in Nat
          BY <2>6, <2>7, <4>2, Zenon
        <5> QED BY <2>10, <5>1
      <4> QED BY <2>8, <4>1, <4>2, Zenon
    <3>3. Sent(p)' = 0 /\ ~InDocument(p)'
      BY <3>2 DEF At, Sent, InDocument
    <3>4. Fresh(confirmed, Advanced(r.items, k), 0)
      BY <2>3, <2>5 DEF Fresh
    <3>5. /\ fs'[p].req.items = Advanced(r.items, k) /\ fs'[p].req.status # "reformat"
          /\ fs'[p].pc # "dial"
      BY <3>2 DEF At
    <3> QED BY <1>1, <2>3, <2>4, <2>10, <3>1, <3>3, <3>4, <3>5 DEF OnceOK
  <2>11. CASE /\ confirmed' = [confirmed EXCEPT ![x] = @ + 1]
              /\ qf'.items = r.items /\ qf'.status = r.status
    <3>1. /\ confirmed'[x] = 1
          /\ \A y \in AllPages \ {x} : confirmed'[y] = confirmed[y]
      <4>1. confirmed[x] = 0
        BY <2>3, <2>6, Zenon DEF Fresh
      <4>2. /\ x \in AllPages /\ confirmed \in [AllPages -> Nat]
            /\ confirmed' = [confirmed EXCEPT ![x] = @ + 1]
        BY <2>6, <2>7, <2>11
      <4> HIDE DEF r, k
      <4> QED BY <4>1, <4>2
    <3>2. \A y \in AllPages : confirmed'[y] <= 1
      <4>1. TAKE y \in AllPages
      <4>2. CASE y = x
        BY <3>1, <4>2
      <4>3. CASE y # x
        <5>1. confirmed'[y] = confirmed[y] /\ confirmed[y] <= 1
          BY <2>3, <3>1, <4>3, Zenon
        <5> QED BY <5>1, Zenon
      <4> QED BY <4>2, <4>3
    <3>3. Fresh(confirmed', r.items, k + 1)
      BY <2>3, <2>6, <2>9, <3>1 DEF Fresh
    <3>4. Fresh(confirmed', Advanced(r.items, k + 1), 0)
      BY <2>5, <3>3, Zenon DEF Fresh
    <3>5. FileOnce'
      BY <2>3, <2>4, <2>11, Zenon DEF FileOnce
    <3>6. CASE At(p, "docsent", Advanced(r.items, k + 1), r.npages + 1, "done")
      <4>1. /\ Sent(p)' = 0 /\ fs'[p].req.items = Advanced(r.items, k + 1)
            /\ fs'[p].req.status = "done" /\ fs'[p].pc # "dial"
        BY <3>6 DEF At, Sent
      <4> QED BY <1>1, <2>3, <2>4, <3>2, <3>4, <3>5, <4>1 DEF OnceOK
    <3>7. CASE At(p, "page", r.items, r.npages + 1, r.status) /\ fs'[p].prev = fs[p].prev
      <4>1. Sent(p)' = (r.npages + 1) - fs[p].prev
        BY <3>7, Zenon DEF At, Sent
      <4>2. Sent(p)' = k + 1
        BY <2>1, <4>1
      <4>3. fs'[p].req.items = r.items /\ fs'[p].req.status = "done" /\ fs'[p].pc # "dial"
        BY <2>3, <3>7, Zenon DEF At
      <4> QED BY <1>1, <2>3, <2>4, <3>2, <3>3, <3>5, <4>2, <4>3, Zenon DEF OnceOK
    <3>8. CASE \E st \in {"failed", "reformat"} :
                  /\ At(p, "end", Advanced(r.items, k + 1), r.npages + 1, st)
                  /\ st = "reformat" => "reformat" \in mishaps'
      <4>1. At(p, "end", Advanced(r.items, k + 1), r.npages + 1, "failed")
        BY <2>9, <3>8, Zenon
      <4>2. /\ Sent(p)' = 0 /\ ~InDocument(p)' /\ fs'[p].req.items = Advanced(r.items, k + 1)
            /\ fs'[p].req.status = "failed" /\ fs'[p].pc # "dial"
        BY <4>1 DEF At, Sent, InDocument
      <4> QED BY <1>1, <2>3, <2>4, <3>2, <3>4, <3>5, <4>2 DEF OnceOK
    <3>9. confirmed' # confirmed
      <4>1. confirmed[x] = 0
        BY <2>3, <2>6 DEF Fresh
      <4> QED BY <3>1, <4>1
    <3> QED BY <2>8, <3>6, <3>7, <3>8, <3>9, Zenon
  <2> QED BY <2>8, <2>10, <2>11
<1> QED BY <1>1, <1>2, <1>3, <1>4, OnceStep

LEMMA DocSentOnce ==
  ASSUME OInv, NEW p \in Procs, DocSent(p)
  PROVE  Once'
<1> DEFINE r == fs[p].req
           i == FindFax(r.items)
           w == RemoveAt(r.items, i)
<1>1. /\ Apart(p) /\ fs[p].pc = "docsent" /\ lock' = lock /\ confirmed' = confirmed
      /\ qf'.items = w /\ qf'.status = r.status
      /\ At(p, "doc", w, r.npages, r.status)
  BY DocSentFx, Zenon DEF OInv, DInv, PInv, SInv
<1>2. Loaded(p) /\ Sent(p) = 0 /\ InDocument(p)
  BY <1>1 DEF Loaded, Sent, InDocument
<1>3. ASSUME Calm, qf.dir # "sendq" PROVE FALSE
  BY <1>1, <1>2, <1>3 DEF OInv, Once, Closed, ClosedOK
<1>4. ASSUME Calm, Calm', qf.dir = "sendq"
      PROVE  (\A y \in AllPages : confirmed'[y] <= 1) /\ FileOnce' /\ OnceOK(p)'
  <2>1. Whole(r.items) /\ i # 0
    BY <1>1, <1>2, <1>4, Zenon DEF OInv, DInv, PInv, PagesOK, ProcOK, ReqOK
  <2>2. /\ FileOnce /\ (\A y \in AllPages : confirmed[y] <= 1) /\ fs[p].exit # "reformat"
        /\ Fresh(confirmed, r.items, 0) /\ r.status = "done" /\ (fq.pc = "prepare" => NoFax(r.items))
    BY <1>2, <1>4 DEF OInv, Once, OnceOK
  <2>3. fq.pc # "prepare" /\ lock' # "free" /\ fq' = fq
    <3>1. lock = p
      BY <1>2 DEF OInv, DInv, Locked
    <3> QED BY <1>1, <2>1, <2>2, <3>1, NoFaxFind, FreeNotProc DEF Apart
  <2>4. Wanted(w, 0) \subseteq Wanted(r.items, 0)
    BY <2>1, RemoveWanted
  <2> HIDE DEF w
  <2>5. Fresh(confirmed', w, 0)
    BY <1>1, <2>2, <2>4, Zenon DEF Fresh
  <2>6. Sent(p)' = 0 /\ fs'[p].req.items = w /\ fs'[p].req.status = "done" /\ fs'[p].pc # "dial"
    BY <1>1, <2>2 DEF At, Sent
  <2>7. FileOnce'
    BY <1>1, <2>2, <2>3, <2>5 DEF FileOnce
  <2>8. fs'[p].exit # "reformat"
    BY <1>1, <2>2 DEF At
  <2>9. OnceOK(p)'
    BY <2>3, <2>5, <2>6, <2>8 DEF OnceOK
  <2> QED BY <1>1, <2>2, <2>7, <2>9
<1> QED BY <1>1, <1>2, <1>3, <1>4, OnceStep, Zenon

LEMMA LastOnce ==
  ASSUME OInv, NEW p \in Procs, Apart(p), Loaded(p), fs[p].pc # "page", confirmed' = confirmed,
         NEW st \in {"retry", "failed", fs[p].req.status}, Wrote(p, st), Left(p, st)
  PROVE  Once'
<1> DEFINE r == fs[p].req
<1>1. ~Loaded(p)'
  BY DEF Left, Loaded
<1>2. ASSUME Calm, Calm', qf.dir = "sendq"
      PROVE  (\A y \in AllPages : confirmed'[y] <= 1) /\ FileOnce' /\ OnceOK(p)'
  <2>1. /\ (\A y \in AllPages : confirmed[y] <= 1)
        /\ Fresh(confirmed, r.items, Sent(p)) /\ r.status # "reformat"
        /\ fq.pc = "prepare" => NoFax(r.items)
    BY <1>2 DEF OInv, Once, OnceOK
  <2>2. Fresh(confirmed', r.items, 0)
    BY <2>1, Zenon DEF Sent
  <2>3. FileOnce'
    BY <2>1, <2>2, Zenon DEF FileOnce, Wrote, Apart
  <2>4. OnceOK(p)'
    BY <1>1, <2>1, Zenon DEF OnceOK, Left
  <2> QED BY <2>1, <2>3, <2>4, Zenon
<1>3. ASSUME Calm, qf.dir # "sendq" PROVE NoFax(qf'.items) /\ ClosedOK(p)'
  BY <1>1, <1>3 DEF OInv, Once, Closed, ClosedOK, Wrote
<1> QED BY <1>2, <1>3, OnceStep

\* A faxsend that leaves in a document, or before its last write, leaves a file that
\* is behind only with "done" in it.
LEMMA GoneOnce ==
  ASSUME OInv, NEW p \in Procs, Apart(p), Running(p), qf' = qf, confirmed' = confirmed,
         NEW code \in {"signal", "failed"}, Left(p, code),
         fs[p].pc = "dial" \/ ~Without(Unwritten)'
  PROVE  Once'
<1>2. ~Loaded(p)'
  BY DEF Left, Loaded
<1>3. CASE ~Loaded(p)
  <2>1. Outside(p)
    BY <1>2, <1>3 DEF Outside, Loaded
  <2> QED BY <2>1, OutsideOnce
<1>4. CASE Loaded(p)
  <2>1. ASSUME Calm, Calm', qf.dir = "sendq"
        PROVE  (\A y \in AllPages : confirmed'[y] <= 1) /\ FileOnce' /\ OnceOK(p)'
    <3>1. FileOnce /\ OnceOK(p) /\ (\A y \in AllPages : confirmed[y] <= 1)
      BY <2>1 DEF OInv, Once
    <3>2. fs'[p].exit # "reformat" /\ fq' = fq
      BY DEF Left, Apart
    <3>3. Fresh(confirmed', qf'.items, 0) \/ (~Without(Unwritten)' /\ Killed')
      <4>1. CASE fs[p].pc = "dial"
        BY <1>4, <3>1, <4>1, Zenon DEF OnceOK
      <4>2. CASE ~Without(Unwritten)'
        <5>1. fq.proc = p /\ fq.pc = "sending" /\ Without({"faxq"})
          BY <2>1, <4>2, OwnProc, Zenon DEF OInv, DInv, PInv, Apart
        <5>2. fs'[p].pc = "exited"
          BY <5>1 DEF Left
        <5>3. qf'.status = "done" => Killed'
          BY <3>2, <5>1, <5>2 DEF Killed
        <5> QED BY <3>1, <4>2, <5>1, <5>3, Zenon DEF FileOnce
      <4> QED BY <4>1, <4>2
    <3>4. Without({"faxq"})' => Without({"faxq"})
      BY <2>1, CalmBefore DEF Apart
    <3>6. FileOnce'
      BY <3>1, <3>2, <3>3, <3>4 DEF FileOnce
    <3>7. OnceOK(p)'
      BY <1>2, <3>2, Zenon DEF OnceOK
    <3> QED BY <3>1, <3>6, <3>7
  <2>2. ASSUME Calm, qf.dir # "sendq" PROVE NoFax(qf'.items) /\ ClosedOK(p)'
    BY <1>2, <2>2, Zenon DEF OInv, Once, Closed, ClosedOK
  <2> QED BY <1>4, <2>1, <2>2, OnceStep
<1> QED BY <1>3, <1>4

LEMMA AbortOnce ==
  ASSUME OInv, NEW p \in Procs, Abort(p)
  PROVE  Once'
<1>1. /\ Apart(p) /\ Running(p) /\ qf' = qf /\ confirmed' = confirmed
      /\ \/ Outside(p)
         \/ (fs[p].pc = "dial" \/ ~Without(Unwritten)') /\ Left(p, "failed")
         \/ /\ Calls(p, fs[p].pc, fs[p].req.status)
            /\ fs'[p].prev = fs[p].prev /\ fs'[p].dosetup = fs[p].dosetup
  BY AbortFx, Zenon DEF OInv, DInv, PInv, SInv
<1>2. CASE Outside(p)
  BY <1>1, <1>2, OutsideOnce
<1>4. CASE (fs[p].pc = "dial" \/ ~Without(Unwritten)') /\ Left(p, "failed")
  BY <1>1, <1>4, GoneOnce
<1>3. CASE /\ Calls(p, fs[p].pc, fs[p].req.status)
           /\ fs'[p].prev = fs[p].prev /\ fs'[p].dosetup = fs[p].dosetup
  <2>1. /\ fs'[p].pc = fs[p].pc /\ fs'[p].req.items = fs[p].req.items
        /\ fs'[p].req.npages = fs[p].req.npages /\ fs'[p].req.status = fs[p].req.status
        /\ fs'[p].exit = fs[p].exit /\ lock' = lock /\ fq' = fq
    BY <1>1, <1>3 DEF Calls, At, Apart
  <2>2. Sent(p)' = Sent(p) /\ (Loaded(p)' <=> Loaded(p)) /\ (InDocument(p)' <=> InDocument(p))
    BY <1>3, <2>1 DEF Sent, Loaded, InDocument
  <2>3. ASSUME Calm, Calm', qf.dir = "sendq"
        PROVE  (\A y \in AllPages : confirmed'[y] <= 1) /\ FileOnce' /\ OnceOK(p)'
    <3>1. OnceOK(p) /\ \A y \in AllPages : confirmed[y] <= 1
      BY <2>3 DEF OInv, Once
    <3>2. fq.pc = "sending" /\ fs[fq.proc].pc = "exited" => fs'[fq.proc] = fs[fq.proc]
      BY <1>1, Zenon DEF OInv, DInv, Known, Running, Apart
    <3>3. FileOnce'
      BY <1>1, <2>1, <2>3, <3>2, FileOnceKept DEF Apart
    <3>4. OnceOK(p)'
      BY <1>1, <2>1, <2>2, <3>1, Zenon DEF OnceOK
    <3> QED BY <1>1, <3>1, <3>3, <3>4
  <2>4. ASSUME Calm, qf.dir # "sendq" PROVE NoFax(qf'.items) /\ ClosedOK(p)'
    BY <1>1, <2>1, <2>2, <2>4 DEF OInv, Once, Closed, ClosedOK
  <2> QED BY <1>1, <2>3, <2>4, OnceStep
<1> QED BY <1>1, <1>2, <1>3, <1>4

LEMMA FaxsendOnce ==
  ASSUME OInv, NEW p \in Procs, Faxsend(p) \/ FaxsendCrash(p) \/ Abort(p)
  PROVE  Once'
<1>0. Shape
  BY DEF OInv, DInv, PInv, SInv
<1>a. ASSUME Loaded(p), Calm, qf.dir = "sendq" PROVE fs[p].req.status # "reformat"
  BY <1>a DEF OInv, Once, OnceOK
<1>1. CASE Open(p)
  <2>1. Running(p)
    BY <1>1 DEF Open, Running
  <2> QED BY <1>0, <1>1, <2>1, OpenFx, OutsideOnce
<1>2. CASE Read(p)
  BY <1>2, ReadOnce, Zenon
<1>3. CASE Dial(p)
  <2>1. /\ Apart(p) /\ fs[p].pc = "dial"
        /\ \E pc \in {"end", "prologue"}, st \in {"retry", "failed", fs[p].req.status} : Calls(p, pc, st)
    BY <1>0, <1>3, DialFx, Zenon
  <2>2. PICK pc \in {"end", "prologue"} : \E st \in {"retry", "failed", fs[p].req.status} : Calls(p, pc, st)
    BY <2>1
  <2>3. PICK st \in {"retry", "failed", fs[p].req.status} : Calls(p, pc, st)
    BY <2>2, Zenon
  <2>4. Loaded(p) /\ Sent(p) = 0 /\ Sent(p)' = 0 /\ ~InDocument(p)'
    BY <2>1, <2>3, Zenon DEF Loaded, Sent, InDocument, Calls, At
  <2> QED BY <1>a, <2>1, <2>3, <2>4, CallsOnce
<1>4. CASE NoModem(p)
  <2>1. /\ Apart(p) /\ fs[p].pc = "dial" /\ confirmed' = confirmed
        /\ \E st \in {"retry", "failed"} : Wrote(p, st) /\ Left(p, st)
    BY <1>0, <1>4, NoModemFx
  <2>2. Loaded(p)
    BY <2>1 DEF Loaded
  <2> QED BY <2>1, <2>2, LastOnce, Zenon
<1>5. CASE Prologue(p)
  <2>1. /\ Apart(p) /\ fs[p].pc = "prologue"
        /\ \/ \E st \in {"retry", "failed"} : Calls(p, "end", st)
           \/ Calls(p, "doc", "failed") /\ fs'[p].dosetup
    BY <1>0, <1>5, PrologueFx
  <2>2. Loaded(p) /\ Sent(p) = 0
    BY <2>1, Zenon DEF Loaded, Sent
  <2>3. ASSUME NEW st \in {"retry", "failed"}, Calls(p, "end", st) PROVE Once'
    <3>1. Sent(p)' = 0 /\ ~InDocument(p)'
      BY <2>3, Zenon DEF Sent, InDocument, Calls, At
    <3> QED BY <2>1, <2>2, <2>3, <3>1, CallsOnce
  <2>4. ASSUME Calls(p, "doc", "failed"), fs'[p].dosetup PROVE Once'
    <3>1. Sent(p)' = 0 /\ ~InDocument(p)'
      BY <2>4, Zenon DEF Sent, InDocument, Calls, At
    <3> QED BY <2>1, <2>2, <2>4, <3>1, CallsOnce, Zenon
  <2> QED BY <2>1, <2>3, <2>4, Zenon
<1>6. CASE Doc(p)
  BY <1>6, DocOnce, Zenon
<1>7. CASE Page(p)
  BY <1>7, PageOnce
<1>8. CASE DocSent(p)
  BY <1>8, DocSentOnce, Zenon
<1>9. CASE End(p)
  <2>1. /\ Apart(p) /\ fs[p].pc = "end" /\ confirmed' = confirmed
        /\ \E st \in {"retry", "failed", fs[p].req.status} : Wrote(p, st) /\ Left(p, st)
    BY <1>0, <1>9, EndFx
  <2>2. Loaded(p)
    BY <2>1 DEF Loaded
  <2> QED BY <2>1, <2>2, LastOnce, Zenon
<1>10. CASE FaxsendCrash(p)
  BY <1>0, <1>10, CrashFx, GoneOnce
<1>11. CASE Abort(p)
  BY <1>11, AbortOnce
<1> QED BY <1>1, <1>2, <1>3, <1>4, <1>5, <1>6, <1>7, <1>8, <1>9, <1>10, <1>11 DEF Faxsend

\* A step of faxq.  A conversion is begun, and but for a failed one the job is
\* ended, when no faxsend is at work.
LEMMA FaxqOnceStep ==
  ASSUME OInv, ProcsKept, mishaps \subseteq mishaps',
         Calm /\ Calm' /\ qf'.dir = "sendq" =>
            /\ qf.dir = "sendq" /\ FileOnce' /\ (fq'.pc = "prepare" => lock = "free")
            /\ lock # "free" => Wanted(qf'.items, 0) = Wanted(qf.items, 0),
         Calm /\ Calm' /\ qf'.dir # "sendq" =>
            NoFax(qf'.items) /\ (qf.dir = "sendq" => fq.pc = "prepare" \/ lock = "free")
  PROVE  Once'
<1> SUFFICES ASSUME Calm'
             PROVE  /\ \A x \in AllPages : confirmed'[x] <= 1
                    /\ qf'.dir = "sendq" => FileOnce' /\ \A p \in Procs : OnceOK(p)'
                    /\ qf'.dir # "sendq" => Closed'
  BY Zenon DEF Once
<1>1. Calm /\ confirmed' = confirmed /\ \A x \in AllPages : confirmed[x] <= 1
  BY CalmBefore DEF OInv, Once, ProcsKept
<1>2. \A p \in Procs : Loaded(p) => lock # "free"
  BY FreeNotProc, Zenon DEF OInv, DInv, Locked
<1>3. ASSUME NEW p \in Procs, qf'.dir = "sendq" PROVE OnceOK(p)'
  <2>1. CASE fs'[p] = fs[p]
    <3>1. OnceOK(p)
      BY <1>1, <1>3, Zenon DEF OInv, Once
    <3>2. Sent(p)' = Sent(p) /\ (Loaded(p)' <=> Loaded(p)) /\ (InDocument(p)' <=> InDocument(p))
      BY <2>1, Zenon DEF Sent, Loaded, InDocument
    <3>3. Loaded(p) /\ Fresh(confirmed, qf.items, 0) => Fresh(confirmed', qf'.items, 0)
      BY <1>1, <1>2, <1>3, Zenon DEF Fresh
    <3> QED BY <1>1, <1>2, <1>3, <2>1, <3>1, <3>2, <3>3 DEF OnceOK
  <2>2. CASE fs'[p].pc \in {"none", "exec"} /\ fs'[p].exit = "none"
    BY <2>2, Zenon DEF OnceOK, Loaded
  <2> QED BY <2>1, <2>2, Zenon DEF ProcsKept
<1>4. ASSUME NEW p \in Procs, qf'.dir # "sendq" PROVE ClosedOK(p)'
  <2>1. CASE fs'[p] = fs[p]
    <3>1. ClosedOK(p)
      <4>1. CASE qf.dir # "sendq"
        BY <1>1, <4>1 DEF OInv, Once, Closed
      <4>2. CASE qf.dir = "sendq"
        <5>1. OnceOK(p) /\ ProcOK(p)
          BY <1>1, <4>2, Zenon DEF OInv, DInv, PInv, PagesOK, Once
        <5>2. Loaded(p) => NoFax(fs[p].req.items)
          BY <1>1, <1>2, <1>4, <4>2, <5>1 DEF OnceOK
        <5>3. Loaded(p) => FindFax(fs[p].req.items) = 0
          BY <5>2, NoFaxFind, Zenon
        <5> QED BY <5>1, <5>2, <5>3, Zenon DEF ClosedOK, ProcOK
      <4> QED BY <4>1, <4>2
    <3> QED BY <2>1, <3>1 DEF ClosedOK, Loaded
  <2>2. CASE fs'[p].pc \in {"none", "exec"}
    BY <2>2, Zenon DEF ClosedOK, Loaded
  <2> QED BY <2>1, <2>2 DEF ProcsKept
<1>5. CASE qf'.dir = "sendq"
  BY <1>1, <1>3, <1>5
<1>6. CASE qf'.dir # "sendq"
  BY <1>1, <1>4, <1>6 DEF Closed
<1> QED BY <1>5, <1>6

LEMMA FaxqOnce ==
  ASSUME OInv, Faxq \/ FaxqCrash
  PROVE  Once'
<1>0. PInv
  BY DEF OInv, DInv
<1>a. ASSUME Calm, qf.dir = "sendq" PROVE FileOnce
  BY <1>a DEF OInv, Once
<1>b. ASSUME qf.dir = "sendq" PROVE Whole(qf.items)
  BY <1>b DEF OInv, DInv, PInv, PagesOK, ReqOK
<1>c. ASSUME mishaps \subseteq mishaps', Without({"faxq"})' PROVE Without({"faxq"})
  BY <1>c, Zenon DEF Without
<1>1. CASE Process
  <2>1. fq.pc = "ready"
    BY <1>1, Zenon DEF Process
  <2>2. /\ ProcsKept /\ mishaps' = mishaps /\ qf.dir = "sendq" /\ lock = "free"
        /\ \/ Ended("failed")
           \/ /\ File(qf.items, "nobatch")
              /\ \/ On("prepare") /\ \E i \in DOMAIN qf.items : qf.items[i].op = "source"
                 \/ On("send")
    BY <1>0, <1>1, ProcessFx
  <2>3. CASE Ended("failed")
    BY <2>2, <2>3, FaxqOnceStep, Zenon DEF Ended
  <2>4. CASE File(qf.items, "nobatch")
    <3>1. ASSUME Calm PROVE FileOnce'
      <4>1. Fresh(confirmed, qf.items, 0)
        BY <1>a, <2>1, <2>2, <3>1, Zenon DEF FileOnce, Killed
      <4>2. fq'.pc = "prepare" => NoFax(qf.items)
        BY <1>b, <2>2, Zenon DEF Whole, NoFax, On, Ended, File
      <4> QED BY <2>2, <2>4, <4>1, <4>2 DEF FileOnce, File, ProcsKept
    <3> QED BY <2>2, <2>4, <3>1, FaxqOnceStep DEF File
  <2> QED BY <2>2, <2>3, <2>4
<1>2. CASE Prepare
  <2>1. /\ ProcsKept /\ mishaps \subseteq mishaps' /\ qf.dir = "sendq" /\ fq.pc = "prepare"
        /\ Ended("failed") \/ (File(Imaged(qf.items), qf.status) /\ On("send") /\ mishaps' = mishaps)
    BY <1>0, <1>2, PrepareFx
  <2>2. CASE Ended("failed")
    BY <2>1, <2>2, FaxqOnceStep DEF Ended
  <2>3. CASE File(Imaged(qf.items), qf.status) /\ On("send")
    <3>1. ASSUME Calm PROVE FileOnce'
      <4>1. FileOnce /\ ~Killed
        BY <1>a, <2>1, <3>1 DEF Killed
      <4>2. Wanted(Imaged(qf.items), 0) = Wanted(qf.items, 0)
        BY <1>b, <2>1, ImagedWanted, Zenon
      <4>3. Fresh(confirmed, qf.items, 0) => Fresh(confirmed', qf'.items, 0)
        BY <2>1, <2>3, <4>2, Zenon DEF Fresh, File, ProcsKept
      <4>4. lock' = lock /\ qf'.status = qf.status /\ fq'.pc = "send"
        BY <2>1, <2>3 DEF File, On, ProcsKept
      <4> QED BY <1>c, <2>1, <4>1, <4>3, <4>4, Zenon DEF FileOnce
    <3>2. /\ qf'.dir = "sendq" /\ fq'.pc # "prepare"
          /\ Wanted(qf'.items, 0) = Wanted(qf.items, 0)
      BY <1>b, <2>1, <2>3, ImagedWanted DEF File, On
    <3> QED BY <2>1, <3>1, <3>2, FaxqOnceStep
  <2> QED BY <2>1, <2>2, <2>3
<1>3. ASSUME ProcsKept, mishaps \subseteq mishaps', qf' = qf, fq'.pc # "prepare",
             fq.pc # "sending" \/ (Calm' => Without(Unwritten))
      PROVE  Once'
  <2>1. ASSUME Calm, Calm', qf.dir = "sendq" PROVE FileOnce'
    <3>1. FileOnce /\ ~(~Without(Unwritten) /\ Killed)
      BY <1>a, <1>3, <2>1, Zenon DEF Killed
    <3>2. lock' = lock /\ confirmed' = confirmed
      BY <1>3 DEF ProcsKept
    <3> QED BY <1>3, <1>c, <3>1, <3>2 DEF FileOnce
  <2>2. ASSUME Calm, qf.dir # "sendq" PROVE NoFax(qf.items)
    BY <2>2 DEF OInv, Once, Closed
  <2> QED BY <1>3, <2>1, <2>2, FaxqOnceStep, Zenon
<1>4. CASE SendStart
  BY <1>0, <1>3, <1>4, SendStartFx DEF On
<1>5. CASE SendDone
  <2> DEFINE exit == fs[fq.proc].exit
             result == IF qf.status # "nobatch" THEN qf.status
                       ELSE IF exit = "signal" THEN "failed" ELSE exit
  <2>1. /\ ProcsKept /\ mishaps' = mishaps /\ qf.dir = "sendq" /\ lock = "free" /\ fq.pc = "sending"
        /\ \/ result = "reformat" /\ qf'.dir = "sendq"
           \/ result = "retry" /\ File(qf.items, "retry") /\ On("ready")
           \/ \E why : Ended(why)
    BY <1>0, <1>5, SendDoneFx, Zenon DEF File
  <2>2. ASSUME Calm PROVE result # "reformat"
    <3>1. fq.proc \in Procs
      BY <2>1, Zenon DEF OInv, DInv, Known
    <3>2. FileOnce /\ OnceOK(fq.proc)
      BY <2>1, <2>2, <3>1 DEF OInv, Once
    <3> QED BY <3>2, Zenon DEF FileOnce, OnceOK
  <2>3. result = "retry" => qf.status # "done"
    OBVIOUS
  <2> HIDE DEF result
  <2>4. CASE result = "reformat"
    <3>1. ~Calm /\ ~Calm'
      BY <2>1, <2>2, <2>4, Zenon DEF Calm, Without
    <3> QED BY <3>1 DEF Once
  <2>5. CASE result = "retry" /\ File(qf.items, "retry") /\ On("ready")
    <3>1. ASSUME Calm PROVE FileOnce'
      <4>1. Fresh(confirmed, qf.items, 0)
        BY <1>a, <2>1, <2>3, <2>5, <3>1 DEF FileOnce, Killed
      <4> QED BY <2>1, <2>5, <4>1, Zenon DEF FileOnce, File, On, ProcsKept
    <3> QED BY <2>1, <2>5, <3>1, FaxqOnceStep DEF File, On
  <2>6. CASE \E why : Ended(why)
    BY <2>1, <2>6, FaxqOnceStep, Zenon DEF Ended
  <2> QED BY <2>1, <2>4, <2>5, <2>6
<1>6. CASE NotifySender \/ FaxqCrash \/ FaxqRestart
  <2>1. /\ ProcsKept /\ mishaps \subseteq mishaps' /\ qf' = qf
        /\ fq'.pc \in {"idle", "down", "ready"}
        /\ fq.pc \in {"notify", "down"} \/ "faxq" \in mishaps'
    BY <1>0, <1>6, RestFx DEF On
  <2>2. "faxq" \in mishaps' /\ Calm' => Without(Unwritten)
    BY <2>1 DEF Calm, Without
  <2> QED BY <1>3, <2>1, <2>2, Zenon
<1> QED BY <1>1, <1>2, <1>4, <1>5, <1>6 DEF Faxq

LEMMA OnceInit ==
  ASSUME Init
  PROVE  OInv
<1>1. /\ qf = NewRequest /\ lock = "free" /\ (\A p \in Procs : fs[p] = NoProc)
      /\ fq = [pc |-> "ready", proc |-> "none", why |-> "none"]
      /\ confirmed = [x \in AllPages |-> 0]
  BY DEF Init
<1>2. NewRequest.status # "reformat" /\ NewRequest.dir = "sendq"
  BY DEF NewRequest
<1>3. \A y \in AllPages : confirmed[y] = 0
  BY <1>1
<1>4. Fresh(confirmed, qf.items, 0)
  BY <1>3 DEF Fresh, Wanted
<1>5. FileOnce
  BY <1>1, <1>2, <1>4, Zenon DEF FileOnce
<1>6. ASSUME NEW p \in Procs PROVE OnceOK(p)
  <2>0. NoProc.pc = "none" /\ NoProc.exit = "none"
    BY Zenon DEF NoProc
  <2>1. fs[p].pc = "none" /\ fs[p].exit = "none"
    BY <1>1, <2>0, Zenon
  <2> QED BY <2>1, Zenon DEF OnceOK, Loaded
<1> QED BY <1>1, <1>2, <1>3, <1>5, <1>6, DoneInit DEF OInv, Once

LEMMA OnceNext ==
  ASSUME OInv, [Next]_vars
  PROVE  OInv'
<1>1. DInv'
  BY DoneNext DEF OInv
<1>2. CASE UNCHANGED vars
  <2>1. UNCHANGED <<qf, fs, lock, fq, confirmed, mishaps>>
    BY <1>2 DEF vars
  <2>2. ProcsKept /\ mishaps \subseteq mishaps' /\ fq' = fq /\ qf' = qf
    BY <2>1, Zenon DEF ProcsKept
  <2>3. (FileOnce' <=> FileOnce) /\ (Calm' <=> Calm)
    BY <2>1, Zenon DEF FileOnce, Killed, Without, Calm
  <2>4. \A p \in Procs : OnceOK(p)' <=> OnceOK(p)
    BY <2>1, Zenon DEF OnceOK, Loaded, Sent, InDocument
  <2>5. Closed' <=> Closed
    BY <2>1 DEF Closed, ClosedOK, Loaded
  <2>6. Once'
    BY <2>1, <2>3, <2>4, <2>5 DEF OInv, Once
  <2> QED BY <1>1, <2>6 DEF OInv
<1>3. CASE Faxq \/ FaxqCrash
  BY <1>1, <1>3, FaxqOnce DEF OInv
<1>4. CASE \E p \in Procs : Faxsend(p) \/ FaxsendCrash(p) \/ Abort(p)
  BY <1>1, <1>4, FaxsendOnce DEF OInv
<1> QED BY <1>2, <1>3, <1>4 DEF Next

\* SentOnce: a page that a call confirmed is not sent again by a later call, as long
\* as nobody asks for the documents to be formatted anew and it does not happen that
\* faxq dies and a faxsend leaves without its last write.
THEOREM SentOnceAlways == Spec => []SentOnce
<1>1. OInv => SentOnce
  BY DEF OInv, Once, Calm, SentOnce
<1> QED BY <1>1, OnceInit, OnceNext, PTL DEF Spec

=============================================================================
