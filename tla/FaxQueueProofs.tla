--------------------------- MODULE FaxQueueProofs ---------------------------
(***************************************************************************)
(* Proofs about FaxQueue, for every set of jobs, destinations and modems,  *)
(* every configuration and every environment.                              *)
(***************************************************************************)
EXTENDS FaxQueue, TLAPS, WellFoundedInduction

(* What a retry must keep of a priority.                                   *)
PriOK(j, p) ==
  /\ p \in 0..255
  /\ UsrPri[j] <= 190 => p <= UsrPri[j] /\ p \div 16 = UsrPri[j] \div 16

(* The Job objects J are of their type, with priorities in their buckets   *)
(* and bounded positions on the lists of the batches, and the destinations *)
(* of ready jobs are on the run queue R.                                   *)
Bounded(J) == \E n \in Nat : \A j \in Jobs : J[j].slot <= n
Served(J, R) == \A j \in Jobs : J[j].on = "readyQ" => DestOf[j] \in Elems(R)
JobsOK(J, R) ==
  /\ J \in [Jobs -> JobType]
  /\ \A j \in Jobs : PriOK(j, J[j].pri)
  /\ Bounded(J)
  /\ Served(J, R)

(* The run queue R has no destination twice.                               *)
NoDup(s) == \A i, k \in 1..Len(s) : s[i] = s[k] => i = k
RunqOK(R) == R \in Seq(Dests) /\ NoDup(R)

(* What the functions of the queue management change.                      *)
QueueOK ==
  /\ JobsOK(job, runq) /\ RunqOK(runq)
  /\ q \in [Jobs -> QType]
  /\ poke \in Pokes
  /\ fault \in Faults

-----------------------------------------------------------------------------
(* Lemmas on the helpers.                                                  *)

(* What concatenation and subsequences consist of.                         *)
LEMMA ConcatFacts ==
  ASSUME NEW S, NEW s \in Seq(S), NEW t \in Seq(S)
  PROVE  /\ s \o t \in Seq(S)
         /\ Len(s \o t) = Len(s) + Len(t)
         /\ \A i \in 1..(Len(s) + Len(t)) :
               (s \o t)[i] = IF i <= Len(s) THEN s[i] ELSE t[i - Len(s)]
OBVIOUS

LEMMA SubSeqFacts ==
  ASSUME NEW S, NEW s, NEW m \in Int, NEW n \in Int, \A i \in m..n : s[i] \in S
  PROVE  /\ SubSeq(s, m, n) \in Seq(S)
         /\ Len(SubSeq(s, m, n)) = IF m <= n THEN n - m + 1 ELSE 0
         /\ \A i \in 1..(n - m + 1) : SubSeq(s, m, n)[i] = s[m + i - 1]
OBVIOUS

(* A retry keeps the priority in range and in its bucket (sendJobDone).    *)
LEMMA RetryPriOK ==
  ASSUME NEW j \in Jobs, NEW p, PriOK(j, p)
  PROVE  PriOK(j, RetryPri(p, UsrPri[j]))
<1>1. UsrPri[j] \in 0..255
  BY FaxQueueAssumption
<1>2. p \in 0..255
  BY Zenon DEF PriOK
<1>3. PICK u \in 0..255 : u = UsrPri[j]
  BY <1>1
<1>4. PICK r : r = RetryPri(p, u)
  BY Zenon
<1>5. r \in 0..255
  BY <1>2, <1>4 DEF RetryPri
<1>6. ASSUME u <= 190 PROVE r <= u /\ r \div 16 = u \div 16
  <2>1. p <= u /\ p \div 16 = u \div 16
    BY <1>3, <1>6 DEF PriOK
  <2>2. r = p \/ (r = p - 1 /\ (p - 1) \div 16 = u \div 16)
    BY <1>2, <1>4, <1>6, <2>1 DEF RetryPri
  <2>. QED  BY <1>2, <2>1, <2>2
<1>. QED  BY <1>3, <1>4, <1>5, <1>6, Zenon DEF PriOK

(* A job has the priority it was submitted with.                           *)
LEMMA UsrPriOK ==
  ASSUME NEW j \in Jobs
  PROVE  PriOK(j, UsrPri[j])
<1>1. PICK u \in 0..255 : u = UsrPri[j]
  BY FaxQueueAssumption
<1>2. u <= u
  OBVIOUS
<1>. QED  BY <1>1, <1>2 DEF PriOK

(* Replacing one Job by one of its type keeps the Jobs in order.           *)
LEMMA UpdOK ==
  ASSUME NEW J, NEW R, JobsOK(J, R), NEW j, NEW r, r \in JobType,
         j \in Jobs => PriOK(j, r.pri),
         j \in Jobs /\ r.on = "readyQ" => DestOf[j] \in Elems(R)
  PROVE  JobsOK([J EXCEPT ![j] = r], R)
<1>. DEFINE K == [J EXCEPT ![j] = r]
<1>1. K \in [Jobs -> JobType]
  BY Zenon DEF JobsOK
<1>2. ASSUME NEW k \in Jobs PROVE PriOK(k, K[k].pri)
  <2>1. PriOK(k, J[k].pri) /\ J \in [Jobs -> JobType]
    BY DEF JobsOK
  <2>2. K[k] = IF k = j THEN r ELSE J[k]
    BY <2>1
  <2>. QED  BY <2>1, <2>2
<1>3. Bounded(K)
  <2>1. PICK n \in Nat : \A k \in Jobs : J[k].slot <= n
    BY DEF JobsOK, Bounded
  <2>2. r.slot \in Nat /\ n + r.slot \in Nat
    BY DEF JobType
  <2>3. \A k \in Jobs : K[k].slot <= n + r.slot
    <3>. SUFFICES ASSUME NEW k \in Jobs PROVE K[k].slot <= n + r.slot
      OBVIOUS
    <3>1. J[k].slot \in Nat
      BY DEF JobsOK, JobType
    <3>2. CASE k = j
      BY <2>2, <3>2 DEF JobsOK
    <3>3. CASE k # j
      BY <2>1, <2>2, <3>1, <3>3 DEF JobsOK
    <3>. QED  BY <3>2, <3>3
  <2>. QED  BY <2>2, <2>3 DEF Bounded
<1>4. Served(K, R)
  BY DEF JobsOK, Served
<1>. QED  BY <1>1, <1>2, <1>3, <1>4 DEF JobsOK

(* Editing fields other than the priority and the list.                    *)
LEMMA EditOK ==
  ASSUME NEW J, NEW R, JobsOK(J, R), NEW j \in Jobs, NEW r, r \in JobType,
         r.pri = J[j].pri, r.on = J[j].on
  PROVE  JobsOK([J EXCEPT ![j] = r], R)
<1>1. PriOK(j, J[j].pri)
  BY DEF JobsOK
<1>2. J[j].on = "readyQ" => DestOf[j] \in Elems(R)
  BY DEF JobsOK, Served
<1>. QED  BY <1>1, <1>2, UpdOK, Zenon

(* Jobs that leave, join or are given lists, states and timers.            *)
LEMMA OnOK ==
  ASSUME NEW J, NEW R, JobsOK(J, R), NEW j \in Jobs, NEW list \in Lists,
         list = "readyQ" => DestOf[j] \in Elems(R)
  PROVE  JobsOK(On(J, j, list), R)
<1>. DEFINE r == [J[j] EXCEPT !.on = list]
<1>1. J[j] \in JobType /\ PriOK(j, J[j].pri)
  BY DEF JobsOK
<1>2. r \in JobType /\ r.pri = J[j].pri /\ r.on = list
  BY <1>1 DEF JobType
<1>3. JobsOK([J EXCEPT ![j] = r], R)
  BY <1>1, <1>2, UpdOK, Zenon
<1>. QED  BY <1>3 DEF On

LEMMA OffOK ==
  ASSUME NEW J, NEW R, JobsOK(J, R), NEW j \in Jobs
  PROVE  JobsOK(Off(J, j), R)
<1>. DEFINE r == [J[j] EXCEPT !.on = "off", !.in = NoModem, !.slot = 0]
<1>1. J[j] \in JobType /\ PriOK(j, J[j].pri)
  BY DEF JobsOK
<1>2. r \in JobType /\ r.pri = J[j].pri /\ r.on = "off"
  BY <1>1, Zenon DEF JobType, Lists
<1>3. JobsOK([J EXCEPT ![j] = r], R)
  BY <1>1, <1>2, UpdOK, Zenon
<1>. QED  BY <1>3 DEF Off

LEMMA FieldsOK ==
  ASSUME NEW J, NEW R, JobsOK(J, R), NEW j \in Jobs
  PROVE  /\ \A x \in JobStates : JobsOK([J EXCEPT ![j].state = x], R)
         /\ \A x \in Pids : JobsOK([J EXCEPT ![j].pid = x], R)
         /\ \A x \in Modems \cup {NoModem} : JobsOK([J EXCEPT ![j].modem = x], R)
         /\ \A x \in BOOLEAN : /\ JobsOK([J EXCEPT ![j].susp = x], R)
                               /\ JobsOK([J EXCEPT ![j].kill = x], R)
                               /\ JobsOK([J EXCEPT ![j].killed = x], R)
                               /\ JobsOK([J EXCEPT ![j].tts = x], R)
<1>1. J[j] \in JobType
  BY DEF JobsOK
<1>2. ASSUME NEW x \in JobStates PROVE JobsOK([J EXCEPT ![j].state = x], R)
  <2>. DEFINE r == [J[j] EXCEPT !.state = x]
  <2>1. r \in JobType /\ r.pri = J[j].pri /\ r.on = J[j].on
    BY <1>1, Zenon DEF JobType
  <2>. QED  BY <2>1, EditOK, Zenon
<1>3. ASSUME NEW x \in Pids PROVE JobsOK([J EXCEPT ![j].pid = x], R)
  <2>. DEFINE r == [J[j] EXCEPT !.pid = x]
  <2>1. r \in JobType /\ r.pri = J[j].pri /\ r.on = J[j].on
    BY <1>1 DEF JobType
  <2>. QED  BY <2>1, EditOK, Zenon
<1>4. ASSUME NEW x \in Modems \cup {NoModem} PROVE JobsOK([J EXCEPT ![j].modem = x], R)
  <2>. DEFINE r == [J[j] EXCEPT !.modem = x]
  <2>1. r \in JobType /\ r.pri = J[j].pri /\ r.on = J[j].on
    BY <1>1 DEF JobType
  <2>. QED  BY <2>1, EditOK, Zenon
<1>5. ASSUME NEW x \in BOOLEAN PROVE JobsOK([J EXCEPT ![j].susp = x], R)
  <2>. DEFINE r == [J[j] EXCEPT !.susp = x]
  <2>1. r \in JobType /\ r.pri = J[j].pri /\ r.on = J[j].on
    BY <1>1, Zenon DEF JobType
  <2>. QED  BY <2>1, EditOK
<1>6. ASSUME NEW x \in BOOLEAN PROVE JobsOK([J EXCEPT ![j].kill = x], R)
  <2>. DEFINE r == [J[j] EXCEPT !.kill = x]
  <2>1. r \in JobType /\ r.pri = J[j].pri /\ r.on = J[j].on
    BY <1>1, Zenon DEF JobType
  <2>. QED  BY <2>1, EditOK, Zenon
<1>7. ASSUME NEW x \in BOOLEAN PROVE JobsOK([J EXCEPT ![j].killed = x], R)
  <2>. DEFINE r == [J[j] EXCEPT !.killed = x]
  <2>1. r \in JobType /\ r.pri = J[j].pri /\ r.on = J[j].on
    BY <1>1 DEF JobType
  <2>. QED  BY <2>1, EditOK, Zenon
<1>8. ASSUME NEW x \in BOOLEAN PROVE JobsOK([J EXCEPT ![j].tts = x], R)
  <2>. DEFINE r == [J[j] EXCEPT !.tts = x]
  <2>1. r \in JobType /\ r.pri = J[j].pri /\ r.on = J[j].on
    BY <1>1 DEF JobType
  <2>. QED  BY <2>1, EditOK, Zenon
<1>. QED  BY <1>2, <1>3, <1>4, <1>5, <1>6, <1>7, <1>8

LEMMA SleepOK ==
  ASSUME NEW J, NEW R, JobsOK(J, R), NEW j \in Jobs
  PROVE  JobsOK(Sleep(J, j), R) /\ JobsOK(Delay(J, j), R)
<1>. DEFINE r == [J[j] EXCEPT !.state = "sleeping", !.tts = TRUE]
            s == [Sleep(J, j)[j] EXCEPT !.kill = TRUE, !.killed = FALSE]
<1>1. r \in JobType /\ r.pri = J[j].pri /\ r.on = J[j].on
  <2>1. J[j] \in JobType
    BY DEF JobsOK
  <2>. QED  BY <2>1, Zenon DEF JobType, JobStates
<1>2. JobsOK([J EXCEPT ![j] = r], R)
  BY <1>1, EditOK, Zenon
<1>3. JobsOK(Sleep(J, j), R)
  BY <1>2, OnOK DEF Sleep, Lists
<1>4. s \in JobType /\ s.pri = Sleep(J, j)[j].pri /\ s.on = Sleep(J, j)[j].on
  <2>1. Sleep(J, j)[j] \in JobType
    BY <1>3 DEF JobsOK
  <2>. QED  BY <2>1, ZenonT(60) DEF JobType
<1>5. JobsOK([Sleep(J, j) EXCEPT ![j] = s], R)
  BY <1>3, <1>4, EditOK, Zenon
<1>. QED  BY <1>3, <1>5 DEF Delay

(* A longer run queue serves the same jobs.                                *)
LEMMA MoreServed ==
  ASSUME NEW J, NEW R, NEW R2, JobsOK(J, R), Elems(R) \subseteq Elems(R2)
  PROVE  JobsOK(J, R2)
BY DEF JobsOK, Served

(* The run queue: inserting and removing a destination.                    *)
IsInsert(D, R, i, d) ==
  /\ Len(R) \in Nat /\ Len(D) = Len(R) + 1
  /\ i \in 1..(Len(R) + 1) /\ D[i] = d
  /\ \A k \in 1..(i - 1) : D[k] = R[k]
  /\ \A k \in (i + 1)..(Len(R) + 1) : D[k] = R[k - 1]

LEMMA ElemsOfInsert ==
  ASSUME NEW R, NEW D, NEW i, NEW d, IsInsert(D, R, i, d)
  PROVE  /\ Elems(D) = Elems(R) \cup {d}
         /\ NoDup(R) /\ d \notin Elems(R) => NoDup(D)
<1>. USE DEF IsInsert
<1>1. ASSUME NEW x \in Elems(D) PROVE x \in Elems(R) \cup {d}
  <2>1. PICK k \in 1..(Len(R) + 1) : x = D[k]
    BY <1>1 DEF Elems
  <2>2. CASE k < i
    BY <2>1, <2>2 DEF Elems
  <2>3. CASE k > i
    <3>1. k - 1 \in 1..Len(R) /\ x = R[k - 1]
      BY <2>1, <2>3
    <3>. QED  BY <3>1 DEF Elems
  <2>. QED  BY <2>1, <2>2, <2>3
<1>2. d \in Elems(D)
  BY DEF Elems
<1>3. ASSUME NEW x \in Elems(R) PROVE x \in Elems(D)
  <2>1. PICK k \in 1..Len(R) : x = R[k]
    BY <1>3 DEF Elems
  <2>2. CASE k < i
    <3>1. k \in 1..Len(D) /\ x = D[k]
      BY <2>1, <2>2
    <3>. QED  BY <3>1 DEF Elems
  <2>3. CASE ~(k < i)
    <3>1. k + 1 \in 1..Len(D) /\ x = D[k + 1]
      BY <2>1, <2>3
    <3>. QED  BY <3>1 DEF Elems
  <2>. QED  BY <2>2, <2>3
<1>4. ASSUME NoDup(R), d \notin Elems(R) PROVE NoDup(D)
  <2>. SUFFICES ASSUME NEW k \in 1..(Len(R) + 1), NEW l \in 1..(Len(R) + 1), D[k] = D[l], k < l
                PROVE  FALSE
    BY DEF NoDup
  <2>1. \A n \in 1..Len(R) : R[n] # d
    BY <1>4 DEF Elems
  <2>2. CASE l < i
    BY <1>4, <2>2 DEF NoDup
  <2>3. CASE k > i
    <3>1. k - 1 \in 1..Len(R) /\ l - 1 \in 1..Len(R) /\ D[k] = R[k - 1] /\ D[l] = R[l - 1]
      BY <2>3
    <3>2. k - 1 = l - 1
      BY <1>4, <3>1, Zenon DEF NoDup
    <3>. QED  BY <3>2
  <2>4. CASE k = i
    <3>1. l - 1 \in 1..Len(R) /\ D[l] = R[l - 1]
      BY <2>4
    <3>. QED  BY <2>1, <2>4, <3>1
  <2>5. CASE l = i
    BY <2>1, <2>5
  <2>6. CASE k < i /\ i < l
    <3>1. k \in 1..Len(R) /\ l - 1 \in 1..Len(R) /\ D[k] = R[k] /\ D[l] = R[l - 1]
      BY <2>6
    <3>2. k = l - 1
      BY <1>4, <3>1, Zenon DEF NoDup
    <3>. QED  BY <2>6, <3>2
  <2>. QED  BY <2>2, <2>3, <2>4, <2>5, <2>6
<1>. QED  BY <1>1, <1>2, <1>3, <1>4

LEMMA InsertOK ==
  ASSUME NEW R, RunqOK(R), NEW d \in Dests, d \notin Elems(R), NEW i \in 1..(Len(R) + 1)
  PROVE  RunqOK(Insert(R, i, d)) /\ Elems(Insert(R, i, d)) = Elems(R) \cup {d}
<1>1. R \in Seq(Dests) /\ Len(R) \in Nat /\ \A k \in 1..Len(R) : R[k] \in Dests
  BY DEF RunqOK
<1>2. PICK A : A = SubSeq(R, 1, i - 1)
  BY Zenon
<1>3. PICK B : B = SubSeq(R, i, Len(R))
  BY Zenon
<1>4. PICK C : C = A \o <<d>>
  BY Zenon
<1>5. PICK D : D = C \o B
  OBVIOUS
<1>6. /\ A \in Seq(Dests) /\ Len(A) = i - 1
      /\ \A k \in 1..(i - 1) : A[k] = R[k]
  <2>1. \A k \in 1..(i - 1) : R[k] \in Dests
    BY <1>1
  <2>2. /\ SubSeq(R, 1, i - 1) \in Seq(Dests)
        /\ Len(SubSeq(R, 1, i - 1)) = IF 1 <= i - 1 THEN (i - 1) - 1 + 1 ELSE 0
        /\ \A k \in 1..((i - 1) - 1 + 1) : SubSeq(R, 1, i - 1)[k] = R[1 + k - 1]
    BY <1>1, <2>1, SubSeqFacts
  <2>. QED  BY <1>1, <1>2, <2>2
<1>7. /\ B \in Seq(Dests) /\ Len(B) = Len(R) - i + 1
      /\ \A k \in 1..(Len(R) - i + 1) : B[k] = R[i + k - 1]
  <2>1. \A k \in i..Len(R) : R[k] \in Dests
    BY <1>1
  <2>2. i \in Int /\ Len(R) \in Int
    BY <1>1
  <2>3. /\ SubSeq(R, i, Len(R)) \in Seq(Dests)
        /\ Len(SubSeq(R, i, Len(R))) = IF i <= Len(R) THEN Len(R) - i + 1 ELSE 0
        /\ \A k \in 1..(Len(R) - i + 1) : SubSeq(R, i, Len(R))[k] = R[i + k - 1]
    BY <2>1, <2>2, SubSeqFacts
  <2>. QED  BY <1>1, <1>3, <2>2, <2>3
<1>8. /\ C \in Seq(Dests) /\ Len(C) = i /\ C[i] = d
      /\ \A k \in 1..(i - 1) : C[k] = R[k]
  <2>1. <<d>> \in Seq(Dests) /\ Len(<<d>>) = 1 /\ <<d>>[1] = d
    OBVIOUS
  <2>2. /\ A \o <<d>> \in Seq(Dests)
        /\ Len(A \o <<d>>) = Len(A) + Len(<<d>>)
        /\ \A k \in 1..(Len(A) + Len(<<d>>)) :
              (A \o <<d>>)[k] = IF k <= Len(A) THEN A[k] ELSE <<d>>[k - Len(A)]
    BY <1>6, <2>1, ConcatFacts
  <2>. QED  BY <1>1, <1>4, <1>6, <2>1, <2>2
<1>9. /\ D \in Seq(Dests) /\ Len(D) = Len(R) + 1 /\ D[i] = d
      /\ \A k \in 1..(i - 1) : D[k] = R[k]
      /\ \A k \in (i + 1)..(Len(R) + 1) : D[k] = R[k - 1]
  <2>1. /\ D \in Seq(Dests) /\ Len(D) = Len(C) + Len(B)
        /\ \A k \in 1..(Len(C) + Len(B)) : D[k] = IF k <= Len(C) THEN C[k] ELSE B[k - Len(C)]
    BY <1>5, <1>7, <1>8, ConcatFacts
  <2>2. ASSUME NEW k \in (i + 1)..(Len(R) + 1) PROVE D[k] = R[k - 1]
    <3>1. D[k] = B[k - i]
      BY <1>1, <1>7, <1>8, <2>1
    <3>2. k - i \in 1..(Len(R) - i + 1) /\ i + (k - i) - 1 = k - 1
      BY <1>1
    <3>. QED  BY <1>7, <3>1, <3>2
  <2>. QED  BY <1>1, <1>7, <1>8, <2>1, <2>2
<1>10. /\ Elems(D) = Elems(R) \cup {d}
       /\ NoDup(D)
  <2>1. IsInsert(D, R, i, d)
    BY <1>1, <1>9 DEF IsInsert
  <2>. QED  BY <2>1, ElemsOfInsert DEF RunqOK
<1>11. D = Insert(R, i, d)
  BY <1>2, <1>3, <1>4, <1>5 DEF Insert
<1>. QED  BY <1>9, <1>10, <1>11 DEF RunqOK

LEMMA WithoutOK ==
  ASSUME NEW R, RunqOK(R), NEW d
  PROVE  RunqOK(Without(R, d)) /\ Elems(Without(R, d)) = Elems(R) \ {d}
<1>1. R \in Seq(Dests) /\ Len(R) \in Nat /\ \A k \in 1..Len(R) : R[k] \in Dests
  BY DEF RunqOK
<1>2. CASE d \notin Elems(R)
  BY <1>2 DEF Without
<1>3. CASE d \in Elems(R)
  <2>1. PICK i \in 1..Len(R) : i = Index(R, d) /\ R[i] = d
    BY <1>3 DEF Elems, Index
  <2>2. PICK A : A = SubSeq(R, 1, i - 1)
    BY Zenon
  <2>3. PICK B : B = SubSeq(R, i + 1, Len(R))
    BY Zenon
  <2>4. PICK D : D = A \o B
    BY Zenon
  <2>5. /\ A \in Seq(Dests) /\ Len(A) = i - 1
        /\ \A k \in 1..(i - 1) : A[k] = R[k]
    <3>1. \A k \in 1..(i - 1) : R[k] \in Dests
      BY <1>1
    <3>2. /\ SubSeq(R, 1, i - 1) \in Seq(Dests)
          /\ Len(SubSeq(R, 1, i - 1)) = IF 1 <= i - 1 THEN (i - 1) - 1 + 1 ELSE 0
          /\ \A k \in 1..((i - 1) - 1 + 1) : SubSeq(R, 1, i - 1)[k] = R[1 + k - 1]
      BY <1>1, <3>1, SubSeqFacts
    <3>. QED  BY <1>1, <2>2, <3>2
  <2>6. /\ B \in Seq(Dests) /\ Len(B) = Len(R) - i
        /\ \A k \in 1..(Len(R) - i) : B[k] = R[i + k]
    <3>1. \A k \in (i + 1)..Len(R) : R[k] \in Dests
      BY <1>1
    <3>2. i + 1 \in Int /\ Len(R) \in Int
      BY <1>1
    <3>3. /\ SubSeq(R, i + 1, Len(R)) \in Seq(Dests)
          /\ Len(SubSeq(R, i + 1, Len(R))) = IF i + 1 <= Len(R) THEN Len(R) - (i + 1) + 1 ELSE 0
          /\ \A k \in 1..(Len(R) - (i + 1) + 1) :
                SubSeq(R, i + 1, Len(R))[k] = R[(i + 1) + k - 1]
      BY <3>1, <3>2, SubSeqFacts
    <3>. QED  BY <1>1, <2>3, <3>3
  <2>7. /\ D \in Seq(Dests) /\ Len(D) = Len(R) - 1
        /\ \A k \in 1..(i - 1) : D[k] = R[k]
        /\ \A k \in i..(Len(R) - 1) : D[k] = R[k + 1]
    <3>1. /\ D \in Seq(Dests) /\ Len(D) = Len(A) + Len(B)
          /\ \A k \in 1..(Len(A) + Len(B)) : D[k] = IF k <= Len(A) THEN A[k] ELSE B[k - Len(A)]
      BY <2>4, <2>5, <2>6, ConcatFacts
    <3>2. ASSUME NEW k \in i..(Len(R) - 1) PROVE D[k] = R[k + 1]
      <4>1. D[k] = B[k - (i - 1)]
        <5>1. k \in 1..(Len(A) + Len(B)) /\ ~(k <= Len(A)) /\ k - Len(A) = k - (i - 1)
          BY <1>1, <2>5, <2>6
        <5>. QED  BY <3>1, <5>1
      <4>2. k - (i - 1) \in 1..(Len(R) - i) /\ i + (k - (i - 1)) = k + 1
        BY <1>1
      <4>. QED  BY <2>6, <4>1, <4>2
    <3>3. ASSUME NEW k \in 1..(i - 1) PROVE D[k] = R[k]
      <4>1. k \in 1..(Len(A) + Len(B)) /\ k <= Len(A)
        BY <1>1, <2>5, <2>6
      <4>. QED  BY <2>5, <3>1, <4>1
    <3>. QED  BY <1>1, <2>5, <2>6, <3>1, <3>2, <3>3
  <2>8. NoDup(D) /\ d \notin Elems(D)
    <3>. DEFINE at(k) == IF k < i THEN k ELSE k + 1
    <3>1. \A k \in 1..Len(D) : at(k) \in 1..Len(R) /\ at(k) # i /\ D[k] = R[at(k)]
      BY <1>1, <2>7
    <3>2. NoDup(R)
      BY DEF RunqOK
    <3>3. ASSUME NEW k \in 1..Len(D), NEW l \in 1..Len(D), D[k] = D[l] PROVE k = l
      <4>1. at(k) = at(l)
        BY <3>1, <3>2, <3>3 DEF NoDup
      <4>. QED  BY <1>1, <2>7, <4>1
    <3>4. ASSUME NEW k \in 1..Len(D) PROVE D[k] # d
      BY <2>1, <3>1, <3>2 DEF NoDup
    <3>. QED  BY <3>3, <3>4, Zenon DEF NoDup, Elems
  <2>9. IsInsert(R, D, i, d)
    BY <1>1, <2>1, <2>7, SMTT(30) DEF IsInsert
  <2>10. Elems(R) = Elems(D) \cup {d}
    BY <2>1, <2>9, ElemsOfInsert
  <2>11. D = Without(R, d)
    BY <1>3, <2>1, <2>2, <2>3, <2>4 DEF Without
  <2>. QED  BY <2>7, <2>8, <2>10, <2>11 DEF RunqOK
<1>. QED  BY <1>2, <1>3

LEMMA EmptyOK ==
  ASSUME NEW J, NEW R, JobsOK(J, R), RunqOK(R), NEW d, ReadyQ(J, d) = {}
  PROVE  RunqOK(Without(R, d)) /\ JobsOK(J, Without(R, d))
<1>1. RunqOK(Without(R, d)) /\ Elems(Without(R, d)) = Elems(R) \ {d}
  BY WithoutOK
<1>2. Served(J, Without(R, d))
  BY <1>1 DEF JobsOK, Served, ReadyQ
<1>. QED  BY <1>1, <1>2 DEF JobsOK

LEMMA DropOK ==
  ASSUME NEW J, JobsOK(J, runq), RunqOK(runq), NEW B, NEW d
  PROVE  RunqOK(DropIfEmpty(J, B, d)) /\ JobsOK(J, DropIfEmpty(J, B, d))
<1>1. CASE ~DestEmpty(J, B, d)
  BY <1>1 DEF DropIfEmpty
<1>2. CASE DestEmpty(J, B, d)
  BY <1>2, EmptyOK DEF DropIfEmpty, DestEmpty
<1>. QED  BY <1>1, <1>2

(* A non-empty set of naturals has a least element.                        *)
LEMMA LeastNat ==
  ASSUME NEW T, T \subseteq Nat, T # {}
  PROVE  \E x \in T : \A y \in T : x <= y
<1>1. PICK x \in T : \A y \in T : <<y, x>> \notin OpToRel(<, Nat)
  BY NatLessThanWellFounded, WFMin
<1>2. \A y \in T : ~(y < x)
  BY <1>1, Zenon DEF OpToRel
<1>. QED  BY <1>2

(* What the first and the last of some jobs on the list of a batch are.    *)
LEMMA FirstIn ==
  ASSUME NEW J, NEW R, JobsOK(J, R), NEW S, S \subseteq Jobs, S # {}
  PROVE  First(J, S) \in S /\ \A k \in S : J[First(J, S)].slot <= J[k].slot
<1>. DEFINE T == {J[k].slot : k \in S}
<1>1. \A k \in S : J[k].slot \in Nat
  BY DEF JobsOK, JobType
<1>2. PICK x \in T : \A y \in T : x <= y
  <2>1. T \subseteq Nat /\ T # {}
    BY <1>1
  <2>. HIDE DEF T
  <2>. QED  BY <2>1, LeastNat, Zenon
<1>3. PICK j \in S : x = J[j].slot
  BY <1>2
<1>4. \A k \in S : J[j].slot <= J[k].slot
  BY <1>2, <1>3
<1>. QED  BY <1>4 DEF First

LEMMA LastIn ==
  ASSUME NEW J, NEW R, JobsOK(J, R), NEW S, S \subseteq Jobs, S # {}
  PROVE  Last(J, S) \in S /\ \A k \in S : J[k].slot <= J[Last(J, S)].slot
<1>1. PICK n \in Nat : \A k \in Jobs : J[k].slot <= n
  BY DEF JobsOK, Bounded
<1>. DEFINE T == {n - J[k].slot : k \in S}
<1>2. \A k \in S : J[k].slot \in Nat
  BY DEF JobsOK, JobType
<1>3. PICK x \in T : \A y \in T : x <= y
  <2>1. \A k \in S : n - J[k].slot \in Nat
    BY <1>1, <1>2
  <2>2. T \subseteq Nat /\ T # {}
    BY <2>1
  <2>. HIDE DEF T
  <2>. QED  BY <2>2, LeastNat
<1>4. PICK j \in S : x = n - J[j].slot
  BY <1>3
<1>5. \A k \in S : n - J[j].slot <= n - J[k].slot
  BY <1>3, <1>4
<1>6. \A k \in S : J[k].slot <= J[j].slot
  BY <1>2, <1>5
<1>. QED  BY <1>6 DEF Last

LEMMA DeleteOK ==
  ASSUME NEW Q, Q \in [Jobs -> QType], NEW j \in Jobs, NEW fin \in {"done", "failed"}
  PROVE  deleteRequest(Q, j, fin) \in [Jobs -> QType]
<1>. DEFINE r == [Q[j] EXCEPT !.dir = IF "rename" \in Env THEN "none" ELSE "doneq",
                              !.fin = fin]
<1>1. r \in QType
  BY Zenon DEF QType
<1>2. deleteRequest(Q, j, fin) = [Q EXCEPT ![j] = r]
  BY DEF deleteRequest
<1>. HIDE DEF r
<1>. QED  BY <1>1, <1>2

-----------------------------------------------------------------------------
(* The functions of the queue management keep the queues in order.         *)

LEMMA SetDeadOK ==
  ASSUME NEW J, JobsOK(J, runq), RunqOK(runq), NEW Q \in [Jobs -> QType],
         NEW j \in Jobs, setDead(J, Q, j)
  PROVE  QueueOK'
<1>0. PICK s \in JobStates : s = IF J[j].state = "done" THEN "done" ELSE "failed"
  BY DEF JobStates
<1>. DEFINE r == [J[j] EXCEPT !.state = s, !.susp = FALSE]
            R == DropIfEmpty(J, bat, DestOf[j])
<1>1. RunqOK(R) /\ JobsOK(J, R)
  BY DropOK
<1>2. r \in JobType /\ r.pri = J[j].pri /\ r.on = J[j].on
  <2>1. J[j] \in JobType
    BY DEF JobsOK
  <2>. QED  BY <2>1, ZenonT(60) DEF JobType
<1>3. PICK K : K = [J EXCEPT ![j] = r]
  BY Zenon
<1>. HIDE DEF R
<1>4. JobsOK(K, R)
  BY <1>1, <1>2, <1>3, EditOK
<1>5. JobsOK(On(Off(K, j), j, "deadq"), R)
  BY <1>4, OffOK, OnOK DEF Lists
<1>6. job' = On(Off(K, j), j, "deadq") /\ runq' = R
  BY <1>0, <1>3 DEF setDead, R
<1>7. q' \in [Jobs -> QType] /\ poke' \in Pokes /\ fault' \in Faults
  BY DEF setDead, pokeScheduler, Pokes, Faults, Assertions
<1>8. JobsOK(job', runq') /\ RunqOK(runq')
  BY <1>1, <1>5, <1>6
<1>. QED  BY <1>7, <1>8 DEF QueueOK

LEMMA SetReadyOK ==
  ASSUME NEW J, JobsOK(J, runq), RunqOK(runq), NEW Q \in [Jobs -> QType],
         NEW j \in Jobs, setReady(J, Q, j)
  PROVE  QueueOK'
<1>. DEFINE d == DestOf[j]
<1>1. d \in Dests
  BY FaxQueueAssumption
<1>2. PICK skipped \in Skipped(J, j) :
        /\ job' = On([J EXCEPT ![j].state = IF skipped THEN "blocked" ELSE "ready"],
                     j, "readyQ")
        /\ IF skipped THEN runq' = runq
           ELSE runq' \in PriorityInsert(J, Without(runq, DestOf[j]), j)
        /\ fault' = IF skipped /\ ~Readable(j) THEN "NULL request" ELSE InsertFault(J, j)
  BY Zenon DEF setReady
<1>3. PICK K : K = [J EXCEPT ![j].state = IF skipped THEN "blocked" ELSE "ready"]
  BY Zenon
<1>4. JobsOK(K, runq) /\ job' = On(K, j, "readyQ")
  <2>1. (IF skipped THEN "blocked" ELSE "ready") \in JobStates
    BY DEF JobStates
  <2>. QED  BY <1>2, <1>3, <2>1, FieldsOK
<1>5. q' \in [Jobs -> QType] /\ poke' \in Pokes /\ fault' \in Faults
  BY <1>2 DEF setReady, pokeScheduler, Pokes, Faults, Assertions, InsertFault
<1>6. RunqOK(runq') /\ Elems(runq) \subseteq Elems(runq') /\ d \in Elems(runq')
  <2>1. CASE skipped
    <3>1. \E k \in ReadyQ(J, d) : TRUE
      BY <2>1 DEF Skipped
    <3>2. d \in Elems(runq)
      BY <3>1 DEF JobsOK, Served, ReadyQ
    <3>. QED  BY <1>2, <2>1, <3>2
  <2>2. CASE ~skipped
    <3>1. RunqOK(Without(runq, d)) /\ Elems(Without(runq, d)) = Elems(runq) \ {d}
      BY WithoutOK
    <3>2. PICK i \in 1..(Len(Without(runq, d)) + 1) : runq' = Insert(Without(runq, d), i, d)
      BY <1>2, <2>2 DEF PriorityInsert
    <3>3. RunqOK(runq') /\ Elems(runq') = Elems(Without(runq, d)) \cup {d}
      BY <1>1, <3>1, <3>2, InsertOK
    <3>. QED  BY <3>1, <3>3
  <2>. QED  BY <2>1, <2>2
<1>7. JobsOK(K, runq')
  BY <1>4, <1>6, MoreServed
<1>8. JobsOK(job', runq')
  BY <1>4, <1>6, <1>7, OnOK, Zenon DEF Lists
<1>. QED  BY <1>5, <1>6, <1>8 DEF QueueOK

LEMMA SetReadyToRunOK ==
  ASSUME NEW J, JobsOK(J, runq), RunqOK(runq), NEW Q \in [Jobs -> QType],
         NEW j \in Jobs, poke \in Pokes, NEW p \in BOOLEAN, setReadyToRun(J, Q, j, p)
  PROVE  QueueOK'
<1>1. CASE setReady(J, Q, j)
  BY <1>1, SetReadyOK
<1>2. PICK K : K = [J EXCEPT ![j].state = "active"]
  OBVIOUS
<1>3. PICK L : L = On(K, j, "jcontrolq")
  OBVIOUS
<1>4. JobsOK(L, runq)
  <2>1. JobsOK(K, runq)
    BY <1>2, FieldsOK, Zenon DEF JobStates
  <2>. QED  BY <1>3, <2>1, OnOK DEF Lists
<1>5. CASE setReady(L, Q, j)
  BY <1>4, <1>5, SetReadyOK
<1>6. CASE /\ job' = [L EXCEPT ![j].pid = "live"]
           /\ IF p THEN pokeScheduler ELSE poke' = poke
           /\ q' = Q /\ fault' = InsertFault(J, j) /\ runq' = runq
  <2>1. JobsOK(job', runq')
    BY <1>4, <1>6, FieldsOK, Zenon DEF Pids
  <2>2. fault' \in Faults
    BY <1>6 DEF InsertFault, Faults, Assertions
  <2>3. poke' \in Pokes
    BY <1>6, Zenon DEF pokeScheduler, Pokes
  <2>. QED  BY <1>6, <2>1, <2>2, <2>3, Zenon DEF QueueOK
<1>. QED  BY <1>1, <1>2, <1>3, <1>5, <1>6, Zenon DEF setReadyToRun

LEMMA RetryOK ==
  ASSUME NEW J, NEW R, JobsOK(J, R), NEW j \in Jobs, NEW s \in JobStates,
         NEW p \in 0..255, PriOK(j, p)
  PROVE  JobsOK([J EXCEPT ![j] = [@ EXCEPT !.state = s, !.pri = p]], R)
<1>. DEFINE r == [J[j] EXCEPT !.state = s, !.pri = p]
<1>1. J[j] \in JobType
  BY DEF JobsOK
<1>2. J[j].on = "readyQ" => DestOf[j] \in Elems(R)
  BY DEF JobsOK, Served
<1>3. r \in JobType /\ r.pri = p /\ r.on = J[j].on
  BY <1>1, Zenon DEF JobType
<1>4. JobsOK([J EXCEPT ![j] = r], R)
  BY <1>2, <1>3, UpdOK, Zenon
<1>. QED  BY <1>4

(* sendJobDone keeps the queues in order.                                  *)
LEMMA SendJobDoneOK ==
  ASSUME QueueOK, NEW J, JobsOK(J, runq), NEW j \in Jobs, NEW status \in SendStatus \ {"nobatch"},
         sendJobDone(J, j, status)
  PROVE  QueueOK'
<1>. DEFINE st == Outcome(status, J[j].susp)
            prep == q[j].prep /\ status # "reformat"
            Q == [q EXCEPT ![j] = [@ EXCEPT !.status = st,
                                            !.prep = q[j].prep /\ status # "reformat"]]
            Covered == [Q EXCEPT ![j].prep = FALSE]
            Ended(s) == [J EXCEPT ![j].state = s]
            Retry(s) == [J EXCEPT ![j] = [@ EXCEPT !.state = s,
                                              !.pri = RetryPri(J[j].pri, UsrPri[j])]]
<1>1. RunqOK(runq) /\ q \in [Jobs -> QType] /\ poke \in Pokes /\ fault \in Faults
  BY DEF QueueOK
<1>2. st \in {"retry", "failed", "done"}
  BY DEF Outcome, SendStatus
<1>3. Q \in [Jobs -> QType] /\ Covered \in [Jobs -> QType]
  <2>1. PICK x \in SendStatus, y \in BOOLEAN : x = st /\ y = prep
    <3>1. q[j].prep \in BOOLEAN
      BY <1>1 DEF QType
    <3>. QED  BY <1>2, <3>1, Zenon DEF SendStatus
  <2>2. [q[j] EXCEPT !.status = x, !.prep = y] \in QType
    BY <1>1, Zenon DEF QType
  <2>3. Q = [q EXCEPT ![j] = [q[j] EXCEPT !.status = x, !.prep = y]]
    BY <2>1
  <2>4. Q \in [Jobs -> QType]
    BY <1>1, <2>2, <2>3
  <2>5. [Q[j] EXCEPT !.prep = FALSE] \in QType
    <3>. HIDE DEF Q
    <3>. QED  BY <2>4, Zenon DEF QType
  <2>6. Covered \in [Jobs -> QType]
    <3>. HIDE DEF Q
    <3>. QED  BY <2>4, <2>5
  <2>. QED  BY <2>4, <2>6
<1>4. ASSUME NEW s \in JobStates PROVE JobsOK(Ended(s), runq) /\ JobsOK(Retry(s), runq)
  <2>1. JobsOK(Ended(s), runq)
    BY FieldsOK
  <2>2. PriOK(j, J[j].pri)
    BY DEF JobsOK
  <2>3. PriOK(j, RetryPri(J[j].pri, UsrPri[j]))
    BY <2>2, RetryPriOK
  <2>4. RetryPri(J[j].pri, UsrPri[j]) \in 0..255
    BY <2>3, Zenon DEF PriOK
  <2>5. JobsOK(Retry(s), runq)
    BY <2>3, <2>4, RetryOK, Zenon
  <2>. QED  BY <2>1, <2>5
<1>. HIDE DEF st, prep, Q, Covered, Ended, Retry
<1>5. CASE st # "retry" /\ setDead(Ended(st), deleteRequest(Q, j, st), j)
  <2>1. st \in {"done", "failed"} /\ st \in JobStates
    BY <1>2, <1>5 DEF JobStates
  <2>2. deleteRequest(Q, j, st) \in [Jobs -> QType]
    BY <1>3, <2>1, DeleteOK
  <2>. QED  BY <1>1, <1>4, <1>5, <2>1, <2>2, SetDeadOK
<1>6. CASE setDead(Ended("failed"), deleteRequest(Q, j, "failed"), j)
  <2>1. deleteRequest(Q, j, "failed") \in [Jobs -> QType]
    BY <1>3, DeleteOK
  <2>2. JobsOK(Ended("failed"), runq)
    BY <1>4 DEF JobStates
  <2>. QED  BY <1>1, <1>6, <2>1, <2>2, SetDeadOK
<1>7. ASSUME NEW s \in {"sleeping", "ready"}, NEW Q1 \in [Jobs -> QType],
             IF J[j].susp
             THEN /\ job' = [Retry(s) EXCEPT ![j].susp = FALSE]
                  /\ q' = Q1
                  /\ UNCHANGED <<runq, poke, fault>>
             ELSE IF s = "sleeping"
             THEN /\ job' = Sleep(Off(Retry(s), j), j)
                  /\ q' = Q1
                  /\ UNCHANGED <<runq, poke, fault>>
             ELSE setReadyToRun(Off(Retry(s), j), Q1, j, FALSE)
      PROVE  QueueOK'
  <2>1. JobsOK(Retry(s), runq)
    BY <1>4 DEF JobStates
  <2>2. JobsOK(Off(Retry(s), j), runq)
    BY <2>1, OffOK
  <2>3. CASE job' = [Retry(s) EXCEPT ![j].susp = FALSE] /\ q' = Q1 /\ UNCHANGED <<runq, poke, fault>>
    <3>1. JobsOK(job', runq')
      BY <2>1, <2>3, FieldsOK, Zenon
    <3>. QED  BY <1>1, <2>3, <3>1 DEF QueueOK
  <2>4. CASE job' = Sleep(Off(Retry(s), j), j) /\ q' = Q1 /\ UNCHANGED <<runq, poke, fault>>
    <3>1. JobsOK(job', runq')
      BY <2>2, <2>4, SleepOK
    <3>. QED  BY <1>1, <2>4, <3>1 DEF QueueOK
  <2>5. CASE setReadyToRun(Off(Retry(s), j), Q1, j, FALSE)
    BY <1>1, <2>2, <2>5, SetReadyToRunOK, Zenon
  <2>. QED  BY <1>7, <2>3, <2>4, <2>5, Zenon
<1>8. \/ st # "retry" /\ setDead(Ended(st), deleteRequest(Q, j, st), j)
      \/ setDead(Ended("failed"), deleteRequest(Q, j, "failed"), j)
      \/ \E s \in {"sleeping", "ready"},
            Q1 \in {Q} \cup (IF "cover" \in Env THEN {Covered} ELSE {}) :
            IF J[j].susp
            THEN /\ job' = [Retry(s) EXCEPT ![j].susp = FALSE]
                 /\ q' = Q1
                 /\ UNCHANGED <<runq, poke, fault>>
            ELSE IF s = "sleeping"
            THEN /\ job' = Sleep(Off(Retry(s), j), j)
                 /\ q' = Q1
                 /\ UNCHANGED <<runq, poke, fault>>
            ELSE setReadyToRun(Off(Retry(s), j), Q1, j, FALSE)
  BY Zenon DEF sendJobDone, st, Q, Covered, Ended, Retry
<1>9. {Q} \cup (IF "cover" \in Env THEN {Covered} ELSE {}) \subseteq [Jobs -> QType]
  BY <1>3
<1>. QED  BY <1>5, <1>6, <1>7, <1>8, <1>9, Zenon

-----------------------------------------------------------------------------
(* The type invariant, with what it takes to be inductive.                 *)

OthersOK ==
  /\ bat \in [Modems -> BatType]
  /\ mdm \in [Modems -> MdmType]
  /\ frames \in Seq(FrameType)
  /\ dphase \in 1..3
  /\ op \in OpType /\ (op.k # "idle" => op.m \in Modems)
  /\ cur \in {"off", "head"} \cup Dests
  /\ calls \in Seq(Jobs)

TypeInv == QueueOK /\ OthersOK

LEMMA FillBatchOK ==
  ASSUME op \in OpType, NEW J, NEW B, NEW m \in Modems
  PROVE  /\ FillBatch(J, B, m) \in OpType
         /\ FillBatch(J, B, m).m = m
         /\ FillBatch(J, B, m).k \in {"fill", "send"}
<1>. DEFINE full == Cardinality(BatchJobs(J, m)) >= MaxBatchJobs
<1>1. PICK k \in {"fill", "send"} : k = IF full THEN "send" ELSE "fill"
  OBVIOUS
<1>2. PICK t \in SUBSET Jobs : t = IF full THEN {} ELSE ReadyQ(J, B[m].dest)
  BY Zenon DEF ReadyQ
<1>. HIDE DEF full
<1>3. FillBatch(J, B, m) = [op EXCEPT !.k = k, !.m = m, !.todo = t]
  BY <1>1, <1>2 DEF FillBatch, full
<1>4. /\ [op EXCEPT !.k = k, !.m = m, !.todo = t] \in OpType
      /\ [op EXCEPT !.k = k, !.m = m, !.todo = t].m = m
      /\ [op EXCEPT !.k = k, !.m = m, !.todo = t].k = k
  BY Zenon DEF OpType
<1>. QED  BY <1>3, <1>4

LEMMA BackOK ==
  ASSUME NEW o \in OpType
  PROVE  /\ [o EXCEPT !.back = TRUE] \in OpType
         /\ [o EXCEPT !.back = TRUE].m = o.m
         /\ [o EXCEPT !.back = TRUE].k = o.k
BY Zenon DEF OpType

LEMMA IdleOK == Idle \in OpType /\ Idle.k = "idle"
BY DEF Idle, OpType, SendStatus

(* A job that is put into the batch on m.                                  *)
LEMMA BatchedOK ==
  ASSUME NEW J, NEW R, JobsOK(J, R), NEW m \in Modems, NEW j \in Jobs, NEW slot \in Nat
  PROVE  JobsOK([J EXCEPT ![j] = [@ EXCEPT !.state = "active", !.on = "batch",
                                     !.in = m, !.slot = slot, !.modem = m]], R)
<1>. DEFINE r == [J[j] EXCEPT !.state = "active", !.on = "batch",
                              !.in = m, !.slot = slot, !.modem = m]
<1>1. J[j] \in JobType /\ PriOK(j, J[j].pri)
  BY DEF JobsOK
<1>2. r \in JobType /\ r.pri = J[j].pri /\ r.on = "batch"
  BY <1>1, Zenon DEF JobType, JobStates, Lists
<1>3. JobsOK([J EXCEPT ![j] = r], R)
  BY <1>1, <1>2, UpdOK, Zenon
<1>. QED  BY <1>3

LEMMA StatusOK ==
  ASSUME NEW Q \in [Jobs -> QType], NEW j, NEW st \in SendStatus
  PROVE  [Q EXCEPT ![j].status = st] \in [Jobs -> QType]
BY Zenon DEF QType

LEMMA PrepOK ==
  ASSUME NEW Q \in [Jobs -> QType], NEW j, NEW x \in BOOLEAN
  PROVE  /\ [Q EXCEPT ![j].prep = x] \in [Jobs -> QType]
         /\ [Q EXCEPT ![j].leak = x] \in [Jobs -> QType]
BY ZenonT(60) DEF QType

(* The phase of a batch.                                                   *)
LEMMA PhaseOK ==
  ASSUME NEW B \in [Modems -> BatType], NEW m \in Modems, NEW x \in {"none", "fill", "prep", "send"}
  PROVE  [B EXCEPT ![m].phase = x] \in [Modems -> BatType]
BY DEF BatType

LEMMA TodoOK ==
  ASSUME NEW B \in [Modems -> BatType], NEW m \in Modems, NEW D \in SUBSET Jobs
  PROVE  [B EXCEPT ![m] = [@ EXCEPT !.todo = D, !.called = FALSE]] \in [Modems -> BatType]
<1>1. [B[m] EXCEPT !.todo = D, !.called = FALSE] \in BatType
  BY Zenon DEF BatType
<1>. QED  BY <1>1

LEMMA ProcessJobOK ==
  ASSUME QueueOK, op \in OpType, NEW J, JobsOK(J, runq), NEW B \in [Modems -> BatType],
         NEW m \in Modems, NEW j \in Jobs, processJob(J, B, m, j)
  PROVE  /\ QueueOK'
         /\ \/ bat' = B /\ (op' = Idle \/ (op'.m = m /\ op'.k \in {"fill", "send"}))
            \/ bat' = [B EXCEPT ![m].phase = "prep"] /\ op' = Idle
         /\ bat' \in [Modems -> BatType]
         /\ op' \in OpType /\ (op'.k # "idle" => op'.m \in Modems)
<1>. DEFINE S == BatchJobs(J, m)
            slot == IF S = {} THEN 1 ELSE J[Last(J, S)].slot + 1
            J1 == [J EXCEPT ![j] = [@ EXCEPT !.state = "active", !.on = "batch",
                                             !.in = m, !.slot = slot, !.modem = m]]
            Q1 == [q EXCEPT ![j].status = "nobatch"]
<1>1. RunqOK(runq) /\ q \in [Jobs -> QType] /\ poke \in Pokes /\ fault \in Faults
  BY DEF QueueOK
<1>2. slot \in Nat
  <2>1. S \subseteq Jobs
    BY DEF BatchJobs
  <2>2. \A k \in Jobs : J[k].slot \in Nat
    BY DEF JobsOK, JobType
  <2>3. S # {} => Last(J, S) \in S
    <3>. HIDE DEF S
    <3>. QED  BY <2>1, LastIn
  <2>. HIDE DEF S
  <2>4. CASE S = {}
    BY <2>4
  <2>5. CASE S # {}
    <3>1. PICK k \in Jobs : k = Last(J, S)
      BY <2>1, <2>3, <2>5
    <3>2. J[k].slot \in Nat
      BY <2>2
    <3>. QED  BY <2>5, <3>1, <3>2
  <2>. QED  BY <2>4, <2>5
<1>3. JobsOK(J1, runq)
  <2>. HIDE DEF slot
  <2>. QED  BY <1>2, BatchedOK, Zenon
<1>4. Q1 \in [Jobs -> QType]
  BY <1>1, StatusOK, Zenon DEF SendStatus
<1>5. [B EXCEPT ![m].phase = "prep"] \in [Modems -> BatType]
  BY PhaseOK, Zenon
<1>. HIDE DEF J1, Q1, slot, S
<1>6. CASE /\ setDead(J1, deleteRequest(Q1, j, "failed"), j)
           /\ bat' = B /\ op' = Idle
  <2>1. deleteRequest(Q1, j, "failed") \in [Jobs -> QType]
    BY <1>4, DeleteOK
  <2>2. QueueOK'
    BY <1>1, <1>3, <1>6, <2>1, SetDeadOK
  <2>3. op' \in OpType /\ op'.k = "idle"
    BY <1>6, IdleOK
  <2>4. bat' = B /\ op' = Idle
    BY <1>6
  <2>. QED  BY <2>2, <2>3, <2>4
<1>7. CASE /\ job' = J1 /\ q' = Q1 /\ bat' = B /\ op' = FillBatch(J1, B, m)
           /\ UNCHANGED <<runq, poke, fault>>
  <2>1. QueueOK'
    BY <1>1, <1>3, <1>4, <1>7 DEF QueueOK
  <2>2. op' \in OpType /\ op'.m = m /\ op'.k \in {"fill", "send"}
    BY <1>7, FillBatchOK
  <2>3. bat' = B
    BY <1>7
  <2>. QED  BY <2>1, <2>2, <2>3
<1>8. CASE /\ job' = [J1 EXCEPT ![j].pid = "live"] /\ q' = Q1
           /\ bat' = [B EXCEPT ![m].phase = "prep"] /\ op' = Idle
           /\ fault' = IF op.back THEN "PID not empty for Batch::startPrepare()" ELSE fault
           /\ UNCHANGED <<runq, poke>>
  <2>1. JobsOK(job', runq')
    BY <1>3, <1>8, FieldsOK, Zenon DEF Pids
  <2>2. fault' \in Faults
    BY <1>1, <1>8 DEF Faults, Assertions
  <2>3. QueueOK'
    BY <1>1, <1>4, <1>8, <2>1, <2>2 DEF QueueOK
  <2>. QED  BY <1>5, <1>8, <2>3, IdleOK
<1>9. CASE /\ job' = Delay(Off(J1, j), j) /\ q' = Q1 /\ bat' = B
           /\ op' = [FillBatch(job', B, m) EXCEPT !.back = TRUE]
           /\ UNCHANGED <<runq, poke, fault>>
  <2>1. JobsOK(job', runq')
    BY <1>3, <1>9, OffOK, SleepOK
  <2>2. QueueOK'
    BY <1>1, <1>4, <1>9, <2>1 DEF QueueOK
  <2>3. PICK o : o = FillBatch(job', B, m)
    OBVIOUS
  <2>4. o \in OpType /\ o.m = m /\ o.k \in {"fill", "send"}
    BY <2>3, FillBatchOK
  <2>5. op' \in OpType /\ op'.m = m /\ op'.k \in {"fill", "send"}
    BY <1>9, <2>3, <2>4, BackOK
  <2>6. bat' = B
    BY <1>9
  <2>. QED  BY <2>2, <2>5, <2>6
<1>. QED  BY <1>6, <1>7, <1>8, <1>9, Zenon DEF processJob, J1, Q1, slot, S

LEMMA FillBatchStep ==
  ASSUME TypeInv, fillBatch
  PROVE  TypeInv'
<1>1. QueueOK /\ OthersOK
  BY DEF TypeInv
<1>2. /\ JobsOK(job, runq) /\ RunqOK(runq) /\ q \in [Jobs -> QType]
      /\ poke \in Pokes /\ fault \in Faults
      /\ op \in OpType /\ op.m \in Modems /\ bat \in [Modems -> BatType]
  BY <1>1 DEF QueueOK, OthersOK, fillBatch
<1>3. UNCHANGED <<mdm, frames, dphase, cur, calls>>
  BY DEF fillBatch
<1>4. ASSUME QueueOK', bat' \in [Modems -> BatType], op' \in OpType,
             op'.k # "idle" => op'.m \in Modems
      PROVE  TypeInv'
  BY <1>1, <1>3, <1>4 DEF TypeInv, OthersOK
<1>5. ASSUME NEW j \in Jobs, op' = [op EXCEPT !.todo = @ \ {j}]
      PROVE  op' \in OpType /\ op'.m \in Modems
  BY <1>2, <1>5 DEF OpType
<1>6. CASE op' = [op EXCEPT !.k = "send"] /\ UNCHANGED <<job, q, runq, bat, poke, fault>>
  <2>1. op' \in OpType /\ op'.m \in Modems
    BY <1>2, <1>6 DEF OpType
  <2>2. QueueOK'
    BY <1>1, <1>6 DEF QueueOK
  <2>. QED  BY <1>2, <1>4, <1>6, <2>1, <2>2
<1>7. ASSUME NEW j \in Jobs, NEW Q \in [Jobs -> QType], setDead(job, Q, j),
             op' = [op EXCEPT !.todo = @ \ {j}], UNCHANGED bat
      PROVE  TypeInv'
  <2>1. QueueOK'
    BY <1>2, <1>7, SetDeadOK, Zenon
  <2>. QED  BY <1>2, <1>4, <1>5, <1>7, <2>1, Zenon
<1>8. ASSUME NEW j \in Jobs, job' = Delay(Off(job, j), j),
             op' = [op EXCEPT !.todo = @ \ {j}], UNCHANGED <<q, runq, bat, poke, fault>>
      PROVE  TypeInv'
  <2>1. JobsOK(job', runq')
    BY <1>2, <1>8, OffOK, SleepOK
  <2>2. QueueOK'
    BY <1>2, <1>8, <2>1 DEF QueueOK
  <2>. QED  BY <1>2, <1>4, <1>5, <1>8, <2>2
<1>9. ASSUME NEW j \in Jobs, processJob(Off(job, j), bat, op.m, j)
      PROVE  TypeInv'
  <2>1. JobsOK(Off(job, j), runq)
    BY <1>2, OffOK
  <2>. QED  BY <1>1, <1>2, <1>4, <1>9, <2>1, ProcessJobOK
<1>10. ASSUME NEW j \in Jobs, op' = [op EXCEPT !.todo = @ \ {j}],
              UNCHANGED <<job, q, runq, bat, poke, fault>>
       PROVE  TypeInv'
  <2>1. QueueOK'
    BY <1>1, <1>10 DEF QueueOK
  <2>. QED  BY <1>2, <1>4, <1>5, <1>10, <2>1
<1>11. ASSUME NEW j \in Highest(job, op.todo),
          \/ /\ ~Readable(j)
             /\ setDead(job, q, j)
             /\ op' = [op EXCEPT !.todo = @ \ {j}]
             /\ UNCHANGED bat
          \/ /\ Readable(j) /\ MayReject(j)
             /\ setDead(job, deleteRequest(q, j, "failed"), j)
             /\ op' = [op EXCEPT !.todo = @ \ {j}]
             /\ UNCHANGED bat
          \/ /\ Readable(j) /\ ~MustReject(j) /\ "delay" \in Env
             /\ job' = Delay(Off(job, j), j)
             /\ op' = [op EXCEPT !.todo = @ \ {j}]
             /\ UNCHANGED <<q, runq, bat, poke, fault>>
          \/ /\ Readable(j) /\ ~MustReject(j) /\ TRUE \in canJobBatch(op.m, j)
             /\ processJob(Off(job, j), bat, op.m, j)
          \/ /\ Readable(j) /\ ~MustReject(j) /\ FALSE \in canJobBatch(op.m, j)
             /\ op' = [op EXCEPT !.todo = @ \ {j}]
             /\ UNCHANGED <<job, q, runq, bat, poke, fault>>
       PROVE TypeInv'
  <2>1. j \in Jobs
    BY <1>2 DEF OpType, Highest
  <2>2. deleteRequest(q, j, "failed") \in [Jobs -> QType]
    BY <1>2, <2>1, DeleteOK, Zenon
  <2>. QED  BY <1>2, <1>7, <1>8, <1>9, <1>10, <1>11, <2>1, <2>2, Zenon
<1>. QED  BY <1>6, <1>11, Zenon DEF fillBatch


(* Editing several Jobs at once.                                           *)
LEMMA ManyOK ==
  ASSUME NEW J, NEW R, JobsOK(J, R), NEW K \in [Jobs -> JobType],
         \A j \in Jobs : /\ K[j].pri = J[j].pri \/ K[j].pri = UsrPri[j]
                         /\ K[j].slot = 0 \/ K[j].slot = J[j].slot
                         /\ K[j].on = "readyQ" => J[j].on = "readyQ"
  PROVE  JobsOK(K, R)
<1>0. \A j \in Jobs : PriOK(j, J[j].pri) /\ PriOK(j, UsrPri[j])
  BY UsrPriOK DEF JobsOK
<1>1. PICK n \in Nat : \A j \in Jobs : J[j].slot <= n
  BY DEF JobsOK, Bounded
<1>2. \A j \in Jobs : K[j].slot <= n
  BY <1>1
<1>3. Bounded(K)
  BY <1>2 DEF Bounded
<1>. QED  BY <1>0, <1>3, Zenon DEF JobsOK, Served

LEMMA PidsOK ==
  ASSUME NEW J, NEW R, JobsOK(J, R), NEW S, NEW x \in Pids
  PROVE  JobsOK([j \in Jobs |-> IF j \in S THEN [J[j] EXCEPT !.pid = x] ELSE J[j]], R)
<1>. DEFINE K == [j \in Jobs |-> IF j \in S THEN [J[j] EXCEPT !.pid = x] ELSE J[j]]
<1>1. ASSUME NEW j \in Jobs
      PROVE  K[j] \in JobType /\ K[j].pri = J[j].pri /\ K[j].slot = J[j].slot /\ K[j].on = J[j].on
  <2>1. J[j] \in JobType
    BY DEF JobsOK
  <2>2. /\ [J[j] EXCEPT !.pid = x] \in JobType
        /\ [J[j] EXCEPT !.pid = x].pri = J[j].pri
        /\ [J[j] EXCEPT !.pid = x].slot = J[j].slot
        /\ [J[j] EXCEPT !.pid = x].on = J[j].on
    BY <2>1 DEF JobType
  <2>. QED  BY <2>1, <2>2
<1>2. K \in [Jobs -> JobType]
  BY <1>1
<1>. HIDE DEF K
<1>3. JobsOK(K, R)
  BY <1>1, <1>2, ManyOK
<1>. QED  BY <1>3 DEF K

LEMMA ReleaseOK ==
  ASSUME mdm \in [Modems -> MdmType], NEW m \in Modems, Release(m)
  PROVE  mdm' \in [Modems -> MdmType] /\ poke' \in Pokes
BY Zenon DEF Release, pokeScheduler, Pokes, MdmType

LEMMA SendStartStep ==
  ASSUME TypeInv, sendStart
  PROVE  TypeInv'
<1>1. QueueOK /\ OthersOK
  BY DEF TypeInv
<1>2. /\ JobsOK(job, runq) /\ RunqOK(runq) /\ q \in [Jobs -> QType]
      /\ poke \in Pokes /\ fault \in Faults
      /\ op \in OpType /\ op.m \in Modems
      /\ bat \in [Modems -> BatType] /\ mdm \in [Modems -> MdmType]
  BY <1>1, Zenon DEF QueueOK, OthersOK, sendStart
<1>3. UNCHANGED <<q, runq, frames, dphase, cur, calls>>
  BY Zenon DEF sendStart
<1>4. PICK m \in Modems : m = op.m
  BY <1>2
<1>5. PICK S \in SUBSET Jobs : S = BatchJobs(job, m)
  BY Zenon DEF BatchJobs
<1>6. PICK J : J = [j \in Jobs |-> IF j \in S THEN [job[j] EXCEPT !.pid = "none"] ELSE job[j]]
  BY Zenon
<1>7. JobsOK(J, runq)
  BY <1>2, <1>6, PidsOK DEF Pids
<1>8. CASE /\ S # {}
           /\ job' = [J EXCEPT ![First(J, S)].pid = "live"]
           /\ bat' = [bat EXCEPT ![m] = [@ EXCEPT !.phase = "send", !.todo = S,
                                                  !.called = FALSE]]
           /\ op' = Idle
           /\ fault' = IF op.back THEN "PID not empty for Batch::startPrepare()"
                                  ELSE fault
           /\ UNCHANGED <<mdm, poke>>
  <2>1. First(J, S) \in Jobs
    BY <1>7, <1>8, FirstIn
  <2>2. JobsOK(job', runq')
    BY <1>3, <1>7, <1>8, <2>1, FieldsOK, Zenon DEF Pids
  <2>3. bat' \in [Modems -> BatType]
    BY <1>2, <1>8, ZenonT(60) DEF BatType
  <2>4. fault' \in Faults
    BY <1>2, <1>8 DEF Faults, Assertions
  <2>5. QueueOK'
    BY <1>2, <1>3, <1>8, <2>2, <2>4 DEF QueueOK
  <2>6. OthersOK'
    BY <1>1, <1>2, <1>3, <1>8, <2>3, IdleOK DEF OthersOK
  <2>. QED  BY <2>5, <2>6 DEF TypeInv
<1>9. CASE /\ job' = J
           /\ op' = [op EXCEPT !.k = "done", !.todo = S, !.st = "retry", !.first = TRUE]
           /\ Release(m)
           /\ UNCHANGED <<bat, fault>>
  <2>1. mdm' \in [Modems -> MdmType] /\ poke' \in Pokes
    BY <1>2, <1>9, ReleaseOK
  <2>2. op' \in OpType /\ op'.m \in Modems
    BY <1>2, <1>9, Zenon DEF OpType, SendStatus
  <2>3. QueueOK'
    BY <1>2, <1>3, <1>7, <1>9, <2>1 DEF QueueOK
  <2>4. OthersOK'
    BY <1>1, <1>2, <1>3, <1>9, <2>1, <2>2 DEF OthersOK
  <2>. QED  BY <2>3, <2>4 DEF TypeInv
<1>. QED  BY <1>4, <1>5, <1>6, <1>8, <1>9, ZenonT(30) DEF sendStart

LEMMA SendDoneJobStep ==
  ASSUME TypeInv, sendDoneJob
  PROVE  TypeInv'
<1>1. QueueOK /\ OthersOK
  BY DEF TypeInv
<1>2. /\ JobsOK(job, runq) /\ RunqOK(runq) /\ q \in [Jobs -> QType]
      /\ poke \in Pokes /\ fault \in Faults
      /\ op \in OpType /\ op.m \in Modems
  BY <1>1, Zenon DEF QueueOK, OthersOK, sendDoneJob
<1>3. UNCHANGED <<bat, mdm, frames, dphase, cur, calls>>
  BY Zenon DEF sendDoneJob
<1>4. PICK j \in Jobs : j = First(job, op.todo)
  <2>1. op.todo \subseteq Jobs /\ op.todo # {}
    BY <1>2, Zenon DEF OpType, sendDoneJob
  <2>. QED  BY <1>2, <2>1, FirstIn
<1>5. PICK status \in SendStatus :
         status = IF op.first /\ q[j].status = "nobatch" THEN op.st ELSE q[j].status
  BY <1>2 DEF OpType, QType
<1>6. PICK J : J = [job EXCEPT ![j].modem = NoModem]
  BY Zenon
<1>7. JobsOK(J, runq) /\ JobsOK(Off(J, j), runq)
  BY <1>2, <1>6, FieldsOK, OffOK, Zenon
<1>8. op' \in OpType /\ op'.m \in Modems
  <2>1. PICK b \in BOOLEAN : b = (op.first /\ ~Readable(j))
    BY <1>2, Zenon DEF OpType
  <2>2. op' = [op EXCEPT !.todo = @ \ {j}, !.first = b]
    BY <1>4, <2>1, Zenon DEF sendDoneJob
  <2>. QED  BY <1>2, <2>2, Zenon DEF OpType
<1>9. ASSUME fault' = "flock on itself", UNCHANGED <<job, q, runq, poke>> PROVE QueueOK'
  BY <1>2, <1>9, Zenon DEF QueueOK, Faults
<1>10. ASSUME setDead(job, q, j) PROVE QueueOK'
  BY <1>2, <1>10, SetDeadOK, Zenon
<1>11. ASSUME setReadyToRun(Off(J, j), q, j, FALSE) PROVE QueueOK'
  BY <1>2, <1>7, <1>11, SetReadyToRunOK
<1>12. ASSUME status # "nobatch", sendJobDone(J, j, status) PROVE QueueOK'
  BY <1>1, <1>7, <1>12, SendJobDoneOK, Zenon
<1>13. QueueOK'
  BY <1>4, <1>5, <1>6, <1>9, <1>10, <1>11, <1>12, Zenon DEF sendDoneJob
<1>. QED  BY <1>1, <1>3, <1>8, <1>13 DEF TypeInv, OthersOK

LEMMA SendDoneEndStep ==
  ASSUME TypeInv, sendDoneEnd
  PROVE  TypeInv'
<1>1. QueueOK /\ OthersOK
  BY DEF TypeInv
<1>2. /\ JobsOK(job, runq) /\ RunqOK(runq) /\ q \in [Jobs -> QType]
      /\ poke \in Pokes /\ fault \in Faults
      /\ op \in OpType /\ op.m \in Modems
      /\ bat \in [Modems -> BatType]
  BY <1>1, Zenon DEF QueueOK, OthersOK, sendDoneEnd
<1>3. UNCHANGED <<q, mdm, frames, dphase, cur, poke, calls>> /\ op' = Idle
  BY Zenon DEF sendDoneEnd
<1>4. \A j \in Jobs : /\ job[j] \in JobType
                      /\ [job[j] EXCEPT !.on = "freed", !.in = NoModem, !.slot = 0] \in JobType
  <2>. SUFFICES ASSUME NEW j \in Jobs
                PROVE  /\ job[j] \in JobType
                       /\ [job[j] EXCEPT !.on = "freed", !.in = NoModem, !.slot = 0] \in JobType
    BY Zenon
  <2>1. job[j] \in JobType
    BY <1>2 DEF JobsOK
  <2>. QED  BY <2>1 DEF JobType, Lists
<1>5. PICK S : job' = [j \in Jobs |-> IF j \in S
                 THEN [job[j] EXCEPT !.on = "freed", !.in = NoModem, !.slot = 0] ELSE job[j]]
  BY Zenon DEF sendDoneEnd
<1>6. JobsOK(job', runq)
  <2>1. job' \in [Jobs -> JobType]
    BY <1>4, <1>5, Zenon
  <2>2. \A j \in Jobs : /\ job'[j].pri = job[j].pri
                        /\ job'[j].slot = 0 \/ job'[j].slot = job[j].slot
                        /\ job'[j].on = "readyQ" => job[j].on = "readyQ"
    <3>. SUFFICES ASSUME NEW j \in Jobs
                  PROVE  /\ job'[j].pri = job[j].pri
                         /\ job'[j].slot = 0 \/ job'[j].slot = job[j].slot
                         /\ job'[j].on = "readyQ" => job[j].on = "readyQ"
      OBVIOUS
    <3>1. CASE j \notin S
      <4>1. job'[j] = job[j]
        BY <1>5, <3>1, Zenon
      <4>. QED  BY <4>1
    <3>2. CASE j \in S
      <4>1. job'[j] = [job[j] EXCEPT !.on = "freed", !.in = NoModem, !.slot = 0]
        BY <1>5, <3>2, Zenon
      <4>2. job[j] \in JobType
        BY <1>4, Zenon
      <4>3. job'[j].pri = job[j].pri /\ job'[j].slot = 0 /\ job'[j].on = "freed"
        BY <4>1, <4>2 DEF JobType
      <4>. QED  BY <4>3
    <3>. QED  BY <3>1, <3>2
  <2>. QED  BY <1>2, <2>1, <2>2, ManyOK
<1>7. bat' \in [Modems -> BatType]
  <2>1. bat' = [bat EXCEPT ![op.m] = [bat[op.m] EXCEPT !.phase = "none", !.todo = {},
                                                       !.called = FALSE]]
    BY Zenon DEF sendDoneEnd
  <2>2. bat[op.m] \in BatType
    BY <1>2
  <2>3. [bat[op.m] EXCEPT !.phase = "none", !.todo = {}, !.called = FALSE] \in BatType
    BY <2>2 DEF BatType
  <2>. QED  BY <1>2, <2>1, <2>3
<1>8. RunqOK(runq') /\ JobsOK(job', runq')
  <2>1. runq' = DropIfEmpty(job', bat', bat[op.m].dest)
    BY Zenon DEF sendDoneEnd
  <2>. QED  BY <1>2, <1>6, <2>1, DropOK, Zenon
<1>9. fault' \in Faults
  BY <1>2, Zenon DEF sendDoneEnd, Faults
<1>10. QueueOK'
  BY <1>2, <1>3, <1>8, <1>9 DEF QueueOK
<1>11. OthersOK'
  BY <1>1, <1>3, <1>7, IdleOK DEF OthersOK
<1>. QED  BY <1>10, <1>11 DEF TypeInv


LEMMA DispatchOK ==
  ASSUME NEW p \in 1..3, Dispatch(p)
  PROVE  dphase' \in 1..3 /\ fault = "none" /\ op.k = "idle" /\ cur = "off"
BY DEF Dispatch, Dispatching

LEMMA RunSchedulerStep ==
  ASSUME TypeInv, runScheduler
  PROVE  TypeInv'
<1>1. dphase' \in 1..3
  BY DispatchOK DEF runScheduler
<1>. QED  BY <1>1 DEF TypeInv, QueueOK, OthersOK, runScheduler, Pokes

LEMMA ReapStep ==
  ASSUME TypeInv, reapDeadJobs
  PROVE  TypeInv'
<1>1. ASSUME NEW j \in Jobs
      PROVE  /\ NewJob(UsrPri[j]) \in JobType /\ NewJob(UsrPri[j]).pri = UsrPri[j]
             /\ NewJob(UsrPri[j]).slot = 0 /\ NewJob(UsrPri[j]).on = "off"
  BY FaxQueueAssumption DEF NewJob, JobType, JobStates, Lists, Pids
<1>2. JobsOK(job, runq) /\ job \in [Jobs -> JobType]
  BY DEF TypeInv, QueueOK, JobsOK
<1>3. job' = [j \in Jobs |-> IF job[j].on = "deadq" THEN NewJob(UsrPri[j]) ELSE job[j]]
  BY Zenon DEF reapDeadJobs
<1>4. job' \in [Jobs -> JobType]
  BY <1>1, <1>2, <1>3
<1>5. \A j \in Jobs : /\ job'[j].pri = job[j].pri \/ job'[j].pri = UsrPri[j]
                      /\ job'[j].slot = 0 \/ job'[j].slot = job[j].slot
                      /\ job'[j].on = "readyQ" => job[j].on = "readyQ"
  BY <1>1, <1>3
<1>6. JobsOK(job', runq')
  <2>1. JobsOK(job', runq)
    BY <1>2, <1>4, <1>5, ManyOK
  <2>. QED  BY <2>1, Zenon DEF reapDeadJobs
<1>. QED  BY <1>6 DEF TypeInv, QueueOK, OthersOK, reapDeadJobs

LEMMA EmptyDestStep ==
  ASSUME TypeInv, emptyDest
  PROVE  TypeInv'
<1>1. JobsOK(job, runq) /\ RunqOK(runq)
  BY DEF TypeInv, QueueOK
<1>2. PICK d : ReadyQ(job, d) = {} /\ runq' = Without(runq, d) /\ job' = job
  BY DEF emptyDest
<1>3. JobsOK(job', runq') /\ RunqOK(runq')
  BY <1>1, <1>2, EmptyOK
<1>. QED  BY <1>3 DEF TypeInv, QueueOK, OthersOK, emptyDest

(* Modems that could not be locked, and one that could.                    *)
LEMMA MarkedOK ==
  ASSUME mdm \in [Modems -> MdmType], NEW L
  PROVE  /\ Marked(L) \in [Modems -> MdmType]
         /\ \A m \in Modems :
              [Marked(L) EXCEPT ![m] = [@ EXCEPT !.state = "BUSY", !.lock = "faxq"]]
                \in [Modems -> MdmType]
<1>1. Marked(L) \in [Modems -> MdmType]
  <2>1. \A m \in Modems : [mdm[m] EXCEPT !.state = "BUSY", !.poll = TRUE] \in MdmType
    BY Zenon DEF MdmType
  <2>. QED  BY <2>1, Zenon DEF Marked
<1>2. PICK M : M = Marked(L)
  OBVIOUS
<1>3. \A m \in Modems : [M EXCEPT ![m] = [@ EXCEPT !.state = "BUSY", !.lock = "faxq"]]
                           \in [Modems -> MdmType]
  BY <1>1, <1>2, ZenonT(60) DEF MdmType
<1>. QED  BY <1>1, <1>2, <1>3, Zenon

(* What scheduleJob does with a job that can be looked at.                 *)
Considered(j, d) ==
  \/ ~Readable(j) /\ setDead(job, q, j) /\ UNCHANGED <<bat, mdm, op>>
  \/ setDead(job, deleteRequest(q, j, "failed"), j) /\ UNCHANGED <<bat, mdm, op>>
  \/ job' = Delay(Off(job, j), j) /\ UNCHANGED <<q, runq, bat, mdm, op, poke, fault>>
  \/ job' = [job EXCEPT ![j].state = "blocked"] /\ UNCHANGED <<q, runq, bat, mdm, op, poke, fault>>
  \/ \E L : mdm' = Marked(L) /\ UNCHANGED <<job, q, runq, bat, op, poke, fault>>
  \/ \E m \in findModem(j), L \in SUBSET (findModem(j) \ {x \in findModem(j) : Lockable(x)}) :
       /\ Lockable(m)
       /\ isOKToCall(d)
       /\ mdm' = [Marked(L) EXCEPT ![m] = [@ EXCEPT !.state = "BUSY", !.lock = "faxq"]]
       /\ processJob(Off(job, j), [bat EXCEPT ![m] = [@ EXCEPT !.phase = "fill", !.dest = d]], m, j)

LEMMA ScheduleCases ==
  ASSUME scheduleJob
  PROVE  /\ fault = "none" /\ op.k = "idle" /\ cur # "off"
         /\ UNCHANGED <<frames, dphase, calls>>
         /\ \E j \in Jobs :
              /\ job[j].on = "readyQ"
              /\ cur' = DestOf[j]
              /\ \/ /\ job[j].tts \/ job[j].modem # NoModem
                    /\ fault' \in {"Sleeping job on run queue", "Job on run queue holding modem"}
                    /\ UNCHANGED <<job, q, runq, bat, mdm, op, poke>>
                 \/ Considered(j, DestOf[j])
<1>1. fault = "none" /\ op.k = "idle" /\ cur # "off" /\ UNCHANGED <<frames, dphase, calls>>
  BY Zenon DEF scheduleJob, Scheduling
<1>2. PICK d : d = runq[Position + 1]
  OBVIOUS
<1>. DEFINE free(j) == {m \in findModem(j) : Lockable(m)}
            held(j) == findModem(j) \ free(j)
<1>3. PICK j \in Highest(job, ReadyQ(job, d)) :
     /\ cur' = d
     /\ IF job[j].tts \/ job[j].modem # NoModem
        THEN /\ fault' = IF job[j].tts THEN "Sleeping job on run queue"
                         ELSE "Job on run queue holding modem"
             /\ UNCHANGED <<job, q, runq, bat, mdm, op, poke>>
        ELSE
        \/ /\ ~Readable(j)
           /\ setDead(job, q, j)
           /\ UNCHANGED <<bat, mdm, op>>
        \/ /\ Readable(j) /\ MayReject(j)
           /\ setDead(job, deleteRequest(q, j, "failed"), j)
           /\ UNCHANGED <<bat, mdm, op>>
        \/ /\ Readable(j) /\ ~MustReject(j) /\ "delay" \in Env
           /\ job' = Delay(Off(job, j), j)
           /\ UNCHANGED <<q, runq, bat, mdm, op, poke, fault>>
        \/ /\ Readable(j) /\ ~MustReject(j) /\ ~isOKToCall(d)
           /\ job' = [job EXCEPT ![j].state = "blocked"]
           /\ UNCHANGED <<q, runq, bat, mdm, op, poke, fault>>
        \/ /\ Readable(j) /\ ~MustReject(j) /\ isOKToCall(d)
           /\ free(j) = {}
           /\ mdm' = Marked(held(j))
           /\ UNCHANGED <<job, q, runq, bat, op, poke, fault>>
        \/ /\ Readable(j) /\ ~MustReject(j) /\ isOKToCall(d)
           /\ \E m \in free(j), L \in SUBSET held(j) :
                /\ mdm' = [Marked(L) EXCEPT ![m] =
                             [@ EXCEPT !.state = "BUSY", !.lock = "faxq"]]
                /\ processJob(Off(job, j),
                     [bat EXCEPT ![m] = [@ EXCEPT !.phase = "fill", !.dest = d]],
                     m, j)
  BY <1>2, Zenon DEF scheduleJob
<1>4. j \in Jobs /\ job[j].on = "readyQ" /\ d = DestOf[j]
  BY DEF Highest, ReadyQ
<1>5. CASE job[j].tts \/ job[j].modem # NoModem
  BY <1>1, <1>3, <1>4, <1>5, Zenon
<1>6. CASE ~(job[j].tts \/ job[j].modem # NoModem)
  <2>1. Considered(j, d)
    BY <1>3, <1>6, Zenon DEF Considered
  <2>. QED  BY <1>1, <1>3, <1>4, <2>1, Zenon
<1>. QED  BY <1>5, <1>6

LEMMA ScheduleJobStep ==
  ASSUME TypeInv, scheduleJob
  PROVE  TypeInv'
<1>1. QueueOK /\ OthersOK
  BY DEF TypeInv
<1>2. /\ JobsOK(job, runq) /\ RunqOK(runq) /\ q \in [Jobs -> QType]
      /\ poke \in Pokes /\ fault \in Faults
      /\ op \in OpType /\ op.k = "idle"
      /\ bat \in [Modems -> BatType] /\ mdm \in [Modems -> MdmType]
  BY <1>1, ScheduleCases, Zenon DEF QueueOK, OthersOK
<1>3. UNCHANGED <<frames, dphase, calls>>
  BY ScheduleCases, Zenon
<1>4. PICK j \in Jobs :
         /\ cur' = DestOf[j]
         /\ \/ /\ fault' \in {"Sleeping job on run queue", "Job on run queue holding modem"}
               /\ UNCHANGED <<job, q, runq, bat, mdm, op, poke>>
            \/ Considered(j, DestOf[j])
  BY ScheduleCases, Zenon
<1>5. DestOf[j] \in Dests /\ cur' \in Dests
  BY <1>4, FaxQueueAssumption, Zenon
<1>6. ASSUME QueueOK', bat' \in [Modems -> BatType], mdm' \in [Modems -> MdmType],
             op' \in OpType, op'.k # "idle" => op'.m \in Modems
      PROVE  TypeInv'
  BY <1>1, <1>3, <1>5, <1>6 DEF TypeInv, OthersOK
<1>7. CASE /\ fault' \in {"Sleeping job on run queue", "Job on run queue holding modem"}
           /\ UNCHANGED <<job, q, runq, bat, mdm, op, poke>>
  <2>1. fault' \in Faults
    BY <1>7, Zenon DEF Faults, Assertions
  <2>2. QueueOK'
    BY <1>2, <1>7, <2>1, Zenon DEF QueueOK
  <2>. QED  BY <1>2, <1>6, <1>7, <2>2, Zenon
<1>8. ASSUME NEW Q \in [Jobs -> QType], setDead(job, Q, j), UNCHANGED <<bat, mdm, op>>
      PROVE  TypeInv'
  <2>1. QueueOK'
    BY <1>2, <1>8, SetDeadOK, Zenon
  <2>. QED  BY <1>2, <1>6, <1>8, <2>1
<1>9. ASSUME JobsOK(job', runq), UNCHANGED <<q, runq, bat, mdm, op, poke, fault>>
      PROVE  TypeInv'
  <2>1. QueueOK'
    BY <1>2, <1>9, Zenon DEF QueueOK
  <2>. QED  BY <1>2, <1>6, <1>9, <2>1, Zenon
<1>10. ASSUME NEW L, mdm' = Marked(L), UNCHANGED <<job, q, runq, bat, op, poke, fault>>
       PROVE  TypeInv'
  <2>1. mdm' \in [Modems -> MdmType]
    BY <1>2, <1>10, MarkedOK, Zenon
  <2>2. QueueOK'
    BY <1>1, <1>10 DEF QueueOK
  <2>. QED  BY <1>2, <1>6, <1>10, <2>1, <2>2
<1>11. ASSUME NEW m \in findModem(j), NEW L,
              mdm' = [Marked(L) EXCEPT ![m] = [@ EXCEPT !.state = "BUSY", !.lock = "faxq"]],
              processJob(Off(job, j), [bat EXCEPT ![m] = [@ EXCEPT !.phase = "fill",
                                                   !.dest = DestOf[j]]], m, j)
       PROVE  TypeInv'
  <2>1. m \in Modems
    BY FaxQueueAssumption DEF findModem
  <2>2. mdm' \in [Modems -> MdmType]
    BY <1>2, <1>11, <2>1, MarkedOK, Zenon
  <2>3. PICK B : B = [bat EXCEPT ![m] = [@ EXCEPT !.phase = "fill", !.dest = DestOf[j]]]
    BY Zenon
  <2>4. B \in [Modems -> BatType]
    BY <1>2, <1>5, <2>1, <2>3 DEF BatType
  <2>5. JobsOK(Off(job, j), runq)
    BY <1>2, OffOK
  <2>6. /\ QueueOK' /\ bat' \in [Modems -> BatType]
        /\ op' \in OpType /\ (op'.k # "idle" => op'.m \in Modems)
    BY <1>1, <1>2, <1>11, <2>1, <2>3, <2>4, <2>5, ProcessJobOK
  <2>. QED  BY <1>6, <2>2, <2>6
<1>12. /\ JobsOK(Delay(Off(job, j), j), runq)
       /\ JobsOK([job EXCEPT ![j].state = "blocked"], runq)
       /\ deleteRequest(q, j, "failed") \in [Jobs -> QType]
  BY <1>2, OffOK, SleepOK, FieldsOK, DeleteOK, Zenon DEF JobStates
<1>. QED  BY <1>2, <1>4, <1>7, <1>8, <1>9, <1>10, <1>11, <1>12, Zenon DEF Considered


(* An action that leaves all but the queues and the dispatcher alone.      *)
LEMMA HandlerOK ==
  ASSUME TypeInv, QueueOK', dphase' \in 1..3, UNCHANGED <<bat, mdm, frames, op, cur, calls>>
  PROVE  TypeInv'
BY DEF TypeInv, OthersOK

(* The queues when an action leaves some of them alone.                    *)
LEMMA JobsOnly ==
  ASSUME QueueOK, JobsOK(job', runq), UNCHANGED <<q, runq, fault>>, poke' \in Pokes
  PROVE  QueueOK'
BY DEF QueueOK

LEMMA FaultOnly ==
  ASSUME QueueOK, fault' \in Faults, UNCHANGED <<job, q, runq, poke>>
  PROVE  QueueOK'
BY DEF QueueOK

LEMMA PrepareDoneStep ==
  ASSUME TypeInv, NEW m \in Modems, prepareDone(m)
  PROVE  TypeInv'
<1>1. QueueOK /\ OthersOK
  BY DEF TypeInv
<1>2. /\ JobsOK(job, runq) /\ RunqOK(runq) /\ q \in [Jobs -> QType]
      /\ poke \in Pokes /\ fault \in Faults
      /\ op \in OpType /\ bat \in [Modems -> BatType]
  BY <1>1 DEF QueueOK, OthersOK
<1>3. /\ UNCHANGED <<mdm, frames, cur, calls>> /\ dphase' \in 1..3
      /\ op.k = "idle" /\ bat' = [bat EXCEPT ![m].phase = "fill"]
  <2>1. Dispatch(3) /\ UNCHANGED <<mdm, frames, cur, calls>>
    BY Zenon DEF prepareDone
  <2>2. bat' = [bat EXCEPT ![m].phase = "fill"]
    BY Zenon DEF prepareDone
  <2>. QED  BY <2>1, <2>2, DispatchOK
<1>4. bat' \in [Modems -> BatType]
  BY <1>2, <1>3, PhaseOK, Zenon
<1>5. PICK S \in SUBSET Jobs : S = BatchJobs(job, m)
  BY Zenon DEF BatchJobs
<1>6. CASE S = {}
  <2>1. /\ fault' = "No Jobs for Batch::lastJob()" /\ op' = op
        /\ UNCHANGED <<job, q, runq, poke>>
    BY <1>5, <1>6, Zenon DEF prepareDone
  <2>2. QueueOK'
    BY <1>1, <2>1, FaultOnly, Zenon DEF Faults, Assertions
  <2>. QED  BY <1>1, <1>3, <1>4, <2>1, <2>2 DEF TypeInv, OthersOK
<1>7. CASE S # {}
  <2>1. PICK j \in Jobs : j = Last(job, S)
    BY <1>2, <1>7, LastIn
  <2>2. PICK J : J = [job EXCEPT ![j].pid = "none"]
    BY Zenon
  <2>3. PICK JN : JN = [J EXCEPT ![j].modem = NoModem]
    OBVIOUS
  <2>4. PICK JS : JS = [JN EXCEPT ![j].susp = FALSE]
    BY Zenon
  <2>5. JobsOK(J, runq)
    BY <1>2, <2>2, FieldsOK, Zenon DEF Pids
  <2>6. JobsOK(JN, runq) /\ JobsOK(Delay(JN, j), runq)
    BY <2>3, <2>5, FieldsOK, SleepOK
  <2>7. JobsOK(On(Off(JS, j), j, "suspendq"), runq)
    <3>1. JobsOK(JS, runq)
      BY <2>4, <2>6, FieldsOK, Zenon
    <3>. QED  BY <3>1, OffOK, OnOK DEF Lists
  <2>8. PICK B : B = bat'
    OBVIOUS
  <2>9. ASSUME NEW p \in BOOLEAN PROVE [q EXCEPT ![j].prep = p] \in [Jobs -> QType]
    BY <1>2, PrepOK, Zenon
  <2>10. q[j].prep \in BOOLEAN
    BY <1>2 DEF QType
  <2>11. PICK Q \in [Jobs -> QType] : Q = IF Readable(j) THEN deleteRequest(q, j, "failed") ELSE q
    BY <1>2, DeleteOK
  <2>12. ASSUME job' = On(Off(JS, j), j, "suspendq"),
                NEW p \in {q[j].prep, TRUE}, q' = [q EXCEPT ![j].prep = p],
                UNCHANGED <<runq, poke, fault>>
         PROVE  QueueOK'
    BY <1>2, <2>7, <2>9, <2>10, <2>12, Zenon DEF QueueOK
  <2>13. ASSUME job' = J, q' = [q EXCEPT ![j].prep = TRUE], UNCHANGED <<runq, poke, fault>>
         PROVE  QueueOK'
    BY <1>2, <2>5, <2>9, <2>13, Zenon DEF QueueOK
  <2>14. ASSUME setDead(JN, Q, j) PROVE QueueOK'
    BY <1>2, <2>6, <2>14, SetDeadOK
  <2>15. ASSUME job' = Delay(JN, j), fault' = InsertFault(JN, j), UNCHANGED <<q, runq, poke>>
         PROVE  QueueOK'
    BY <1>2, <2>6, <2>15, Zenon DEF QueueOK, InsertFault, Faults, Assertions
  <2>16. QueueOK'
    BY <1>5, <1>7, <2>1, <2>2, <2>3, <2>4, <2>11, <2>12, <2>13, <2>14, <2>15, Zenon DEF prepareDone
  <2>17. op' = FillBatch(job', bat', m)
    BY <1>3, <1>5, <1>7, Zenon DEF prepareDone
  <2>18. op' \in OpType /\ op'.m = m
    BY <1>2, <2>17, FillBatchOK
  <2>. QED  BY <1>1, <1>3, <1>4, <2>16, <2>18 DEF TypeInv, OthersOK
<1>. QED  BY <1>6, <1>7

LEMMA SendCallStep ==
  ASSUME TypeInv, NEW m \in Modems, sendCall(m)
  PROVE  TypeInv'
<1>1. QueueOK /\ OthersOK /\ JobsOK(job, runq) /\ bat \in [Modems -> BatType]
  BY DEF TypeInv, QueueOK, OthersOK
<1>2. bat[m].todo \subseteq Jobs /\ bat[m].todo # {}
  BY <1>1 DEF BatType, sendCall
<1>3. First(job, bat[m].todo) \in Jobs
  BY <1>1, <1>2, FirstIn
<1>4. calls' \in Seq(Jobs)
  BY <1>1, <1>3 DEF OthersOK, sendCall
<1>5. bat' \in [Modems -> BatType]
  BY <1>1, Zenon DEF BatType, sendCall
<1>6. QueueOK'
  BY <1>1 DEF QueueOK, sendCall
<1>. QED  BY <1>1, <1>4, <1>5, <1>6 DEF TypeInv, OthersOK, sendCall

LEMMA SendResultStep ==
  ASSUME TypeInv, NEW m \in Modems, sendResult(m)
  PROVE  TypeInv'
<1>1. /\ QueueOK /\ OthersOK /\ JobsOK(job, runq)
      /\ bat \in [Modems -> BatType] /\ q \in [Jobs -> QType]
  BY DEF TypeInv, QueueOK, OthersOK
<1>2. bat[m].todo \subseteq Jobs /\ bat[m].todo # {}
  BY <1>1 DEF BatType, sendResult
<1>3. PICK j \in Jobs : j = First(job, bat[m].todo)
  BY <1>1, <1>2, FirstIn
<1>4. PICK t \in Nat : t = IF (bat[m].called /\ ~job[j].susp) /\ q[j].tries < MaxTries
                           THEN q[j].tries + 1 ELSE q[j].tries
  <2>1. q[j].tries \in Nat
    BY <1>1 DEF QType
  <2>2. q[j].tries + 1 \in Nat
    BY <2>1
  <2>. QED  BY <2>1, <2>2, Zenon
<1>5. PICK st \in SendStatus :
        /\ q' = [q EXCEPT ![j] = [@ EXCEPT !.status = st, !.tries = t]]
        /\ bat' = [bat EXCEPT ![m] = [@ EXCEPT
             !.todo = IF st \in {"done", "nobatch"} \/ ~Readable(j)
                      THEN bat[m].todo \ {j} ELSE {},
             !.called = FALSE]]
  BY <1>3, <1>4, Zenon DEF sendResult
<1>6. q' \in [Jobs -> QType]
  <2>1. [q[j] EXCEPT !.status = st, !.tries = t] \in QType
    BY <1>1 DEF QType
  <2>. QED  BY <1>1, <1>5, <2>1
<1>7. bat' \in [Modems -> BatType]
  <2>1. PICK D \in SUBSET Jobs :
          D = IF st \in {"done", "nobatch"} \/ ~Readable(j) THEN bat[m].todo \ {j} ELSE {}
    BY <1>2, Zenon
  <2>2. bat' = [bat EXCEPT ![m] = [@ EXCEPT !.todo = D, !.called = FALSE]]
    BY <1>5, <2>1
  <2>. QED  BY <1>1, <2>2, TodoOK, Zenon
<1>8. QueueOK'
  BY <1>1, <1>6 DEF QueueOK, sendResult
<1>. QED  BY <1>1, <1>7, <1>8 DEF TypeInv, OthersOK, sendResult

LEMMA SendDoneStep ==
  ASSUME TypeInv, NEW m \in Modems, sendDone(m)
  PROVE  TypeInv'
<1>1. /\ QueueOK /\ OthersOK /\ JobsOK(job, runq) /\ RunqOK(runq)
      /\ q \in [Jobs -> QType] /\ fault \in Faults
      /\ bat \in [Modems -> BatType] /\ mdm \in [Modems -> MdmType]
  BY DEF TypeInv, QueueOK, OthersOK
<1>2. dphase' \in 1..3 /\ UNCHANGED <<q, runq, frames, cur, calls, fault>>
  BY DispatchOK DEF sendDone
<1>3. mdm' \in [Modems -> MdmType] /\ poke' \in Pokes
  BY <1>1, ReleaseOK DEF sendDone
<1>4. bat' \in [Modems -> BatType]
  BY <1>1, TodoOK, Zenon DEF sendDone
<1>5. op' \in OpType /\ op'.m = m
  <2>1. BatchJobs(job, m) \in SUBSET Jobs
    BY DEF BatchJobs
  <2>2. PICK st \in {"retry", "failed", "done"} :
          op' = [Idle EXCEPT !.k = "done", !.m = m, !.todo = BatchJobs(job, m), !.st = st]
    BY Zenon DEF sendDone
  <2>. QED  BY <2>1, <2>2 DEF Idle, OpType, SendStatus
<1>6. JobsOK(job', runq')
  <2>. DEFINE S == {j \in Jobs : j \in BatchJobs(job, m) /\ job[j].pid = "live"}
  <2>1. job' = [j \in Jobs |-> IF j \in S THEN [job[j] EXCEPT !.pid = "dead"] ELSE job[j]]
    BY DEF sendDone
  <2>. HIDE DEF S
  <2>. QED  BY <1>1, <1>2, <2>1, PidsOK, Zenon DEF Pids
<1>7. QueueOK'
  BY <1>1, <1>2, <1>3, <1>6 DEF QueueOK
<1>. QED  BY <1>1, <1>2, <1>3, <1>4, <1>5, <1>7 DEF TypeInv, OthersOK


LEMMA RemoveFaultsOK ==
  ASSUME NEW J, NEW j, NEW f \in RemoveFaults(J, j)
  PROVE  f \in Faults
BY Zenon DEF RemoveFaults, Faults, Assertions

LEMMA CtrlJobDoneStep ==
  ASSUME TypeInv, NEW j \in Jobs, ctrlJobDone(j)
  PROVE  TypeInv'
<1>1. QueueOK /\ JobsOK(job, runq) /\ RunqOK(runq) /\ q \in [Jobs -> QType] /\ poke \in Pokes
  BY DEF TypeInv, QueueOK
<1>2. dphase' \in 1..3 /\ UNCHANGED <<bat, mdm, frames, op, cur, calls>>
  BY DispatchOK DEF ctrlJobDone
<1>3. PICK J : J = [job EXCEPT ![j].pid = "none"]
  BY Zenon
<1>4. JobsOK(J, runq) /\ JobsOK(Off(J, j), runq)
  BY <1>1, <1>3, FieldsOK, OffOK, Zenon DEF Pids
<1>5. ASSUME job' = [J EXCEPT ![j].susp = FALSE], UNCHANGED <<q, runq, poke, fault>>
      PROVE  QueueOK'
  <2>1. JobsOK(job', runq)
    BY <1>4, <1>5, FieldsOK
  <2>. QED  BY <1>1, <1>5, <2>1, JobsOnly
<1>6. ASSUME setReady(Off(J, j), q, j) PROVE QueueOK'
  BY <1>1, <1>4, <1>6, SetReadyOK, Zenon
<1>7. QueueOK'
  BY <1>3, <1>5, <1>6, Zenon DEF ctrlJobDone
<1>. QED  BY <1>2, <1>7, HandlerOK

LEMMA RunJobStep ==
  ASSUME TypeInv, NEW j \in Jobs, runJob(j)
  PROVE  TypeInv'
<1>1. QueueOK /\ JobsOK(job, runq) /\ RunqOK(runq) /\ q \in [Jobs -> QType] /\ poke \in Pokes
  BY DEF TypeInv, QueueOK
<1>2. dphase' \in 1..3 /\ UNCHANGED <<bat, mdm, frames, op, cur, calls>>
  <2>1. Dispatch(2) /\ UNCHANGED <<bat, mdm, frames, op, cur, calls>>
    BY DEF runJob
  <2>. QED  BY <2>1, DispatchOK
<1>3. PICK J : J = Off([job EXCEPT ![j].tts = FALSE], j)
  OBVIOUS
<1>4. JobsOK(J, runq)
  BY <1>1, <1>3, FieldsOK, OffOK, Zenon
<1>5. ASSUME NEW f \in RemoveFaults(job, j), fault' = f, UNCHANGED <<job, q, runq, poke>>
      PROVE  QueueOK'
  BY <1>1, <1>5, RemoveFaultsOK, FaultOnly, Zenon
<1>6. ASSUME setDead(J, q, j) PROVE QueueOK'
  BY <1>1, <1>4, <1>6, SetDeadOK, Zenon
<1>7. ASSUME setReadyToRun(J, q, j, FALSE) PROVE QueueOK'
  BY <1>1, <1>4, <1>7, SetReadyToRunOK, Zenon
<1>8. QueueOK'
  BY <1>3, <1>5, <1>6, <1>7, Zenon DEF runJob
<1>. QED  BY <1>2, <1>8, HandlerOK

LEMMA TimeoutJobStep ==
  ASSUME TypeInv, NEW j \in Jobs, timeoutJob(j)
  PROVE  TypeInv'
<1>1. QueueOK /\ JobsOK(job, runq) /\ RunqOK(runq) /\ q \in [Jobs -> QType] /\ poke \in Pokes
  BY DEF TypeInv, QueueOK
<1>2. dphase' \in 1..3 /\ UNCHANGED <<bat, mdm, frames, op, cur, calls>>
  <2>1. Dispatch(2) /\ UNCHANGED <<bat, mdm, frames, op, cur, calls>>
    BY DEF timeoutJob
  <2>. QED  BY <2>1, DispatchOK
<1>3. PICK J : J = [job EXCEPT ![j].kill = FALSE]
  BY Zenon
<1>4. JobsOK(J, runq)
  BY <1>1, <1>3, FieldsOK, Zenon
<1>5. PICK K : K = Off([J EXCEPT ![j].state = "failed"], j)
  OBVIOUS
<1>6. JobsOK(K, runq)
  BY <1>4, <1>5, FieldsOK, OffOK, Zenon DEF JobStates
<1>7. PICK Q \in [Jobs -> QType] : Q = IF Readable(j) THEN deleteRequest(q, j, "failed") ELSE q
  BY <1>1, DeleteOK
<1>8. ASSUME NEW f \in RemoveFaults(job, j), fault' = f, UNCHANGED <<job, q, runq, poke>>
      PROVE  QueueOK'
  BY <1>1, <1>8, RemoveFaultsOK, FaultOnly
<1>9. ASSUME setDead(K, Q, j) PROVE QueueOK'
  BY <1>1, <1>6, <1>9, SetDeadOK
<1>10. ASSUME job' = [J EXCEPT ![j].killed = TRUE], UNCHANGED <<q, runq, poke, fault>>
       PROVE  QueueOK'
  <2>1. JobsOK(job', runq)
    BY <1>4, <1>10, FieldsOK, Zenon
  <2>. QED  BY <1>1, <1>10, <2>1, JobsOnly
<1>11. QueueOK'
  BY <1>3, <1>5, <1>7, <1>8, <1>9, <1>10, Zenon DEF timeoutJob
<1>. QED  BY <1>2, <1>11, HandlerOK

LEMMA PollStep ==
  ASSUME TypeInv, NEW m \in Modems, pollForModemLock(m)
  PROVE  TypeInv'
<1>1. dphase' \in 1..3 /\ UNCHANGED <<job, q, runq, bat, frames, op, cur, calls, fault>>
  BY DispatchOK DEF pollForModemLock
<1>2. mdm \in [Modems -> MdmType] /\ poke \in Pokes
  BY DEF TypeInv, QueueOK, OthersOK
<1>3. mdm' \in [Modems -> MdmType] /\ poke' \in Pokes
  BY <1>2, ZenonT(60) DEF pollForModemLock, pokeScheduler, Pokes, MdmType
<1>. QED  BY <1>1, <1>3 DEF TypeInv, QueueOK, OthersOK

LEMMA ModemMessageStep ==
  ASSUME TypeInv, NEW m \in Modems, FIFOModemMessage(m)
  PROVE  TypeInv'
<1>1. dphase' \in 1..3 /\ UNCHANGED <<job, q, runq, bat, frames, op, cur, calls, fault>>
  BY DispatchOK DEF FIFOModemMessage
<1>2. mdm \in [Modems -> MdmType] /\ poke \in Pokes
  BY DEF TypeInv, QueueOK, OthersOK
<1>3. PICK s \in {"READY", "BUSY", "DOWN"} :
         /\ mdm' = [mdm EXCEPT ![m] = [@ EXCEPT !.state = s, !.poll = FALSE]]
         /\ IF s = "READY" THEN pokeScheduler ELSE poke' = poke
  BY Zenon DEF FIFOModemMessage
<1>4. mdm' \in [Modems -> MdmType] /\ poke' \in Pokes
  BY <1>2, <1>3 DEF MdmType, pokeScheduler, Pokes
<1>. QED  BY <1>1, <1>4 DEF TypeInv, QueueOK, OthersOK

LEMMA OtherLockStep ==
  ASSUME TypeInv, NEW m \in Modems, OtherLock(m)
  PROVE  TypeInv'
<1>1. UNCHANGED <<job, q, runq, bat, frames, dphase, op, cur, poke, calls, fault>>
  BY DEF OtherLock
<1>2. mdm \in [Modems -> MdmType]
  BY DEF TypeInv, OthersOK
<1>3. mdm' \in [Modems -> MdmType]
  BY <1>2 DEF OtherLock, MdmType
<1>. QED  BY <1>1, <1>3 DEF TypeInv, QueueOK, OthersOK

LEMMA VanishStep ==
  ASSUME TypeInv, NEW j \in Jobs, Vanish(j)
  PROVE  TypeInv'
<1>1. UNCHANGED <<job, runq, bat, mdm, frames, dphase, op, cur, poke, calls, fault>>
  BY DEF Vanish
<1>2. q \in [Jobs -> QType]
  BY DEF TypeInv, QueueOK
<1>3. q' \in [Jobs -> QType]
  BY <1>2 DEF Vanish, QType
<1>. QED  BY <1>1, <1>3 DEF TypeInv, QueueOK, OthersOK


LEMMA SubmitOK ==
  ASSUME QueueOK, NEW J, JobsOK(J, runq), NEW j \in Jobs, Submit(J, j)
  PROVE  QueueOK'
<1>1. RunqOK(runq) /\ q \in [Jobs -> QType] /\ poke \in Pokes
  BY DEF QueueOK
<1>2. JobsOK([J EXCEPT ![j].state = "failed"], runq) /\ JobsOK([J EXCEPT ![j].kill = TRUE], runq)
  BY FieldsOK, Zenon DEF JobStates
<1>3. deleteRequest(q, j, "failed") \in [Jobs -> QType]
  BY <1>1, DeleteOK
<1>4. CASE setDead([J EXCEPT ![j].state = "failed"], deleteRequest(q, j, "failed"), j)
  BY <1>1, <1>2, <1>3, <1>4, SetDeadOK
<1>5. CASE setReadyToRun([J EXCEPT ![j].kill = TRUE], q, j, TRUE)
  BY <1>1, <1>2, <1>5, SetReadyToRunOK, Zenon
<1>6. CASE /\ job' = On([J EXCEPT ![j] = [@ EXCEPT !.state = "pending", !.tts = TRUE,
                                                  !.kill = TRUE]], j, "pendq")
           /\ pokeScheduler
           /\ fault' = InsertFault(J, j)
           /\ UNCHANGED <<q, runq>>
  <2>. DEFINE r == [J[j] EXCEPT !.state = "pending", !.tts = TRUE, !.kill = TRUE]
  <2>1. r \in JobType /\ r.pri = J[j].pri /\ r.on = J[j].on
    <3>1. J[j] \in JobType
      BY DEF JobsOK
    <3>. QED  BY <3>1, Zenon DEF JobType, JobStates
  <2>2. PICK K : K = [J EXCEPT ![j] = r]
    BY Zenon
  <2>3. JobsOK(K, runq)
    BY <2>1, <2>2, EditOK
  <2>4. JobsOK(job', runq')
    BY <1>6, <2>2, <2>3, OnOK DEF Lists
  <2>5. fault' \in Faults
    BY <1>6 DEF InsertFault, Faults, Assertions
  <2>. QED  BY <1>1, <1>6, <2>4, <2>5, Zenon DEF QueueOK, pokeScheduler, Pokes
<1>. QED  BY <1>4, <1>5, <1>6, Zenon DEF Submit

LEMMA SubmitJobStep ==
  ASSUME TypeInv, NEW j \in Jobs, submitJob(j)
  PROVE  TypeInv'
<1>1. QueueOK /\ JobsOK(job, runq) /\ RunqOK(runq) /\ q \in [Jobs -> QType]
  BY DEF TypeInv, QueueOK
<1>2. dphase' \in 1..3 /\ UNCHANGED <<bat, mdm, frames, op, cur, calls>>
  <2>1. Dispatch(1) /\ UNCHANGED <<bat, mdm, frames, op, cur, calls>>
    BY DEF submitJob
  <2>. QED  BY <2>1, DispatchOK
<1>3. PICK J : J = Off([job EXCEPT ![j].killed = FALSE], j)
  OBVIOUS
<1>4. JobsOK(J, runq) /\ JobsOK([job EXCEPT ![j].state = "ready"], runq)
  BY <1>1, <1>3, FieldsOK, OffOK, Zenon DEF JobStates
<1>5. ASSUME Submit([job EXCEPT ![j].state = "ready"], j) PROVE QueueOK'
  BY <1>1, <1>4, <1>5, SubmitOK
<1>6. ASSUME Submit(J, j) PROVE QueueOK'
  BY <1>1, <1>4, <1>6, SubmitOK
<1>7. ASSUME setDead(J, q, j) PROVE QueueOK'
  BY <1>1, <1>4, <1>7, SetDeadOK
<1>8. QueueOK'
  BY <1>3, <1>5, <1>6, <1>7, Zenon DEF submitJob
<1>. QED  BY <1>2, <1>8, HandlerOK

LEMMA AfterSuspendOK ==
  ASSUME QueueOK, NEW J, JobsOK(J, runq), NEW j \in Jobs, NEW cmd, AfterSuspend(J, j, cmd)
  PROVE  QueueOK'
<1>1. RunqOK(runq) /\ q \in [Jobs -> QType] /\ poke \in Pokes
  BY DEF QueueOK
<1>2. PICK K : K = Off([J EXCEPT ![j].kill = FALSE], j)
  OBVIOUS
<1>3. PICK L : L = [K EXCEPT ![j].state = "suspended"]
  BY Zenon
<1>4. JobsOK(K, runq)
  BY <1>2, FieldsOK, OffOK, Zenon
<1>5. JobsOK(L, runq) /\ JobsOK([K EXCEPT ![j].state = "failed"], runq)
  BY <1>3, <1>4, FieldsOK, Zenon DEF JobStates
<1>6. PICK Q \in [Jobs -> QType] : Q = IF Readable(j) THEN deleteRequest(q, j, "failed") ELSE q
  BY <1>1, DeleteOK
<1>7. ASSUME NEW f \in RemoveFaults(J, j), fault' = f, UNCHANGED <<job, q, runq, poke>>
      PROVE  QueueOK'
  BY <1>7, RemoveFaultsOK, FaultOnly
<1>8. ASSUME job' = On(L, j, "suspendq"), pokeScheduler, UNCHANGED <<q, runq, fault>>
      PROVE  QueueOK'
  <2>1. JobsOK(job', runq)
    BY <1>5, <1>8, OnOK DEF Lists
  <2>. QED  BY <1>8, <2>1, JobsOnly DEF pokeScheduler, Pokes
<1>9. ASSUME setDead([K EXCEPT ![j].state = "failed"], Q, j) PROVE QueueOK'
  BY <1>1, <1>5, <1>9, SetDeadOK
<1>. QED  BY <1>2, <1>3, <1>6, <1>7, <1>8, <1>9, Zenon DEF AfterSuspend

LEMMA SuspendJobStep ==
  ASSUME TypeInv, NEW j \in Jobs, NEW cmd \in {"suspend", "terminate"}, suspendJob(j, cmd)
  PROVE  TypeInv'
<1>1. QueueOK /\ OthersOK /\ JobsOK(job, runq) /\ poke \in Pokes
  BY DEF TypeInv, QueueOK
<1>2. UNCHANGED <<bat, mdm, op, cur, calls>>
  BY DEF suspendJob
<1>3. CASE /\ AfterSuspend([job EXCEPT ![j].tts = job[j].tts
                               /\ job[j].state \notin {"sleeping", "pending"}], j, cmd)
           /\ dphase' = 1
           /\ UNCHANGED frames
  <2>1. PICK b \in BOOLEAN : b = (job[j].tts /\ job[j].state \notin {"sleeping", "pending"})
    BY Zenon
  <2>2. PICK J : J = [job EXCEPT ![j].tts = b]
    OBVIOUS
  <2>3. JobsOK(J, runq)
    BY <1>1, <2>2, FieldsOK
  <2>4. AfterSuspend(J, j, cmd)
    BY <1>3, <2>1, <2>2
  <2>5. QueueOK'
    BY <1>1, <2>3, <2>4, AfterSuspendOK
  <2>. QED  BY <1>2, <1>3, <2>5, HandlerOK
<1>4. CASE /\ job' = [job EXCEPT ![j] = [@ EXCEPT !.susp = TRUE, !.kill = FALSE]]
           /\ frames' = Append(Outer, [job |-> j, cmd |-> cmd, nested |-> FALSE])
           /\ dphase' = 1
           /\ UNCHANGED <<q, runq, poke, fault>>
  <2>. DEFINE r == [job[j] EXCEPT !.susp = TRUE, !.kill = FALSE]
  <2>1. r \in JobType /\ r.pri = job[j].pri /\ r.on = job[j].on
    <3>1. job[j] \in JobType
      BY <1>1 DEF JobsOK
    <3>. QED  BY <3>1, ZenonT(60) DEF JobType
  <2>2. JobsOK([job EXCEPT ![j] = r], runq)
    BY <1>1, <2>1, EditOK
  <2>3. QueueOK'
    BY <1>1, <1>4, <2>2, JobsOnly
  <2>4. frames' \in Seq(FrameType)
    <3>1. frames \in Seq(FrameType)
      BY <1>1 DEF OthersOK
    <3>2. Len(frames) \in Nat /\ \A i \in 1..Len(frames) : frames[i] \in FrameType
      BY <3>1
    <3>3. \A i \in 1..Len(frames) : [frames[i] EXCEPT !.nested = TRUE] \in FrameType
      BY <3>2 DEF FrameType
    <3>4. Outer \in Seq(FrameType)
      BY <3>2, <3>3 DEF Outer
    <3>5. [job |-> j, cmd |-> cmd, nested |-> FALSE] \in FrameType
      BY Zenon DEF FrameType
    <3>. QED  BY <1>4, <3>4, <3>5
  <2>. QED  BY <1>1, <1>2, <1>4, <2>3, <2>4 DEF TypeInv, OthersOK
<1>. QED  BY <1>3, <1>4, Zenon DEF suspendJob

LEMMA ResumeStep ==
  ASSUME TypeInv, resumeSuspend
  PROVE  TypeInv'
<1>1. QueueOK /\ OthersOK /\ JobsOK(job, runq) /\ poke \in Pokes
  BY DEF TypeInv, QueueOK
<1>2. UNCHANGED <<bat, mdm, op, cur, calls>> /\ dphase' = 1
  BY Zenon DEF resumeSuspend
<1>3. /\ Top.job \in Jobs
      /\ frames' \in Seq(FrameType)
  <2>1. /\ frames \in Seq(FrameType) /\ frames # <<>>
        /\ frames' = SubSeq(frames, 1, Len(frames) - 1)
    BY <1>1, Zenon DEF OthersOK, resumeSuspend
  <2>2. Len(frames) \in Nat \ {0} /\ \A i \in 1..Len(frames) : frames[i] \in FrameType
    BY <2>1
  <2>3. frames[Len(frames)] \in FrameType
    BY <2>2
  <2>4. \A i \in 1..(Len(frames) - 1) : frames[i] \in FrameType
    BY <2>2
  <2>5. SubSeq(frames, 1, Len(frames) - 1) \in Seq(FrameType)
    BY <2>2, <2>4, SubSeqFacts
  <2>. QED  BY <2>1, <2>3, <2>5 DEF Top, FrameType
<1>4. ASSUME fault' = "job used after delete", UNCHANGED <<job, q, runq, poke>> PROVE QueueOK'
  BY <1>1, <1>4, FaultOnly DEF Faults
<1>5. ASSUME UNCHANGED <<job, q, runq, poke, fault>> PROVE QueueOK'
  BY <1>1, <1>5 DEF QueueOK
<1>6. ASSUME AfterSuspend(job, Top.job, Top.cmd) PROVE QueueOK'
  BY <1>1, <1>3, <1>6, AfterSuspendOK
<1>7. QueueOK'
  BY <1>4, <1>5, <1>6, Zenon DEF resumeSuspend
<1>. QED  BY <1>1, <1>2, <1>3, <1>7 DEF TypeInv, OthersOK

LEMMA DoneJobOK ==
  ASSUME QueueOK, NEW J, JobsOK(J, runq), NEW k \in Jobs, doneJob(J, k)
  PROVE  QueueOK'
<1>1. RunqOK(runq) /\ q \in [Jobs -> QType] /\ poke \in Pokes /\ fault \in Faults
  BY Zenon DEF QueueOK
<1>. DEFINE r == [J[k] EXCEPT !.modem = NoModem, !.pid = "none"]
<1>2. r \in JobType /\ r.pri = J[k].pri /\ r.on = J[k].on
  <2>1. J[k] \in JobType
    BY DEF JobsOK
  <2>. QED  BY <2>1, Zenon DEF JobType, Pids
<1>3. PICK K : K = [J EXCEPT ![k] = r]
  BY Zenon
<1>4. JobsOK(K, runq)
  BY <1>2, <1>3, EditOK, Zenon
<1>5. q[k].status \in SendStatus /\ [q EXCEPT ![k].leak = TRUE] \in [Jobs -> QType]
  BY <1>1, PrepOK, Zenon DEF QType
<1>6. CASE fault' = "flock on itself" /\ UNCHANGED <<job, q, runq, poke>>
  BY <1>6, FaultOnly DEF Faults
<1>7. CASE setDead(K, q, k)
  BY <1>1, <1>4, <1>7, SetDeadOK
<1>8. CASE job' = K /\ q' = [q EXCEPT ![k].leak = TRUE] /\ UNCHANGED <<runq, poke, fault>>
  BY <1>1, <1>4, <1>5, <1>8 DEF QueueOK
<1>9. CASE q[k].status # "nobatch" /\ sendJobDone(K, k, q[k].status)
  BY <1>4, <1>5, <1>9, SendJobDoneOK
<1>. QED  BY <1>3, <1>6, <1>7, <1>8, <1>9, Zenon DEF doneJob

LEMMA JobMessageStep ==
  ASSUME TypeInv, FIFOJobMessage
  PROVE  TypeInv'
<1>1. QueueOK /\ OthersOK /\ JobsOK(job, runq)
  BY DEF TypeInv, QueueOK
<1>2. dphase' \in 1..3 /\ UNCHANGED <<bat, mdm, frames, op, cur>>
  <2>1. Dispatch(1) /\ UNCHANGED <<bat, mdm, frames, op, cur>>
    BY DEF FIFOJobMessage
  <2>. QED  BY <2>1, DispatchOK
<1>3. Head(calls) \in Jobs /\ calls' \in Seq(Jobs)
  <2>1. calls \in Seq(Jobs) /\ calls # <<>> /\ calls' = Tail(calls)
    BY <1>1 DEF OthersOK, FIFOJobMessage
  <2>. QED  BY <2>1
<1>4. PICK j \in Jobs : j = Head(calls)
  BY <1>3
<1>5. ASSUME UNCHANGED <<job, q, runq, poke, fault>> PROVE QueueOK'
  BY <1>1, <1>5 DEF QueueOK
<1>6. ASSUME fault' = "previous job not of the batch", UNCHANGED <<job, q, runq, poke>>
      PROVE  QueueOK'
  BY <1>1, <1>6, FaultOnly DEF Faults
<1>7. ASSUME Before(job, j) # {},
             doneJob([job EXCEPT ![j].pid = job[Last(job, Before(job, j))].pid],
                     Last(job, Before(job, j)))
      PROVE  QueueOK'
  <2>1. Before(job, j) \subseteq Jobs
    BY DEF Before, BatchJobs
  <2>2. PICK k \in Jobs : k = Last(job, Before(job, j))
    BY <1>1, <1>7, <2>1, LastIn
  <2>3. job[k].pid \in Pids
    BY <1>1 DEF JobsOK, JobType
  <2>4. JobsOK([job EXCEPT ![j].pid = job[k].pid], runq)
    BY <1>1, <2>3, FieldsOK
  <2>. QED  BY <1>1, <1>7, <2>2, <2>4, DoneJobOK
<1>8. QueueOK'
  BY <1>4, <1>5, <1>6, <1>7, Zenon DEF FIFOJobMessage
<1>. QED  BY <1>1, <1>2, <1>3, <1>8 DEF TypeInv, OthersOK


LEMMA TypeInvInit == Init => TypeInv
<1>. SUFFICES ASSUME Init PROVE TypeInv
  BY Zenon
<1>1. ASSUME NEW j \in Jobs
      PROVE  /\ NewJob(UsrPri[j]) \in JobType /\ NewJob(UsrPri[j]).pri = UsrPri[j]
             /\ NewJob(UsrPri[j]).slot = 0 /\ NewJob(UsrPri[j]).on = "off"
             /\ UsrPri[j] \in 0..255
  BY FaxQueueAssumption, Zenon DEF NewJob, JobType, JobStates, Lists, Pids
<1>2. job = [j \in Jobs |-> NewJob(UsrPri[j])] /\ runq = <<>>
  BY Zenon DEF Init
<1>3. JobsOK(job, runq)
  <2>1. \A j \in Jobs : job[j].slot <= 0
    BY <1>1, <1>2
  <2>2. Bounded(job)
    BY <2>1 DEF Bounded
  <2>3. ASSUME NEW j \in Jobs PROVE PriOK(j, job[j].pri)
    <3>1. job[j].pri = UsrPri[j]
      BY <1>1, <1>2
    <3>. QED  BY <3>1, UsrPriOK
  <2>. QED  BY <1>1, <1>2, <2>2, <2>3 DEF JobsOK, Served
<1>4. RunqOK(runq)
  BY <1>2 DEF RunqOK, NoDup
<1>5. q \in [Jobs -> QType]
  <2>1. \A p \in BOOLEAN : [ dir |-> "sendq", fin |-> "open", status |-> "nobatch",
                             prep |-> p, tries |-> 0, leak |-> FALSE ] \in QType
    BY Zenon DEF QType, SendStatus
  <2>2. q \in [Jobs -> { [ dir |-> "sendq", fin |-> "open", status |-> "nobatch",
                           prep |-> p, tries |-> 0, leak |-> FALSE ] : p \in BOOLEAN }]
    BY Zenon DEF Init
  <2>. QED  BY <2>1, <2>2, Zenon
<1>6. bat \in [Modems -> BatType]
  <2>1. PICK d \in Dests : bat = [m \in Modems |->
           [phase |-> "none", dest |-> d, todo |-> {}, called |-> FALSE]]
    BY Zenon DEF Init
  <2>2. [phase |-> "none", dest |-> d, todo |-> {}, called |-> FALSE] \in BatType
    BY Zenon DEF BatType
  <2>. QED  BY <2>1, <2>2
<1>7. mdm \in [Modems -> MdmType]
  BY Zenon DEF Init, MdmType
<1>8. QueueOK
  BY <1>3, <1>4, <1>5 DEF Init, QueueOK, Faults, Pokes
<1>9. frames \in Seq(FrameType) /\ calls \in Seq(Jobs)
  <2>1. frames = <<>> /\ calls = <<>>
    BY DEF Init
  <2>. QED  BY <2>1
<1>10. OthersOK
  <2>1. dphase = 1 /\ op = Idle /\ cur = "off"
    BY DEF Init
  <2>. QED  BY <1>6, <1>7, <1>9, <2>1, IdleOK DEF OthersOK
<1>. QED  BY <1>8, <1>10 DEF TypeInv

LEMMA TypeInvNext == TypeInv /\ [Next]_vars => TypeInv'
<1>. SUFFICES ASSUME TypeInv, [Next]_vars PROVE TypeInv'
  OBVIOUS
<1>1. CASE UNCHANGED vars
  BY <1>1 DEF vars, TypeInv, QueueOK, OthersOK
<1>2. CASE runScheduler \/ scheduleJob \/ emptyDest \/ reapDeadJobs
  BY <1>2, RunSchedulerStep, ScheduleJobStep, EmptyDestStep, ReapStep
<1>3. CASE fillBatch \/ sendStart \/ sendDoneJob \/ sendDoneEnd
  BY <1>3, FillBatchStep, SendStartStep, SendDoneJobStep, SendDoneEndStep
<1>4. CASE \E m \in Modems : prepareDone(m) \/ sendCall(m) \/ sendResult(m) \/ sendDone(m)
                             \/ pollForModemLock(m) \/ FIFOModemMessage(m) \/ OtherLock(m)
  BY <1>4, PrepareDoneStep, SendCallStep, SendResultStep, SendDoneStep, PollStep,
     ModemMessageStep, OtherLockStep
<1>5. CASE \E j \in Jobs : ctrlJobDone(j) \/ runJob(j) \/ timeoutJob(j) \/ submitJob(j) \/ Vanish(j)
                           \/ \E cmd \in {"suspend", "terminate"} : suspendJob(j, cmd)
  BY <1>5, CtrlJobDoneStep, RunJobStep, TimeoutJobStep, SubmitJobStep, VanishStep, SuspendJobStep
<1>6. CASE FIFOJobMessage \/ resumeSuspend
  BY <1>6, JobMessageStep, ResumeStep
<1>7. CASE Finished
  BY <1>1, <1>7 DEF Finished
<1>. QED  BY <1>1, <1>2, <1>3, <1>4, <1>5, <1>6, <1>7, Zenon DEF Next

LEMMA TypeInvAlways == Spec => []TypeInv
BY TypeInvInit, TypeInvNext, PTL DEF Spec

(* Every variable always has its type, whatever the jobs, the modems, the  *)
(* configuration and the environment: in particular every handler of faxq  *)
(* finds the job, the batch and the modem that it is about.                *)
THEOREM TypeCorrect == Spec => []TypeOK
<1>1. TypeInv => TypeOK
  BY DEF TypeInv, QueueOK, OthersOK, JobsOK, RunqOK, TypeOK
<1>. QED  BY <1>1, TypeInvAlways, PTL

(* Wherever a destination has ready jobs, it is on the run queue, once     *)
(* (setReady, runScheduler, the destructor of DestInfo).                   *)
THEOREM ReadyOnRunqAlways == Spec => []ReadyOnRunq
<1>1. TypeInv => ReadyOnRunq
  <2>. SUFFICES ASSUME TypeInv PROVE ReadyOnRunq
    OBVIOUS
  <2>1. Served(job, runq) /\ NoDup(runq)
    BY DEF TypeInv, QueueOK, JobsOK, RunqOK
  <2>2. ASSUME NEW d \in Dests, ReadyQ(job, d) # {} PROVE d \in Elems(runq)
    BY <2>1, <2>2 DEF Served, ReadyQ
  <2>. QED  BY <2>1, <2>2 DEF ReadyOnRunq, NoDup
<1>. QED  BY <1>1, TypeInvAlways, PTL

(* However often a job is retried, sendJobDone keeps its priority in the   *)
(* bucket of 16 it was submitted in, unless it is a bulk job.              *)
THEOREM PriorityBucketAlways == Spec => []PriorityBucket
<1>1. TypeInv => PriorityBucket
  BY DEF TypeInv, QueueOK, JobsOK, PriOK, PriorityBucket
<1>. QED  BY <1>1, TypeInvAlways, PTL


=============================================================================
