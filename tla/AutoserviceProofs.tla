-------------------------- MODULE AutoserviceProofs --------------------------
(***************************************************************************)
(* Proofs about autoservice for any number of callers, channels and        *)
(* entries: the thread holds nothing that was freed, the use counts are    *)
(* right, and a channel keeps the flag END_DTMF_ONLY.                      *)
(***************************************************************************)
EXTENDS Autoservice, FiniteSetTheorems, WellFoundedInduction, TLAPS

Places == {"none", "top", "cond", "woken", "waitfor", "read", "defer"}
CallPlaces == {"idle", "new", "insert", "wait", "destroy"}
EntFields == {"st", "chan", "use", "orig", "ignore", "deferred"}
ChanFields == {"alive", "softhangup", "readq", "enddtmf", "was"}
AsFields == {"pc", "mon", "chan", "frame"}

Elts(s) == {s[i] : i \in DOMAIN s}
Distinct(s) == \A i, j \in DOMAIN s : s[i] = s[j] => i = j

\* What the proofs need of the types; frames are left out.
EntShape ==
    /\ DOMAIN ent = Ents
    /\ \A e \in Ents : /\ DOMAIN ent[e] = EntFields
                       /\ ent[e].st \in {"free", "used"}
                       /\ ent[e].chan \in Channels \cup {None}
                       /\ ent[e].use \in Nat
ChanShape ==
    /\ DOMAIN chan = Channels
    /\ \A c \in Channels : DOMAIN chan[c] = ChanFields /\ chan[c].alive \in BOOLEAN
AsShape ==
    /\ DOMAIN as = AsFields
    /\ as.pc \in Places /\ as.mon \in [Channels -> Ents \cup {None}]
CallShape ==
    /\ call \in [Threads -> [pc : CallPlaces, chan : Channels \cup {None},
                             ent : Ents \cup {None}, locked : BOOLEAN]]
    /\ rebuilt \in [Threads -> BOOLEAN]
    /\ uses \in [Threads -> [Channels -> Nat]]
Shape == aslist \in Seq(Ents) /\ EntShape /\ ChanShape /\ AsShape /\ CallShape

\* The list has no entry twice, and every entry is allocated, in use, and of a
\* channel that exists.
Linked ==
    /\ Distinct(aslist)
    /\ \A e \in Listed : /\ ent[e].st = "used" /\ ent[e].use > 0
                         /\ ent[e].chan \in Channels /\ chan[ent[e].chan].alive

\* An entry that a caller is about to insert or to free is not on the list, and no
\* other caller has it; only ast_hangup locks.
Owns(t) == call[t].pc \in {"insert", "wait"}
CallOK(t) ==
    /\ call[t].pc = "idle" => call[t] = Idle
    /\ call[t].pc # "idle" => call[t].chan \in Channels /\ chan[call[t].chan].alive
    /\ call[t].locked <=> call[t].pc = "destroy"
    /\ call[t].pc = "insert" => ent[call[t].ent].use = 1
    /\ Owns(t) => /\ call[t].ent \in Ents /\ call[t].ent \notin Listed
                  /\ ent[call[t].ent].st = "used"
                  /\ ent[call[t].ent].chan = call[t].chan
Calls ==
    /\ \A t \in Threads : CallOK(t)
    /\ \A t, u \in Threads : Owns(t) /\ Owns(u) /\ call[t].ent = call[u].ent => t = u

\* Who destroys a channel is the last to know of it.
Exclusive ==
    \A t \in Threads : call[t].pc = "destroy" =>
       /\ \A u \in Threads : uses[u][call[t].chan] = 0
       /\ \A u \in Threads \ {t} : call[u].chan # call[t].chan
       /\ \A e \in Listed : ent[e].chan # call[t].chan

\* What the thread holds is on the list, or was taken off by a stop that waits and
\* has not seen the list rebuilt.
HeldOK ==
    \A c \in Held :
       /\ ent[as.mon[c]].st = "used" /\ ent[as.mon[c]].chan = c /\ chan[c].alive
       /\ \/ as.mon[c] \in Listed
          \/ \E t \in Threads : /\ call[t].pc = "wait" /\ call[t].ent = as.mon[c]
                                /\ ~rebuilt[t]

Balanced ==
    \A c \in Channels : /\ IsFiniteSet(Counted(c)) /\ IsFiniteSet(Started(c))
                        /\ Cardinality(Counted(c)) = Cardinality(Started(c))

AInv == Shape /\ Linked /\ Calls /\ Exclusive /\ HeldOK /\ NoThreadNoEntry /\ Balanced

-----------------------------------------------------------------------------
(* The list operations.                                                    *)

LEMMA Smallest ==
  ASSUME NEW I \in SUBSET Nat, I # {}
  PROVE  \E i \in I : \A j \in I : i <= j
<1> DEFINE Less == {ss \in Nat \X Nat : ss[1] < ss[2]}
<1>1. OpToRel(<, Nat) = Less
  BY Zenon DEF OpToRel
<1>2. PICK i \in I : \A j \in I : ~(<<j, i>> \in OpToRel(<, Nat))
  BY NatLessThanWellFounded, WFMin, Zenon
<1>3. ASSUME NEW j \in I PROVE i <= j
  <2>1. <<j, i>> \notin Less
    BY <1>1, <1>2, Zenon
  <2>2. j < i => <<j, i>> \in Less
    OBVIOUS
  <2> QED BY <2>1, <2>2
<1> QED BY <1>3

\* A traversal for c finds a listed entry of c if there is one.
LEMMA FindEntFinds ==
  ASSUME NEW c \in Channels, aslist \in Seq(Ents)
  PROVE  \/ FindEnt(c) = None /\ \A e \in Listed : ent[e].chan # c
         \/ FindEnt(c) \in Listed /\ FindEnt(c) # None /\ ent[FindEnt(c)].chan = c
<1> DEFINE I == {i \in DOMAIN aslist : ent[aslist[i]].chan = c}
           k == CHOOSE i \in I : \A j \in I : i <= j
<1>1. CASE I = {}
  BY <1>1 DEF FindEnt, Listed
<1>2. CASE I # {}
  <2>1. I \in SUBSET Nat
    OBVIOUS
  <2>2. \E i \in I : \A j \in I : i <= j
    BY <1>2, <2>1, Smallest, Zenon
  <2>3. k \in I
    BY <2>2
  <2>4. FindEnt(c) = aslist[k]
    BY <1>2 DEF FindEnt
  <2>5. k \in DOMAIN aslist /\ ent[aslist[k]].chan = c
    BY <2>3
  <2> HIDE DEF k
  <2>6. aslist[k] \in Listed /\ aslist[k] \in Ents
    BY <2>5 DEF Listed
  <2> QED BY <2>4, <2>5, <2>6, AutoserviceAssumption
<1> QED BY <1>1, <1>2

LEMMA WithoutRemoves ==
  ASSUME NEW S, NEW s \in Seq(S), Distinct(s), NEW e \in Elts(s)
  PROVE  /\ Without(s, e) \in Seq(S) /\ Distinct(Without(s, e))
         /\ Elts(Without(s, e)) = Elts(s) \ {e}
<1> DEFINE k == CHOOSE i \in DOMAIN s : s[i] = e
           w == [i \in 1..(Len(s) - 1) |-> IF i < k THEN s[i] ELSE s[i + 1]]
<1>1. k \in 1..Len(s) /\ s[k] = e
  BY DEF Elts
<1>2. Without(s, e) = w
  BY DEF Without
<1> HIDE DEF k
<1>3. Len(s) \in Nat /\ \A i \in 1..Len(s) : s[i] \in S
  OBVIOUS
<1>4. w \in Seq(S) /\ Len(w) = Len(s) - 1
  BY <1>1, <1>3
<1>5. \A i \in 1..(Len(s) - 1) : w[i] = s[IF i < k THEN i ELSE i + 1]
  OBVIOUS
<1>6. Distinct(w)
  BY <1>1, <1>4, <1>5 DEF Distinct
<1>7. ASSUME NEW i \in 1..(Len(s) - 1) PROVE w[i] \in Elts(s) \ {e}
  BY <1>1, <1>5 DEF Elts, Distinct
<1>8. ASSUME NEW i \in 1..Len(s), s[i] # e PROVE s[i] \in Elts(w)
  <2>1. CASE i < k
    <3>1. i \in 1..(Len(s) - 1) /\ w[i] = s[i]
      BY <1>1, <2>1
    <3> QED BY <3>1, <1>4 DEF Elts
  <2>2. CASE i > k
    <3>1. i - 1 \in 1..(Len(s) - 1) /\ w[i - 1] = s[i]
      BY <1>1, <2>2
    <3> QED BY <3>1, <1>4, Zenon DEF Elts
  <2> QED BY <2>1, <2>2, <1>1, <1>8
<1>9. Elts(w) = Elts(s) \ {e}
  <2> HIDE DEF w
  <2>1. DOMAIN w = 1..(Len(s) - 1) /\ DOMAIN s = 1..Len(s)
    BY <1>4
  <2>2. Elts(w) \subseteq Elts(s) \ {e}
    BY <1>7, <2>1 DEF Elts
  <2>3. Elts(s) \ {e} \subseteq Elts(w)
    BY <1>8, <2>1 DEF Elts
  <2> QED BY <2>2, <2>3
<1> QED BY <1>2, <1>4, <1>6, <1>9

LEMMA InsertHeadOfList ==
  ASSUME NEW S, NEW s \in Seq(S), Distinct(s), NEW e \in S \ Elts(s)
  PROVE  /\ <<e>> \o s \in Seq(S) /\ Distinct(<<e>> \o s)
         /\ Elts(<<e>> \o s) = Elts(s) \cup {e}
<1> DEFINE w == <<e>> \o s
<1>1. w \in Seq(S) /\ Len(w) = Len(s) + 1 /\ w[1] = e
      /\ \A i \in 1..Len(s) : w[i + 1] = s[i]
  OBVIOUS
<1>2. \A i \in 2..Len(w) : i - 1 \in 1..Len(s) /\ w[i] = s[i - 1]
  BY <1>1
<1> HIDE DEF w
<1>3. DOMAIN w = 1..Len(w) /\ DOMAIN s = 1..Len(s)
  BY <1>1
<1>4. Distinct(w)
  <2> SUFFICES ASSUME NEW i \in 1..Len(w), NEW j \in 1..Len(w), w[i] = w[j]
               PROVE  i = j
    BY <1>3 DEF Distinct
  <2>1. \A m \in 2..Len(w) : w[m] # e
    BY <1>2, <1>3 DEF Elts
  <2>2. CASE i = 1 \/ j = 1
    BY <1>1, <2>1, <2>2
  <2>3. CASE i \in 2..Len(w) /\ j \in 2..Len(w)
    <3>1. s[i - 1] = s[j - 1] /\ i - 1 \in 1..Len(s) /\ j - 1 \in 1..Len(s)
      BY <1>2, <2>3
    <3>2. i - 1 = j - 1
      BY <3>1, <1>3 DEF Distinct
    <3> QED BY <3>2
  <2> QED BY <2>2, <2>3
<1>5. Elts(w) \subseteq Elts(s) \cup {e}
  BY <1>1, <1>2, <1>3, SMTT(30) DEF Elts
<1>6. Elts(s) \cup {e} \subseteq Elts(w)
  <2>1. e \in Elts(w)
    BY <1>1, <1>3 DEF Elts
  <2>2. ASSUME NEW i \in 1..Len(s) PROVE s[i] \in Elts(w)
    BY <1>1, <1>3 DEF Elts
  <2> QED BY <2>1, <2>2, <1>3 DEF Elts
<1> QED BY <1>1, <1>4, <1>5, <1>6 DEF w

-----------------------------------------------------------------------------
(* Counting.                                                               *)

SameSize(A, B) == IsFiniteSet(A) /\ IsFiniteSet(B) /\ Cardinality(A) = Cardinality(B)

LEMMA OneMore ==
  ASSUME NEW A, NEW B, SameSize(A, B), NEW a, NEW b, a \notin A, b \notin B
  PROVE  SameSize(A \cup {a}, B \cup {b})
<1>1. IsFiniteSet(A \cup {a}) /\ Cardinality(A \cup {a}) = Cardinality(A) + 1
  BY FS_AddElement DEF SameSize
<1>2. IsFiniteSet(B \cup {b}) /\ Cardinality(B \cup {b}) = Cardinality(B) + 1
  BY FS_AddElement DEF SameSize
<1> QED BY <1>1, <1>2 DEF SameSize

LEMMA OneLess ==
  ASSUME NEW A, NEW B, SameSize(A, B), NEW a \in A, NEW b \in B
  PROVE  SameSize(A \ {a}, B \ {b})
<1>1. IsFiniteSet(A \ {a}) /\ Cardinality(A \ {a}) = Cardinality(A) - 1
  BY FS_RemoveElement DEF SameSize
<1>2. IsFiniteSet(B \ {b}) /\ Cardinality(B \ {b}) = Cardinality(B) - 1
  BY FS_RemoveElement DEF SameSize
<1> QED BY <1>1, <1>2 DEF SameSize

LEMMA BothEmpty ==
  ASSUME NEW A, NEW B, SameSize(A, B)
  PROVE  A = {} <=> B = {}
  BY FS_EmptySet DEF SameSize

LEMMA InCounted ==
  ASSUME NEW c, NEW x
  PROVE  x \in Counted(c) <=> \E e \in Listed : \E k \in 1..ent[e].use :
                                 ent[e].chan = c /\ x = <<e, k>>
  BY DEF Counted

LEMMA InStarted ==
  ASSUME NEW c, NEW x
  PROVE  x \in Started(c) <=> \E t \in Threads : \E k \in 1..uses[t][c] : x = <<t, k>>
  BY DEF Started

\* A listed entry is counted, so that a channel without starts has no entry.
LEMMA NoStartsNoEntry ==
  ASSUME AInv, NEW c \in Channels, \A t \in Threads : uses[t][c] = 0
  PROVE  \A e \in Listed : ent[e].chan # c
<1>1. Started(c) = {}
  BY InStarted
<1>2. Counted(c) = {}
  BY <1>1, BothEmpty DEF AInv, Balanced, SameSize
<1>3. ASSUME NEW e \in Listed, ent[e].chan = c PROVE FALSE
  <2>1. ent[e].use \in Nat /\ ent[e].use > 0
    BY <1>3 DEF AInv, Linked, Shape, EntShape, Listed
  <2>2. <<e, 1>> \in Counted(c)
    BY <2>1, <1>3, InCounted
  <2> QED BY <1>2, <2>2
<1> QED BY <1>3

\* The other way round: a channel that was started has an entry.
LEMMA StartsEntry ==
  ASSUME AInv, NEW c \in Channels, NEW t \in Threads, uses[t][c] > 0
  PROVE  \E e \in Listed : ent[e].chan = c
<1>1. uses[t][c] \in Nat
  BY DEF AInv, Shape, CallShape
<1>2. <<t, 1>> \in Started(c)
  BY <1>1, InStarted
<1>3. Counted(c) # {}
  BY <1>2, BothEmpty DEF AInv, Balanced, SameSize
<1> QED BY <1>3, InCounted

-----------------------------------------------------------------------------
(* Init.                                                                   *)

LEMMA InvInit == Init => AInv
<1> SUFFICES ASSUME Init PROVE AInv
  OBVIOUS
<1>1. Listed = {}
  BY DEF Init, Listed
<1>2. EntShape
  BY DEF Init, EntShape, Freed, EntFields
<1>3. ChanShape
  <2>1. PICK F \in SUBSET Flagged : chan = [c \in Channels |-> NewChan(c \in F)]
    BY Zenon DEF Init
  <2> QED BY <2>1, Zenon DEF ChanShape, NewChan, ChanFields
<1>4. AsShape
  BY DEF Init, AsShape, NoLoop, NoMons, AsFields, Places
<1>5. CallShape
  BY DEF Init, CallShape, Idle, CallPlaces
<1>6. \A t \in Threads : call[t] = Idle
  BY DEF Init
<1>7. Linked /\ NoThreadNoEntry
  <2>1. aslist = <<>> /\ DOMAIN aslist = {}
    BY DEF Init
  <2> QED BY <1>1, <2>1 DEF Linked, Distinct, NoThreadNoEntry
<1>8. Calls /\ Exclusive
  <2>1. \A t \in Threads : call[t].pc = "idle" /\ call[t].locked = FALSE
    BY <1>6 DEF Idle
  <2> QED BY <1>6, <2>1 DEF Calls, CallOK, Exclusive, Owns
<1>9. HeldOK
  BY DEF HeldOK, Held, Init, NoLoop
<1>10. Balanced
  <2> SUFFICES ASSUME NEW c \in Channels PROVE SameSize(Counted(c), Started(c))
    BY DEF Balanced, SameSize
  <2>1. Counted(c) = {}
    BY <1>1, InCounted
  <2>2. \A t \in Threads : uses[t][c] = 0
    BY DEF Init
  <2>3. Started(c) = {}
    BY <2>2, InStarted
  <2> QED BY <2>1, <2>3, FS_EmptySet DEF SameSize
<1> QED BY <1>2, <1>3, <1>4, <1>5, <1>7, <1>8, <1>9, <1>10, SMTT(30) DEF AInv, Shape, Init

-----------------------------------------------------------------------------
(* Steps that leave the list and the calls alone.                          *)

SameEnts ==
    /\ DOMAIN ent' = Ents
    /\ \A e \in Ents : /\ DOMAIN ent'[e] = EntFields
                       /\ ent'[e].st = ent[e].st
                       /\ ent'[e].chan = ent[e].chan
                       /\ ent'[e].use = ent[e].use
Alive == {c \in Channels : chan[c].alive}

\* A step on the readq of a channel, or on its softhangup flag, leaves the rest of it.
QueueStep(c) == \E q, h : chan' = [chan EXCEPT ![c].readq = q, ![c].softhangup = h]

LEMMA TakeFrameMoves ==
  ASSUME NEW c, TakeFrame(c)
  PROVE  QueueStep(c)
<1>1. PICK q : q = Tail(IF MarksEnd(c) THEN Append(chan[c].readq, Len(came[c]) + 1) ELSE chan[c].readq)
  OBVIOUS
<1>2. PICK n : n = (came[c][Head(chan[c].readq)] = "hangup")
  OBVIOUS
<1>3. chan' = [chan EXCEPT ![c].readq = q, ![c].softhangup = @ \/ n]
  BY <1>1, <1>2, Zenon DEF TakeFrame
<1> QED BY <1>3, Zenon DEF QueueStep

LEMMA QueueStepFacts ==
  ASSUME ChanShape, NEW c, chan' = chan \/ QueueStep(c)
  PROVE  /\ ChanShape' /\ Alive' = Alive
         /\ \A d \in Channels : chan'[d].was = chan[d].was /\ chan'[d].enddtmf = chan[d].enddtmf
<1>1. CASE chan' = chan
  BY <1>1, Zenon DEF ChanShape, Alive
<1>2. CASE QueueStep(c)
  <2>1. PICK q, h : chan' = [chan EXCEPT ![c].readq = q, ![c].softhangup = h]
    BY <1>2, Zenon DEF QueueStep
  <2>2. DOMAIN chan' = Channels
    BY <2>1, Zenon DEF ChanShape
  <2>3. ASSUME NEW d \in Channels
        PROVE  /\ DOMAIN chan'[d] = ChanFields /\ chan'[d].alive = chan[d].alive
               /\ chan'[d].was = chan[d].was /\ chan'[d].enddtmf = chan[d].enddtmf
    <3>1. DOMAIN chan[d] = ChanFields
      BY <2>3, Zenon DEF ChanShape
    <3>2. CASE d # c
      BY <2>1, <2>3, <3>1, <3>2, Zenon DEF ChanShape
    <3>3. CASE d = c
      <4>1. chan'[d] = [chan[d] EXCEPT !.readq = q, !.softhangup = h]
        BY <2>1, <2>3, <3>3, Zenon DEF ChanShape
      <4> QED BY <3>1, <4>1, Zenon DEF ChanFields
    <3> QED BY <3>2, <3>3
  <2> QED BY <2>2, <2>3, Zenon DEF ChanShape, Alive
<1> QED BY <1>1, <1>2

\* Such a step keeps what does not mention the thread.
LEMMA QuietStep ==
  ASSUME AInv, UNCHANGED <<aslist, call, uses>>, SameEnts,
         ChanShape', Alive \subseteq Alive'
  PROVE  /\ EntShape' /\ Listed' = Listed
         /\ Linked' /\ Calls' /\ Exclusive' /\ Balanced'
<1> USE DEF AInv
<1>1. Listed' = Listed /\ Listed \subseteq Ents
  BY DEF Listed, Shape
<1>2. EntShape'
  BY DEF SameEnts, EntShape, Shape
<1>3. \A c \in Channels : chan[c].alive => chan'[c].alive
  BY DEF Alive
<1>4. Linked'
  BY <1>1, <1>3 DEF Linked, SameEnts, Distinct
<1>5. ASSUME NEW t \in Threads, Owns(t) PROVE call[t].ent \in Ents
  BY <1>5, SMTT(30) DEF Calls, CallOK
<1>6. Calls'
  BY <1>1, <1>3, <1>5, SMTT(30) DEF Calls, CallOK, SameEnts, Owns
<1>7. Exclusive'
  BY <1>1 DEF Exclusive, SameEnts
<1>8. \A c \in Channels : Counted(c)' = Counted(c) /\ Started(c)' = Started(c)
  BY <1>1 DEF Counted, Started, SameEnts
<1>9. Balanced'
  BY <1>8 DEF Balanced
<1> QED BY <1>1, <1>2, <1>4, <1>6, <1>7, <1>9, SMTT(30)

\* What the traversal collects is on the list.
LEMMA CollectOK ==
  ASSUME AInv, Collect, UNCHANGED <<aslist, call, uses, ent, chan>>
  PROVE  AsShape' /\ HeldOK' /\ as'.pc # "none"
<1> USE DEF AInv
<1> DEFINE live == {i \in DOMAIN aslist : ~chan[ent[aslist[i]].chan].softhangup}
           taken == {i \in live : Cardinality({j \in live : j < i}) < MaxAutomons}
           mon == [c \in Channels |->
                     IF \E i \in taken : aslist[i] = FindEnt(c) THEN FindEnt(c) ELSE None]
<1>1. as' = [NoLoop EXCEPT !.pc = IF mon = NoMons THEN "top" ELSE "waitfor", !.mon = mon]
  BY DEF Collect
<1>2. ASSUME NEW c \in Channels
      PROVE  mon[c] = None \/ (mon[c] \in Listed /\ mon[c] \in Ents /\ ent[mon[c]].chan = c)
  <2>1. mon[c] \in {FindEnt(c), None}
    OBVIOUS
  <2>2. FindEnt(c) = None \/ (FindEnt(c) \in Listed /\ ent[FindEnt(c)].chan = c)
    BY FindEntFinds DEF Shape
  <2>3. Listed \subseteq Ents
    BY SMTT(30) DEF Listed, Shape
  <2> HIDE DEF mon
  <2> QED BY <2>1, <2>2, <2>3
<1> HIDE DEF mon
<1>3. mon \in [Channels -> Ents \cup {None}]
  BY <1>2, Zenon DEF mon
<1>4. /\ DOMAIN as' = AsFields /\ as'.pc \in {"top", "waitfor"}
      /\ as'.mon = mon
  BY <1>1, SMTT(30) DEF NoLoop, AsFields
<1>5. AsShape'
  BY <1>3, <1>4 DEF AsShape, Places
<1>6. Listed' = Listed
  BY DEF Listed
<1>7. ASSUME NEW c \in Held'
      PROVE  /\ c \in Channels /\ as'.mon[c] \in Listed
             /\ ent[as'.mon[c]].chan = c
    BY <1>2, <1>4, <1>7, SMTT(30) DEF Held, Monitored
<1>8. HeldOK'
  BY <1>6, <1>7 DEF HeldOK, Linked
<1> QED BY <1>4, <1>5, <1>8, SMTT(30)

\* The thread goes round with nothing in hand.
LEMMA RoundOK ==
  ASSUME NEW pc \in {"top", "cond"}, as' = [NoLoop EXCEPT !.pc = pc]
  PROVE  AsShape' /\ HeldOK' /\ as'.pc # "none"
  BY DEF AsShape, HeldOK, Held, NoLoop, NoMons, AsFields, Places

\* The thread holds what it held, and nobody has been able to free it.
LEMMA HeldKept ==
  ASSUME AInv, UNCHANGED <<call, rebuilt>>, SameEnts, Listed' = Listed,
         Alive \subseteq Alive', Held' \subseteq Held, as'.mon = as.mon
  PROVE  HeldOK'
<1> USE DEF AInv
<1>1. ASSUME NEW c \in Held
      PROVE  c \in Channels /\ as.mon[c] \in Ents
  BY <1>1, AutoserviceAssumption, Zenon DEF Held, Monitored, Shape, AsShape
<1>2. \A c \in Channels : chan[c].alive => chan'[c].alive
  BY DEF Alive
<1>3. ASSUME NEW c \in Held'
      PROVE  /\ ent'[as'.mon[c]].st = "used" /\ ent'[as'.mon[c]].chan = c /\ chan'[c].alive
             /\ \/ as'.mon[c] \in Listed'
                \/ \E t \in Threads : /\ call'[t].pc = "wait" /\ call'[t].ent = as'.mon[c]
                                      /\ ~rebuilt'[t]
  <2>1. c \in Held /\ c \in Channels /\ as.mon[c] \in Ents
    BY <1>1, Zenon
  <2>2. ent[as.mon[c]].st = "used" /\ ent[as.mon[c]].chan = c /\ chan[c].alive
    BY <2>1, Zenon DEF HeldOK
  <2>3. \/ as.mon[c] \in Listed
        \/ \E t \in Threads : /\ call[t].pc = "wait" /\ call[t].ent = as.mon[c]
                              /\ ~rebuilt[t]
    BY <2>1, ZenonT(60) DEF HeldOK
  <2> QED BY <1>2, <2>1, <2>2, <2>3, ZenonT(60) DEF SameEnts
<1> QED BY <1>3, Zenon DEF HeldOK

\* The steps of the thread, of the channels, and ast_autoservice_ignore.
LEMMA ThreadStep ==
  ASSUME AInv, AutoserviceThread \/ AsSpurious
  PROVE  AInv'
<1> USE DEF AInv
<1>1. CASE AsTop \/ AsWake \/ AsSpurious
  <2>1. UNCHANGED <<aslist, ent, call, uses, chan>> /\ as.pc # "none"
    BY <1>1, Zenon DEF AsTop, AsWake, AsSpurious
  <2>2. rebuilt' \in [Threads -> BOOLEAN]
    BY <1>1, Zenon DEF AsTop, AsWake, AsSpurious, Shape, CallShape
  <2>3. SameEnts /\ ChanShape' /\ Alive' = Alive
    BY <2>1 DEF SameEnts, Shape, EntShape, ChanShape, Alive
  <2>4. AsShape' /\ HeldOK' /\ as'.pc # "none"
    BY <1>1, <2>1, CollectOK, RoundOK, ZenonT(60) DEF AsTop, AsWake, AsSpurious
  <2>5. /\ EntShape' /\ Linked' /\ Calls' /\ Exclusive' /\ Balanced'
    BY <2>1, <2>3, QuietStep
  <2> QED
    BY <2>1, <2>2, <2>3, <2>4, <2>5 DEF Shape, CallShape, NoThreadNoEntry
<1>2. CASE AsWaitfor
  <2>1. UNCHANGED <<aslist, ent, call, uses, chan, rebuilt>>
    BY <1>2, Zenon DEF AsWaitfor
  <2>2. SameEnts /\ ChanShape' /\ Alive' = Alive
    BY <2>1 DEF SameEnts, Shape, EntShape, ChanShape, Alive
  <2>3. /\ EntShape' /\ Listed' = Listed /\ Linked' /\ Calls' /\ Exclusive' /\ Balanced'
    BY <2>1, <2>2, QuietStep, SMTT(30)
  <2>4. AsShape' /\ HeldOK' /\ as'.pc # "none"
    <3>1. CASE as' = [NoLoop EXCEPT !.pc = "top"]
      BY <3>1, RoundOK
    <3>2. ASSUME NEW c \in Monitored, as' = [as EXCEPT !.pc = "read", !.chan = c]
          PROVE  AsShape' /\ HeldOK' /\ as'.pc # "none"
      <4>1. DOMAIN as' = AsFields /\ as'.pc = "read" /\ as'.mon = as.mon
        BY <3>2 DEF Shape, AsShape, AsFields
      <4>2. Held' \subseteq Held
        BY <1>2, <4>1, Zenon DEF AsWaitfor, Held, Monitored
      <4> QED BY <2>1, <2>2, <2>3, <4>1, <4>2, HeldKept, Zenon DEF Shape, AsShape, Places
    <3> QED BY <1>2, <3>1, <3>2, Zenon DEF AsWaitfor
  <2> QED BY <2>1, <2>2, <2>3, <2>4 DEF Shape, CallShape, NoThreadNoEntry
<1>3. CASE AsRead
  <2>1. UNCHANGED <<aslist, ent, call, uses, rebuilt>> /\ as.pc = "read"
    BY <1>3 DEF AsRead
  <2>2. chan' = chan \/ QueueStep(as.chan)
    BY <1>3, TakeFrameMoves, Zenon DEF AsRead
  <2>3. ChanShape' /\ Alive' = Alive
    BY <2>2, QueueStepFacts, Zenon DEF Shape
  <2>4. SameEnts
    BY <2>1 DEF SameEnts, Shape, EntShape
  <2>5. /\ EntShape' /\ Listed' = Listed /\ Linked' /\ Calls' /\ Exclusive' /\ Balanced'
    BY <2>1, <2>3, <2>4, QuietStep
  <2>6. AsShape' /\ HeldOK' /\ as'.pc # "none"
    <3> DEFINE f == Head(chan[as.chan].readq)
    <3>1. CASE as' = [NoLoop EXCEPT !.pc = "top"]
      BY <3>1, RoundOK
    <3>2. CASE as' = [as EXCEPT !.pc = "defer", !.frame = f]
      <4>1. DOMAIN as' = AsFields /\ as'.pc = "defer" /\ as'.mon = as.mon
        BY <3>2 DEF Shape, AsShape, AsFields
      <4>2. Held' \subseteq Held
        BY <2>1, <4>1, Zenon DEF Held, Monitored
      <4> QED BY <2>1, <2>3, <2>4, <2>5, <4>1, <4>2, HeldKept, Zenon DEF Shape, AsShape, Places
    <3> QED BY <1>3, <3>1, <3>2, Zenon DEF AsRead
  <2> QED BY <2>1, <2>3, <2>5, <2>6 DEF Shape, CallShape, NoThreadNoEntry
<1>4. CASE AsDefer
  <2>1. UNCHANGED <<aslist, call, uses, chan, rebuilt>> /\ as' = [NoLoop EXCEPT !.pc = "top"]
    BY <1>4 DEF AsDefer
  <2>2. SameEnts
    BY <1>4, Zenon DEF AsDefer, SameEnts, Shape, EntShape, EntFields
  <2>3. ChanShape' /\ Alive' = Alive
    BY <2>1 DEF Shape, ChanShape, Alive
  <2>4. AsShape' /\ HeldOK' /\ as'.pc # "none"
    BY <2>1, RoundOK
  <2>5. /\ EntShape' /\ Linked' /\ Calls' /\ Exclusive' /\ Balanced'
    BY <2>1, <2>2, <2>3, QuietStep
  <2> QED BY <2>1, <2>3, <2>4, <2>5 DEF Shape, CallShape, NoThreadNoEntry
<1> QED BY <1>1, <1>2, <1>3, <1>4 DEF AutoserviceThread

LEMMA ChannelMoves ==
  ASSUME ChanShape, NEW c \in Channels, SoftHangup(c) \/ \E k \in Kinds : Arrive(c, k)
  PROVE  QueueStep(c)
<1>0. DOMAIN chan = Channels /\ DOMAIN chan[c] = ChanFields
  BY Zenon DEF ChanShape
<1>1. CASE SoftHangup(c)
  <2>1. chan' = [chan EXCEPT ![c].softhangup = TRUE]
    BY <1>1, Zenon DEF SoftHangup
  <2>2. chan' = [chan EXCEPT ![c].readq = chan[c].readq, ![c].softhangup = TRUE]
    BY <1>0, <2>1 DEF ChanFields
  <2> QED BY <2>2, Zenon DEF QueueStep
<1>2. ASSUME NEW k \in Kinds, Arrive(c, k) PROVE QueueStep(c)
  <2>1. PICK q : chan' = [chan EXCEPT ![c].readq = q]
    BY <1>2, Zenon DEF Arrive
  <2>2. chan' = [chan EXCEPT ![c].readq = q, ![c].softhangup = chan[c].softhangup]
    BY <1>0, <2>1 DEF ChanFields
  <2> QED BY <2>2, Zenon DEF QueueStep
<1> QED BY <1>1, <1>2

LEMMA ChannelStep ==
  ASSUME AInv, NEW c \in Channels,
         \/ Allocate(c) \/ SoftHangup(c) \/ \E k \in Kinds : Arrive(c, k)
         \/ \E t \in Threads : OwnerRead(t, c) \/ Ignore(t, c)
  PROVE  AInv'
<1> USE DEF AInv
<1>1. UNCHANGED <<aslist, call, uses, as, rebuilt>>
  BY Zenon DEF Arrive, SoftHangup, Allocate, OwnerRead, Ignore
<1>2. SameEnts
  <2>1. CASE ent' = ent
    BY <2>1 DEF SameEnts, Shape, EntShape
  <2>2. CASE ent' = [ent EXCEPT ![FindEnt(c)].ignore = TRUE]
    BY <2>2 DEF SameEnts, Shape, EntShape, EntFields
  <2> QED BY <2>1, <2>2, Zenon DEF Arrive, SoftHangup, Allocate, OwnerRead, Ignore
<1>3. ChanShape' /\ Alive \subseteq Alive'
  <2>1. CASE Allocate(c)
    <3>1. PICK F \in SUBSET Flagged : chan' = [chan EXCEPT ![c] = NewChan(c \in F)]
      BY <2>1, Zenon DEF Allocate
    <3>2. DOMAIN NewChan(c \in F) = ChanFields /\ NewChan(c \in F).alive = TRUE
      BY DEF NewChan, ChanFields
    <3> QED BY <3>1, <3>2, Zenon DEF Shape, ChanShape, Alive
  <2>2. CASE chan' = chan \/ QueueStep(c)
    BY <2>2, QueueStepFacts, Zenon DEF Shape
  <2>3. ASSUME SoftHangup(c) \/ \E k \in Kinds : Arrive(c, k) PROVE QueueStep(c)
    BY <2>3, ChannelMoves, Zenon DEF Shape
  <2>4. ASSUME NEW t \in Threads, OwnerRead(t, c) \/ Ignore(t, c)
        PROVE  chan' = chan \/ QueueStep(c)
    BY <2>4, TakeFrameMoves, Zenon DEF OwnerRead, Ignore
  <2> QED BY <2>1, <2>2, <2>3, <2>4
<1>4. /\ EntShape' /\ Listed' = Listed /\ Linked' /\ Calls' /\ Exclusive' /\ Balanced'
  BY <1>1, <1>2, <1>3, QuietStep
<1>5. HeldOK'
  <2>1. Held' = Held
    BY <1>1 DEF Held, Monitored
  <2> QED BY <1>1, <1>2, <1>3, <1>4, <2>1, HeldKept
<1> QED BY <1>1, <1>3, <1>4, <1>5, Zenon DEF Shape, AsShape, CallShape, NoThreadNoEntry


-----------------------------------------------------------------------------
(* Steps of callers.                                                       *)

\* What is known of a caller inside a call, and of one that is not.
LEMMA CallFacts ==
  ASSUME Calls, NEW u \in Threads
  PROVE  /\ call[u].pc # "idle" => call[u].chan \in Channels /\ chan[call[u].chan].alive
         /\ call[u].locked <=> call[u].pc = "destroy"
         /\ Owns(u) => /\ call[u].ent \in Ents /\ call[u].ent \notin Listed
                       /\ ent[call[u].ent].st = "used"
                       /\ ent[call[u].ent].chan = call[u].chan
  BY Zenon DEF Calls, CallOK

LEMMA IdleFacts ==
  ASSUME NEW t \in Threads, call'[t] = Idle
  PROVE  /\ CallOK(t)' /\ ~Owns(t)' /\ call'[t].pc = "idle" /\ call'[t].chan = None
         /\ call'[t].pc # "destroy"
<1>1. Idle.pc = "idle" /\ Idle.locked = FALSE /\ Idle.chan = None
  BY DEF Idle
<1>2. ~Owns(t)'
  BY <1>1 DEF Owns
<1> QED BY <1>1, <1>2, Zenon DEF CallOK

\* A caller that does not move keeps what it knew, if its channel lives on and
\* nobody takes its entry.
LEMMA CallKept ==
  ASSUME NEW u \in Threads, CallOK(u), call'[u] = call[u],
         call[u].pc # "idle" => chan'[call[u].chan].alive,
         Owns(u) => /\ call[u].ent \notin Listed'
                    /\ ent'[call[u].ent].st = ent[call[u].ent].st
                    /\ ent'[call[u].ent].chan = ent[call[u].ent].chan
                    /\ ent'[call[u].ent].use = ent[call[u].ent].use
  PROVE  CallOK(u)'
<1>1. Owns(u)' = Owns(u)
  BY Zenon DEF Owns
<1>2. call[u].pc = "insert" => Owns(u)
  BY Zenon DEF Owns
<1> QED BY <1>1, <1>2, ZenonT(30) DEF CallOK

\* The same for every caller but t.
LEMMA OthersKept ==
  ASSUME NEW t \in Threads, Calls,
         \A u \in Threads \ {t} : call'[u] = call[u],
         \A u \in Threads \ {t} : call[u].pc # "idle" => chan'[call[u].chan].alive,
         \A u \in Threads \ {t} :
            Owns(u) => /\ call[u].ent \notin Listed'
                       /\ ent'[call[u].ent].st = ent[call[u].ent].st
                       /\ ent'[call[u].ent].chan = ent[call[u].ent].chan
                       /\ ent'[call[u].ent].use = ent[call[u].ent].use,
         CallOK(t)',
         Owns(t)' => \A u \in Threads \ {t} : Owns(u) => call[u].ent # call'[t].ent
  PROVE  Calls'
<1>1. ASSUME NEW u \in Threads \ {t} PROVE CallOK(u)' /\ Owns(u)' = Owns(u)
  <2>1. CallOK(u)
    BY Zenon DEF Calls
  <2>2. CallOK(u)'
    BY <2>1, CallKept, Zenon
  <2>3. Owns(u)' = Owns(u)
    BY Zenon DEF Owns
  <2> QED BY <2>2, <2>3
<1>2. ASSUME NEW u \in Threads, NEW v \in Threads,
             Owns(u)', Owns(v)', call'[u].ent = call'[v].ent
      PROVE  u = v
  <2>1. CASE u # t /\ v # t
    BY <1>1, <1>2, <2>1, Zenon DEF Calls
  <2>2. CASE u = t \/ v = t
    BY <1>1, <1>2, <2>2, Zenon
  <2> QED BY <2>1, <2>2
<1>3. \A u \in Threads : CallOK(u)'
  BY <1>1, Zenon
<1> QED BY <1>2, <1>3, Zenon DEF Calls

\* Nobody but t moves, and nothing new knows of a channel that is being destroyed.
LEMMA ExclusiveKept ==
  ASSUME NEW t \in Threads, Exclusive, call'[t].pc # "destroy",
         \A u \in Threads \ {t} : call'[u] = call[u],
         \A u \in Threads \ {t} : call[u].pc = "destroy" =>
            /\ \A v \in Threads : uses'[v][call[u].chan] = uses[v][call[u].chan]
            /\ call'[t].chan # call[u].chan
            /\ \A e \in Listed' : \/ e \in Listed /\ ent'[e].chan = ent[e].chan
                                 \/ ent'[e].chan # call[u].chan
  PROVE  Exclusive'
<1>1. ASSUME NEW u \in Threads, call'[u].pc = "destroy"
      PROVE  /\ \A v \in Threads : uses'[v][call'[u].chan] = 0
             /\ \A v \in Threads \ {u} : call'[v].chan # call'[u].chan
             /\ \A e \in Listed' : ent'[e].chan # call'[u].chan
  <2>1. u # t /\ call'[u] = call[u] /\ call[u].pc = "destroy"
    BY <1>1, Zenon
  <2>2. /\ \A v \in Threads : uses[v][call[u].chan] = 0
        /\ \A v \in Threads \ {u} : call[v].chan # call[u].chan
        /\ \A e \in Listed : ent[e].chan # call[u].chan
    BY <2>1, Zenon DEF Exclusive
  <2>3. \A v \in Threads : uses'[v][call[u].chan] = 0
    BY <2>1, <2>2, Zenon
  <2>4. \A v \in Threads \ {u} : call'[v].chan # call[u].chan
    BY <2>1, <2>2, Zenon
  <2>5. \A e \in Listed' : ent'[e].chan # call[u].chan
    BY <2>1, <2>2, Zenon
  <2> QED BY <2>1, <2>3, <2>4, <2>5, Zenon
<1> QED BY <1>1, Zenon DEF Exclusive

\* What the thread holds stays held, while a caller changes the list.
LEMMA HeldStays ==
  ASSUME AInv, Held' \subseteq Held, as'.mon = as.mon, NEW E \in SUBSET Ents,
         \A e \in Ents \ E : ent'[e].st = ent[e].st /\ ent'[e].chan = ent[e].chan,
         \A c \in Held : as.mon[c] \notin E /\ chan'[c].alive,
         \A e \in Listed : \/ e \in Listed'
                           \/ \E t \in Threads : /\ call'[t].pc = "wait" /\ call'[t].ent = e
                                                 /\ ~rebuilt'[t],
         \A t \in Threads : call[t].pc = "wait" /\ ~rebuilt[t] =>
                               \/ call[t].ent \in E
                               \/ /\ call'[t].pc = "wait" /\ call'[t].ent = call[t].ent
                                  /\ ~rebuilt'[t]
  PROVE  HeldOK'
<1> USE DEF AInv
<1>2. ASSUME NEW c \in Held'
      PROVE  /\ ent'[as'.mon[c]].st = "used" /\ ent'[as'.mon[c]].chan = c /\ chan'[c].alive
             /\ \/ as'.mon[c] \in Listed'
                \/ \E t \in Threads : /\ call'[t].pc = "wait" /\ call'[t].ent = as'.mon[c]
                                      /\ ~rebuilt'[t]
  <2>0. c \in Held /\ as'.mon[c] = as.mon[c]
    OBVIOUS
  <2>1. c \in Channels /\ as.mon[c] \in Ents \ E
    <3>1. c \in Channels /\ as.mon[c] # None
      BY <2>0, Zenon DEF Held, Monitored
    <3>2. as.mon[c] \in Ents
      BY <3>1, ZenonT(60) DEF Shape, AsShape
    <3> QED BY <2>0, <3>1, <3>2, Zenon
  <2>2. ent'[as.mon[c]].st = "used" /\ ent'[as.mon[c]].chan = c /\ chan'[c].alive
    <3>1. ent[as.mon[c]].st = "used" /\ ent[as.mon[c]].chan = c
      BY <2>0, Zenon DEF HeldOK
    <3> QED BY <2>0, <2>1, <3>1, Zenon
  <2>3. CASE as.mon[c] \in Listed
    BY <2>0, <2>2, <2>3, Zenon
  <2>4. CASE \E t \in Threads : /\ call[t].pc = "wait" /\ call[t].ent = as.mon[c]
                                /\ ~rebuilt[t]
    <3>1. PICK t \in Threads : call[t].pc = "wait" /\ call[t].ent = as.mon[c] /\ ~rebuilt[t]
      BY <2>4, Zenon
    <3>2. as.mon[c] \notin E
      BY <2>1, Zenon
    <3>3. call'[t].pc = "wait" /\ call'[t].ent = as.mon[c] /\ ~rebuilt'[t]
      BY <3>1, <3>2, Zenon
    <3> QED BY <2>0, <2>2, <3>3, Zenon
  <2> QED BY <2>0, <2>3, <2>4, Zenon DEF HeldOK
<1> QED BY <1>2, Zenon DEF HeldOK

\* The same when no entry is freed.
LEMMA HeldStaysAll ==
  ASSUME AInv, Held' \subseteq Held, as'.mon = as.mon,
         \A e \in Ents : ent'[e].st = ent[e].st /\ ent'[e].chan = ent[e].chan,
         \A c \in Held : chan'[c].alive,
         \A e \in Listed : \/ e \in Listed'
                           \/ \E t \in Threads : /\ call'[t].pc = "wait" /\ call'[t].ent = e
                                                 /\ ~rebuilt'[t],
         \A t \in Threads : call[t].pc = "wait" /\ ~rebuilt[t] =>
                               /\ call'[t].pc = "wait" /\ call'[t].ent = call[t].ent
                               /\ ~rebuilt'[t]
  PROVE  HeldOK'
<1>1. {} \in SUBSET Ents /\ \A x : x \notin {}
  OBVIOUS
<1>2. \A e \in Ents \ {} : ent'[e].st = ent[e].st /\ ent'[e].chan = ent[e].chan
  OBVIOUS
<1> QED BY <1>1, <1>2, HeldStays, Zenon

LEMMA SameThread ==
  ASSUME as' = as
  PROVE  Held' \subseteq Held /\ as'.mon = as.mon
  BY DEF Held, Monitored

LEMMA BalanceKept ==
  ASSUME AInv, Listed' = Listed, uses' = uses,
         \A e \in Listed : ent'[e].chan = ent[e].chan /\ ent'[e].use = ent[e].use
  PROVE  Balanced'
<1>1. ASSUME NEW d \in Channels
      PROVE  Counted(d)' = Counted(d) /\ Started(d)' = Started(d)
  BY DEF Counted, Started
<1> QED BY <1>1 DEF AInv, Balanced

\* A start that finds an entry: both counts of c grow.
LEMMA StartLookupStep ==
  ASSUME AInv, NEW t \in Threads, NEW c \in Channels, StartLookup(t, c)
  PROVE  AInv'
<1> USE DEF AInv
<1>0. /\ UNCHANGED <<aslist, as, rebuilt, chan>> /\ Listed' = Listed /\ Listed \subseteq Ents
      /\ chan[c].alive /\ call[t].pc = "idle"
      /\ \A u \in Threads : call[u].locked => call[u].chan # c
  BY DEF StartLookup, Listed, LockedBy, Shape
<1>1. CASE FindEnt(c) # None
  <2>1. PICK e \in Listed : e = FindEnt(c) /\ ent[e].chan = c
    BY <1>1, FindEntFinds DEF Shape
  <2>2. /\ ent' = [ent EXCEPT ![e].use = ent[e].use + 1]
        /\ uses' = [uses EXCEPT ![t][c] = uses[t][c] + 1]
        /\ call' = call
    BY <1>1, <2>1 DEF StartLookup
  <2>3. /\ EntShape'
        /\ \A d \in Ents : ent'[d].st = ent[d].st /\ ent'[d].chan = ent[d].chan
        /\ \A d \in Ents \ {e} : ent'[d].use = ent[d].use
        /\ ent'[e].use = ent[e].use + 1
    BY <1>0, <2>2 DEF Shape, EntShape, EntFields
  <2>4. /\ CallShape'
        /\ \A u \in Threads, d \in Channels :
              uses'[u][d] = IF u = t /\ d = c THEN uses[u][d] + 1 ELSE uses[u][d]
    BY <1>0, <2>2, SMTT(30) DEF Shape, CallShape
  <2>5. Linked'
    BY <1>0, <2>3 DEF Linked, Shape, EntShape, Distinct
  <2>6. \A u \in Threads : Owns(u) => call[u].ent \in Ents \ Listed
    BY Zenon DEF Calls, CallOK
  <2>7. Calls'
    BY <1>0, <2>1, <2>2, <2>3, <2>6, SMTT(30) DEF Calls, CallOK, Owns
  <2>8. Exclusive'
    BY <1>0, <2>2, <2>3, <2>4, SMTT(30) DEF Exclusive, Calls, CallOK
  <2>9. HeldOK'
    <3>1. \A d \in Held : chan'[d].alive
      BY <1>0, Zenon DEF HeldOK
    <3> QED BY <1>0, <2>2, <2>3, <3>1, HeldStaysAll, SameThread, SMTT(30)
  <2>10. ASSUME NEW d \in Channels PROVE SameSize(Counted(d)', Started(d)')
    <3>1. CASE d # c
      <4>1. Counted(d)' = Counted(d)
        BY <1>0, <2>1, <2>3, <3>1 DEF Counted
      <4>2. Started(d)' = Started(d)
        BY <2>4, <3>1 DEF Started
      <4> QED BY <4>1, <4>2 DEF Balanced, SameSize
    <3>2. CASE d = c
      <4> DEFINE m == ent[e].use + 1
                 n == uses[t][c] + 1
      <4>1. ent[e].use \in Nat /\ uses[t][c] \in Nat
        BY <1>0, SMTT(30) DEF Shape, EntShape, CallShape
      <4>2. Counted(c)' = Counted(c) \cup {<<e, m>>} /\ <<e, m>> \notin Counted(c)
        BY <1>0, <2>1, <2>3, <4>1 DEF Counted
      <4>3. Started(c)' = Started(c) \cup {<<t, n>>} /\ <<t, n>> \notin Started(c)
        BY <2>4, <4>1 DEF Started
      <4>4. SameSize(Counted(c), Started(c))
        BY DEF Balanced, SameSize
      <4> HIDE DEF m, n
      <4>5. SameSize(Counted(c) \cup {<<e, m>>}, Started(c) \cup {<<t, n>>})
        BY <4>2, <4>3, <4>4, OneMore
      <4> QED BY <3>2, <4>2, <4>3, <4>5, SMTT(30)
    <3> QED BY <3>1, <3>2
  <2>11. Balanced'
    BY <2>10 DEF Balanced, SameSize
  <2> QED BY <1>0, <2>3, <2>4, <2>5, <2>7, <2>8, <2>9, <2>11, Zenon
          DEF Shape, AsShape, ChanShape, NoThreadNoEntry
<1>2. CASE FindEnt(c) = None
  <2> DEFINE new == [Idle EXCEPT !.pc = "new", !.chan = c]
  <2>1. call' = [call EXCEPT ![t] = new] /\ UNCHANGED <<ent, uses>>
    BY <1>2 DEF StartLookup
  <2>2. /\ new \in [pc : CallPlaces, chan : Channels \cup {None},
                     ent : Ents \cup {None}, locked : BOOLEAN]
        /\ new.pc = "new" /\ new.chan = c /\ new.locked = FALSE
    BY Zenon DEF Idle, CallPlaces
  <2> HIDE DEF new
  <2>3. Shape'
    BY <1>0, <2>1, <2>2, ZenonT(60) DEF Shape, EntShape, ChanShape, AsShape, CallShape, CallPlaces
  <2>4. \A u \in Threads : call'[u] = IF u = t THEN new ELSE call[u]
    BY <2>1 DEF Shape, CallShape
  <2>5. Calls'
    <3>1. call'[t] = new /\ \A u \in Threads \ {t} : call'[u] = call[u]
      BY <2>4
    <3>2. CallOK(t)' /\ ~Owns(t)'
      BY <1>0, <2>2, <3>1 DEF CallOK, Owns
    <3> QED BY <1>0, <2>1, <3>1, <3>2, CallFacts, OthersKept, Zenon
  <2>6. Exclusive'
    <3>1. call'[t].pc = "new" /\ call'[t].chan = c /\ \A u \in Threads \ {t} : call'[u] = call[u]
      BY <2>2, <2>4
    <3>2. \A u \in Threads : call[u].pc = "destroy" => call[u].chan # c
      BY <1>0, CallFacts, Zenon
    <3> QED BY <1>0, <2>1, <3>1, <3>2, ExclusiveKept, Zenon
  <2>7. HeldOK'
    <3>1. \A u \in Threads : call[u].pc = "wait" => call'[u] = call[u]
      BY <1>0, <2>4
    <3>2. \A d \in Held : chan'[d].alive
      BY <1>0, Zenon DEF HeldOK
    <3> QED BY <1>0, <2>1, <3>1, <3>2, HeldStaysAll, SameThread, SMTT(30)
  <2>8. Linked' /\ NoThreadNoEntry'
    BY <1>0, <2>1, ZenonT(60) DEF Linked, Distinct, NoThreadNoEntry
  <2>9. Balanced'
    BY <1>0, <2>1, BalanceKept
  <2> QED BY <2>3, <2>5, <2>6, <2>7, <2>8, <2>9
<1> QED BY <1>1, <1>2

\* A new entry: nobody knew of its memory.
LEMMA StartAllocStep ==
  ASSUME AInv, NEW t \in Threads, StartAlloc(t)
  PROVE  AInv'
<1> USE DEF AInv
<1> DEFINE new(e, c) == [Freed EXCEPT !.st = "used", !.chan = c, !.use = 1,
                                      !.orig = chan[c].enddtmf]
<1>1. PICK e \in Ents, c \in Channels :
        /\ ent[e].st = "free" /\ c = call[t].chan
        /\ ent' = [ent EXCEPT ![e] = new(e, c)]
        /\ chan' = [chan EXCEPT ![c].enddtmf = TRUE]
        /\ call' = [call EXCEPT ![t].pc = "insert", ![t].ent = e]
  <2> DEFINE m == CHOOSE x \in Ents : ent[x].st = "free"
  <2>1. m \in Ents /\ ent[m].st = "free"
    BY DEF StartAlloc
  <2>2. call[t].chan \in Channels
    BY DEF StartAlloc, Calls, CallOK
  <2> QED BY <2>1, <2>2, Zenon DEF StartAlloc
<1>2. UNCHANGED <<aslist, as, rebuilt, uses>> /\ call[t].pc = "new" /\ Listed' = Listed
  BY DEF StartAlloc, Listed
<1>3. /\ DOMAIN new(e, c) = EntFields /\ new(e, c).st = "used"
      /\ new(e, c).chan = c /\ new(e, c).use = 1
  BY DEF Freed, EntFields
<1> HIDE DEF new
<1>4. /\ EntShape' /\ ent'[e].st = "used" /\ ent'[e].chan = c /\ ent'[e].use = 1
      /\ \A d \in Ents \ {e} : ent'[d] = ent[d]
  BY <1>1, <1>3 DEF Shape, EntShape
<1>5. ChanShape' /\ \A d \in Channels : chan'[d].alive = chan[d].alive
  BY <1>1 DEF Shape, ChanShape, ChanFields
<1>6. /\ CallShape' /\ \A u \in Threads \ {t} : call'[u] = call[u]
      /\ call'[t].pc = "insert" /\ call'[t].ent = e
      /\ call'[t].chan = call[t].chan /\ call'[t].locked = call[t].locked
  BY <1>1, <1>2, Zenon DEF Shape, CallShape, CallPlaces
<1>7. /\ Listed \subseteq Ents /\ e \notin Listed
      /\ \A u \in Threads : Owns(u) => call[u].ent # e
      /\ \A d \in Held : as.mon[d] # e
  <2>1. Listed \subseteq Ents
    BY DEF Listed, Shape
  <2>2. e \notin Listed
    BY <1>1 DEF Linked
  <2>3. \A u \in Threads : Owns(u) => call[u].ent # e
    BY <1>1 DEF Calls, CallOK
  <2>4. \A d \in Held : as.mon[d] # e
    BY <1>1, ZenonT(60) DEF HeldOK
  <2> QED BY <2>1, <2>2, <2>3, <2>4, Zenon
<1>8. Linked'
  BY <1>2, <1>4, <1>5, <1>7 DEF Linked, Distinct
<1>9. Calls'
  <2>1. ASSUME NEW u \in Threads \ {t}, Owns(u)
        PROVE  call[u].ent \in Ents \ {e}
    BY <1>7, <2>1, Zenon DEF Calls, CallOK
  <2>2. ASSUME NEW u \in Threads \ {t}
        PROVE  CallOK(u)'
    <3>1. ent'[call[u].ent] = ent[call[u].ent] \/ ~Owns(u)
      BY <1>4, <2>1
    <3>2. CallOK(u) /\ call'[u] = call[u]
      BY <1>6 DEF Calls
    <3>3. call[u].pc # "idle" => chan'[call[u].chan].alive
      BY <1>5, CallFacts, Zenon
    <3> QED BY <1>2, <3>1, <3>2, <3>3, CallFacts, CallKept, Zenon
  <2>3. /\ call'[t].chan \in Channels /\ chan'[call'[t].chan].alive
        /\ call'[t].locked = FALSE
    BY <1>1, <1>2, <1>5, <1>6 DEF Calls, CallOK, Shape, CallShape
  <2>4. ASSUME NEW u \in Threads, NEW v \in Threads,
               Owns(u)', Owns(v)', call'[u].ent = call'[v].ent
        PROVE  u = v
    BY <1>6, <2>1, <2>4 DEF Calls, CallOK, Owns
  <2>5. CallOK(t)'
    BY <1>1, <1>2, <1>4, <1>6, <1>7, <2>3 DEF CallOK, Owns
  <2> QED BY <2>2, <2>4, <2>5 DEF Calls
<1>10. Exclusive'
  BY <1>2, <1>4, <1>6, <1>7, SMTT(30) DEF Exclusive
<1>11. HeldOK'
  <2>1. \A d \in Held : as.mon[d] \notin {e} /\ chan'[d].alive
    BY <1>5, <1>7, Zenon DEF HeldOK, Held, Monitored
  <2>2. \A u \in Threads : call[u].pc = "wait" => call'[u] = call[u]
    BY <1>2, <1>6
  <2>3. {e} \in SUBSET Ents /\ \A d \in Ents \ {e} : ent'[d].st = ent[d].st /\ ent'[d].chan = ent[d].chan
    BY <1>4
  <2> QED BY <1>2, <2>1, <2>2, <2>3, HeldStays, SameThread, Zenon
<1>12. Balanced'
  BY <1>2, <1>4, <1>7, BalanceKept, SMTT(30)
<1> QED BY <1>2, <1>4, <1>5, <1>6, <1>8, <1>9, <1>10, <1>11, <1>12, ZenonT(60)
        DEF Shape, AsShape, NoThreadNoEntry

LEMMA StartNoMemoryStep ==
  ASSUME AInv, NEW t \in Threads, StartNoMemory(t)
  PROVE  AInv'
<1> USE DEF AInv
<1>1. /\ UNCHANGED <<aslist, ent, as, rebuilt, uses, chan>> /\ Listed' = Listed
      /\ call[t].pc = "new" /\ call' = [call EXCEPT ![t] = Idle]
  BY DEF StartNoMemory, Listed
<1>2. /\ CallShape' /\ call'[t] = Idle /\ \A u \in Threads \ {t} : call'[u] = call[u]
  BY <1>1 DEF Shape, CallShape, Idle, CallPlaces
<1>3. Idle.pc = "idle" /\ Idle.locked = FALSE /\ Idle.chan = None
  BY DEF Idle
<1>4. Calls'
  BY <1>1, <1>2, CallFacts, IdleFacts, OthersKept, Zenon
<1>5. Exclusive'
  <2>1. \A u \in Threads : call[u].pc = "destroy" => call[u].chan # None
    BY CallFacts, AutoserviceAssumption
  <2>2. call'[t].chan = None /\ call'[t].pc # "destroy"
    BY <1>2, IdleFacts, Zenon
  <2>3. uses' = uses /\ ent' = ent /\ Listed' = Listed
    BY <1>1
  <2> QED BY <1>2, <2>1, <2>2, <2>3, ExclusiveKept, Zenon
<1>6. HeldOK'
  <2>1. \A u \in Threads : call[u].pc = "wait" => call'[u] = call[u]
    BY <1>1, <1>2
  <2>2. \A d \in Held : chan'[d].alive
    BY <1>1, Zenon DEF HeldOK
  <2> QED BY <1>1, <2>1, <2>2, HeldStaysAll, SameThread, SMTT(30)
<1>7. Linked' /\ NoThreadNoEntry'
  BY <1>1, Zenon DEF Linked, Distinct, NoThreadNoEntry
<1>8. Balanced'
  BY <1>1, BalanceKept
<1> QED BY <1>1, <1>2, <1>4, <1>5, <1>6, <1>7, <1>8, Zenon DEF Shape, EntShape, ChanShape, AsShape

\* The insertion: one more entry, one more start.
LEMMA StartInsertStep ==
  ASSUME AInv, NEW t \in Threads, StartInsert(t)
  PROVE  AInv'
<1> USE DEF AInv
<1>1. PICK e \in Ents, c \in Channels :
        /\ e = call[t].ent /\ c = call[t].chan /\ e \notin Listed
        /\ ent[e].st = "used" /\ ent[e].use = 1 /\ ent[e].chan = c /\ chan[c].alive
  BY DEF StartInsert, Calls, CallOK, Owns
<1>2. /\ UNCHANGED <<ent, rebuilt, chan>> /\ call[t].pc = "insert"
      /\ aslist' = <<e>> \o aslist
      /\ as' = [as EXCEPT !.pc = Signal(as.pc)]
      /\ uses' = [uses EXCEPT ![t][c] = uses[t][c] + 1]
      /\ call' = [call EXCEPT ![t] = Idle]
  BY <1>1 DEF StartInsert
<1>3. Listed = Elts(aslist) /\ Listed' = Elts(aslist') /\ Listed \subseteq Ents
  BY DEF Listed, Elts, Shape
<1>4. aslist' \in Seq(Ents) /\ Distinct(aslist') /\ Listed' = Listed \cup {e}
  BY <1>1, <1>2, <1>3, InsertHeadOfList, SMTT(30) DEF Shape, Linked
<1>5. /\ CallShape' /\ call'[t] = Idle /\ \A u \in Threads \ {t} : call'[u] = call[u]
      /\ \A u \in Threads, d \in Channels :
            uses'[u][d] = IF u = t /\ d = c THEN uses[u][d] + 1 ELSE uses[u][d]
  BY <1>2 DEF Shape, CallShape, Idle, CallPlaces
<1>6. Idle.pc = "idle" /\ Idle.locked = FALSE /\ Idle.chan = None
  BY DEF Idle
<1>7. /\ AsShape' /\ as'.pc # "none" /\ as'.mon = as.mon /\ Held' \subseteq Held
  <2>1. Signal(as.pc) = as.pc \/ Signal(as.pc) \in {"top", "woken"}
    BY Zenon DEF Signal
  <2>2. Signal(as.pc) # "none"
    BY Zenon DEF Signal
  <2>3. DOMAIN as' = AsFields /\ as'.pc = Signal(as.pc) /\ as'.mon = as.mon
    BY <1>2 DEF Shape, AsShape, AsFields
  <2> QED BY <2>1, <2>2, <2>3, Zenon DEF Shape, AsShape, Places, Held, Monitored
<1>8. Linked'
  BY <1>1, <1>2, <1>4, SMTT(30) DEF Linked
<1>9. Calls'
  <2>1. \A u \in Threads \ {t} : Owns(u) => call[u].ent # e
    <3>1. Owns(t)
      BY <1>2 DEF Owns
    <3> QED BY <1>1, <3>1, Zenon DEF Calls
  <2>2. \A u \in Threads \ {t} : Owns(u) => call[u].ent \notin Listed'
    <3>1. \A u \in Threads : Owns(u) => call[u].ent \notin Listed
      BY CallFacts, Zenon
    <3> QED BY <1>4, <2>1, <3>1
  <2> QED BY <1>2, <1>5, <2>2, CallFacts, IdleFacts, OthersKept, Zenon
<1>10. Exclusive'
  <2>1. \A u \in Threads \ {t} : call[u].pc = "destroy" =>
           call[u].chan \in Channels /\ call[u].chan # None /\ call[u].chan # c
    <3>1. ASSUME NEW u \in Threads \ {t}, call[u].pc = "destroy" PROVE call[u].chan # c
      BY <1>1, <3>1 DEF Exclusive
    <3> QED BY <3>1, CallFacts, AutoserviceAssumption
  <2>2. ASSUME NEW u \in Threads \ {t}, call[u].pc = "destroy"
        PROVE  /\ \A v \in Threads : uses'[v][call[u].chan] = uses[v][call[u].chan]
               /\ call'[t].chan # call[u].chan
               /\ \A d \in Listed' : \/ d \in Listed /\ ent'[d].chan = ent[d].chan
                                    \/ ent'[d].chan # call[u].chan
    <3>1. \A v \in Threads : uses'[v][call[u].chan] = uses[v][call[u].chan]
      BY <1>5, <2>1, <2>2
    <3>2. call'[t].chan # call[u].chan
      BY <1>5, <2>1, <2>2, IdleFacts, Zenon
    <3>3. \A d \in Listed' : d \in Listed \/ d = e
      BY <1>4
    <3>4. ent' = ent /\ ent[e].chan # call[u].chan
      BY <1>1, <1>2, <2>1, <2>2
    <3> QED BY <3>1, <3>2, <3>3, <3>4, Zenon
  <2> QED BY <1>5, <1>6, <2>2, ExclusiveKept, Zenon
<1>11. HeldOK'
  <2>1. \A u \in Threads : call[u].pc = "wait" => call'[u] = call[u]
    BY <1>2, <1>5
  <2>2. \A d \in Held : chan'[d].alive
    BY <1>2, Zenon DEF HeldOK
  <2> QED BY <1>2, <1>4, <1>7, <2>1, <2>2, HeldStaysAll, SMTT(30)
<1>12. ASSUME NEW d \in Channels PROVE SameSize(Counted(d)', Started(d)')
  <2>0. SameSize(Counted(d), Started(d))
    BY DEF Balanced, SameSize
  <2>1. CASE d # c
    <3>1. Counted(d)' = Counted(d)
      BY <1>1, <1>2, <1>4, <2>1 DEF Counted
    <3>2. Started(d)' = Started(d)
      BY <1>5, <2>1 DEF Started
    <3> QED BY <2>0, <3>1, <3>2, Zenon
  <2>2. CASE d = c
    <3> DEFINE n == uses[t][c] + 1
    <3>1. uses[t][c] \in Nat
      BY DEF Shape, CallShape
    <3>2. Counted(c)' = Counted(c) \cup {<<e, 1>>} /\ <<e, 1>> \notin Counted(c)
      <4>1. /\ e \notin Listed /\ ent' = ent /\ ent[e].chan = c
            /\ \A z : z \in Listed' <=> z \in Listed \/ z = e
        BY <1>1, <1>2, <1>4
      <4>2. \A k : k \in 1..ent[e].use <=> k = 1
        BY <1>1
      <4>3. ASSUME NEW x PROVE x \in Counted(c)' <=> x \in Counted(c) \/ x = <<e, 1>>
        <5>1. x \in Counted(c)' <=> \E z \in Listed' : \E k \in 1..ent'[z].use :
                                       ent'[z].chan = c /\ x = <<z, k>>
          BY DEF Counted
        <5>2. x \in Counted(c) <=> \E z \in Listed : \E k \in 1..ent[z].use :
                                       ent[z].chan = c /\ x = <<z, k>>
          BY InCounted
        <5> QED BY <4>1, <4>2, <5>1, <5>2, ZenonT(30)
      <4>4. <<e, 1>> \notin Counted(c)
        <5>1. ASSUME NEW z \in Listed, NEW k, <<e, 1>> = <<z, k>> PROVE FALSE
          BY <4>1, <5>1
        <5> QED BY <5>1, InCounted, Zenon
      <4> QED BY <4>3, <4>4, Zenon
    <3>3. Started(c)' = Started(c) \cup {<<t, n>>} /\ <<t, n>> \notin Started(c)
      BY <1>5, <3>1 DEF Started
    <3> HIDE DEF n
    <3>4. SameSize(Counted(c) \cup {<<e, 1>>}, Started(c) \cup {<<t, n>>})
      BY <2>0, <2>2, <3>2, <3>3, OneMore, SMTT(30)
    <3> QED BY <2>2, <3>2, <3>3, <3>4
  <2> QED BY <2>1, <2>2
<1>13. Balanced'
  BY <1>12 DEF Balanced, SameSize
<1> QED BY <1>2, <1>4, <1>5, <1>7, <1>8, <1>9, <1>10, <1>11, <1>13, Zenon
        DEF Shape, EntShape, ChanShape, NoThreadNoEntry

\* Without a thread the list was empty and is empty again.
LEMMA StartNoThreadStep ==
  ASSUME AInv, NEW t \in Threads, StartNoThread(t)
  PROVE  AInv'
<1> USE DEF AInv
<1>1. PICK e \in Ents : e = call[t].ent /\ \A u \in Threads \ {t} : Owns(u) => call[u].ent # e
  <2>1. Owns(t)
    BY DEF StartNoThread, Owns
  <2>2. call[t].ent \in Ents
    BY <2>1, CallFacts
  <2>3. \A u \in Threads \ {t} : Owns(u) => call[u].ent # call[t].ent
    BY <2>1, Zenon DEF Calls
  <2> QED BY <2>2, <2>3
<1>2. /\ UNCHANGED <<as, rebuilt, uses, chan>> /\ call[t].pc = "insert" /\ as.pc = "none"
      /\ aslist' = Without(<<e>> \o aslist, e)
      /\ ent' = [ent EXCEPT ![e] = Freed]
      /\ call' = [call EXCEPT ![t] = Idle]
  BY <1>1 DEF StartNoThread, Undo
<1>3. aslist = <<>> /\ Listed = {}
  BY <1>2 DEF NoThreadNoEntry, Listed
<1>4. aslist' = <<>> /\ Listed' = {} /\ aslist' \in Seq(Ents)
  <2>1. Elts(aslist) = {} /\ Distinct(aslist) /\ aslist \in Seq(Ents)
    BY <1>3 DEF Elts, Distinct, Shape
  <2>2. /\ <<e>> \o aslist \in Seq(Ents) /\ Distinct(<<e>> \o aslist)
        /\ Elts(<<e>> \o aslist) = {e}
    BY <2>1, InsertHeadOfList
  <2>3. aslist' \in Seq(Ents) /\ Elts(aslist') = {}
    <3>1. PICK w \in Seq(Ents) : w = <<e>> \o aslist /\ Distinct(w) /\ Elts(w) = {e}
      BY <2>2, Zenon
    <3>2. e \in Elts(w)
      BY <3>1
    <3>3. Without(w, e) \in Seq(Ents) /\ Elts(Without(w, e)) = Elts(w) \ {e}
      BY <3>1, <3>2, WithoutRemoves, ZenonT(60)
    <3> QED BY <1>2, <3>1, <3>3
  <2>4. DOMAIN aslist' = {}
    BY <2>3 DEF Elts
  <2> QED BY <2>3, <2>4 DEF Listed
<1>5. EntShape' /\ \A d \in Ents \ {e} : ent'[d] = ent[d]
  BY <1>2 DEF Shape, EntShape, Freed, EntFields
<1>6. /\ CallShape' /\ call'[t] = Idle /\ \A u \in Threads \ {t} : call'[u] = call[u]
  BY <1>2 DEF Shape, CallShape, Idle, CallPlaces
<1>7. Idle.pc = "idle" /\ Idle.locked = FALSE /\ Idle.chan = None
  BY DEF Idle
<1>8. Calls'
  <2>1. \A u \in Threads \ {t} : Owns(u) => call[u].ent \in Ents \ {e}
    BY <1>1, CallFacts, Zenon
  <2>2. \A u \in Threads : call[u].ent \notin Listed'
    BY <1>4
  <2>3. \A u \in Threads \ {t} : Owns(u) => ent'[call[u].ent] = ent[call[u].ent]
    BY <1>5, <2>1, Zenon
  <2>4. CallOK(t)' /\ ~Owns(t)'
    BY <1>6, IdleFacts, Zenon
  <2>5. \A u \in Threads \ {t} : call[u].pc # "idle" => chan'[call[u].chan].alive
    BY <1>2, CallFacts, Zenon
  <2> QED BY <1>6, <2>2, <2>3, <2>4, <2>5, OthersKept, Zenon
<1>9. Exclusive'
  <2>1. \A u \in Threads : call[u].pc = "destroy" => call[u].chan # None
    BY CallFacts, AutoserviceAssumption
  <2>2. \A d : d \notin Listed'
    BY <1>4
  <2>3. call'[t].chan = None /\ call'[t].pc # "destroy"
    BY <1>6, IdleFacts, Zenon
  <2>4. uses' = uses
    BY <1>2
  <2> QED BY <1>6, <2>1, <2>2, <2>3, <2>4, ExclusiveKept, Zenon
<1>10. HeldOK'
  BY <1>2 DEF HeldOK, Held
<1>11. Linked' /\ NoThreadNoEntry'
  BY <1>4 DEF Linked, Distinct, NoThreadNoEntry
<1>12. Balanced'
  BY <1>2, <1>3, <1>4, BalanceKept
<1> QED BY <1>2, <1>4, <1>5, <1>6, <1>8, <1>9, <1>10, <1>11, <1>12, Zenon
        DEF Shape, ChanShape, AsShape

LEMMA StartedLess ==
  ASSUME AInv, NEW t \in Threads, NEW c \in Channels, NEW n \in Nat \ {0}, n = uses[t][c],
         \A u \in Threads : uses'[u][c] = IF u = t THEN uses[u][c] - 1 ELSE uses[u][c]
  PROVE  Started(c)' = Started(c) \ {<<t, n>>} /\ <<t, n>> \in Started(c)
<1>1. \A u \in Threads : uses[u][c] \in Nat
  BY DEF AInv, Shape, CallShape
<1>2. ASSUME NEW x PROVE x \in Started(c)' <=> x \in Started(c) /\ x # <<t, n>>
  <2>1. x \in Started(c)' <=> \E u \in Threads : \E k \in 1..uses'[u][c] : x = <<u, k>>
    BY DEF Started
  <2>2. ASSUME NEW u \in Threads, NEW k
        PROVE  k \in 1..uses'[u][c] <=> k \in 1..uses[u][c] /\ ~(u = t /\ k = n)
    BY <1>1
  <2>3. x \in Started(c) <=> \E u \in Threads : \E k \in 1..uses[u][c] : x = <<u, k>>
    BY InStarted
  <2>4. ASSUME NEW u \in Threads, NEW k, x = <<u, k>>
        PROVE  x # <<t, n>> <=> ~(u = t /\ k = n)
    BY <2>4
  <2> QED BY <2>1, <2>2, <2>3, <2>4, Zenon
<1>3. <<t, n>> \in Started(c)
  BY InStarted
<1> QED BY <1>2, <1>3

\* A stop of a channel that was started: one use less, or no entry any more.
LEMMA StopStep ==
  ASSUME AInv, NEW t \in Threads, NEW c \in Channels, Stop(t, c)
  PROVE  AInv'
<1> USE DEF AInv
<1>1. PICK e \in Listed : e = FindEnt(c) /\ e # None /\ ent[e].chan = c
  <2>1. \E d \in Listed : ent[d].chan = c
    BY StartsEntry, SMTT(30) DEF Stop
  <2> QED BY <2>1, FindEntFinds DEF Shape
<1>2. /\ Listed = Elts(aslist) /\ Listed' = Elts(aslist') /\ Listed \subseteq Ents
      /\ ent[e].st = "used" /\ ent[e].use \in Nat /\ ent[e].use > 0 /\ chan[c].alive
      /\ uses[t][c] \in Nat /\ uses[t][c] > 0 /\ call[t].pc = "idle"
  BY <1>1 DEF Stop, Listed, Elts, Shape, EntShape, CallShape, Linked
<1>3. /\ UNCHANGED <<as, chan>>
      /\ ent' = [ent EXCEPT ![e].use = ent[e].use - 1]
      /\ aslist' = IF ent[e].use <= 1 THEN Without(aslist, e) ELSE aslist
      /\ rebuilt' = [rebuilt EXCEPT ![t] = FALSE]
      /\ uses' = [uses EXCEPT ![t][c] = uses[t][c] - 1]
      /\ call' = [call EXCEPT ![t] =
            [pc |-> IF ent[e].use <= 1 THEN "wait" ELSE "idle",
             chan |-> IF ent[e].use <= 1 THEN c ELSE None,
             ent |-> IF ent[e].use <= 1 THEN e ELSE None, locked |-> FALSE]]
  BY <1>1, <1>2, SMTT(30) DEF Stop, StopSection, LastUse
<1>4. /\ EntShape' /\ ent'[e].use = ent[e].use - 1
      /\ \A d \in Ents : ent'[d].st = ent[d].st /\ ent'[d].chan = ent[d].chan
      /\ \A d \in Ents \ {e} : ent'[d].use = ent[d].use
  BY <1>2, <1>3 DEF Shape, EntShape, EntFields
<1>5. /\ rebuilt' \in [Threads -> BOOLEAN] /\ uses' \in [Threads -> [Channels -> Nat]]
      /\ \A u \in Threads \ {t} : call'[u] = call[u] /\ rebuilt'[u] = rebuilt[u]
      /\ rebuilt'[t] = FALSE
      /\ \A u \in Threads, d \in Channels :
            uses'[u][d] = IF u = t /\ d = c THEN uses[u][d] - 1 ELSE uses[u][d]
  BY <1>2, <1>3 DEF Shape, CallShape
<1>6. \A u \in Threads : Owns(u) => call[u].ent # e
  BY <1>1, Zenon DEF Calls, CallOK
<1>7. ASSUME NEW u \in Threads, call[u].pc = "destroy" PROVE call[u].chan # c
  BY <1>1, <1>7 DEF Exclusive
<1>8. \A d \in Held : chan'[d].alive
  BY <1>3, Zenon DEF HeldOK
<1>9. CASE ent[e].use > 1
  <2>1. aslist' = aslist /\ Listed' = Listed
    BY <1>2, <1>3, <1>9
  <2>2. call'[t] = Idle /\ CallShape'
    <3>0. ~(ent[e].use <= 1)
      BY <1>2, <1>9
    <3>1. call' = [call EXCEPT ![t] = Idle]
      BY <1>3, <3>0, Zenon DEF Idle
    <3>2. Idle \in [pc : CallPlaces, chan : Channels \cup {None},
                   ent : Ents \cup {None}, locked : BOOLEAN]
      BY SMTT(30) DEF Idle, CallPlaces
    <3> QED BY <1>5, <3>1, <3>2, SMTT(30) DEF Shape, CallShape
  <2>3. call[t] = Idle /\ Idle.pc = "idle"
    BY <1>2, ZenonT(60) DEF Calls, CallOK, Idle
  <2>4. \A u \in Threads : call'[u] = call[u]
    BY <1>5, <2>2, <2>3
  <2>5. Linked'
    BY <1>2, <1>3, <1>4, <1>9, <2>1 DEF Linked
  <2>6. Calls'
    <3>1. CallOK(t)' /\ ~Owns(t)'
      BY <2>2, IdleFacts, Zenon
    <3>2. chan' = chan
      BY <1>3
    <3>3. \A u \in Threads : Owns(u) => call[u].ent \in Ents \ {e}
      BY <1>6, CallFacts, Zenon
    <3>4. \A u \in Threads : Owns(u) =>
             /\ call[u].ent \notin Listed'
             /\ ent'[call[u].ent].st = ent[call[u].ent].st
             /\ ent'[call[u].ent].chan = ent[call[u].ent].chan
             /\ ent'[call[u].ent].use = ent[call[u].ent].use
      BY <1>4, <2>1, <3>3, CallFacts, Zenon
    <3> QED BY <2>4, <3>1, <3>2, <3>4, CallFacts, OthersKept, Zenon
  <2>7. Exclusive'
    <3>1. ASSUME NEW u \in Threads \ {t}, call[u].pc = "destroy"
          PROVE  /\ \A v \in Threads : uses'[v][call[u].chan] = uses[v][call[u].chan]
                 /\ call'[t].chan # call[u].chan
      <4>1. call[u].chan \in Channels /\ call[u].chan # c
        BY <1>7, <3>1, CallFacts, Zenon
      <4>2. call'[t].chan = None
        BY <2>2, IdleFacts, Zenon
      <4> QED BY <1>5, <4>1, <4>2, AutoserviceAssumption
    <3>2. \A d \in Listed' : d \in Listed /\ ent'[d].chan = ent[d].chan
      BY <1>2, <1>4, <2>1
    <3>3. call'[t].pc # "destroy"
      BY <2>2, IdleFacts, Zenon
    <3> QED BY <2>4, <3>1, <3>2, <3>3, ExclusiveKept, Zenon
  <2>8. HeldOK'
    <3>1. \A u \in Threads : call[u].pc = "wait" => u # t
      BY <1>2
    <3> QED BY <1>3, <1>4, <1>5, <1>8, <2>1, <2>4, <3>1, HeldStaysAll, SameThread
  <2>9. ASSUME NEW d \in Channels PROVE SameSize(Counted(d)', Started(d)')
    <3>0. SameSize(Counted(d), Started(d))
      BY DEF Balanced, SameSize
    <3>1. CASE d # c
      <4>1. Counted(d)' = Counted(d)
        BY <1>1, <1>2, <1>4, <2>1, <3>1, SMTT(30) DEF Counted
      <4>2. Started(d)' = Started(d)
        BY <1>5, <3>1 DEF Started
      <4> QED BY <3>0, <4>1, <4>2
    <3>2. CASE d = c
      <4> DEFINE m == ent[e].use
                 n == uses[t][c]
      <4>1. Counted(c)' = Counted(c) \ {<<e, m>>} /\ <<e, m>> \in Counted(c)
        <5>1. /\ m \in Nat /\ m > 0 /\ ent'[e].use = m - 1 /\ e \in Listed /\ ent[e].chan = c
              /\ Listed' = Listed /\ \A z \in Listed : ent'[z].chan = ent[z].chan
              /\ \A z \in Listed \ {e} : ent'[z].use = ent[z].use
          BY <1>1, <1>2, <1>4, <2>1, Zenon
        <5>2. \A k : k \in 1..ent'[e].use <=> k \in 1..m /\ k # m
          BY <5>1
        <5>3. ASSUME NEW x PROVE x \in Counted(c)' <=> x \in Counted(c) /\ x # <<e, m>>
          <6>1. x \in Counted(c)' <=> \E z \in Listed' : \E k \in 1..ent'[z].use :
                                         ent'[z].chan = c /\ x = <<z, k>>
            BY DEF Counted
          <6>2. x \in Counted(c) <=> \E z \in Listed : \E k \in 1..ent[z].use :
                                         ent[z].chan = c /\ x = <<z, k>>
            BY InCounted
          <6>3. \A z, k : <<z, k>> = <<e, m>> <=> z = e /\ k = m
            OBVIOUS
          <6> HIDE DEF m
          <6>4. \A z \in Listed : \A k : k \in 1..ent'[z].use <=>
                                     k \in 1..ent[z].use /\ ~(z = e /\ k = m)
            BY <5>1, <5>2, Zenon DEF m
          <6>5. ASSUME x \in Counted(c)' PROVE x \in Counted(c) /\ x # <<e, m>>
            <7>1. PICK z \in Listed' : \E k \in 1..ent'[z].use : ent'[z].chan = c /\ x = <<z, k>>
              BY <6>1, <6>5, Zenon
            <7>2. PICK k \in 1..ent'[z].use : ent'[z].chan = c /\ x = <<z, k>>
              BY <7>1, Zenon
            <7>3. z \in Listed /\ ent[z].chan = c /\ k \in 1..ent[z].use /\ ~(z = e /\ k = m)
              BY <5>1, <6>4, <7>2, Zenon
            <7> QED BY <6>2, <6>3, <7>2, <7>3, Zenon
          <6>6. ASSUME x \in Counted(c), x # <<e, m>> PROVE x \in Counted(c)'
            <7>1. PICK z \in Listed : \E k \in 1..ent[z].use : ent[z].chan = c /\ x = <<z, k>>
              BY <6>2, <6>6, Zenon
            <7>2. PICK k \in 1..ent[z].use : ent[z].chan = c /\ x = <<z, k>>
              BY <7>1, Zenon
            <7>3. k \in 1..ent'[z].use /\ z \in Listed' /\ ent'[z].chan = c
              BY <5>1, <6>3, <6>4, <6>6, <7>2, Zenon
            <7> QED BY <6>1, <7>2, <7>3, Zenon
          <6> QED BY <6>5, <6>6
        <5>4. <<e, m>> \in Counted(c)
          BY <5>1, InCounted
        <5> QED BY <5>3, <5>4, Zenon
      <4>2. Started(c)' = Started(c) \ {<<t, n>>} /\ <<t, n>> \in Started(c)
        <5>1. n \in Nat \ {0}
          BY <1>2 DEF Stop, Shape, CallShape
        <5>2. \A u \in Threads : uses'[u][c] = IF u = t THEN uses[u][c] - 1 ELSE uses[u][c]
          BY <1>5, Zenon
        <5> QED BY <5>1, <5>2, StartedLess, Zenon
      <4> HIDE DEF m, n
      <4>3. SameSize(Counted(c) \ {<<e, m>>}, Started(c) \ {<<t, n>>})
        BY <3>0, <3>2, <4>1, <4>2, OneLess, SMTT(30)
      <4> QED BY <3>2, <4>1, <4>2, <4>3, SMTT(30)
    <3> QED BY <3>1, <3>2
  <2>10. Balanced'
    BY <2>9, SMTT(30) DEF Balanced, SameSize
  <2> QED BY <1>3, <1>4, <2>1, <2>2, <2>5, <2>6, <2>7, <2>8, <2>10, Zenon
          DEF Shape, AsShape, ChanShape, NoThreadNoEntry
<1>10. CASE ent[e].use = 1
  <2>1. aslist' \in Seq(Ents) /\ Distinct(aslist') /\ Listed' = Listed \ {e}
    BY <1>2, <1>3, <1>10, WithoutRemoves, SMTT(30) DEF Shape, Linked
  <2>2. /\ CallShape' /\ call'[t].pc = "wait" /\ call'[t].chan = c
        /\ call'[t].ent = e /\ call'[t].locked = FALSE
    BY <1>2, <1>3, <1>5, <1>10, SMTT(30) DEF Shape, CallShape, CallPlaces
  <2>3. Linked'
    BY <1>2, <1>3, <1>4, <2>1 DEF Linked
  <2>4. Calls'
    <3>1. /\ e \in Ents /\ e \notin Listed' /\ chan' = chan
          /\ ent'[e].st = "used" /\ ent'[e].chan = c
      BY <1>1, <1>2, <1>3, <1>4, <2>1, Zenon
    <3>2. CallOK(t)'
      BY <1>2, <2>2, <3>1 DEF CallOK, Owns
    <3>3. \A u \in Threads : Owns(u) => call[u].ent \in Ents \ {e}
      BY <1>6, CallFacts, Zenon
    <3>4. \A u \in Threads : Owns(u) =>
             /\ call[u].ent \notin Listed'
             /\ ent'[call[u].ent].st = ent[call[u].ent].st
             /\ ent'[call[u].ent].chan = ent[call[u].ent].chan
             /\ ent'[call[u].ent].use = ent[call[u].ent].use
      BY <1>4, <2>1, <3>3, CallFacts, Zenon
    <3>5. \A u \in Threads \ {t} : call'[u] = call[u]
      BY <1>5
    <3> QED BY <1>6, <2>2, <3>1, <3>2, <3>4, <3>5, CallFacts, OthersKept, Zenon
  <2>5. Exclusive'
    <3>1. ASSUME NEW u \in Threads \ {t}, call[u].pc = "destroy"
          PROVE  \A v \in Threads : uses'[v][call[u].chan] = uses[v][call[u].chan]
      <4>1. call[u].chan \in Channels /\ call[u].chan # c
        BY <1>7, <3>1, CallFacts, Zenon
      <4> QED BY <1>5, <4>1
    <3>2. \A d \in Listed' : d \in Listed /\ ent'[d].chan = ent[d].chan
      BY <1>2, <1>4, <2>1, Zenon
    <3>3. call'[t].pc # "destroy" /\ \A u \in Threads \ {t} : call'[u] = call[u]
      BY <1>5, <2>2, Zenon
    <3> QED BY <1>7, <2>2, <3>1, <3>2, <3>3, ExclusiveKept, Zenon
  <2>6. HeldOK'
    <3>1. \A u \in Threads : call[u].pc = "wait" => u # t
      BY <1>2, Zenon
    <3>2. \A d \in Listed : d \in Listed' \/ (/\ call'[t].pc = "wait" /\ call'[t].ent = d
                                              /\ ~rebuilt'[t])
      BY <1>5, <2>1, <2>2
    <3>3. Held' \subseteq Held /\ as'.mon = as.mon
      BY <1>3, SameThread
    <3>4. \A u \in Threads : call[u].pc = "wait" /\ ~rebuilt[u] =>
             call'[u].pc = "wait" /\ call'[u].ent = call[u].ent /\ ~rebuilt'[u]
      BY <1>5, <3>1, Zenon
    <3>5. \A d \in Listed : \/ d \in Listed'
                            \/ \E u \in Threads : /\ call'[u].pc = "wait" /\ call'[u].ent = d
                                                   /\ ~rebuilt'[u]
      BY <3>2, Zenon
    <3> QED BY <1>4, <1>8, <3>3, <3>4, <3>5, HeldStaysAll, Zenon
  <2>7. ASSUME NEW d \in Channels PROVE SameSize(Counted(d)', Started(d)')
    <3>0. SameSize(Counted(d), Started(d))
      BY DEF Balanced, SameSize
    <3>1. CASE d # c
      <4>1. Counted(d)' = Counted(d)
        <5>1. /\ \A z \in Listed' : z \in Listed /\ z # e
              /\ \A z \in Listed : z # e => z \in Listed'
              /\ \A z \in Listed \ {e} : ent'[z].use = ent[z].use /\ ent'[z].chan = ent[z].chan
          BY <1>2, <1>4, <2>1
        <5>2. ent[e].chan # d
          BY <1>1, <3>1
        <5>3. {z \in Listed' : ent'[z].chan = d} = {z \in Listed : ent[z].chan = d}
          BY <5>1, <5>2, Zenon
        <5>4. \A z \in {z \in Listed : ent[z].chan = d} : ent'[z].use = ent[z].use
          BY <5>1, <5>2, Zenon
        <5> QED BY <5>3, <5>4, Zenon DEF Counted
      <4>2. Started(d)' = Started(d)
        BY <1>5, <3>1 DEF Started
      <4> QED BY <3>0, <4>1, <4>2, SMTT(30)
    <3>2. CASE d = c
      <4> DEFINE n == uses[t][c]
      <4>1. Counted(c)' = Counted(c) \ {<<e, 1>>} /\ <<e, 1>> \in Counted(c)
        <5>0. ASSUME NEW z \in Listed, z # e PROVE ent'[z].use = ent[z].use /\ ent'[z].chan = ent[z].chan
          BY <1>2, <1>4, <5>0
        <5>1. ASSUME NEW z \in Listed, NEW k \in 1..ent[z].use, <<z, k>> = <<e, 1>>
              PROVE  z = e
          BY <5>1
        <5>2. ASSUME NEW k \in 1..ent[e].use PROVE k = 1
          BY <1>10
        <5>3. ASSUME NEW x PROVE x \in Counted(c)' <=> x \in Counted(c) /\ x # <<e, 1>>
          <6>1. x \in Counted(c)' <=> \E z \in Listed' : \E k \in 1..ent'[z].use :
                                         ent'[z].chan = c /\ x = <<z, k>>
            BY DEF Counted
          <6>2. x \in Counted(c) <=> \E z \in Listed : \E k \in 1..ent[z].use :
                                         ent[z].chan = c /\ x = <<z, k>>
            BY InCounted
          <6>3. \A z \in Listed' : z \in Listed /\ z # e
            BY <2>1
          <6>4. \A z \in Listed : z # e => z \in Listed'
            BY <2>1
          <6> QED BY <5>0, <5>1, <5>2, <6>1, <6>2, <6>3, <6>4, ZenonT(30)
        <5>4. <<e, 1>> \in Counted(c)
          BY <1>1, <1>10, InCounted
        <5> QED BY <5>3, <5>4
      <4>2. Started(c)' = Started(c) \ {<<t, n>>} /\ <<t, n>> \in Started(c)
        <5>1. n \in Nat \ {0}
          BY <1>2 DEF Stop, Shape, CallShape
        <5>2. \A u \in Threads : uses'[u][c] = IF u = t THEN uses[u][c] - 1 ELSE uses[u][c]
          BY <1>5, Zenon
        <5> QED BY <5>1, <5>2, StartedLess, Zenon
      <4> HIDE DEF n
      <4>3. SameSize(Counted(c) \ {<<e, 1>>}, Started(c) \ {<<t, n>>})
        BY <3>0, <3>2, <4>1, <4>2, OneLess, SMTT(30)
      <4> QED BY <3>2, <4>1, <4>2, <4>3, SMTT(30)
    <3> QED BY <3>1, <3>2
  <2>8. Balanced'
    BY <2>7 DEF Balanced, SameSize
  <2>9. NoThreadNoEntry'
    <3>0. aslist = <<>> => Listed = {}
      BY DEF Listed
    <3>1. as.pc # "none"
      BY <1>1, <3>0, Zenon DEF NoThreadNoEntry
    <3> QED BY <1>3, <3>1 DEF NoThreadNoEntry
  <2> QED BY <1>3, <1>4, <2>1, <2>2, <2>3, <2>4, <2>5, <2>6, <2>8, <2>9, Zenon
          DEF Shape, AsShape, ChanShape
<1> QED BY <1>2, <1>9, <1>10

\* ast_hangup of a channel that is in nobody's service: the stop finds nothing.
LEMMA HangupStep ==
  ASSUME AInv, "busy" \notin Faults, NEW t \in Threads, NEW c \in Channels, Hangup(t, c)
  PROVE  AInv'
<1> USE DEF AInv
<1>1. \A u \in Threads : uses[u][c] = 0
  BY DEF Hangup
<1>2. FindEnt(c) = None /\ \A e \in Listed : ent[e].chan # c
  BY <1>1, NoStartsNoEntry, FindEntFinds DEF Shape
<1> DEFINE new == [pc |-> "destroy", chan |-> c, ent |-> None, locked |-> TRUE]
<1>3. /\ UNCHANGED <<as, chan, ent, aslist, uses>> /\ Listed' = Listed
      /\ rebuilt' = [rebuilt EXCEPT ![t] = FALSE]
      /\ call' = [call EXCEPT ![t] = new]
      /\ call[t].pc = "idle" /\ chan[c].alive /\ \A u \in Threads : call[u].chan # c
  BY <1>1, <1>2 DEF Hangup, StopSection, LastUse, Listed
<1>4. /\ CallShape' /\ call'[t] = new
      /\ \A u \in Threads \ {t} : call'[u] = call[u] /\ rebuilt'[u] = rebuilt[u]
  BY <1>3 DEF Shape, CallShape, CallPlaces
<1>4a. new.pc = "destroy" /\ new.chan = c /\ new.locked = TRUE
  OBVIOUS
<1> HIDE DEF new
<1>5. Calls'
  <2>1. chan' = chan /\ ent' = ent /\ Listed' = Listed /\ \A u \in Threads \ {t} : call'[u] = call[u]
    BY <1>3, <1>4, Zenon
  <2>2. CallOK(t)'
    <3>1. call'[t].pc = "destroy" /\ call'[t].chan = c /\ call'[t].locked = TRUE
      BY <1>4, <1>4a
    <3>2. chan'[c].alive
      BY <1>3
    <3> QED BY <3>1, <3>2 DEF CallOK, Owns
  <2>3. ~Owns(t)'
    BY <1>4, <1>4a DEF Owns
  <2> QED BY <2>1, <2>2, <2>3, CallFacts, OthersKept, Zenon
<1>6. Exclusive'
  <2>0. /\ uses' = uses /\ ent' = ent /\ Listed' = Listed /\ call'[t].chan = c
        /\ \A u \in Threads \ {t} : call'[u] = call[u] /\ call[u].chan # c
    BY <1>3, <1>4, <1>4a
  <2>1. ASSUME NEW u \in Threads, call'[u].pc = "destroy"
        PROVE  /\ \A v \in Threads : uses'[v][call'[u].chan] = 0
               /\ \A v \in Threads \ {u} : call'[v].chan # call'[u].chan
               /\ \A d \in Listed' : ent'[d].chan # call'[u].chan
    <3>1. CASE u = t
      BY <1>1, <1>2, <2>0, <3>1, Zenon
    <3>2. CASE u # t
      <4>1. /\ \A v \in Threads : uses[v][call[u].chan] = 0
            /\ \A v \in Threads \ {u} : call[v].chan # call[u].chan
            /\ \A d \in Listed : ent[d].chan # call[u].chan
        BY <2>0, <2>1, <3>2, Zenon DEF Exclusive
      <4> QED BY <2>0, <3>2, <4>1, Zenon
    <3> QED BY <3>1, <3>2
  <2> QED BY <2>1, Zenon DEF Exclusive
<1>7. HeldOK'
  <2>1. \A u \in Threads : call[u].pc = "wait" => u # t
    BY <1>3
  <2>2. \A d \in Held : chan'[d].alive
    BY <1>3, Zenon DEF HeldOK
  <2>3. /\ as' = as /\ ent' = ent /\ Listed' = Listed
        /\ \A u \in Threads \ {t} : call'[u] = call[u] /\ rebuilt'[u] = rebuilt[u]
    BY <1>3, <1>4
  <2> QED BY <2>1, <2>2, <2>3, HeldStaysAll, SameThread, Zenon
<1>8. Linked' /\ NoThreadNoEntry'
  BY <1>3, Zenon DEF Linked, Distinct, NoThreadNoEntry
<1>9. Balanced'
  BY <1>3, BalanceKept
<1> QED BY <1>3, <1>4, <1>5, <1>6, <1>7, <1>8, <1>9, Zenon DEF Shape, EntShape, ChanShape, AsShape

\* The entry is freed after a rebuild, when the thread no longer has it.
LEMMA StopFinishStep ==
  ASSUME AInv, NEW t \in Threads, StopFinish(t)
  PROVE  AInv'
<1> USE DEF AInv
<1>1. PICK e \in Ents, c \in Channels :
        /\ e = call[t].ent /\ c = call[t].chan /\ e \notin Listed
        /\ \A u \in Threads \ {t} : Owns(u) => call[u].ent # e
  <2>1. Owns(t) /\ call[t].pc # "idle"
    BY DEF StopFinish, Owns
  <2>2. \A u \in Threads \ {t} : Owns(u) => call[u].ent # call[t].ent
    BY <2>1, Zenon DEF Calls
  <2> QED BY <2>1, <2>2, CallFacts, Zenon
<1>2. /\ UNCHANGED <<aslist, as, uses>> /\ Listed' = Listed
      /\ call[t].pc = "wait" /\ rebuilt[t] /\ call[t].locked = FALSE
      /\ ent' = [ent EXCEPT ![e] = Freed]
      /\ rebuilt' = [rebuilt EXCEPT ![t] = FALSE]
  <2>1. call[t].locked \in BOOLEAN /\ call[t].pc = "wait"
    BY DEF StopFinish, Shape, CallShape
  <2>2. call[t].locked = FALSE
    BY <2>1, CallFacts
  <2>3. Listed' = Listed
    BY DEF StopFinish, Listed
  <2> QED BY <1>1, <2>1, <2>2, <2>3, Zenon DEF StopFinish, Rebuilt
<1>3. call' = [call EXCEPT ![t] = Idle]
  BY <1>2, Zenon DEF StopFinish
<1>4. ChanShape' /\ \A d \in Channels : chan'[d].alive = chan[d].alive
  BY <1>1, Zenon DEF StopFinish, Shape, ChanShape, ChanFields
<1>5. EntShape' /\ \A d \in Ents \ {e} : ent'[d] = ent[d]
  BY <1>2 DEF Shape, EntShape, Freed, EntFields
<1>6. /\ CallShape' /\ call'[t] = Idle
      /\ \A u \in Threads \ {t} : call'[u] = call[u] /\ rebuilt'[u] = rebuilt[u]
  BY <1>2, <1>3 DEF Shape, CallShape, Idle, CallPlaces
<1>7. Idle.pc = "idle" /\ Idle.locked = FALSE /\ Idle.chan = None
  BY DEF Idle
<1>8. Listed \subseteq Ents \ {e}
  BY <1>1 DEF Listed, Shape
<1>9. Linked' /\ NoThreadNoEntry'
  BY <1>2, <1>4, <1>5, <1>8, ZenonT(60) DEF Linked, Distinct, NoThreadNoEntry
<1>10. Calls'
  <2>1. \A u \in Threads \ {t} : Owns(u) => call[u].ent \in Ents \ {e}
    BY <1>1, CallFacts, Zenon
  <2>2. \A u \in Threads \ {t} : Owns(u) => ent'[call[u].ent] = ent[call[u].ent]
    BY <1>5, <2>1, Zenon
  <2>3. CallOK(t)' /\ ~Owns(t)'
    BY <1>6, IdleFacts, Zenon
  <2>4. \A u \in Threads \ {t} : call[u].pc # "idle" => chan'[call[u].chan].alive
    BY <1>4, CallFacts, Zenon
  <2> QED BY <1>2, <1>6, <2>2, <2>3, <2>4, CallFacts, OthersKept, Zenon
<1>11. Exclusive'
  <2>1. \A u \in Threads : call[u].pc = "destroy" => call[u].chan # None
    BY CallFacts, AutoserviceAssumption
  <2>2. call'[t].chan = None /\ call'[t].pc # "destroy"
    BY <1>6, IdleFacts, Zenon
  <2>3. uses' = uses /\ Listed' = Listed /\ \A d \in Listed : ent'[d] = ent[d]
    BY <1>2, <1>5, <1>8
  <2> QED BY <1>6, <2>1, <2>2, <2>3, ExclusiveKept, Zenon
<1>12. HeldOK'
  <2>1. ASSUME NEW d \in Held PROVE as.mon[d] \notin {e} /\ chan'[d].alive
    <3>1. d \in Channels /\ chan'[d].alive
      BY <1>4, Zenon DEF HeldOK, Held, Monitored
    <3>2. ASSUME as.mon[d] = e PROVE FALSE
      <4>0. \/ as.mon[d] \in Listed
            \/ \E u \in Threads : call[u].pc = "wait" /\ call[u].ent = as.mon[d] /\ ~rebuilt[u]
        BY ZenonT(60) DEF HeldOK
      <4>1. PICK u \in Threads : call[u].pc = "wait" /\ call[u].ent = e /\ ~rebuilt[u]
        BY <1>1, <3>2, <4>0
      <4> QED BY <1>1, <1>2, <4>1 DEF Owns
    <3> QED BY <3>1, <3>2, Zenon
  <2>2. {e} \in SUBSET Ents /\ \A d \in Ents \ {e} : ent'[d].st = ent[d].st /\ ent'[d].chan = ent[d].chan
    BY <1>5
  <2>3. \A u \in Threads : call[u].pc = "wait" /\ ~rebuilt[u] => u # t
    BY <1>2
  <2> QED BY <1>2, <1>6, <2>1, <2>2, <2>3, HeldStays, SameThread, Zenon
<1>13. Balanced'
  BY <1>2, <1>5, <1>8, BalanceKept
<1> QED BY <1>2, <1>4, <1>5, <1>6, <1>9, <1>10, <1>11, <1>12, <1>13, Zenon DEF Shape, AsShape

\* Nobody else knows of a channel that is destroyed.
LEMMA DestroyStep ==
  ASSUME AInv, NEW t \in Threads, Destroy(t)
  PROVE  AInv'
<1> USE DEF AInv
<1>1. PICK c \in Channels : c = call[t].chan
  BY DEF Destroy, Calls, CallOK
<1> DEFINE dead == [NewChan(FALSE) EXCEPT !.alive = FALSE]
<1>2. /\ UNCHANGED <<aslist, ent, as, rebuilt, uses>> /\ Listed' = Listed
      /\ call[t].pc = "destroy" /\ chan' = [chan EXCEPT ![c] = dead]
      /\ call' = [call EXCEPT ![t] = Idle]
  BY <1>1 DEF Destroy, Listed
<1>3. DOMAIN dead = ChanFields /\ dead.alive = FALSE
  BY DEF NewChan, ChanFields
<1> HIDE DEF dead
<1>4. ChanShape' /\ \A d \in Channels \ {c} : chan'[d].alive = chan[d].alive
  BY <1>2, <1>3, Zenon DEF Shape, ChanShape
<1>5. /\ \A u \in Threads \ {t} : call[u].chan # c
      /\ \A e \in Listed : ent[e].chan # c
  BY <1>1, <1>2 DEF Exclusive
<1>6. /\ CallShape' /\ call'[t] = Idle /\ \A u \in Threads \ {t} : call'[u] = call[u]
  BY <1>2 DEF Shape, CallShape, Idle, CallPlaces
<1>7. Idle.pc = "idle" /\ Idle.locked = FALSE /\ Idle.chan = None
  BY DEF Idle
<1>8. Linked' /\ NoThreadNoEntry'
  BY <1>2, <1>4, <1>5, Zenon DEF Linked, Distinct, NoThreadNoEntry
<1>9. Calls'
  <2>1. \A u \in Threads \ {t} : call[u].pc # "idle" => chan'[call[u].chan].alive
    BY <1>4, <1>5, CallFacts, Zenon
  <2>2. CallOK(t)' /\ ~Owns(t)'
    BY <1>6, IdleFacts, Zenon
  <2>3. ent' = ent /\ Listed' = Listed
    BY <1>2
  <2> QED BY <1>6, <2>1, <2>2, <2>3, CallFacts, OthersKept, Zenon
<1>10. Exclusive'
  <2>1. \A u \in Threads : call[u].pc = "destroy" => call[u].chan # None
    BY CallFacts, AutoserviceAssumption
  <2>2. call'[t].chan = None /\ call'[t].pc # "destroy"
    BY <1>6, IdleFacts, Zenon
  <2>3. uses' = uses /\ ent' = ent /\ Listed' = Listed
    BY <1>2, Zenon
  <2> QED BY <1>6, <2>1, <2>2, <2>3, ExclusiveKept, Zenon
<1>11. HeldOK'
  <2>1. ASSUME NEW d \in Held PROVE chan'[d].alive
    <3>1. d \in Channels /\ chan[d].alive /\ ent[as.mon[d]].chan = d
      BY Zenon DEF HeldOK, Held, Monitored
    <3>2. CASE as.mon[d] \in Listed
      BY <1>4, <1>5, <3>1, <3>2, Zenon
    <3>3. CASE \E u \in Threads : call[u].pc = "wait" /\ call[u].ent = as.mon[d]
      <4>1. PICK u \in Threads : call[u].pc = "wait" /\ call[u].ent = as.mon[d]
        BY <3>3, Zenon
      <4>2. call[u].chan = d /\ u # t
        BY <1>2, <3>1, <4>1, ZenonT(60) DEF Calls, CallOK, Owns
      <4> QED BY <1>4, <1>5, <3>1, <4>2
    <3>4. \/ as.mon[d] \in Listed
          \/ \E u \in Threads : call[u].pc = "wait" /\ call[u].ent = as.mon[d] /\ ~rebuilt[u]
      BY Zenon DEF HeldOK
    <3> QED BY <3>2, <3>3, <3>4, Zenon
  <2>2. \A u \in Threads : call[u].pc = "wait" => call'[u] = call[u]
    BY <1>2, <1>6
  <2> QED BY <1>2, <2>1, <2>2, HeldStaysAll, SameThread, SMTT(30)
<1>12. Balanced'
  BY <1>2, BalanceKept
<1> QED BY <1>2, <1>4, <1>6, <1>8, <1>9, <1>10, <1>11, <1>12, Zenon DEF Shape, EntShape, AsShape

-----------------------------------------------------------------------------
LEMMA InvStep ==
  ASSUME "busy" \notin Faults, AInv, [Next]_vars
  PROVE  AInv'
<1>1. CASE UNCHANGED vars
  <2>1. UNCHANGED <<aslist, ent, as, call, rebuilt, uses, chan>>
    BY <1>1, Zenon DEF vars
  <2>2. SameEnts /\ ChanShape' /\ Alive' = Alive
    BY <2>1 DEF SameEnts, AInv, Shape, EntShape, ChanShape, Alive
  <2>3. EntShape' /\ Listed' = Listed /\ Linked' /\ Calls' /\ Exclusive' /\ Balanced'
    BY <2>1, <2>2, QuietStep
  <2>4. HeldOK'
    BY <2>1, <2>2, <2>3, HeldKept, SameThread
  <2> QED BY <2>1, <2>2, <2>3, <2>4, Zenon DEF AInv, Shape, AsShape, CallShape, NoThreadNoEntry
<1>2. CASE AutoserviceThread \/ AsSpurious
  BY <1>2, ThreadStep
<1>3. ASSUME NEW t \in Threads, Inside(t) PROVE AInv'
  BY <1>3, StartAllocStep, StartNoMemoryStep, StartInsertStep, StartNoThreadStep,
     StopFinishStep, DestroyStep DEF Inside
<1>4. ASSUME NEW t \in Threads, NEW c \in Channels,
             StartLookup(t, c) \/ Stop(t, c) \/ Hangup(t, c)
      PROVE  AInv'
  BY <1>4, StartLookupStep, StopStep, HangupStep
<1>5. ASSUME NEW t \in Threads, NEW c \in Channels, Ignore(t, c) \/ OwnerRead(t, c)
      PROVE  AInv'
  BY <1>5, ChannelStep
<1>6. ASSUME NEW c \in Channels, Allocate(c) \/ SoftHangup(c) \/ \E k \in Kinds : Arrive(c, k)
      PROVE  AInv'
  BY <1>6, ChannelStep
<1> QED BY <1>1, <1>2, <1>3, <1>4, <1>5, <1>6, SMTT(30) DEF Next, Caller

\* Between two rebuilds the thread never holds an entry that a stop has freed or a
\* channel that was destroyed after its stop: for any callers, channels and faults but
\* a hangup of a channel still in service.
THEOREM NoStaleReferenceAlways ==
  ASSUME "busy" \notin Faults
  PROVE  Spec => []NoStaleReference
<1>1. AInv => NoStaleReference
  BY Zenon DEF AInv, HeldOK, NoStaleReference
<1>2. AInv /\ [Next]_vars => AInv'
  BY InvStep
<1> QED BY InvInit, <1>1, <1>2, PTL DEF Spec

\* The use counts on the list are the starts that were not stopped.
THEOREM UsesBalancedAlways ==
  ASSUME "busy" \notin Faults
  PROVE  Spec => []UsesBalanced
<1>1. AInv => UsesBalanced
  BY DEF AInv, Balanced, UsesBalanced
<1>2. AInv /\ [Next]_vars => AInv'
  BY InvStep
<1> QED BY InvInit, <1>1, <1>2, PTL DEF Spec

\* No channel waits on the list for a thread that does not exist.
THEOREM NoThreadNoEntryAlways ==
  ASSUME "busy" \notin Faults
  PROVE  Spec => []NoThreadNoEntry
<1>1. AInv => NoThreadNoEntry
  BY DEF AInv
<1>2. AInv /\ [Next]_vars => AInv'
  BY InvStep
<1> QED BY InvInit, <1>1, <1>2, PTL DEF Spec

-----------------------------------------------------------------------------
(* END_DTMF_ONLY.                                                          *)

UsersOnly ==
    \A t \in Threads, c \in Channels : call[t].chan = c \/ uses[t][c] > 0 => t \in Users[c]

\* A private channel is served through one entry, which its user puts on the list
\* and takes off; a flag that was set before is in the entry.
Served(c) == \E e \in Listed : ent[e].chan = c
Busy(t, c) == call[t].chan = c /\ call[t].pc \in {"new", "insert", "wait"}
FlagOK(c) ==
    /\ chan[c].was \/ Served(c) => chan[c].enddtmf
    /\ \A e \in Listed : ent[e].chan = c /\ chan[c].was => ent[e].orig
    /\ \A e, f \in Listed : ent[e].chan = c /\ ent[f].chan = c => e = f
    /\ \A t \in Threads : Busy(t, c) =>
          /\ ~Served(c)
          /\ call[t].pc = "insert" => chan[c].enddtmf
          /\ Owns(t) /\ chan[c].was => ent[call[t].ent].orig

FInv == AInv /\ UsersOnly /\ \A c \in Private : FlagOK(c)

LEMMA ListFacts ==
  ASSUME AInv
  PROVE  /\ aslist \in Seq(Ents) /\ Distinct(aslist)
         /\ Listed = Elts(aslist) /\ Listed' = Elts(aslist') /\ Listed \subseteq Ents
<1>1. aslist \in Seq(Ents) /\ Distinct(aslist)
  BY DEF AInv, Shape, Linked
<1>2. Listed = Elts(aslist) /\ Listed' = Elts(aslist')
  BY DEF Listed, Elts
<1>3. \A i \in DOMAIN aslist : aslist[i] \in Ents
  BY <1>1
<1> QED BY <1>1, <1>2, <1>3 DEF Listed

LEMMA FlagStays ==
  ASSUME NEW c, FlagOK(c),
         chan'[c].was = chan[c].was, chan'[c].enddtmf = chan[c].enddtmf,
         \A e \in Listed' : ent'[e].chan = c =>
            e \in Listed /\ ent[e].chan = c /\ ent'[e].orig = ent[e].orig,
         \A t \in Threads : Busy(t, c)' =>
            /\ call'[t] = call[t]
            /\ Owns(t) => ent'[call[t].ent].orig = ent[call[t].ent].orig
  PROVE  FlagOK(c)'
<1>1. Served(c)' => Served(c)
  BY Zenon DEF Served
<1>2. ASSUME NEW t \in Threads, Busy(t, c)'
      PROVE  /\ Busy(t, c) /\ call'[t] = call[t] /\ (Owns(t)' <=> Owns(t))
             /\ Owns(t) => ent'[call[t].ent].orig = ent[call[t].ent].orig
  BY <1>2, Zenon DEF Busy, Owns
<1>3. \A e \in Listed' : ent'[e].chan = c /\ chan'[c].was => ent'[e].orig
  BY Zenon DEF FlagOK
<1>4. \A e, f \in Listed' : ent'[e].chan = c /\ ent'[f].chan = c => e = f
  BY Zenon DEF FlagOK
<1>5. chan'[c].was \/ Served(c)' => chan'[c].enddtmf
  BY <1>1, Zenon DEF FlagOK
<1>6. ASSUME NEW t \in Threads, Busy(t, c)'
      PROVE  /\ ~Served(c)'
             /\ call'[t].pc = "insert" => chan'[c].enddtmf
             /\ Owns(t)' /\ chan'[c].was => ent'[call'[t].ent].orig
  BY <1>1, <1>2, <1>6, Zenon DEF FlagOK
<1> QED BY <1>3, <1>4, <1>5, <1>6, Zenon DEF FlagOK

\* A step changes flags, list entries and calls of the channels X only; elsewhere
\* at most a call ends.
LEMMA FlagStep ==
  ASSUME FInv, AInv', UsersOnly', NEW X \in SUBSET Channels,
         \A c \in Private \cap X : FlagOK(c)',
         \A c \in Channels \ X : chan'[c].was = chan[c].was /\ chan'[c].enddtmf = chan[c].enddtmf,
         \A e \in Listed' : ent'[e].chan \notin X =>
            e \in Listed /\ ent'[e].chan = ent[e].chan /\ ent'[e].orig = ent[e].orig,
         \A t \in Threads : call'[t].chan \notin X =>
            \/ /\ call'[t] = call[t]
               /\ Owns(t) => ent'[call[t].ent].orig = ent[call[t].ent].orig
            \/ call'[t] = Idle
  PROVE  FInv'
<1>1. Idle.pc = "idle"
  BY DEF Idle
<1>2. ASSUME NEW c \in Private, c \notin X PROVE FlagOK(c)'
  <2>1. c \in Channels /\ FlagOK(c)
    BY DEF Private, FInv
  <2>2. ASSUME NEW t \in Threads, Busy(t, c)'
        PROVE  call'[t] = call[t] /\ (Owns(t) => ent'[call[t].ent].orig = ent[call[t].ent].orig)
    BY <1>1, <1>2, <2>2, Zenon DEF Busy
  <2>3. \A e \in Listed' : ent'[e].chan = c =>
           e \in Listed /\ ent[e].chan = c /\ ent'[e].orig = ent[e].orig
    BY <1>2, Zenon
  <2> QED BY <1>2, <2>1, <2>2, <2>3, FlagStays, Zenon
<1> QED BY <1>2, Zenon DEF FInv

LEMMA UsersStay ==
  ASSUME UsersOnly,
         \A t \in Threads, c \in Channels :
            call'[t].chan = c \/ uses'[t][c] > 0 =>
               call[t].chan = c \/ uses[t][c] > 0 \/ t \in Users[c]
  PROVE  UsersOnly'
  BY DEF UsersOnly

\* Only the one user of a private channel is in a call about it.
LEMMA OneUser ==
  ASSUME UsersOnly, NEW c \in Private, NEW t \in Threads, NEW u \in Threads,
         call[t].chan = c, call[u].chan = c
  PROVE  t = u
  BY DEF UsersOnly, Private

LEMMA FlagLookup ==
  ASSUME FInv, AInv', NEW t \in Threads, NEW c \in Channels, StartLookup(t, c)
  PROVE  FInv'
<1>1. /\ aslist' = aslist /\ chan' = chan /\ t \in Users[c] /\ call[t].pc = "idle"
      /\ \/ /\ FindEnt(c) # None /\ call' = call
            /\ ent' = [ent EXCEPT ![FindEnt(c)].use = ent[FindEnt(c)].use + 1]
            /\ uses' = [uses EXCEPT ![t][c] = uses[t][c] + 1]
         \/ /\ FindEnt(c) = None /\ ent' = ent /\ uses' = uses
            /\ call' = [call EXCEPT ![t] = [Idle EXCEPT !.pc = "new", !.chan = c]]
  BY DEF StartLookup
<1>2. Listed' = Listed /\ Listed \subseteq Ents
  BY <1>1 DEF Listed, FInv, AInv, Shape
<1>3. \A e \in Ents : ent'[e].chan = ent[e].chan /\ ent'[e].orig = ent[e].orig
  <2>1. CASE ent' = ent
    BY <2>1
  <2>2. CASE ent' = [ent EXCEPT ![FindEnt(c)].use = ent[FindEnt(c)].use + 1]
    <3>1. \A e \in Ents : DOMAIN ent[e] = EntFields
      BY Zenon DEF FInv, AInv, Shape, EntShape
    <3>2. DOMAIN ent = Ents
      BY Zenon DEF FInv, AInv, Shape, EntShape
    <3> QED BY <2>2, <3>1, <3>2, Zenon DEF EntFields
  <2> QED BY <1>1, <2>1, <2>2, Zenon
<1>4. \A u \in Threads : Owns(u) => call[u].ent \in Ents
  BY CallFacts DEF FInv, AInv
<1>5. CASE FindEnt(c) # None
  <2>1. \A u \in Threads, d \in Channels : uses'[u][d] > 0 => uses[u][d] > 0 \/ u \in Users[d]
    <3>1. uses \in [Threads -> [Channels -> Nat]] /\ uses' = [uses EXCEPT ![t][c] = uses[t][c] + 1]
      BY <1>1, <1>5 DEF FInv, AInv, Shape, CallShape
    <3> QED BY <1>1, <3>1
  <2>2. call' = call
    BY <1>1, <1>5
  <2>3. UsersOnly'
    BY <2>1, <2>2, UsersStay DEF FInv
  <2>4. \A u \in Threads :
           call'[u] = call[u] /\ (Owns(u) => ent'[call[u].ent].orig = ent[call[u].ent].orig)
    BY <1>3, <1>4, <2>2
  <2>5. {} \in SUBSET Channels /\ \A e \in Listed' : e \in Ents /\ e \in Listed
    BY <1>2
  <2> QED BY <1>1, <1>3, <2>3, <2>4, <2>5, FlagStep, Zenon
<1>6. CASE FindEnt(c) = None
  <2>1. /\ call'[t].pc = "new" /\ call'[t].chan = c
        /\ \A u \in Threads \ {t} : call'[u] = call[u]
    <3> DEFINE new == [Idle EXCEPT !.pc = "new", !.chan = c]
    <3>1. new.pc = "new" /\ new.chan = c
      BY DEF Idle
    <3>2. DOMAIN call = Threads /\ call' = [call EXCEPT ![t] = new]
      BY <1>1, <1>6 DEF FInv, AInv, Shape, CallShape
    <3> HIDE DEF new
    <3> QED BY <3>1, <3>2, Zenon
  <2>2. UsersOnly'
    BY <1>1, <1>6, <2>1, UsersStay, Zenon DEF FInv
  <2>3. ~Served(c) /\ ~Served(c)'
    BY <1>2, <1>3, <1>6, FindEntFinds, Zenon DEF Served, FInv, AInv, Shape
  <2>4. ASSUME c \in Private PROVE FlagOK(c)'
    <3>1. FlagOK(c)
      BY <2>4 DEF FInv
    <3>2. ASSUME NEW u \in Threads, Busy(u, c)' PROVE u = t
      <4>1. call'[u].chan = c
        BY <3>2 DEF Busy
      <4> QED BY <1>1, <2>1, <2>4, <4>1 DEF FInv, UsersOnly, Private
    <3>3. call'[t].pc # "insert" /\ ~Owns(t)'
      BY <2>1 DEF Owns
    <3>4. chan'[c].was \/ Served(c)' => chan'[c].enddtmf
      BY <1>1, <2>3, <3>1, Zenon DEF FlagOK
    <3>5. \A e \in Listed' : ent'[e].chan # c
      BY <2>3, Zenon DEF Served
    <3> QED BY <2>3, <3>2, <3>3, <3>4, <3>5 DEF FlagOK
  <2>5. ASSUME NEW u \in Threads, call'[u].chan \notin {c}
        PROVE  call'[u] = call[u] /\ (Owns(u) => ent'[call[u].ent].orig = ent[call[u].ent].orig)
    BY <1>3, <1>4, <2>1, <2>5
  <2>6. {c} \in SUBSET Channels
    BY Zenon
  <2> QED BY <1>1, <1>2, <1>3, <2>2, <2>4, <2>5, <2>6, FlagStep, Zenon
<1> QED BY <1>5, <1>6

LEMMA FlagAlloc ==
  ASSUME FInv, AInv', NEW t \in Threads, StartAlloc(t)
  PROVE  FInv'
<1>1. call[t].pc = "new" /\ aslist' = aslist /\ uses' = uses
  BY DEF StartAlloc
<1>2. PICK c \in Channels : c = call[t].chan
  BY <1>1, CallFacts, Zenon DEF FInv, AInv
<1> DEFINE new == [Freed EXCEPT !.st = "used", !.chan = c, !.use = 1, !.orig = chan[c].enddtmf]
<1>3. PICK e \in Ents : /\ ent[e].st = "free" /\ ent' = [ent EXCEPT ![e] = new]
                        /\ chan' = [chan EXCEPT ![c].enddtmf = TRUE]
                        /\ call' = [call EXCEPT ![t].pc = "insert", ![t].ent = e]
  <2> DEFINE m == CHOOSE x \in Ents : ent[x].st = "free"
  <2>1. m \in Ents /\ ent[m].st = "free"
    BY DEF StartAlloc
  <2> QED BY <1>2, <2>1, Zenon DEF StartAlloc
<1>4. new.chan = c /\ new.orig = chan[c].enddtmf
  BY DEF Freed
<1> HIDE DEF new
<1>5. Listed' = Listed /\ Listed \subseteq Ents /\ e \notin Listed
  <2>1. Listed' = Listed
    BY <1>1, <1>3 DEF Listed
  <2> QED BY <1>3, <2>1, ListFacts DEF FInv, AInv, Linked
<1>6. ent'[e].orig = chan[c].enddtmf /\ \A d \in Ents \ {e} : ent'[d] = ent[d]
  BY <1>3, <1>4 DEF FInv, AInv, Shape, EntShape
<1>7. /\ chan'[c].was = chan[c].was /\ chan'[c].enddtmf = TRUE
      /\ \A d \in Channels \ {c} : chan'[d] = chan[d]
  BY <1>3 DEF FInv, AInv, Shape, ChanShape, ChanFields
<1>8. /\ call'[t].chan = c /\ call'[t].ent = e /\ call'[t].pc = "insert"
      /\ \A u \in Threads \ {t} : call'[u] = call[u]
  BY <1>2, <1>3, Zenon DEF FInv, AInv, Shape, CallShape
<1>9. UsersOnly'
  BY <1>1, <1>2, <1>8, UsersStay DEF FInv
<1>10. \A u \in Threads : Owns(u) => call[u].ent \in Ents \ {e}
  BY <1>3, CallFacts DEF FInv, AInv
<1>11. ASSUME c \in Private PROVE FlagOK(c)'
  <2>1. FlagOK(c) /\ Busy(t, c)
    BY <1>1, <1>2, <1>11, Zenon DEF FInv, Busy
  <2>2. ~Served(c)
    BY <2>1, Zenon DEF FlagOK
  <2>3. \A d \in Listed' : ent'[d].chan # c
    BY <1>5, <1>6, <2>2, Zenon DEF Served
  <2>4. ASSUME NEW u \in Threads, Busy(u, c)' PROVE u = t
    <3>1. call'[u].chan = c
      BY <2>4, Zenon DEF Busy
    <3> QED BY <1>2, <1>8, <1>11, <3>1, OneUser DEF FInv
  <2>5. chan'[c].was => ent'[call'[t].ent].orig
    BY <1>6, <1>7, <1>8, <2>1 DEF FlagOK
  <2> QED BY <1>7, <2>3, <2>4, <2>5, Zenon DEF FlagOK, Served
<1>12. \A d \in Listed' : d \in Listed /\ ent'[d] = ent[d]
  BY <1>5, <1>6, Zenon
<1>13. \A u \in Threads : call'[u].chan \notin {c} =>
          call'[u] = call[u] /\ (Owns(u) => ent'[call[u].ent].orig = ent[call[u].ent].orig)
  BY <1>6, <1>8, <1>10
<1>14. {c} \in SUBSET Channels /\ \A d \in Private \cap {c} : FlagOK(d)'
  BY <1>11, Zenon
<1>15. \A d \in Channels \ {c} : chan'[d].was = chan[d].was /\ chan'[d].enddtmf = chan[d].enddtmf
  BY <1>7, Zenon
<1>16. \A d \in Listed' : ent'[d].chan \notin {c} =>
          d \in Listed /\ ent'[d].chan = ent[d].chan /\ ent'[d].orig = ent[d].orig
  BY <1>12, Zenon
<1> QED BY <1>9, <1>13, <1>14, <1>15, <1>16, FlagStep, Zenon

LEMMA FlagInsert ==
  ASSUME FInv, AInv', NEW t \in Threads, StartInsert(t)
  PROVE  FInv'
<1>1. call[t].pc = "insert" /\ Owns(t) /\ ent' = ent /\ chan' = chan
  BY DEF StartInsert, Owns
<1>2. PICK c \in Channels, e \in Ents : /\ c = call[t].chan /\ e = call[t].ent
                                        /\ e \notin Listed /\ ent[e].chan = c
  BY <1>1, CallFacts DEF FInv, AInv
<1>3. Listed' = Listed \cup {e} /\ Listed \subseteq Ents
  <2>1. /\ Listed = Elts(aslist) /\ Listed' = Elts(aslist') /\ aslist' = <<e>> \o aslist
        /\ aslist \in Seq(Ents) /\ Distinct(aslist)
    BY <1>2, ListFacts, Zenon DEF StartInsert, FInv
  <2>2. e \in Ents \ Elts(aslist) /\ Listed \subseteq Ents
    BY <1>2, <2>1, ListFacts DEF FInv
  <2> QED BY <2>1, <2>2, InsertHeadOfList
<1>4. /\ call'[t] = Idle /\ \A u \in Threads \ {t} : call'[u] = call[u]
  BY Zenon DEF StartInsert, FInv, AInv, Shape, CallShape
<1>5. Idle.chan = None /\ Idle.pc = "idle" /\ None \notin Channels
  BY AutoserviceAssumption, Zenon DEF Idle
<1>6. t \in Users[c]
  BY <1>2, Zenon DEF FInv, UsersOnly
<1>7. UsersOnly'
  <2>1. uses \in [Threads -> [Channels -> Nat]] /\ uses' = [uses EXCEPT ![t][c] = uses[t][c] + 1]
    BY <1>2, Zenon DEF StartInsert, FInv, AInv, Shape, CallShape
  <2>2. \A u \in Threads, d \in Channels : uses'[u][d] > 0 => uses[u][d] > 0 \/ u \in Users[d]
    BY <1>6, <2>1
  <2> QED BY <1>4, <1>5, <2>2, UsersStay, Zenon DEF FInv
<1>8. ASSUME c \in Private PROVE FlagOK(c)'
  <2>1. FlagOK(c) /\ Busy(t, c)
    BY <1>1, <1>2, <1>8, Zenon DEF FInv, Busy
  <2>2. /\ ~Served(c) /\ chan[c].enddtmf /\ (chan[c].was => ent[e].orig)
    BY <1>1, <1>2, <2>1, Zenon DEF FlagOK
  <2>3. \A d \in Listed' : ent'[d].chan = c => d = e
    BY <1>1, <1>3, <2>2, Zenon DEF Served
  <2>4. ASSUME NEW u \in Threads, Busy(u, c)' PROVE FALSE
    <3>1. call'[u].chan = c /\ u # t
      BY <1>4, <1>5, <2>4, Zenon DEF Busy
    <3> QED BY <1>2, <1>4, <1>8, <3>1, OneUser, Zenon DEF FInv
  <2> QED BY <1>1, <2>2, <2>3, <2>4, Zenon DEF FlagOK
<1>9. \A u \in Threads : call'[u] = call[u] \/ call'[u] = Idle
  BY <1>4
<1>10. \A d \in Listed' : ent'[d].chan \notin {c} => d \in Listed
  BY <1>1, <1>2, <1>3
<1>11. {c} \in SUBSET Channels /\ \A d \in Private \cap {c} : FlagOK(d)'
  BY <1>8, Zenon
<1> QED BY <1>1, <1>7, <1>9, <1>10, <1>11, FlagStep, Zenon

\* A start that gives up.
LEMMA FlagGiveUp ==
  ASSUME FInv, AInv', NEW t \in Threads, StartNoMemory(t) \/ StartNoThread(t)
  PROVE  FInv'
<1>1. /\ chan' = chan /\ uses' = uses /\ call' = [call EXCEPT ![t] = Idle]
      /\ \/ aslist' = aslist /\ ent' = ent
         \/ /\ call[t].pc = "insert" /\ aslist' = Undo(call[t].ent)
            /\ ent' = [ent EXCEPT ![call[t].ent] = Freed]
  BY Zenon DEF StartNoMemory, StartNoThread
<1>2. /\ call'[t] = Idle /\ \A u \in Threads \ {t} : call'[u] = call[u]
  BY <1>1 DEF FInv, AInv, Shape, CallShape
<1>3. Idle.chan = None /\ None \notin Channels
  BY AutoserviceAssumption DEF Idle
<1>4. UsersOnly'
  BY <1>1, <1>2, <1>3, UsersStay, Zenon DEF FInv
<1>5. /\ \A e \in Listed' : e \in Listed /\ ent'[e] = ent[e]
      /\ \A u \in Threads \ {t} : Owns(u) => ent'[call[u].ent] = ent[call[u].ent]
  <2>1. CASE aslist' = aslist /\ ent' = ent
    BY <2>1, Zenon DEF Listed
  <2>2. CASE /\ call[t].pc = "insert" /\ aslist' = Undo(call[t].ent)
             /\ ent' = [ent EXCEPT ![call[t].ent] = Freed]
    <3>1. Owns(t)
      BY <2>2, Zenon DEF Owns
    <3>2. PICK e \in Ents : e = call[t].ent /\ e \notin Listed
      BY <3>1, CallFacts, Zenon DEF FInv, AInv
    <3>3. /\ Listed = Elts(aslist) /\ Listed' = Elts(Without(<<e>> \o aslist, e))
          /\ aslist \in Seq(Ents) /\ Distinct(aslist) /\ Listed \subseteq Ents
      BY <2>2, <3>2, ListFacts, Zenon DEF Undo, FInv
    <3>4. /\ <<e>> \o aslist \in Seq(Ents) /\ Distinct(<<e>> \o aslist)
          /\ Elts(<<e>> \o aslist) = Elts(aslist) \cup {e}
      BY <3>2, <3>3, InsertHeadOfList
    <3>5. Listed' = (Listed \cup {e}) \ {e}
      <4> DEFINE w == <<e>> \o aslist
      <4>1. w \in Seq(Ents) /\ Distinct(w) /\ e \in Elts(w)
        BY <3>4
      <4> HIDE DEF w
      <4>2. Elts(Without(w, e)) = Elts(w) \ {e}
        BY <4>1, WithoutRemoves, Zenon
      <4> QED BY <3>3, <3>4, <4>2 DEF w
    <3>6. \A d \in Ents \ {e} : ent'[d] = ent[d]
      BY <2>2, <3>2 DEF FInv, AInv, Shape, EntShape
    <3>7. \A u \in Threads \ {t} : Owns(u) => call[u].ent \in Ents \ {e}
      BY <3>1, <3>2, CallFacts, Zenon DEF FInv, AInv, Calls
    <3> QED BY <3>2, <3>3, <3>5, <3>6, <3>7, Zenon
  <2> QED BY <1>1, <2>1, <2>2, Zenon
<1>6. {} \in SUBSET Channels
  OBVIOUS
<1> QED BY <1>1, <1>2, <1>4, <1>5, <1>6, FlagStep, Zenon

LEMMA FlagSection ==
  ASSUME FInv, AInv', NEW t \in Threads, NEW c \in Channels, NEW locked \in BOOLEAN,
         StopSection(t, c, locked), t \in Users[c], call[t].pc = "idle", chan' = chan
  PROVE  FInv'
<1> DEFINE e == FindEnt(c)
           last == LastUse(e)
<1>1. /\ ent' = IF e = None THEN ent ELSE [ent EXCEPT ![e].use = ent[e].use - 1]
      /\ aslist' = IF last THEN Without(aslist, e) ELSE aslist
      /\ uses' = IF uses[t][c] > 0 THEN [uses EXCEPT ![t][c] = uses[t][c] - 1] ELSE uses
      /\ call' = [call EXCEPT ![t] =
              [pc |-> IF last THEN "wait" ELSE IF locked THEN "destroy" ELSE "idle",
               chan |-> IF last \/ locked THEN c ELSE None,
               ent |-> IF last THEN e ELSE None,
               locked |-> locked]]
  BY Zenon DEF StopSection
<1>2. \A d \in Ents : ent'[d].chan = ent[d].chan /\ ent'[d].orig = ent[d].orig
  <2> HIDE DEF e
  <2>1. DOMAIN ent = Ents /\ \A d \in Ents : DOMAIN ent[d] = EntFields
    BY DEF FInv, AInv, Shape, EntShape
  <2>2. CASE e = None
    BY <1>1, <2>2
  <2>3. CASE e # None
    <3>1. ent' = [ent EXCEPT ![e].use = ent[e].use - 1]
      BY <1>1, <2>3
    <3> QED BY <2>1, <3>1 DEF EntFields
  <2> QED BY <2>2, <2>3
<1>3. (e \in Listed /\ ent[e].chan = c) \/ e = None
  BY FindEntFinds DEF FInv, AInv, Shape
<1>4. /\ Listed \subseteq Ents
      /\ IF last THEN e \in Listed /\ Listed' = Listed \ {e} ELSE Listed' = Listed
  <2>1. /\ Listed = Elts(aslist) /\ Listed' = Elts(aslist')
        /\ aslist \in Seq(Ents) /\ Distinct(aslist) /\ Listed \subseteq Ents
    BY ListFacts, Zenon DEF FInv
  <2>2. last => e # None
    BY DEF LastUse
  <2> HIDE DEF e, last
  <2> QED BY <1>1, <1>3, <2>1, <2>2, WithoutRemoves, Zenon
<1>5. /\ call'[t].pc = (IF last THEN "wait" ELSE IF locked THEN "destroy" ELSE "idle")
      /\ call'[t].chan \in {c, None} /\ (last => call'[t].ent = e)
      /\ \A u \in Threads \ {t} : call'[u] = call[u]
  <2> HIDE DEF e, last
  <2> QED BY <1>1, Zenon DEF FInv, AInv, Shape, CallShape
<1> HIDE DEF e, last
<1>6. UsersOnly'
  <2>1. uses \in [Threads -> [Channels -> Nat]] /\ None \notin Channels
    BY AutoserviceAssumption DEF FInv, AInv, Shape, CallShape
  <2>2. \A u \in Threads, d \in Channels : uses'[u][d] > 0 => uses[u][d] > 0
    BY <1>1, <2>1, Zenon
  <2> QED BY <1>5, <2>1, <2>2, UsersStay, Zenon DEF FInv
<1>7. ASSUME c \in Private PROVE FlagOK(c)'
  <2>1. FlagOK(c)
    BY <1>7, Zenon DEF FInv
  <2>2. ASSUME NEW u \in Threads, Busy(u, c)'
        PROVE  u = t /\ last
    <3>1. u = t
      <4>1. call'[u].chan = c
        BY <2>2 DEF Busy
      <4> QED BY <1>5, <1>7, <4>1 DEF FInv, UsersOnly, Private
    <3> QED BY <1>5, <2>2, <3>1, Zenon DEF Busy
  <2>3. Served(c)' => Served(c)
    BY <1>2, <1>4, Zenon DEF Served
  <2>4. ASSUME last
        PROVE  ~Served(c)' /\ call'[t].pc = "wait" /\ (chan'[c].was => ent'[call'[t].ent].orig)
    <3>1. e \in Listed /\ ent[e].chan = c
      BY <1>3, <1>4, <2>4, AutoserviceAssumption, Zenon
    <3>2. \A d \in Listed : ent[d].chan = c => d = e
      BY <2>1, <3>1, Zenon DEF FlagOK
    <3>3. ~Served(c)'
      BY <1>2, <1>4, <2>4, <3>2, Zenon DEF Served
    <3> QED BY <1>2, <1>4, <1>5, <2>1, <2>4, <3>1, <3>3, Zenon DEF FlagOK
  <2>5. \A d \in Listed' : d \in Listed /\ ent'[d].chan = ent[d].chan /\ ent'[d].orig = ent[d].orig
    BY <1>2, <1>4, Zenon
  <2> QED BY <2>1, <2>2, <2>3, <2>4, <2>5 DEF FlagOK
<1>8. \A u \in Threads \ {t} : Owns(u) => ent'[call[u].ent].orig = ent[call[u].ent].orig
  BY <1>2, CallFacts, Zenon DEF FInv, AInv
<1>9. \A d \in Listed' : d \in Listed /\ ent'[d].chan = ent[d].chan /\ ent'[d].orig = ent[d].orig
  BY <1>2, <1>4, Zenon
<1>10. {c} \in SUBSET Channels /\ \A d \in Private \cap {c} : FlagOK(d)'
  BY <1>7, Zenon
<1>11. call'[t].chan \notin {c} => call'[t] = Idle
  <2> DEFINE new == [pc |-> IF last THEN "wait" ELSE IF locked THEN "destroy" ELSE "idle",
                     chan |-> IF last \/ locked THEN c ELSE None,
                     ent |-> IF last THEN e ELSE None,
                     locked |-> locked]
  <2>1. call'[t] = new
    BY <1>1 DEF FInv, AInv, Shape, CallShape
  <2>2. CASE last \/ locked
    <3>1. new.chan = c
      BY <2>2, Zenon
    <3> HIDE DEF new
    <3> QED BY <2>1, <3>1
  <2>3. CASE ~last /\ locked = FALSE
    BY <2>1, <2>3 DEF Idle
  <2> QED BY <2>2, <2>3, Zenon
<1> QED BY <1>5, <1>6, <1>8, <1>9, <1>10, <1>11, FlagStep, Zenon

LEMMA FlagFinish ==
  ASSUME FInv, AInv', NEW t \in Threads, StopFinish(t)
  PROVE  FInv'
<1>1. call[t].pc = "wait" /\ Owns(t) /\ aslist' = aslist /\ uses' = uses
  BY Zenon DEF StopFinish, Owns
<1>2. PICK c \in Channels, e \in Ents : c = call[t].chan /\ e = call[t].ent /\ e \notin Listed
  BY <1>1, CallFacts DEF FInv, AInv
<1>3. ent' = [ent EXCEPT ![e] = Freed] /\ call' = [call EXCEPT ![t] = Idle]
  <2>1. call[t].locked = FALSE
    <3>1. call[t].locked \in BOOLEAN
      BY Zenon DEF FInv, AInv, Shape, CallShape
    <3> QED BY <1>1, <3>1, CallFacts, Zenon DEF FInv, AInv
  <2> QED BY <1>2, <2>1, Zenon DEF StopFinish
<1>4. /\ chan'[c].was = chan[c].was
      /\ chan'[c].enddtmf = RestoreFlag(chan[c].enddtmf, ent[e].orig)
      /\ \A d \in Channels \ {c} : chan'[d] = chan[d]
  <2> DEFINE q == Requeue(ent[e].deferred, chan[c].readq, c, ent[e].ignore)
             flag == RestoreFlag(chan[c].enddtmf, ent[e].orig)
  <2>1. chan' = [chan EXCEPT ![c].enddtmf = flag, ![c].readq = q]
    BY <1>2, Zenon DEF StopFinish
  <2> HIDE DEF q, flag
  <2>2. DOMAIN chan = Channels /\ DOMAIN chan[c] = ChanFields
    BY Zenon DEF FInv, AInv, Shape, ChanShape
  <2>3. chan'[c].was = chan[c].was /\ chan'[c].enddtmf = flag
    BY <2>1, <2>2 DEF ChanFields
  <2>4. \A d \in Channels \ {c} : chan'[d] = chan[d]
    BY <2>1, <2>2, Zenon
  <2> QED BY <2>3, <2>4 DEF flag
<1>5. Listed' = Listed /\ Listed \subseteq Ents \ {e} /\ \A d \in Ents \ {e} : ent'[d] = ent[d]
  <2>1. Listed' = Listed
    BY <1>1 DEF Listed
  <2>2. Listed \subseteq Ents /\ DOMAIN ent = Ents
    BY ListFacts, Zenon DEF FInv, AInv, Shape, EntShape
  <2> QED BY <1>2, <1>3, <2>1, <2>2, Zenon
<1>6. call'[t] = Idle /\ \A u \in Threads \ {t} : call'[u] = call[u]
  BY <1>3, Zenon DEF FInv, AInv, Shape, CallShape
<1>7. Idle.chan = None /\ Idle.pc = "idle" /\ None \notin Channels
  BY AutoserviceAssumption, Zenon DEF Idle
<1>8. UsersOnly'
  BY <1>1, <1>6, <1>7, UsersStay, Zenon DEF FInv
<1>9. ASSUME c \in Private PROVE FlagOK(c)'
  <2>1. FlagOK(c) /\ Busy(t, c)
    BY <1>1, <1>2, <1>9 DEF FInv, Busy
  <2>2. ~Served(c) /\ (chan[c].was => ent[e].orig /\ chan[c].enddtmf)
    BY <1>1, <1>2, <2>1, Zenon DEF FlagOK
  <2>3. chan'[c].was => chan'[c].enddtmf
    BY <1>4, <2>2, Zenon DEF RestoreFlag
  <2>4. \A d \in Listed' : ent'[d].chan # c
    BY <1>5, <2>2, Zenon DEF Served
  <2>5. ASSUME NEW u \in Threads, Busy(u, c)' PROVE FALSE
    <3>1. call'[u].chan = c /\ u # t
      BY <1>6, <1>7, <2>5, Zenon DEF Busy
    <3> QED BY <1>2, <1>6, <1>9, <3>1, OneUser, Zenon DEF FInv
  <2> QED BY <2>3, <2>4, <2>5, Zenon DEF FlagOK, Served
<1>10. \A u \in Threads \ {t} : Owns(u) => ent'[call[u].ent] = ent[call[u].ent]
  <2>1. \A u \in Threads \ {t} : Owns(u) => call[u].ent \in Ents \ {e}
    BY <1>1, <1>2, CallFacts DEF FInv, AInv, Calls
  <2> QED BY <1>5, <2>1, Zenon
<1>11. \A d \in Listed' : d \in Listed /\ ent'[d] = ent[d]
  BY <1>5
<1>12. {c} \in SUBSET Channels /\ \A d \in Private \cap {c} : FlagOK(d)'
  BY <1>9, Zenon
<1> QED BY <1>4, <1>6, <1>8, <1>10, <1>11, <1>12, FlagStep, Zenon

LEMMA FlagDestroy ==
  ASSUME FInv, AInv', NEW t \in Threads, Destroy(t)
  PROVE  FInv'
<1>1. call[t].pc = "destroy" /\ aslist' = aslist /\ uses' = uses /\ ent' = ent
  BY DEF Destroy
<1>2. PICK c \in Channels : c = call[t].chan
  BY <1>1, CallFacts DEF FInv, AInv
<1>3. /\ \A u \in Threads \ {t} : call[u].chan # c
      /\ \A e \in Listed : ent[e].chan # c
  BY <1>1, <1>2 DEF FInv, AInv, Exclusive
<1>4. chan'[c].was = FALSE /\ \A d \in Channels \ {c} : chan'[d] = chan[d]
  <2> DEFINE dead == [NewChan(FALSE) EXCEPT !.alive = FALSE]
  <2>1. dead.was = FALSE
    BY DEF NewChan
  <2>2. chan' = [chan EXCEPT ![c] = dead] /\ DOMAIN chan = Channels
    BY <1>2 DEF Destroy, FInv, AInv, Shape, ChanShape
  <2> HIDE DEF dead
  <2> QED BY <2>1, <2>2
<1>5. call'[t] = Idle /\ \A u \in Threads \ {t} : call'[u] = call[u]
  BY Zenon DEF Destroy, FInv, AInv, Shape, CallShape
<1>6. Idle.chan = None /\ None \notin Channels /\ Listed' = Listed
  BY <1>1, AutoserviceAssumption, Zenon DEF Idle, Listed
<1>7. UsersOnly'
  BY <1>1, <1>5, <1>6, UsersStay DEF FInv
<1>8. FlagOK(c)'
  <2>1. \A u \in Threads : ~Busy(u, c)'
    BY <1>3, <1>5, <1>6, Zenon DEF Busy
  <2>2. \A e \in Listed' : ent'[e].chan # c
    BY <1>1, <1>3, <1>6
  <2> QED BY <1>4, <2>1, <2>2, Zenon DEF FlagOK, Served
<1>9. {c} \in SUBSET Channels /\ \A d \in Private \cap {c} : FlagOK(d)'
  BY <1>8, Zenon
<1>10. \A u \in Threads : call'[u] = call[u] \/ call'[u] = Idle
  BY <1>5, Zenon
<1> QED BY <1>1, <1>4, <1>6, <1>7, <1>9, <1>10, FlagStep, Zenon

\* A channel that is allocated is new to everybody.
LEMMA FlagAllocate ==
  ASSUME FInv, AInv', NEW c \in Channels, Allocate(c)
  PROVE  FInv'
<1>1. /\ aslist' = aslist /\ uses' = uses /\ ent' = ent /\ call' = call /\ Listed' = Listed
      /\ ~chan[c].alive
  BY DEF Allocate, Listed
<1>2. (\A u \in Threads : call[u].pc # "idle" => call[u].chan # c) /\ \A e \in Listed : ent[e].chan # c
  <2>1. \A u \in Threads : call[u].pc # "idle" => call[u].chan # c
    BY <1>1, CallFacts DEF FInv, AInv
  <2> QED BY <1>1, <2>1 DEF FInv, AInv, Linked
<1>3. (chan'[c].was => chan'[c].enddtmf) /\ \A d \in Channels \ {c} : chan'[d] = chan[d]
  <2>1. PICK F \in SUBSET Flagged : chan' = [chan EXCEPT ![c] = NewChan(c \in F)]
    BY Zenon DEF Allocate
  <2>2. NewChan(c \in F).was = (c \in F) /\ NewChan(c \in F).enddtmf = (c \in F)
    BY Zenon DEF NewChan
  <2>3. DOMAIN chan = Channels
    BY DEF FInv, AInv, Shape, ChanShape
  <2>4. chan'[c] = NewChan(c \in F) /\ \A d \in Channels \ {c} : chan'[d] = chan[d]
    BY <2>1, <2>3, Zenon
  <2> QED BY <2>2, <2>4, Zenon
<1>4. UsersOnly'
  BY <1>1, UsersStay, Zenon DEF FInv
<1>5. FlagOK(c)'
  <2>1. \A u \in Threads : ~Busy(u, c)'
    BY <1>1, <1>2 DEF Busy
  <2>2. \A e \in Listed' : ent'[e].chan # c
    BY <1>1, <1>2
  <2> QED BY <1>3, <2>1, <2>2, Zenon DEF FlagOK, Served
<1>6. {c} \in SUBSET Channels /\ \A d \in Private \cap {c} : FlagOK(d)'
  BY <1>5, Zenon
<1> QED BY <1>1, <1>3, <1>4, <1>6, FlagStep, Zenon

\* The autoservice thread, frames and ast_autoservice_ignore leave the flags alone.
LEMMA FlagQuiet ==
  ASSUME FInv, AInv', UNCHANGED <<aslist, call, uses>>,
         \A c \in Channels : chan'[c].was = chan[c].was /\ chan'[c].enddtmf = chan[c].enddtmf,
         \A e \in Ents : ent'[e].chan = ent[e].chan /\ ent'[e].orig = ent[e].orig
  PROVE  FInv'
<1>1. Listed' = Listed /\ Listed \subseteq Ents /\ call' = call /\ {} \in SUBSET Channels
  <2>1. Listed' = Listed
    BY Zenon DEF Listed
  <2> QED BY <2>1, ListFacts, Zenon DEF FInv
<1>2. UsersOnly'
  BY UsersStay DEF FInv
<1>3. \A u \in Threads : Owns(u) => ent'[call[u].ent].orig = ent[call[u].ent].orig
  BY CallFacts DEF FInv, AInv
<1> QED BY <1>1, <1>2, <1>3, FlagStep, Zenon

LEMMA FlagNext ==
  ASSUME "busy" \notin Faults, FInv, [Next]_vars
  PROVE  FInv'
<1>0. AInv'
  BY InvStep DEF FInv
<1>a. DOMAIN chan = Channels /\ \A c \in Channels : DOMAIN chan[c] = ChanFields
  BY DEF FInv, AInv, Shape, ChanShape
<1>b. DOMAIN ent = Ents /\ \A e \in Ents : DOMAIN ent[e] = EntFields
  BY DEF FInv, AInv, Shape, EntShape
<1>c. ChanShape
  BY DEF FInv, AInv, Shape
<1>1. CASE UNCHANGED vars
  BY <1>0, <1>1, FlagQuiet, Zenon DEF vars
<1>2. CASE AsTop \/ AsWake \/ AsSpurious \/ AsWaitfor
  <2>1. UNCHANGED <<aslist, ent, call, uses, chan>>
    BY <1>2, Zenon DEF AsTop, AsWake, AsSpurious, AsWaitfor
  <2> QED BY <1>0, <2>1, FlagQuiet
<1>3. CASE AsRead
  <2>1. UNCHANGED <<aslist, ent, call, uses>>
    BY <1>3 DEF AsRead
  <2>2. chan' = chan \/ QueueStep(as.chan)
    BY <1>3, TakeFrameMoves, Zenon DEF AsRead
  <2>3. \A c \in Channels : chan'[c].was = chan[c].was /\ chan'[c].enddtmf = chan[c].enddtmf
    BY <1>c, <2>2, QueueStepFacts, Zenon
  <2> QED BY <1>0, <2>1, <2>3, FlagQuiet
<1>4. CASE AsDefer
  <2>1. /\ UNCHANGED <<aslist, chan, call, uses>>
        /\ ent' = [ent EXCEPT ![as.mon[as.chan]].deferred =
                      InsertHead(as.frame, ent[as.mon[as.chan]].deferred)]
    BY <1>4, Zenon DEF AsDefer
  <2>2. \A e \in Ents : ent'[e].chan = ent[e].chan /\ ent'[e].orig = ent[e].orig
    BY <1>b, <2>1, Zenon DEF EntFields
  <2> QED BY <1>0, <2>1, <2>2, FlagQuiet, Zenon
<1>5. ASSUME NEW t \in Threads, Inside(t) PROVE FInv'
  BY <1>0, <1>5, FlagAlloc, FlagGiveUp, FlagInsert, FlagFinish, FlagDestroy DEF Inside
<1>6. ASSUME NEW t \in Threads, NEW c \in Channels, Stop(t, c) \/ Hangup(t, c) PROVE FInv'
  <2>1. t \in Users[c] /\ call[t].pc = "idle" /\ chan' = chan
    BY <1>6, Zenon DEF Stop, Hangup, FInv, UsersOnly
  <2>2. \E locked \in BOOLEAN : StopSection(t, c, locked)
    BY <1>6 DEF Stop, Hangup
  <2> QED BY <1>0, <2>1, <2>2, FlagSection, Zenon
<1>7. ASSUME NEW t \in Threads, NEW c \in Channels, OwnerRead(t, c) PROVE FInv'
  <2>1. UNCHANGED <<aslist, ent, call, uses>> /\ QueueStep(c)
    BY <1>7, TakeFrameMoves, Zenon DEF OwnerRead
  <2>2. \A d \in Channels : chan'[d].was = chan[d].was /\ chan'[d].enddtmf = chan[d].enddtmf
    BY <1>c, <2>1, QueueStepFacts, Zenon
  <2> QED BY <1>0, <2>1, <2>2, FlagQuiet
<1>8. ASSUME NEW t \in Threads, NEW c \in Channels, Ignore(t, c) PROVE FInv'
  <2>1. /\ UNCHANGED <<aslist, chan, call, uses>>
        /\ ent' = [ent EXCEPT ![FindEnt(c)].ignore = TRUE]
    BY <1>8 DEF Ignore
  <2>2. \A e \in Ents : ent'[e].chan = ent[e].chan /\ ent'[e].orig = ent[e].orig
    BY <1>b, <2>1, Zenon DEF EntFields
  <2> QED BY <1>0, <2>1, <2>2, FlagQuiet
<1>9. ASSUME NEW c \in Channels, SoftHangup(c) \/ \E k \in Kinds : Arrive(c, k) PROVE FInv'
  <2>1. UNCHANGED <<aslist, ent, call, uses>>
    BY <1>9, Zenon DEF Arrive, SoftHangup
  <2>2. \A d \in Channels : chan'[d].was = chan[d].was /\ chan'[d].enddtmf = chan[d].enddtmf
    BY <1>c, <1>9, ChannelMoves, QueueStepFacts, Zenon
  <2> QED BY <1>0, <2>1, <2>2, FlagQuiet, Zenon
<1> QED BY <1>0, <1>1, <1>2, <1>3, <1>4, <1>5, <1>6, <1>7, <1>8, <1>9, FlagLookup, FlagAllocate, Zenon
       DEF Next, Caller, AutoserviceThread

LEMMA FlagInit == Init => FInv
<1> SUFFICES ASSUME Init PROVE FInv
  OBVIOUS
<1>1. Listed = {} /\ (\A t \in Threads : call[t] = Idle) /\ \A t \in Threads, c \in Channels : uses[t][c] = 0
  BY DEF Init, Listed
<1>2. Idle.chan = None /\ Idle.pc = "idle" /\ None \notin Channels
  BY AutoserviceAssumption DEF Idle
<1>3. UsersOnly
  BY <1>1, <1>2 DEF UsersOnly
<1>4. ASSUME NEW c \in Channels PROVE chan[c].was => chan[c].enddtmf
  <2>1. PICK F \in SUBSET Flagged : chan = [d \in Channels |-> NewChan(d \in F)]
    BY Zenon DEF Init
  <2>2. chan[c] = NewChan(c \in F)
    BY <2>1
  <2>3. NewChan(c \in F).was = (c \in F) /\ NewChan(c \in F).enddtmf = (c \in F)
    BY Zenon DEF NewChan
  <2> QED BY <2>2, <2>3, Zenon
<1>5. ASSUME NEW c \in Private PROVE FlagOK(c)
  <2>1. c \in Channels /\ ~Served(c) /\ \A t \in Threads : ~Busy(t, c)
    BY <1>1, <1>2 DEF Private, Served, Busy
  <2> QED BY <1>1, <1>4, <2>1, Zenon DEF FlagOK
<1> QED BY <1>3, <1>5, InvInit DEF FInv

\* END_DTMF_ONLY of a private channel is on while the channel is served, and a flag
\* that its owner had set before the start is there after the stop.
THEOREM FlagKeptAlways ==
  ASSUME "busy" \notin Faults
  PROVE  Spec => []FlagKept
<1>1. ASSUME FInv PROVE FlagKept
  <2>1. ASSUME NEW c \in Private, FindEnt(c) # None PROVE Served(c)
    BY <1>1, <2>1, FindEntFinds DEF Served, Private, FInv, AInv, Shape
  <2> QED BY <1>1, <2>1, Zenon DEF FlagKept, FlagOK, FInv
<1>2. FInv /\ [Next]_vars => FInv'
  BY FlagNext
<1> QED BY FlagInit, <1>1, <1>2, PTL DEF Spec

=============================================================================
