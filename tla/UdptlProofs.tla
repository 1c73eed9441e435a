----------------------------- MODULE UdptlProofs -----------------------------
(***************************************************************************)
(* What redundancy promises, for every number of packets and of losses, at *)
(* the sizes of the code: circular buffers of 16 slots and sequence        *)
(* numbers of 16 bits.  The sizes are needed because the argument is about *)
(* remainders, which the provers decide only for a fixed divisor.          *)
(***************************************************************************)
EXTENDS Udptl, FiniteSetTheorems, TLAPS

\* UDPTL_BUF_MASK + 1 slots, a sequence number of two bytes, and fewer entries
\* than slots: MAX_FEC_ENTRIES is 5.
CodeSizes == Ring = 16 /\ SeqNos = 65536 /\ Entries < 16

\* What concatenation consists of.
LEMMA ConcatFacts ==
    ASSUME NEW S, NEW s \in Seq(S), NEW t \in Seq(S)
    PROVE  /\ s \o t \in Seq(S)
           /\ Len(s \o t) = Len(s) + Len(t)
           /\ \A i \in 1..(Len(s) + Len(t)) :
                 (s \o t)[i] = IF i <= Len(s) THEN s[i] ELSE t[i - Len(s)]
           /\ s \o <<>> = s
  OBVIOUS

-----------------------------------------------------------------------------
(* Remainders.                                                             *)

\* Less than 16 packets apart, two packets have slots of their own.
LEMMA SlotApart ==
    ASSUME NEW k \in Nat, NEW n \in Nat, k < n, n < k + 16
    PROVE  k % 16 # n % 16
  OBVIOUS

\* The slot i before that of packet n is the slot of packet n - i.
LEMMA SlotBack ==
    ASSUME NEW n \in Nat, NEW i \in Nat, i <= n
    PROVE  /\ (n % 65536) % 16 = n % 16
           /\ (n % 65536) % 16 \in 0..15
           /\ (((n % 65536) % 16) - i) % 16 = (n - i) % 16
           /\ (n - i) % 16 \in 0..15
  OBVIOUS

\* Going back by less than the sequence number stays within one round of numbers.
LEMMA SeqBack ==
    ASSUME NEW n \in Nat, NEW i \in Nat, i <= n % 65536
    PROVE  i <= n /\ (n - i) % 65536 = (n % 65536) - i
  OBVIOUS

\* What is at most as far back as the numbers tell is younger than packet a.
LEMMA SeqLater ==
    ASSUME NEW a \in Nat, NEW b \in Nat, a <= b, NEW i \in Nat,
           i <= (b % 65536) - ((a % 65536) + 1)
    PROVE  a < b - i
  OBVIOUS

\* A younger packet with a number no greater belongs to a later round.
LEMMA SeqWrap ==
    ASSUME NEW a \in Nat, NEW b \in Nat, a < b, b % 65536 <= a % 65536
    PROVE  /\ b >= 65536
           /\ \A k \in Nat : k <= a => k \div 65536 # b \div 65536
  OBVIOUS

-----------------------------------------------------------------------------
(* The inductive invariant.                                                *)

Dgrams == [n : Nat, seq : Nat, data : SUBSET Nat, fec : BOOLEAN,
           ec : Seq(SUBSET Nat), shape : [span : Nat, entries : Nat]]

\* How many secondaries a datagram of redundancy has with packet n.
Behind(n) == IF n > Entries THEN Entries ELSE n

\* A datagram carries a packet that was written, under its number, and without
\* parity the packets before it, the newest first.
Good(d) ==
    /\ d.n < tx.seq /\ d.n < MaxSent
    /\ d.seq = d.n % SeqNos /\ d.data = {d.n}
    /\ ~d.fec => Len(d.ec) <= d.n /\ \A i \in 1..Len(d.ec) : d.ec[i] = {d.n - i}
    /\ "fec" \notin Schemes => ~d.fec
    /\ Without({"switch"}) => /\ d.fec <=> tx.scheme = "fec"
                              /\ tx.scheme = "redundancy" => Len(d.ec) = Behind(d.n)

Wire == {d \in Dgrams : Good(d)}

UType ==
    /\ tx \in [seq : Nat, ring : [0..15 -> SUBSET Nat], scheme : Schemes, them : BOOLEAN]
    /\ rx = [seq |-> rx.seq, ring |-> rx.ring, them |-> rx.them]
    /\ rx.seq \in Nat /\ rx.them \in BOOLEAN
    /\ played \in [Packets -> Nat] /\ got \subseteq Packets
    /\ \A n \in got : n < tx.seq
    /\ net \in Seq(Wire)

\* The last 16 packets are in the slots of the writing end.
Kept == \A k \in Nat : k < tx.seq /\ tx.seq <= k + 16 => tx.ring[k % 16] = {k}

UInv == UType /\ Kept

\* Without reordering: every packet below L is behind the reading end, rx_seq_no is
\* one past the number of the last one read, and nothing older is in flight, but
\* for the last one once more.
ReadTo(L) ==
    /\ rx.seq = IF L = 0 THEN 0 ELSE ((L - 1) % 65536) + 1
    /\ L > 0 => L - 1 \in got
    /\ \A n \in got : n < L
    /\ \A i \in 1..Len(net) : L <= net[i].n + 1
    /\ \A i, j \in 1..Len(net) : i < j => net[i].n < net[j].n

\* Without parity nothing younger was handed on, and nothing twice.
PlayedTo(L) ==
    tx.scheme # "fec" /\ Without({"switch"}) =>
        \A n \in Packets : played[n] <= 1 /\ (played[n] > 0 => n < L)

\* With redundancy, every packet that was in a datagram that was read was handed on.
Healed ==
    tx.scheme = "redundancy" /\ ~Wrapped /\ Without({"switch"}) =>
        \A n \in got : \A i \in 0..Entries : i <= n => played[n - i] > 0

Order ==
    Without({"reorder"}) =>
        (\E L \in Nat : ReadTo(L) /\ PlayedTo(L)) /\ Healed /\ ReceivedIsPlayed

OInv == UInv /\ Order

-----------------------------------------------------------------------------
(* What is written.                                                        *)

LEMMA ShapeType ==
    ASSUME NEW seq \in Nat
    PROVE  FecShape(seq) \in [span : Nat, entries : Nat]
  <1>1. Span \in Nat /\ Entries \in Nat
    BY UdptlAssumption
  <1>2. CASE seq >= Span * Entries
    BY <1>1, <1>2 DEF FecShape
  <1>3. CASE ~(seq >= Span * Entries)
    <2>1. Span # 0
      BY <1>1, <1>3
    <2>2. seq \div Span \in Nat
      BY <1>1, <2>1
    <2> QED
      BY <1>1, <1>3, <2>2 DEF FecShape
  <1> QED
    BY <1>2, <1>3

\* The parity of a group of slots holds packets only.
LEMMA ParityType ==
    ASSUME CodeSizes, NEW ring \in [0..15 -> SUBSET Nat],
           NEW limit \in Int, NEW span \in Nat, NEW entries \in Nat
    PROVE  Parity(ring, Group(limit, span, entries)) \in SUBSET Nat
  <1> DEFINE G == Group(limit, span, entries)
  <1>1. \A i \in Int : (limit - (span - i) * entries) % 16 \in 0..15
    <2> TAKE i \in Int
    <2>1. PICK x \in Int : x = limit - (span - i) * entries
      OBVIOUS
    <2>2. x % 16 \in 0..15
      OBVIOUS
    <2> QED
      BY <2>1, <2>2
  <1>2. G \subseteq 0..15
    BY <1>1 DEF CodeSizes, Group
  <1> HIDE DEF G
  <1>3. Parity(ring, G) \subseteq UNION {ring[k] : k \in G}
    BY DEF Parity
  <1>4. \A k \in G : ring[k] \subseteq Nat
    BY <1>2
  <1> QED
    BY <1>3, <1>4 DEF G

LEMMA SeqOfLength ==
    ASSUME NEW S, NEW b \in Nat, NEW f, f = [i \in 1..b |-> f[i]], \A i \in 1..b : f[i] \in S
    PROVE  f \in Seq(S) /\ Len(f) = b
  OBVIOUS

LEMMA RecoveryType ==
    ASSUME CodeSizes, NEW n \in Nat, NEW ring \in [0..15 -> SUBSET Nat],
           NEW scheme \in Schemes
    PROVE  Recovery(n, ring, scheme) \in Seq(SUBSET Nat)
  <1>1. scheme \in {"none", "redundancy", "fec"} /\ Entries \in Nat
    BY UdptlAssumption
  <1>2. CASE scheme = "none"
    BY <1>2 DEF Recovery
  <1>3. CASE scheme = "redundancy"
    <2>1. Behind(n) \in Nat
      BY <1>1 DEF Behind
    <2>2. \A i \in 1..Behind(n) : ((SeqNo(n) % Ring) - i) % Ring \in 0..15
      BY <2>1 DEF SeqNo, CodeSizes
    <2>3. Recovery(n, ring, scheme)
             = [i \in 1..Behind(n) |-> ring[((SeqNo(n) % Ring) - i) % Ring]]
      BY <1>3 DEF Recovery, Behind
    <2>4. \A i \in 1..Behind(n) : ring[((SeqNo(n) % Ring) - i) % Ring] \in SUBSET Nat
      BY <2>2
    <2>5. PICK ec : ec = Recovery(n, ring, scheme)
      OBVIOUS
    <2>6. ec = [i \in 1..Behind(n) |-> ec[i]]
      BY <2>3, <2>5
    <2>7. \A i \in 1..Behind(n) : ec[i] \in SUBSET Nat
      BY <2>3, <2>4, <2>5
    <2>8. ec \in Seq(SUBSET Nat)
      BY <2>1, <2>6, <2>7, SeqOfLength
    <2> QED
      BY <2>5, <2>8
  <1>4. CASE scheme = "fec"
    <2>1. PICK s \in [span : Nat, entries : Nat] : s = FecShape(SeqNo(n))
      <3>1. SeqNo(n) \in Nat
        BY DEF SeqNo, CodeSizes
      <3> QED
        BY <3>1, ShapeType
    <2>2. PICK entry \in Nat : entry = SeqNo(n) % Ring
      BY DEF SeqNo, CodeSizes
    <2>3. \A m \in 1..s.entries :
             Parity(ring, Group((entry + m - 1) % Ring, s.span, s.entries)) \in SUBSET Nat
      <3> TAKE m \in 1..s.entries
      <3>1. (entry + m - 1) % Ring \in Int
        BY DEF CodeSizes
      <3> QED
        BY <3>1, ParityType
    <2>4. Recovery(n, ring, scheme)
             = [m \in 1..s.entries |->
                  Parity(ring, Group((entry + m - 1) % Ring, s.span, s.entries))]
      BY <1>4, <2>1, <2>2 DEF Recovery
    <2> QED
      BY <2>3, <2>4
  <1> QED
    BY <1>1, <1>2, <1>3, <1>4

\* A datagram stays good while packets are written.
LEMMA WireStays ==
    ASSUME tx.seq \in Nat, tx'.seq \in Nat, tx.seq <= tx'.seq,
           Without({"switch"})' => Without({"switch"}) /\ tx'.scheme = tx.scheme
    PROVE  /\ Wire \subseteq Wire'
           /\ Seq(Wire) \subseteq Seq(Wire')
  <1>1. ASSUME NEW d \in Wire PROVE d \in Wire'
    <2>1. d \in Dgrams /\ Good(d)
      BY <1>1 DEF Wire
    <2>2. Good(d)'
      BY <2>1 DEF Good, Dgrams
    <2> QED
      BY <2>1, <2>2 DEF Wire
  <1> QED
    BY <1>1

\* The redundancy of packet n: the packets before it, each in a slot that was not
\* used again.
LEMMA Redundancy ==
    ASSUME CodeSizes, NEW n \in Nat, NEW ring,
           \A k \in Nat : k <= n /\ n < k + 16 => ring[k % 16] = {k}
    PROVE  LET ec == Recovery(n, ring, "redundancy")
           IN  Len(ec) = Behind(n) /\ \A i \in 1..Len(ec) : ec[i] = {n - i}
  <1> DEFINE ec == Recovery(n, ring, "redundancy")
  <1>1. Behind(n) \in Nat /\ Behind(n) <= n /\ Behind(n) < 16
    BY UdptlAssumption DEF Behind, CodeSizes
  <1>2. ec = [i \in 1..Behind(n) |-> ring[((SeqNo(n) % Ring) - i) % Ring]]
    BY DEF Recovery, Behind
  <1>3. ASSUME NEW i \in 1..Behind(n) PROVE ec[i] = {n - i}
    <2>1. i \in Nat /\ i <= n /\ i < 16 /\ n - i \in Nat
      BY <1>1
    <2>2. ((SeqNo(n) % Ring) - i) % Ring = (n - i) % 16
      BY <2>1, SlotBack DEF SeqNo, CodeSizes
    <2>3. ec[i] = ring[(n - i) % 16]
      BY <1>2, <2>2, Zenon
    <2> QED
      BY <2>1, <2>3
  <1>4. Len(ec) = Behind(n)
    BY <1>1, <1>2
  <1> QED
    BY <1>3, <1>4

\* ast_udptl_write puts one good datagram on the wire.
LEMMA WriteGood ==
    ASSUME CodeSizes, UInv, Write
    PROVE  /\ UInv'
           /\ tx'.seq = tx.seq + 1 /\ tx'.scheme = tx.scheme
           /\ \E d \in Wire' : net' = Append(net, d) /\ d.n = tx.seq
  <1>1. PICK n \in Nat : n = tx.seq
    BY DEF UInv, UType
  <1>2. PICK ring : ring = [tx.ring EXCEPT ![SeqNo(n) % Ring] = {n}]
    BY Zenon
  <1>3. PICK d : d = Datagram(n, ring, tx.scheme)
    OBVIOUS
  <1>4. /\ n < MaxSent /\ net' = Append(net, d)
        /\ tx' = [tx EXCEPT !.seq = n + 1, !.ring = ring]
        /\ UNCHANGED <<rx, frames, played, got, lost, mishaps>>
    BY <1>1, <1>2, <1>3 DEF Write
  <1>5. SeqNo(n) % Ring = n % 16 /\ n % 16 \in 0..15
    BY DEF SeqNo, CodeSizes
  <1>6. ring \in [0..15 -> SUBSET Nat]
    BY <1>2, <1>5, Zenon DEF UInv, UType
  <1>7. \A k \in Nat : k <= n /\ n < k + 16 => ring[k % 16] = {k}
    <2> TAKE k \in Nat
    <2> HAVE k <= n /\ n < k + 16
    <2>1. CASE k = n
      BY <1>2, <1>5, <2>1 DEF UInv, UType
    <2>2. CASE k < n
      <3>1. k % 16 # n % 16 /\ k % 16 \in 0..15
        BY <2>2, SlotApart
      <3>2. ring[k % 16] = tx.ring[k % 16]
        BY <1>2, <1>5, <3>1 DEF UInv, UType
      <3> QED
        BY <1>1, <2>2, <3>2 DEF UInv, Kept
    <2> QED
      BY <2>1, <2>2
  <1>8. /\ tx' \in [seq : Nat, ring : [0..15 -> SUBSET Nat], scheme : Schemes, them : BOOLEAN]
        /\ tx'.seq = n + 1 /\ tx'.scheme = tx.scheme /\ tx'.ring = ring
    <2>1. tx \in [seq : Nat, ring : [0..15 -> SUBSET Nat], scheme : Schemes, them : BOOLEAN]
      BY Zenon DEF UInv, UType
    <2>2. n + 1 \in Nat
      OBVIOUS
    <2>3. tx' = [seq |-> n + 1, ring |-> ring, scheme |-> tx.scheme, them |-> tx.them]
      BY <1>4, <2>1, Zenon
    <2> QED
      BY <1>6, <2>1, <2>2, <2>3
  <1>9. tx.scheme \in Schemes
    BY DEF UInv, UType
  <1>10. /\ d.n = n /\ d.seq = n % SeqNos /\ d.data = {n}
         /\ d.fec <=> tx.scheme = "fec"
         /\ d.ec = Recovery(n, ring, tx.scheme)
         /\ d \in Dgrams
    <2>1. Recovery(n, ring, tx.scheme) \in Seq(SUBSET Nat)
      BY <1>6, <1>9, RecoveryType, Zenon
    <2>2. SeqNo(n) \in Nat /\ SeqNo(n) = n % SeqNos
      BY DEF SeqNo, CodeSizes
    <2>3. FecShape(SeqNo(n)) \in [span : Nat, entries : Nat]
      BY <2>2, ShapeType
    <2>4. (IF tx.scheme = "fec" THEN FecShape(SeqNo(n)) ELSE [span |-> 0, entries |-> 0])
             \in [span : Nat, entries : Nat]
      BY <2>3
    <2> HIDE DEF Recovery, FecShape, SeqNo
    <2> QED
      BY <1>3, <2>1, <2>2, <2>4, Zenon DEF Datagram, Dgrams
  <1>11. /\ tx.scheme = "redundancy" => Len(d.ec) = Behind(n)
         /\ tx.scheme # "fec" => Len(d.ec) <= n /\ \A i \in 1..Len(d.ec) : d.ec[i] = {n - i}
    <2>1. CASE tx.scheme = "redundancy"
      <3>1. Behind(n) <= n
        BY UdptlAssumption DEF Behind
      <3> QED
        BY <1>7, <1>10, <2>1, <3>1, Redundancy
    <2>2. CASE tx.scheme = "none"
      <3>1. d.ec = <<>>
        BY <1>10, <2>2 DEF Recovery
      <3> QED
        BY <2>2, <3>1
    <2>3. tx.scheme \in {"none", "redundancy", "fec"}
      BY <1>9, UdptlAssumption
    <2> QED
      BY <2>1, <2>2, <2>3
  <1>12. d \in Wire'
    <2>1. Good(d)'
      BY <1>4, <1>8, <1>9, <1>10, <1>11 DEF Good
    <2> QED
      BY <1>10, <2>1 DEF Wire
  <1>13. net' \in Seq(Wire')
    <2>1. Seq(Wire) \subseteq Seq(Wire')
      <3>1. tx.seq \in Nat /\ tx'.seq \in Nat /\ tx.seq <= tx'.seq
        BY <1>1, <1>8
      <3>2. Without({"switch"})' => Without({"switch"}) /\ tx'.scheme = tx.scheme
        BY <1>4, <1>8 DEF Without
      <3> QED
        BY <3>1, <3>2, WireStays
    <2> QED
      BY <1>4, <1>12, <2>1 DEF UInv, UType
  <1>14. Kept'
    BY <1>7, <1>8 DEF Kept
  <1>15. UType'
    <2>1. rx' = rx /\ played' = played /\ got' = got
      BY <1>4
    <2>2. (/\ rx = [seq |-> rx.seq, ring |-> rx.ring, them |-> rx.them]
           /\ rx.seq \in Nat /\ rx.them \in BOOLEAN)'
      BY <2>1 DEF UInv, UType
    <2>3. (\A k \in got : k < tx.seq)'
      BY <1>1, <1>8, <2>1 DEF UInv, UType, Packets
    <2>4. (played \in [Packets -> Nat] /\ got \subseteq Packets)'
      BY <2>1 DEF UInv, UType
    <2> QED
      BY <1>8, <1>13, <2>2, <2>3, <2>4 DEF UType
  <1> QED
    BY <1>1, <1>4, <1>8, <1>10, <1>12, <1>14, <1>15 DEF UInv

-----------------------------------------------------------------------------
(* What is read.                                                           *)

\* How many frames of a list of c are in S.
LEMMA Times ==
    ASSUME NEW c \in Nat, NEW S \in SUBSET (1..c)
    PROVE  /\ Cardinality(S) \in Nat
           /\ S # {} => Cardinality(S) >= 1
           /\ S = {} => Cardinality(S) = 0
           /\ \A k : S = {k} => Cardinality(S) = 1
  <1>1. IsFiniteSet(1..c)
    BY FS_Interval
  <1>2. IsFiniteSet(S)
    BY <1>1, FS_Subset, Zenon
  <1>3. Cardinality(S) \in Nat
    BY <1>2, FS_CardinalityType
  <1>4. S # {} => Cardinality(S) # 0
    BY <1>2, FS_EmptySet
  <1>5. S = {} => Cardinality(S) = 0
    BY FS_EmptySet
  <1>6. \A k : S = {k} => Cardinality(S) = 1
    BY FS_Singleton, Zenon
  <1>7. Cardinality(S) # 0 => Cardinality(S) >= 1
    BY <1>3
  <1> QED
    BY <1>3, <1>4, <1>5, <1>6, <1>7

\* What a datagram of redundancy gives: a run of packets that ends with its own, as
\* long as it can be from what is new and what it carries.
Run(p, r, out, c) ==
    /\ DOMAIN out = 1..c /\ c <= p.n + 1
    /\ \A i \in 1..c : out[i] = Whole(p.seq - (c - i), {p.n - (c - i)})
    /\ p.seq < r.seq => c = 0
    /\ r.seq <= p.seq => /\ c > 0 /\ c <= p.seq - r.seq + 1
                         /\ c = Len(p.ec) + 1 \/ c = p.seq - r.seq + 1

LEMMA RunEnd ==
    ASSUME NEW p, NEW r, NEW out, NEW c, Run(p, r, out, c), r.seq <= p.seq
    PROVE  c = Len(p.ec) + 1 \/ c = p.seq - r.seq + 1
  BY DEF Run

LEMMA WholeFields ==
    ASSUME NEW a, NEW d
    PROVE  Whole(a, d).seqno = a /\ Whole(a, d).data = d /\ Whole(a, d).len = Length(d)
  <1>1. PICK l : l = Length(d)
    OBVIOUS
  <1>2. Whole(a, d) = [seqno |-> a, data |-> d, len |-> l]
    BY <1>1, Zenon DEF Whole, Frame
  <1> QED
    BY <1>1, <1>2

LEMMA RunData ==
    ASSUME NEW p, NEW r, NEW out, NEW c, Run(p, r, out, c)
    PROVE  /\ DOMAIN out = 1..c
           /\ \A i \in 1..c : /\ out[i].seqno = p.seq - (c - i)
                              /\ out[i].data = {p.n - (c - i)}
  <1>1. /\ DOMAIN out = 1..c
        /\ \A i \in 1..c : out[i] = Whole(p.seq - (c - i), {p.n - (c - i)})
    BY DEF Run
  <1>2. ASSUME NEW i \in 1..c
        PROVE  out[i].seqno = p.seq - (c - i) /\ out[i].data = {p.n - (c - i)}
    <2>1. out[i] = Whole(p.seq - (c - i), {p.n - (c - i)})
      BY <1>1, <1>2, Zenon
    <2> QED
      BY <2>1, WholeFields
  <1> QED
    BY <1>1, <1>2, Zenon

LEMMA RunLength ==
    ASSUME NEW p, NEW r, NEW out, NEW c, Run(p, r, out, c)
    PROVE  \A i \in 1..c : out[i].len = Length({p.n - (c - i)})
  <1>1. \A i \in 1..c : out[i] = Whole(p.seq - (c - i), {p.n - (c - i)})
    BY DEF Run
  <1>2. ASSUME NEW i \in 1..c PROVE out[i].len = Length({p.n - (c - i)})
    <2>1. out[i] = Whole(p.seq - (c - i), {p.n - (c - i)})
      BY <1>1, <1>2, Zenon
    <2> QED
      BY <2>1, WholeFields
  <1> QED
    BY <1>2, Zenon

LEMMA PlainRun ==
    ASSUME CodeSizes, NEW p \in Wire, ~p.fec, NEW r, r.seq \in Nat
    PROVE  \E c \in Nat : Run(p, r, RxPacket(r, p).out, c)
  <1> DEFINE out == RxPacket(r, p).out
  <1>1. /\ p.n \in Nat /\ p.seq \in Nat /\ p.ec \in Seq(SUBSET Nat) /\ Len(p.ec) \in Nat
        /\ Len(p.ec) <= p.n /\ p.data = {p.n}
        /\ \A i \in 1..Len(p.ec) : p.ec[i] = {p.n - i}
    BY DEF Wire, Dgrams, Good
  <1>2. out = Secondaries(r, p) \o Primary(r, p)
    BY DEF RxPacket
  <1>3. CASE p.seq < r.seq
    <2>1. out = <<>> \o <<>>
      BY <1>1, <1>2, <1>3 DEF Secondaries, Primary
    <2>2. DOMAIN out = 1..0
      BY <2>1
    <2> HIDE DEF out
    <2>3. ~(r.seq <= p.seq) /\ 0 <= p.n + 1 /\ ~\E i : i \in 1..0
      BY <1>1, <1>3
    <2>4. Run(p, r, out, 0)
      BY <2>2, <2>3 DEF Run
    <2> QED
      BY <2>4 DEF out
  <1>4. CASE r.seq <= p.seq
    <2>1. PICK k \in Nat : /\ k <= Len(p.ec) /\ k <= p.seq - r.seq
                           /\ k = Len(p.ec) \/ k = p.seq - r.seq
                           /\ Secondaries(r, p) = Newest(p, k)
      <3>1. CASE p.seq = r.seq
        <4>1. Secondaries(r, p) = <<>>
          BY <1>1, <3>1 DEF Secondaries
        <4>2. Newest(p, 0) = <<>>
          BY DEF Newest
        <4> QED
          BY <1>1, <3>1, <4>1, <4>2
      <3>2. CASE r.seq < p.seq
        <4>1. PICK k \in Nat : k = Min({Len(p.ec), p.seq - r.seq}) /\ k \in {Len(p.ec), p.seq - r.seq}
                                /\ k <= Len(p.ec) /\ k <= p.seq - r.seq
          <5>1. p.seq - r.seq \in Nat
            BY <1>1, <1>4
          <5>2. \E x \in {Len(p.ec), p.seq - r.seq} : \A y \in {Len(p.ec), p.seq - r.seq} : x <= y
            BY <1>1, <5>1
          <5>3. /\ Min({Len(p.ec), p.seq - r.seq}) \in {Len(p.ec), p.seq - r.seq}
                /\ \A y \in {Len(p.ec), p.seq - r.seq} : Min({Len(p.ec), p.seq - r.seq}) <= y
            BY <5>2 DEF Min
          <5> QED
            BY <1>1, <5>1, <5>3
        <4>2. Secondaries(r, p) = Newest(p, k)
          BY <1>1, <3>2, <4>1 DEF Secondaries
        <4> QED
          BY <4>1, <4>2
      <3> QED
        BY <1>1, <1>4, <3>1, <3>2
    <2>2. Primary(r, p) = <<Whole(p.seq, {p.n})>>
      BY <1>1, <1>4 DEF Primary
    <2>3. out = Newest(p, k) \o <<Whole(p.seq, {p.n})>>
      BY <1>2, <2>1, <2>2
    <2> HIDE DEF out
    <2>4. \A i \in 1..k : Newest(p, k)[i] = Whole(p.seq - (k + 1 - i), {p.n - (k + 1 - i)})
      <3> TAKE i \in 1..k
      <3>1. k + 1 - i \in 1..Len(p.ec)
        BY <1>1, <2>1
      <3> QED
        BY <1>1, <3>1, Zenon DEF Newest
    <2>5. PICK w : w = Newest(p, k)
      OBVIOUS
    <2>6. w = [i \in 1..k |-> w[i]]
      BY <2>5 DEF Newest
    <2>7. /\ DOMAIN out = 1..(k + 1)
          /\ \A i \in 1..k : out[i] = w[i]
          /\ out[k + 1] = Whole(p.seq, {p.n})
      <3>1. PICK x : x = Whole(p.seq, {p.n})
        OBVIOUS
      <3>2. PICK F : F = {w[i] : i \in 1..k} \cup {x}
        OBVIOUS
      <3>3. w \in Seq(F) /\ Len(w) = k
        BY <2>1, <2>6, <3>2
      <3>4. <<x>> \in Seq(F) /\ Len(<<x>>) = 1 /\ <<x>>[1] = x
        BY <3>2
      <3>5. out = w \o <<x>>
        BY <2>3, <2>5, <3>1
      <3>6. /\ out \in Seq(F) /\ Len(out) = k + 1
            /\ \A i \in 1..(k + 1) : out[i] = IF i <= k THEN w[i] ELSE <<x>>[i - k]
        BY <3>3, <3>4, <3>5, ConcatFacts
      <3>7. out[k + 1] = x
        BY <3>4, <3>6
      <3> QED
        BY <3>1, <3>6, <3>7
    <2>8. \A i \in 1..(k + 1) : out[i] = Whole(p.seq - (k + 1 - i), {p.n - (k + 1 - i)})
      <3> TAKE i \in 1..(k + 1)
      <3>1. CASE i \in 1..k
        BY <2>4, <2>5, <2>7, <3>1
      <3>2. CASE i = k + 1
        <4>1. p.seq - (k + 1 - i) = p.seq /\ p.n - (k + 1 - i) = p.n
          BY <1>1, <3>2
        <4> QED
          BY <2>7, <3>2, <4>1, Zenon
      <3> QED
        BY <3>1, <3>2
    <2>9. Run(p, r, out, k + 1)
      <3>1. PICK c : c = k + 1
        OBVIOUS
      <3>2. /\ ~(p.seq < r.seq) /\ c > 0 /\ c <= p.n + 1
            /\ c <= p.seq - r.seq + 1
            /\ c = Len(p.ec) + 1 \/ c = p.seq - r.seq + 1
        <4>1. ~(p.seq < r.seq) /\ k <= p.n /\ k <= p.seq - r.seq
          BY <1>1, <1>4, <2>1
        <4>2. k = Len(p.ec) \/ k = p.seq - r.seq
          BY <2>1
        <4>3. c > 0 /\ c <= p.n + 1 /\ c <= p.seq - r.seq + 1
          BY <1>1, <2>1, <3>1, <4>1
        <4> QED
          BY <3>1, <4>1, <4>2, <4>3
      <3>3. \A i \in 1..c : out[i] = Whole(p.seq - (c - i), {p.n - (c - i)})
        BY <2>8, <3>1
      <3>4. DOMAIN out = 1..c
        BY <2>7, <3>1
      <3>5. Run(p, r, out, c)
        BY <3>2, <3>3, <3>4 DEF Run
      <3> QED
        BY <3>1, <3>5
    <2> QED
      BY <2>9 DEF out
  <1> QED
    BY <1>1, <1>3, <1>4

\* Whatever the scheme: a list of frames, the last of them the datagram's own packet
\* unless rx_seq_no is past it.
LEMMA OwnFrame ==
    ASSUME CodeSizes, NEW p \in Wire, NEW r, r.seq \in Nat
    PROVE  \E c \in Nat : LET out == RxPacket(r, p).out
                          IN  /\ DOMAIN out = 1..c
                              /\ r.seq <= p.seq => c > 0 /\ out[c].data = {p.n}
  <1>1. p.n \in Nat /\ p.seq \in Nat /\ p.data = {p.n} /\ p.fec \in BOOLEAN
    BY DEF Wire, Dgrams, Good
  <1>2. CASE ~p.fec
    <2>1. PICK c \in Nat : Run(p, r, RxPacket(r, p).out, c)
      BY <1>2, PlainRun
    <2>2. PICK out : out = RxPacket(r, p).out
      OBVIOUS
    <2>3. DOMAIN out = 1..c
      BY <2>1, <2>2 DEF Run
    <2>4. ASSUME r.seq <= p.seq PROVE c > 0 /\ out[c].data = {p.n}
      <3>1. c > 0
        BY <2>1, <2>4 DEF Run
      <3>2. c \in 1..c
        BY <3>1
      <3>3. out[c].data = {p.n - (c - c)}
        BY <2>1, <2>2, <3>2, RunData
      <3>4. p.n - (c - c) = p.n
        BY <1>1
      <3> QED
        BY <3>1, <3>3, <3>4
    <2> QED
      BY <2>2, <2>3, <2>4
  <1>3. CASE p.fec
    <2>1. PICK s : RxPacket(r, p).out = RepairedFrames(s, p) \o Primary(r, p)
      BY <1>3, Zenon DEF RxPacket
    <2> DEFINE new == {q \in (p.seq - Ring + 1)..(p.seq - 1) : q % Ring \in s.repaired}
               nth(i) == CHOOSE q \in new : Cardinality({h \in new : h <= q}) = i
               g(i) == Frame(nth(i), s.ring[nth(i) % Ring].data, s.ring[nth(i) % Ring].len)
    <2>3. PICK k \in Nat : k = Cardinality(new)
      <3>1. p.seq - Ring + 1 \in Int /\ p.seq - 1 \in Int
        BY <1>1 DEF CodeSizes
      <3>2. IsFiniteSet((p.seq - Ring + 1)..(p.seq - 1))
        BY <3>1, FS_Interval
      <3> QED
        BY <3>2, FS_Subset, FS_CardinalityType, Zenon
    <2>4. PICK w : w = RepairedFrames(s, p)
      OBVIOUS
    <2>5. w = [i \in 1..k |-> w[i]]
      <3>1. w = [i \in 1..Cardinality(new) |-> g(i)]
        BY <2>4 DEF RepairedFrames
      <3> HIDE DEF g, new
      <3>2. w = [i \in 1..k |-> g(i)]
        BY <2>3, <3>1
      <3>3. \A i \in 1..k : w[i] = g(i)
        BY <3>2
      <3> QED
        BY <3>2, <3>3
    <2> HIDE DEF g, nth, new
    <2>6. PICK x : x = Whole(p.seq, {p.n})
      OBVIOUS
    <2>7. PICK F : F = {w[i] : i \in 1..k} \cup {x}
      BY Zenon
    <2>8. w \in Seq(F) /\ Len(w) = k
      BY <2>5, <2>7
    <2>9. PICK out : out = w \o Primary(r, p)
      BY Zenon
    <2>10. CASE r.seq <= p.seq
      <3>1. Primary(r, p) = <<x>>
        BY <1>1, <2>6, <2>10 DEF Primary
      <3>2. <<x>> \in Seq(F) /\ Len(<<x>>) = 1 /\ <<x>>[1] = x
        BY <2>7
      <3>3. /\ out \in Seq(F) /\ Len(out) = k + 1
            /\ \A i \in 1..(k + 1) : out[i] = IF i <= k THEN w[i] ELSE <<x>>[i - k]
        BY <2>8, <2>9, <3>1, <3>2, ConcatFacts
      <3>4. x.data = {p.n}
        BY <2>6, WholeFields
      <3>5. out[k + 1].data = {p.n} /\ DOMAIN out = 1..(k + 1)
        BY <3>2, <3>3, <3>4
      <3>6. k + 1 \in Nat /\ k + 1 > 0
        BY <2>3
      <3>7. RxPacket(r, p).out = out
        BY <2>1, <2>4, <2>9, Zenon
      <3> QED
        BY <3>5, <3>6, <3>7, Zenon
    <2>11. CASE ~(r.seq <= p.seq)
      <3>1. Primary(r, p) = <<>>
        BY <1>1, <2>11 DEF Primary
      <3>2. out = w
        BY <2>8, <2>9, <3>1, ConcatFacts
      <3>3. DOMAIN out = 1..k
        BY <2>5, <3>2, Zenon
      <3> QED
        BY <2>1, <2>4, <2>9, <2>11, <3>3
    <2> QED
      BY <2>10, <2>11
  <1> QED
    BY <1>1, <1>2, <1>3

\* ast_udptl_read with a peer.
LEMMA ReadFx ==
    ASSUME CodeSizes, UType, NEW p \in Wire, Read(p), rx.them
    PROVE  /\ rx' = [seq |-> rx'.seq, ring |-> rx'.ring, them |-> rx'.them]
           /\ rx'.seq = p.seq + 1 /\ rx'.them = rx.them
           /\ got' = got \cup {p.n} /\ p.n \in Packets /\ p.n < tx.seq
           /\ played' \in [Packets -> Nat]
           /\ \A n \in Packets : played[n] <= played'[n]
           /\ rx.seq <= p.seq => played'[p.n] > 0
  <1>1. /\ p.n \in Nat /\ p.seq \in Nat /\ p.n < tx.seq /\ p.n < MaxSent /\ MaxSent \in Nat
    BY UdptlAssumption DEF Wire, Dgrams, Good
  <1>2. p.n \in Packets
    BY <1>1 DEF Packets
  <1>3. PICK out : out = RxPacket(rx, p).out
    OBVIOUS
  <1>4. PICK c \in Nat : DOMAIN out = 1..c /\ (rx.seq <= p.seq => c > 0 /\ out[c].data = {p.n})
    BY <1>3, OwnFrame, Zenon DEF UType
  <1>5. /\ rx' = RxPacket(rx, p).rx
        /\ played' = [n \in Packets |->
              played[n] + Cardinality({i \in DOMAIN out : out[i].data = {n}})]
        /\ got' = got \cup {p.n}
    BY <1>3 DEF Read, UType
  <1>6. \E ring : rx' = [rx EXCEPT !.seq = p.seq + 1, !.ring = ring]
    <2>1. CASE p.fec
      BY <1>5, <2>1, Zenon DEF RxPacket
    <2>2. CASE ~p.fec
      <3>1. rx' = [rx EXCEPT !.seq = p.seq + 1]
        BY <1>5, <2>2 DEF RxPacket
      <3>2. rx' = [rx EXCEPT !.seq = p.seq + 1, !.ring = rx.ring]
        BY <3>1, Zenon DEF UType
      <3> QED
        BY <3>2, Zenon
    <2> QED
      BY <2>1, <2>2, Zenon
  <1>7. /\ rx' = [seq |-> rx'.seq, ring |-> rx'.ring, them |-> rx'.them]
        /\ rx'.seq = p.seq + 1 /\ rx'.them = rx.them
    BY <1>6, Zenon DEF UType
  <1>8. ASSUME NEW n \in Packets
        PROVE  /\ played'[n] \in Nat /\ played[n] <= played'[n]
               /\ \A k \in 1..c : out[k].data = {n} => played'[n] > 0
    <2>1. PICK S : S = {i \in DOMAIN out : out[i].data = {n}}
      BY Zenon
    <2>2. S \in SUBSET (1..c) /\ \A k \in 1..c : out[k].data = {n} => S # {}
      BY <1>4, <2>1, Zenon
    <2>3. Cardinality(S) \in Nat /\ (S # {} => Cardinality(S) >= 1)
      BY <2>2, Times
    <2>4. played'[n] = played[n] + Cardinality(S) /\ played[n] \in Nat
      BY <1>5, <2>1 DEF UType
    <2> QED
      BY <2>2, <2>3, <2>4
  <1>9. played' \in [Packets -> Nat]
    <2>1. played' = [n \in Packets |-> played'[n]]
      BY <1>5
    <2> QED
      BY <1>8, <2>1
  <1>10. rx.seq <= p.seq => played'[p.n] > 0
    BY <1>2, <1>4, <1>8
  <1> QED
    BY <1>1, <1>2, <1>5, <1>7, <1>8, <1>9, <1>10, Zenon

LEMMA ReadGrows ==
    ASSUME CodeSizes, UType, NEW p \in Wire, Read(p), rx.them
    PROVE  /\ got' = got \cup {p.n} /\ p.n \in Packets /\ rx'.seq = p.seq + 1
           /\ played' \in [Packets -> Nat]
           /\ \A n \in Packets : played[n] <= played'[n]
           /\ rx.seq <= p.seq => played'[p.n] > 0
  BY ReadFx, Zenon

\* The same of a datagram without parity: the packets handed on are a run of new ones.
LEMMA PlainRead ==
    ASSUME CodeSizes, UType, NEW p \in Wire, ~p.fec, Read(p), rx.them
    PROVE  \E c \in Nat :
              /\ Run(p, rx, frames', c)
              /\ \A n \in Packets :
                    played'[n] = played[n] + (IF p.n - c < n /\ n <= p.n THEN 1 ELSE 0)
  <1>1. p.n \in Nat /\ p.seq \in Nat
    BY DEF Wire, Dgrams
  <1>2. PICK c \in Nat : Run(p, rx, RxPacket(rx, p).out, c)
    BY PlainRun DEF UType
  <1>3. PICK out : out = RxPacket(rx, p).out
    OBVIOUS
  <1>4. /\ frames' = out
        /\ played' = [n \in Packets |->
              played[n] + Cardinality({i \in DOMAIN out : out[i].data = {n}})]
    BY <1>3, Zenon DEF Read, UType
  <1>5. DOMAIN out = 1..c /\ \A i \in 1..c : out[i].data = {p.n - (c - i)}
    BY <1>2, <1>3, RunData
  <1>6. ASSUME NEW n \in Packets
        PROVE  played'[n] = played[n] + (IF p.n - c < n /\ n <= p.n THEN 1 ELSE 0)
    <2>1. PICK S : S = {i \in DOMAIN out : out[i].data = {n}}
      BY Zenon
    <2>2. played'[n] = played[n] + Cardinality(S)
      BY <1>4, <2>1
    <2>3. n \in Int
      BY UdptlAssumption DEF Packets
    <2>4. \A i \in 1..c : i \in S <=> p.n - (c - i) = n
      BY <1>5, <2>1, Zenon
    <2>5. S \in SUBSET (1..c)
      BY <1>5, <2>1
    <2>6. CASE p.n - c < n /\ n <= p.n
      <3>1. PICK k \in 1..c : k = n - p.n + c
        BY <1>1, <2>3, <2>6
      <3>2. \A i \in 1..c : i \in S <=> i = k
        BY <1>1, <2>3, <2>4, <3>1
      <3>3. S = {k}
        BY <2>5, <3>2
      <3>4. Cardinality(S) = 1
        BY <2>5, <3>3, Times
      <3> QED
        BY <2>2, <2>6, <3>4
    <2>7. CASE ~(p.n - c < n /\ n <= p.n)
      <3>1. \A i \in 1..c : i \notin S
        BY <1>1, <2>3, <2>4, <2>7
      <3>2. S = {}
        BY <2>5, <3>1
      <3>3. Cardinality(S) = 0
        BY <2>5, <3>2, Times
      <3> QED
        BY <2>2, <2>7, <3>3
    <2> QED
      BY <2>6, <2>7
  <1> QED
    BY <1>2, <1>3, <1>4, <1>6, Zenon

-----------------------------------------------------------------------------
(* Every step keeps the types and the slots.                               *)

LEMMA ReadType ==
    ASSUME CodeSizes, UType, NEW p \in Wire, Read(p)
    PROVE  /\ rx' = [seq |-> rx'.seq, ring |-> rx'.ring, them |-> rx'.them]
           /\ rx'.seq \in Nat /\ rx'.them \in BOOLEAN
           /\ played' \in [Packets -> Nat] /\ got' \subseteq Packets
           /\ \A n \in got' : n < tx.seq
  <1>1. p.seq \in Nat
    BY DEF Wire, Dgrams
  <1>2. CASE rx.them
    <2>1. /\ rx' = [seq |-> rx'.seq, ring |-> rx'.ring, them |-> rx'.them]
          /\ rx'.seq = p.seq + 1 /\ rx'.them = rx.them
          /\ got' = got \cup {p.n} /\ p.n \in Packets /\ p.n < tx.seq
          /\ played' \in [Packets -> Nat]
      BY <1>2, ReadFx
    <2>2. rx'.seq \in Nat /\ rx'.them \in BOOLEAN
      BY <1>1, <2>1 DEF UType
    <2>3. got' \subseteq Packets /\ \A n \in got' : n < tx.seq
      BY <2>1 DEF UType
    <2> QED
      BY <2>1, <2>2, <2>3
  <1>3. CASE ~rx.them
    <2>1. rx' = rx /\ played' = played /\ got' = got
      BY <1>3 DEF Read
    <2>2. /\ rx' = [seq |-> rx'.seq, ring |-> rx'.ring, them |-> rx'.them]
          /\ rx'.seq \in Nat /\ rx'.them \in BOOLEAN
      BY <2>1 DEF UType
    <2> QED
      BY <2>1, <2>2 DEF UType
  <1> QED
    BY <1>2, <1>3

\* What is left of the datagrams in flight when one is taken out.
LEMMA TakenOut ==
    ASSUME NEW W, NEW w \in Seq(W)
    PROVE  /\ \A i \in 1..Len(w) : SubSeq(w, 1, i - 1) \o SubSeq(w, i + 1, Len(w)) \in Seq(W) /\ w[i] \in W
           /\ w # <<>> => /\ Tail(w) \in Seq(W) /\ Head(w) = w[1] /\ Head(w) \in W
                          /\ Len(w) \in Nat \ {0} /\ Len(Tail(w)) = Len(w) - 1
                          /\ \A i \in 1..Len(Tail(w)) : Tail(w)[i] = w[i + 1]
  <1>1. ASSUME NEW i \in 1..Len(w) PROVE SubSeq(w, 1, i - 1) \o SubSeq(w, i + 1, Len(w)) \in Seq(W)
    <2>1. SubSeq(w, 1, i - 1) \in Seq(W) /\ SubSeq(w, i + 1, Len(w)) \in Seq(W)
      <3>1. /\ \A j \in 1..(i - 1) : w[j] \in W
            /\ \A j \in (i + 1)..Len(w) : w[j] \in W
        OBVIOUS
      <3> QED
        BY <3>1
    <2> QED
      BY <2>1
  <1>2. \A i \in 1..Len(w) : w[i] \in W
    OBVIOUS
  <1>3. ASSUME w # <<>>
        PROVE  /\ Tail(w) \in Seq(W) /\ Head(w) = w[1] /\ Head(w) \in W
               /\ Len(w) \in Nat \ {0} /\ Len(Tail(w)) = Len(w) - 1
               /\ \A i \in 1..Len(Tail(w)) : Tail(w)[i] = w[i + 1]
    BY <1>3
  <1> QED
    BY <1>1, <1>2, <1>3

\* A datagram that is read was in flight, and what is in flight after it was before.
LEMMA ReceiveFx ==
    ASSUME UType, Receive
    PROVE  /\ UNCHANGED tx /\ net \in Seq(Wire) /\ net' \in Seq(Wire)
           /\ \E p \in Wire : Read(p)
           /\ Without({"switch"})' => Without({"switch"})
           /\ Without({"reorder"})' =>
                /\ Without({"reorder"}) /\ net # <<>> /\ Read(net[1]) /\ net[1] \in Wire
                /\ net' = net \/ net' = Tail(net)
  <1>1. net \in Seq(Wire) /\ net # <<>> /\ UNCHANGED tx
    BY DEF UType, Receive
  <1>2. Head(net) = net[1] /\ Head(net) \in Wire /\ Tail(net) \in Seq(Wire)
    BY <1>1, TakenOut
  <1>3. CASE Read(Head(net)) /\ net' = Tail(net) /\ UNCHANGED mishaps
    BY <1>1, <1>2, <1>3 DEF Without
  <1>4. CASE Read(Head(net)) /\ Mishap("repeat") /\ UNCHANGED net
    BY <1>1, <1>2, <1>4 DEF Without, Mishap
  <1>5. CASE /\ Mishap("reorder")
             /\ \E i \in 2..Len(net) :
                   Read(net[i]) /\ net' = SubSeq(net, 1, i - 1) \o SubSeq(net, i + 1, Len(net))
    <2>1. PICK i \in 2..Len(net) :
             Read(net[i]) /\ net' = SubSeq(net, 1, i - 1) \o SubSeq(net, i + 1, Len(net))
      BY <1>5
    <2>2. i \in 1..Len(net)
      BY <1>1
    <2>3. net[i] \in Wire /\ net' \in Seq(Wire)
      BY <1>1, <2>1, <2>2, TakenOut
    <2>4. ~Without({"reorder"})' /\ (Without({"switch"})' => Without({"switch"}))
      BY <1>5 DEF Without, Mishap
    <2> QED
      BY <1>1, <2>1, <2>3, <2>4
  <1> QED
    BY <1>3, <1>4, <1>5 DEF Receive

LEMMA UInvReceive ==
    ASSUME CodeSizes, UInv, Receive
    PROVE  UInv'
  <1>1. UType
    BY DEF UInv
  <1>2. /\ tx' = tx /\ net' \in Seq(Wire)
        /\ Without({"switch"})' => Without({"switch"})
    BY <1>1, ReceiveFx
  <1>3. PICK p \in Wire : Read(p)
    BY <1>1, ReceiveFx
  <1>4. /\ rx' = [seq |-> rx'.seq, ring |-> rx'.ring, them |-> rx'.them]
        /\ rx'.seq \in Nat /\ rx'.them \in BOOLEAN
        /\ played' \in [Packets -> Nat] /\ got' \subseteq Packets
        /\ \A n \in got' : n < tx.seq
    BY <1>1, <1>3, ReadType
  <1>5. Seq(Wire) \subseteq Seq(Wire')
    BY <1>1, <1>2, WireStays DEF UType
  <1>6. net' \in Seq(Wire')
    BY <1>2, <1>5
  <1>7. UType'
    BY <1>1, <1>2, <1>4, <1>6, Zenon DEF UType, Packets
  <1>8. Kept'
    BY <1>2 DEF UInv, Kept
  <1> QED
    BY <1>7, <1>8 DEF UInv

LEMMA UInvQuiet ==
    ASSUME UInv, Lose \/ SetScheme \/ Stop \/ SetPeer \/ UNCHANGED vars
    PROVE  /\ UInv'
           /\ tx'.seq = tx.seq /\ rx'.seq = rx.seq /\ played' = played /\ got' = got
           /\ net' = net \/ (net # <<>> /\ net' = Tail(net))
           /\ Without({"reorder"})' => Without({"reorder"})
           /\ Without({"switch"})' => Without({"switch"}) /\ tx'.scheme = tx.scheme
  <1>1. /\ tx \in [seq : Nat, ring : [0..15 -> SUBSET Nat], scheme : Schemes, them : BOOLEAN]
        /\ rx = [seq |-> rx.seq, ring |-> rx.ring, them |-> rx.them]
        /\ rx.seq \in Nat /\ rx.them \in BOOLEAN /\ net \in Seq(Wire)
    BY Zenon DEF UInv, UType
  <1>2. /\ \/ tx' = tx
           \/ \E s \in Schemes : Mishap("switch") /\ tx' = [tx EXCEPT !.scheme = s]
           \/ \E b \in BOOLEAN : tx' = [tx EXCEPT !.them = b]
        /\ rx' = rx \/ \E b \in BOOLEAN : rx' = [rx EXCEPT !.them = b]
        /\ played' = played /\ got' = got
        /\ net' = net \/ (net # <<>> /\ net' = Tail(net))
        /\ mishaps \subseteq mishaps'
    <2>1. CASE Lose
      BY <2>1 DEF Lose
    <2>2. CASE SetScheme
      BY <2>2 DEF SetScheme, Mishap
    <2>3. CASE Stop
      BY <2>3, Zenon DEF Stop, Mishap
    <2>4. CASE SetPeer
      BY <2>4, Zenon DEF SetPeer
    <2>5. CASE UNCHANGED vars
      BY <2>5 DEF vars
    <2> QED
      BY <2>1, <2>2, <2>3, <2>4, <2>5
  <1>3. /\ tx' \in [seq : Nat, ring : [0..15 -> SUBSET Nat], scheme : Schemes, them : BOOLEAN]
        /\ tx'.seq = tx.seq /\ tx'.ring = tx.ring
        /\ Without({"switch"})' => tx'.scheme = tx.scheme
    <2>1. CASE tx' = tx
      BY <1>1, <2>1, Zenon
    <2>2. CASE \E s \in Schemes : Mishap("switch") /\ tx' = [tx EXCEPT !.scheme = s]
      BY <1>1, <2>2, Zenon DEF Mishap, Without
    <2>3. CASE \E b \in BOOLEAN : tx' = [tx EXCEPT !.them = b]
      BY <1>1, <2>3, Zenon
    <2> QED
      BY <1>2, <2>1, <2>2, <2>3, Zenon
  <1>4. /\ rx' = [seq |-> rx'.seq, ring |-> rx'.ring, them |-> rx'.them]
        /\ rx'.seq = rx.seq /\ rx'.them \in BOOLEAN
    <2>1. CASE rx' = rx
      <3>1. rx'.seq = rx.seq /\ rx'.ring = rx.ring /\ rx'.them = rx.them
        BY <2>1
      <3> QED
        BY <1>1, <2>1, <3>1
    <2>2. CASE \E b \in BOOLEAN : rx' = [rx EXCEPT !.them = b]
      BY <1>1, <2>2
    <2> QED
      BY <1>2, <2>1, <2>2
  <1>5. /\ Without({"reorder"})' => Without({"reorder"})
        /\ Without({"switch"})' => Without({"switch"})
    BY <1>2 DEF Without
  <1>6. net' \in Seq(Wire')
    <2>1. Seq(Wire) \subseteq Seq(Wire')
      BY <1>1, <1>3, <1>5, WireStays
    <2>2. net # <<>> => Tail(net) \in Seq(Wire)
      BY <1>1, TakenOut
    <2>3. net' \in Seq(Wire)
      BY <1>1, <1>2, <2>2, Zenon
    <2> QED
      BY <2>1, <2>3
  <1>7. UType'
    <2>1. (\A n \in got : n < tx.seq)'
      BY <1>2, <1>3 DEF UInv, UType
    <2>2. (played \in [Packets -> Nat] /\ got \subseteq Packets)'
      BY <1>2 DEF UInv, UType
    <2> QED
      BY <1>1, <1>3, <1>4, <1>6, <2>1, <2>2, Zenon DEF UType
  <1>8. Kept'
    BY <1>3 DEF UInv, Kept
  <1> QED
    BY <1>2, <1>3, <1>4, <1>5, <1>7, <1>8 DEF UInv

LEMMA UInvInit ==
    ASSUME CodeSizes, Init
    PROVE  UInv
  <1>1. tx \in [seq : {0}, ring : {[k \in Slots |-> {}]}, scheme : Schemes, them : {TRUE}]
    BY Zenon DEF Init
  <1>2. /\ tx \in [seq : Nat, ring : [0..15 -> SUBSET Nat], scheme : Schemes, them : BOOLEAN]
        /\ tx.seq = 0
    <2>1. Slots = 0..15
      BY DEF Slots, CodeSizes
    <2>2. [k \in 0..15 |-> {}] \in [0..15 -> SUBSET Nat]
      OBVIOUS
    <2>3. PICK z : z = [k \in 0..15 |-> {}]
      BY Zenon
    <2>4. tx \in [seq : {0}, ring : {z}, scheme : Schemes, them : {TRUE}]
      BY <1>1, <2>1, <2>3, Zenon
    <2>5. /\ tx = [seq |-> tx.seq, ring |-> tx.ring, scheme |-> tx.scheme, them |-> tx.them]
          /\ tx.seq = 0 /\ tx.ring = z /\ tx.scheme \in Schemes /\ tx.them = TRUE
      BY <2>4, Zenon
    <2>6. tx.ring \in [0..15 -> SUBSET Nat]
      BY <2>2, <2>3, <2>5
    <2>7. tx.them \in BOOLEAN
      BY <2>5, Zenon
    <2>8. tx.seq \in Nat
      BY <2>5
    <2> QED
      BY <2>5, <2>6, <2>7, <2>8
  <1>3. /\ rx = [seq |-> rx.seq, ring |-> rx.ring, them |-> rx.them]
        /\ rx.seq = 0 /\ rx.them = TRUE
    BY DEF Init
  <1>4. net \in Seq(Wire)
    BY DEF Init
  <1>5. played \in [Packets -> Nat] /\ got = {}
    BY DEF Init, Packets
  <1>6. Kept
    BY <1>2 DEF Kept
  <1>7. rx.seq \in Nat /\ rx.them \in BOOLEAN /\ got \subseteq Packets /\ \A n \in got : n < tx.seq
    <2>1. rx.seq \in Nat
      BY <1>3
    <2>2. rx.them \in BOOLEAN
      BY <1>3, Zenon
    <2>3. got \subseteq Packets /\ \A n \in got : n < tx.seq
      BY <1>5
    <2> QED
      BY <2>1, <2>2, <2>3
  <1> QED
    BY <1>2, <1>3, <1>4, <1>5, <1>6, <1>7, Zenon DEF UInv, UType

LEMMA UInvNext ==
    ASSUME CodeSizes, UInv, [Next]_vars
    PROVE  UInv'
  BY WriteGood, UInvReceive, UInvQuiet DEF Next

-----------------------------------------------------------------------------
(* Without reordering.                                                     *)

\* What a datagram of redundancy hands on has not been reached before.
LEMMA Ahead ==
    ASSUME CodeSizes, NEW p \in Wire, NEW L \in Nat, NEW out, NEW c \in Nat,
           rx.seq = IF L = 0 THEN 0 ELSE ((L - 1) % 65536) + 1,
           L <= p.n + 1, Run(p, rx, out, c)
    PROVE  \A n \in Int : p.n - c < n /\ n <= p.n => L <= n
  <1>1. p.n \in Nat /\ p.seq = p.n % 65536
    BY DEF Wire, Dgrams, Good, CodeSizes
  <1>2. /\ c <= p.n + 1
        /\ p.seq < rx.seq => c = 0
        /\ rx.seq <= p.seq => c > 0 /\ c <= p.seq - rx.seq + 1
    BY DEF Run
  <1>3. CASE L = 0
    BY <1>1, <1>2, <1>3
  <1>4. CASE L > 0 /\ p.seq < rx.seq
    BY <1>1, <1>2, <1>4
  <1>5. CASE L > 0 /\ rx.seq <= p.seq
    <2>1. c - 1 \in Nat /\ c - 1 <= (p.n % 65536) - (((L - 1) % 65536) + 1)
      BY <1>1, <1>2, <1>5
    <2>2. L - 1 \in Nat /\ L - 1 <= p.n
      BY <1>1, <1>5
    <2>3. L - 1 < p.n - (c - 1)
      BY <1>1, <2>1, <2>2, SeqLater
    <2> QED
      BY <1>1, <2>3
  <1>6. p.seq < rx.seq \/ rx.seq <= p.seq
    BY <1>1
  <1> QED
    BY <1>3, <1>4, <1>5, <1>6

\* The datagrams in flight stay in the order in which they were sent.
LEMMA LaterStay ==
    ASSUME NEW L \in Nat, NEW W, NEW w \in Seq(W), NEW v, v = w \/ (w # <<>> /\ v = Tail(w)),
           \A i \in 1..Len(w) : w[i].n \in Nat /\ L <= w[i].n + 1,
           \A i, j \in 1..Len(w) : i < j => w[i].n < w[j].n
    PROVE  /\ \A i \in 1..Len(v) : L <= v[i].n + 1
           /\ \A i \in 1..Len(v) : w # <<>> => w[1].n <= v[i].n
           /\ \A i, j \in 1..Len(v) : i < j => v[i].n < v[j].n
  <1>1. Len(w) \in Nat
    OBVIOUS
  <1>2. CASE v = w
    <2>1. \A i \in 1..Len(w) : i = 1 \/ (1 < i /\ 1 \in 1..Len(w))
      BY <1>1
    <2>2. \A i \in 1..Len(w) : w[1].n <= w[i].n
      BY <2>1
    <2> QED
      BY <1>2, <2>2
  <1>3. CASE w # <<>> /\ v = Tail(w)
    <2>1. /\ Len(w) \in Nat \ {0} /\ Len(v) = Len(w) - 1
          /\ \A i \in 1..Len(v) : v[i] = w[i + 1]
      BY <1>3, TakenOut
    <2>2. \A i \in 1..Len(v) : i + 1 \in 1..Len(w) /\ 1 \in 1..Len(w) /\ 1 < i + 1
      BY <2>1
    <2>3. ASSUME NEW i \in 1..Len(v) PROVE L <= v[i].n + 1 /\ w[1].n <= v[i].n
      <3>1. v[i] = w[i + 1] /\ i + 1 \in 1..Len(w) /\ 1 \in 1..Len(w) /\ 1 < i + 1
        BY <2>1, <2>2
      <3>2. w[1].n < w[i + 1].n /\ w[1].n \in Nat /\ w[i + 1].n \in Nat
        BY <3>1
      <3>3. L <= w[i + 1].n + 1
        BY <3>1
      <3>4. w[1].n <= w[i + 1].n
        BY <3>2
      <3> QED
        BY <3>1, <3>3, <3>4
    <2>4. ASSUME NEW i \in 1..Len(v), NEW j \in 1..Len(v), i < j PROVE v[i].n < v[j].n
      <3>1. i + 1 < j + 1
        BY <2>4
      <3> QED
        BY <2>1, <2>2, <3>1
    <2> QED
      BY <2>3, <2>4
  <1> QED
    BY <1>2, <1>3

\* Steps other than writing and reading.
LEMMA OrderQuiet ==
    ASSUME OInv, Lose \/ SetScheme \/ Stop \/ SetPeer \/ UNCHANGED vars
    PROVE  Order'
  <1>1. UInv
    BY DEF OInv
  <1>2. /\ tx'.seq = tx.seq /\ rx'.seq = rx.seq /\ played' = played /\ got' = got
        /\ net' = net \/ (net # <<>> /\ net' = Tail(net))
        /\ Without({"reorder"})' => Without({"reorder"})
        /\ Without({"switch"})' => Without({"switch"}) /\ tx'.scheme = tx.scheme
    BY <1>1, UInvQuiet
  <1>3. SUFFICES ASSUME Without({"reorder"}), Without({"reorder"})'
                 PROVE  (\E L \in Nat : ReadTo(L)' /\ PlayedTo(L)') /\ Healed' /\ ReceivedIsPlayed'
    BY <1>2 DEF Order
  <1>4. PICK L \in Nat : ReadTo(L) /\ PlayedTo(L)
    BY <1>3 DEF OInv, Order
  <1>5. ReadTo(L)'
    <2>1. /\ net \in Seq(Wire)
          /\ \A i \in 1..Len(net) : net[i].n \in Nat
      <3>1. net \in Seq(Wire)
        BY <1>1 DEF UInv, UType
      <3>2. \A i \in 1..Len(net) : net[i] \in Wire
        BY <3>1, TakenOut
      <3> QED
        BY <3>1, <3>2, Zenon DEF Wire, Dgrams
    <2>2. /\ \A i \in 1..Len(net) : L <= net[i].n + 1
          /\ \A i, j \in 1..Len(net) : i < j => net[i].n < net[j].n
      BY <1>4 DEF ReadTo
    <2>3. /\ \A i \in 1..Len(net') : L <= net'[i].n + 1
          /\ \A i, j \in 1..Len(net') : i < j => net'[i].n < net'[j].n
      BY <1>2, <2>1, <2>2, LaterStay
    <2> QED
      BY <1>2, <1>4, <2>3 DEF ReadTo
  <1>6. PlayedTo(L)'
    BY <1>2, <1>4 DEF PlayedTo
  <1>7. Healed'
    BY <1>2, <1>3 DEF OInv, Order, Healed, Wrapped
  <1>8. ReceivedIsPlayed'
    BY <1>2, <1>3 DEF OInv, Order, ReceivedIsPlayed
  <1> QED
    BY <1>5, <1>6, <1>7, <1>8

LEMMA OrderWrite ==
    ASSUME CodeSizes, OInv, Write
    PROVE  Order'
  <1>1. UInv /\ UType
    BY DEF OInv, UInv
  <1>2. tx'.seq = tx.seq + 1 /\ tx'.scheme = tx.scheme /\ tx.seq \in Nat
    BY <1>1, WriteGood DEF UType
  <1>3. PICK d : net' = Append(net, d) /\ d.n = tx.seq
    BY <1>1, WriteGood
  <1>4. rx' = rx /\ played' = played /\ got' = got /\ mishaps' = mishaps
    BY DEF Write
  <1>5. SUFFICES ASSUME Without({"reorder"})
                 PROVE  (\E L \in Nat : ReadTo(L)' /\ PlayedTo(L)') /\ Healed' /\ ReceivedIsPlayed'
    BY <1>4 DEF Order, Without
  <1>6. PICK L \in Nat : ReadTo(L) /\ PlayedTo(L)
    BY <1>5 DEF OInv, Order
  <1>7. ReadTo(L)'
    <2>1. net \in Seq(Wire) /\ Len(net) \in Nat
      BY <1>1 DEF UType
    <2>2. \A i \in 1..Len(net) : net[i].n \in Nat /\ net[i].n < tx.seq
      <3>1. \A i \in 1..Len(net) : net[i] \in Wire
        BY <2>1, TakenOut
      <3> QED
        BY <3>1 DEF Wire, Dgrams, Good
    <2>3. L <= tx.seq
      BY <1>1, <1>2, <1>6 DEF ReadTo, UType
    <2>4. /\ Len(net') = Len(net) + 1 /\ net'[Len(net) + 1] = d
          /\ \A i \in 1..Len(net) : net'[i] = net[i]
      BY <1>3, <2>1
    <2>5. ASSUME NEW i \in 1..Len(net')
          PROVE  L <= net'[i].n + 1 /\ (i \in 1..Len(net) \/ (i = Len(net) + 1 /\ net'[i].n = tx.seq))
      <3>1. i \in 1..Len(net) \/ i = Len(net) + 1
        BY <2>1, <2>4
      <3>2. CASE i \in 1..Len(net)
        BY <1>6, <2>4, <3>2 DEF ReadTo
      <3>3. CASE i = Len(net) + 1
        BY <1>2, <1>3, <2>3, <2>4, <3>3
      <3> QED
        BY <3>1, <3>2, <3>3
    <2>6. ASSUME NEW i \in 1..Len(net'), NEW j \in 1..Len(net'), i < j
          PROVE  net'[i].n < net'[j].n
      <3>1. i \in 1..Len(net)
        BY <2>1, <2>4, <2>6
      <3>2. CASE j \in 1..Len(net)
        BY <1>6, <2>4, <2>6, <3>1, <3>2 DEF ReadTo
      <3>3. CASE j = Len(net) + 1
        BY <2>2, <2>4, <2>5, <3>1, <3>3
      <3> QED
        BY <2>5, <3>2, <3>3
    <2> QED
      BY <1>4, <1>6, <2>5, <2>6 DEF ReadTo
  <1>8. PlayedTo(L)'
    BY <1>2, <1>4, <1>6 DEF PlayedTo, Without
  <1>9. Healed'
    <2>1. Wrapped => Wrapped'
      BY <1>1, <1>2, UdptlAssumption DEF Wrapped
    <2> QED
      BY <1>2, <1>4, <1>5, <2>1 DEF OInv, Order, Healed, Without
  <1>10. ReceivedIsPlayed'
    BY <1>4, <1>5 DEF OInv, Order, ReceivedIsPlayed, Without
  <1> QED
    BY <1>7, <1>8, <1>9, <1>10

\* Nothing twice, and nothing younger than the datagram itself.
LEMMA PlayedRead ==
    ASSUME CodeSizes, UType, NEW p \in Wire, Read(p), rx.them, NEW L \in Nat,
           rx.seq = IF L = 0 THEN 0 ELSE ((L - 1) % 65536) + 1, L <= p.n + 1,
           PlayedTo(L), tx.scheme # "fec", Without({"switch"})
    PROVE  \A n \in Packets : played'[n] <= 1 /\ (played'[n] > 0 => n < p.n + 1)
  <1>1. ~p.fec /\ p.n \in Nat
    BY DEF Wire, Dgrams, Good
  <1>2. PICK c \in Nat :
              /\ Run(p, rx, frames', c)
              /\ \A n \in Packets :
                    played'[n] = played[n] + (IF p.n - c < n /\ n <= p.n THEN 1 ELSE 0)
    BY <1>1, PlainRead
  <1>3. \A n \in Int : p.n - c < n /\ n <= p.n => L <= n
    BY <1>2, Ahead
  <1> TAKE n \in Packets
  <1>4. /\ n \in Int /\ played[n] \in Nat /\ played[n] <= 1 /\ (played[n] > 0 => n < L)
    BY UdptlAssumption DEF PlayedTo, Packets, UType
  <1>5. played'[n] = played[n] + (IF p.n - c < n /\ n <= p.n THEN 1 ELSE 0)
    BY <1>2
  <1> QED
    BY <1>1, <1>3, <1>4, <1>5

\* With redundancy a datagram leaves no gap that it could have closed.
LEMMA HealedRead ==
    ASSUME CodeSizes, UType, NEW p \in Wire, Read(p), rx.them, NEW L \in Nat,
           rx.seq = IF L = 0 THEN 0 ELSE ((L - 1) % 65536) + 1, L <= p.n + 1,
           L > 0 => L - 1 \in got, Healed,
           tx.scheme = "redundancy", ~Wrapped, Without({"switch"})
    PROVE  \A n \in got' : \A i \in 0..Entries : i <= n => played'[n - i] > 0
  <1>1. /\ ~p.fec /\ p.n \in Nat /\ p.seq = p.n % 65536 /\ Len(p.ec) = Behind(p.n)
        /\ p.n < tx.seq /\ tx.seq \in Nat /\ Entries \in Nat
    BY UdptlAssumption DEF Wire, Dgrams, Good, CodeSizes, UType
  <1>2. PICK c \in Nat :
              /\ Run(p, rx, frames', c)
              /\ \A n \in Packets :
                    played'[n] = played[n] + (IF p.n - c < n /\ n <= p.n THEN 1 ELSE 0)
    BY <1>1, PlainRead
  <1>3. /\ got' = got \cup {p.n} /\ p.n \in Packets
        /\ played' \in [Packets -> Nat]
        /\ \A n \in Packets : played[n] <= played'[n]
    BY ReadGrows
  <1>4. played \in [Packets -> Nat] /\ played' \in [Packets -> Nat] /\ got \subseteq Packets
    BY <1>3 DEF UType
  <1>5. p.seq = p.n /\ rx.seq = L
    <2>1. tx.seq <= 65536
      BY <1>1 DEF Wrapped, CodeSizes
    <2>2. p.n < 65536 /\ (L > 0 => L - 1 < 65536 /\ L - 1 \in Nat)
      BY <1>1, <2>1
    <2> QED
      BY <1>1, <2>2
  <1>6. ASSUME NEW n \in got, NEW i \in 0..Entries, i <= n PROVE played'[n - i] > 0
    <2>1. played[n - i] > 0
      BY <1>6 DEF Healed
    <2>2. n - i \in Packets
      BY <1>1, <1>4, <1>6, UdptlAssumption DEF Packets
    <2> QED
      BY <1>3, <1>4, <2>1, <2>2
  <1>7. ASSUME NEW i \in 0..Entries, i <= p.n PROVE played'[p.n - i] > 0
    <2>1. p.n - i \in Packets /\ p.n - i \in Nat
      <3>1. p.n \in 0..(MaxSent - 1) /\ MaxSent \in Nat
        BY <1>3, UdptlAssumption DEF Packets
      <3>2. i \in Nat /\ i <= p.n
        BY <1>1, <1>7
      <3>3. p.n - i \in 0..(MaxSent - 1)
        BY <3>1, <3>2
      <3> QED
        BY <3>1, <3>3 DEF Packets
    <2>2. CASE L <= p.n - i
      <3>1. c = Len(p.ec) + 1 \/ c = p.seq - rx.seq + 1
        <4>1. \A a, b, e \in Int : e >= 0 /\ a <= b - e => a <= b
          OBVIOUS
        <4>2. rx.seq <= p.seq
          BY <1>1, <1>5, <2>2, <4>1
        <4> QED
          BY <1>2, <4>2, RunEnd
      <3>2. i < c
        <4>1. i <= Behind(p.n) /\ Behind(p.n) \in Nat
          BY <1>1, <1>7 DEF Behind
        <4>2. i <= p.seq - rx.seq /\ p.seq - rx.seq \in Int
          BY <1>1, <1>5, <1>7, <2>2
        <4> QED
          BY <1>1, <3>1, <4>1, <4>2
      <3>3. played'[p.n - i] = played[p.n - i] + 1
        BY <1>1, <1>2, <2>1, <3>2
      <3> QED
        BY <1>4, <2>1, <3>3
    <2>3. CASE p.n - i < L
      <3>1. L - 1 \in got /\ L > 0
        BY <2>1, <2>3
      <3>2. PICK k \in 0..Entries : k = L - 1 - (p.n - i)
        <4>1. i \in Nat /\ i <= Entries /\ p.n \in Nat /\ L <= p.n + 1
          BY <1>1, <1>7
        <4>2. L - 1 - (p.n - i) \in 0..Entries
          BY <1>1, <2>3, <4>1
        <4> QED
          BY <4>2
      <3>3. k <= L - 1 /\ (L - 1) - k = p.n - i
        <4>1. \A a, b, c1 \in Int : c1 = a - b => a - c1 = b /\ (0 <= b => c1 <= a)
          OBVIOUS
        <4>2. L - 1 \in Int /\ k \in Int /\ p.n - i \in Int /\ 0 <= p.n - i
          BY <1>1, <2>1
        <4> QED
          BY <3>2, <4>1, <4>2
      <3> QED
        BY <1>6, <3>1, <3>3
    <2> QED
      BY <1>1, <2>1, <2>2, <2>3
  <1> QED
    BY <1>3, <1>6, <1>7

\* A datagram that is not handed on is the first one of a round of numbers.
LEMMA ReceivedRead ==
    ASSUME CodeSizes, UType, NEW p \in Wire, Read(p), rx.them, NEW L \in Nat,
           rx.seq = IF L = 0 THEN 0 ELSE ((L - 1) % 65536) + 1, L <= p.n + 1,
           \A n \in got : n < L, L > 0 => L - 1 \in got,
           Without({"reorder"}), ReceivedIsPlayed
    PROVE  \A n \in got' : played'[n] = 0 =>
              n >= SeqNos /\ \A k \in got' : k \div SeqNos = n \div SeqNos => k >= n
  <1>1. p.n \in Nat /\ p.seq = p.n % 65536 /\ SeqNos = 65536
    BY DEF Wire, Dgrams, Good, CodeSizes
  <1>2. /\ got' = got \cup {p.n} /\ p.n \in Packets
        /\ \A n \in Packets : played[n] <= played'[n]
        /\ rx.seq <= p.seq => played'[p.n] > 0
    BY ReadGrows
  <1>3. got \subseteq Packets /\ \A n \in Packets : n \in Nat /\ played[n] \in Nat
    BY UdptlAssumption DEF UType, Packets
  <1>4. ASSUME NEW n \in got, played'[n] = 0
        PROVE  n >= SeqNos /\ \A k \in got' : k \div SeqNos = n \div SeqNos => k >= n
    <2>1. n \in Packets /\ n \in Nat /\ n < L
      BY <1>3
    <2>2. played[n] = 0
      BY <1>2, <1>3, <1>4, <2>1
    <2>3. n >= SeqNos /\ \A k \in got : k \div SeqNos = n \div SeqNos => k >= n
      BY <2>2 DEF ReceivedIsPlayed
    <2>4. p.n >= n
      BY <1>1, <2>1
    <2> QED
      BY <1>2, <2>3, <2>4
  <1>5. ASSUME played'[p.n] = 0, p.n \notin got
        PROVE  p.n >= SeqNos /\ \A k \in got' : k \div SeqNos = p.n \div SeqNos => k >= p.n
    <2>1. p.seq < rx.seq
      BY <1>1, <1>2, <1>5
    <2>2. L > 0 /\ p.n # L - 1
      BY <1>1, <1>5, <2>1
    <2>3. PICK a \in Nat : a = L - 1
      BY <2>2
    <2>4. a < p.n /\ p.n % 65536 <= a % 65536
      BY <1>1, <2>1, <2>2, <2>3
    <2>5. p.n >= 65536 /\ \A k \in Nat : k <= a => k \div 65536 # p.n \div 65536
      BY <1>1, <2>4, SeqWrap
    <2>6. \A k \in got : k \in Nat /\ k <= a
      BY <1>3, <2>3
    <2>7. \A k \in got : k \div SeqNos # p.n \div SeqNos
      BY <1>1, <2>5, <2>6
    <2> QED
      BY <1>1, <1>2, <2>5, <2>7
  <1> QED
    BY <1>2, <1>4, <1>5

LEMMA OrderReceive ==
    ASSUME CodeSizes, OInv, Receive
    PROVE  Order'
  <1>1. UInv /\ UType
    BY DEF OInv, UInv
  <1>2. tx' = tx /\ (Without({"switch"})' => Without({"switch"}))
    BY <1>1, ReceiveFx
  <1>3. SUFFICES ASSUME Without({"reorder"})'
                 PROVE  (\E L \in Nat : ReadTo(L)' /\ PlayedTo(L)') /\ Healed' /\ ReceivedIsPlayed'
    BY DEF Order
  <1>4. /\ Without({"reorder"}) /\ net # <<>> /\ net \in Seq(Wire)
        /\ net' = net \/ net' = Tail(net)
    BY <1>1, <1>3, ReceiveFx
  <1>5. PICK p \in Wire : p = net[1] /\ Read(p)
    BY <1>1, <1>3, ReceiveFx
  <1>6. PICK L \in Nat : ReadTo(L) /\ PlayedTo(L)
    BY <1>4 DEF OInv, Order
  <1>7. Healed /\ ReceivedIsPlayed
    BY <1>4 DEF OInv, Order
  <1>8. /\ rx.seq = IF L = 0 THEN 0 ELSE ((L - 1) % 65536) + 1
        /\ L > 0 => L - 1 \in got
        /\ \A n \in got : n < L
        /\ \A i \in 1..Len(net) : L <= net[i].n + 1
        /\ \A i, j \in 1..Len(net) : i < j => net[i].n < net[j].n
    BY <1>6 DEF ReadTo
  <1>9. p.n \in Nat /\ p.seq = p.n % 65536 /\ L <= p.n + 1
    <2>1. 1 \in 1..Len(net)
      BY <1>4
    <2> QED
      BY <1>5, <1>8, <2>1 DEF Wire, Dgrams, Good, CodeSizes
  <1>10. /\ \A i \in 1..Len(net') : L <= net'[i].n + 1
         /\ \A i \in 1..Len(net') : p.n <= net'[i].n
         /\ \A i, j \in 1..Len(net') : i < j => net'[i].n < net'[j].n
         /\ \A i \in 1..Len(net') : net'[i].n \in Nat
    <2>1. \A i \in 1..Len(net) : net[i].n \in Nat
      <3>1. \A i \in 1..Len(net) : net[i] \in Wire
        BY <1>4, TakenOut, Zenon
      <3> QED
        BY <3>1 DEF Wire, Dgrams
    <2>2. /\ \A i \in 1..Len(net') : L <= net'[i].n + 1
          /\ \A i \in 1..Len(net') : net # <<>> => net[1].n <= net'[i].n
          /\ \A i, j \in 1..Len(net') : i < j => net'[i].n < net'[j].n
      <3>1. net' = net \/ (net # <<>> /\ net' = Tail(net))
        BY <1>4
      <3>2. \A i \in 1..Len(net) : net[i].n \in Nat /\ L <= net[i].n + 1
        BY <1>8, <2>1
      <3> QED
        <4>1. \A i, j \in 1..Len(net) : i < j => net[i].n < net[j].n
          BY <1>8
        <4>2. net \in Seq(Wire)
          BY <1>4
        <4> QED
          BY <3>1, <3>2, <4>1, <4>2, LaterStay
    <2>3. net' \in Seq(Wire)
      BY <1>1, ReceiveFx
    <2>4. \A i \in 1..Len(net') : net'[i] \in Wire
      BY <2>3, TakenOut
    <2>5. \A i \in 1..Len(net') : net'[i].n \in Nat
      BY <2>4 DEF Wire, Dgrams
    <2> QED
      BY <1>4, <1>5, <2>2, <2>5
  <1>11. CASE ~rx.them
    <2>1. rx' = rx /\ played' = played /\ got' = got
      BY <1>5, <1>11, Zenon DEF Read
    <2>2. ReadTo(L)'
      BY <1>8, <1>10, <2>1 DEF ReadTo
    <2>3. PlayedTo(L)'
      BY <1>2, <1>6, <2>1 DEF PlayedTo
    <2>4. Healed'
      BY <1>2, <1>7, <2>1 DEF Healed, Wrapped
    <2>5. ReceivedIsPlayed'
      BY <1>4, <1>7, <2>1 DEF ReceivedIsPlayed
    <2> QED
      BY <2>2, <2>3, <2>4, <2>5, Zenon
  <1>12. CASE rx.them
    <2>1. got' = got \cup {p.n} /\ rx'.seq = p.seq + 1
      BY <1>1, <1>5, <1>12, ReadGrows, Zenon
    <2>2. ReadTo(p.n + 1)'
      <3>1. rx'.seq = IF p.n + 1 = 0 THEN 0 ELSE (((p.n + 1) - 1) % 65536) + 1
        BY <1>9, <2>1
      <3>2. (p.n + 1) - 1 \in got' /\ \A n \in got' : n < p.n + 1
        <4>1. \A n \in got : n \in Nat
          BY <1>1, UdptlAssumption DEF UType, Packets
        <4> QED
          BY <1>8, <1>9, <2>1, <4>1
      <3>3. \A i \in 1..Len(net') : p.n + 1 <= net'[i].n + 1
        BY <1>9, <1>10
      <3>4. \A i, j \in 1..Len(net') : i < j => net'[i].n < net'[j].n
        BY <1>10
      <3>5. p.n + 1 > 0 => (p.n + 1) - 1 \in got'
        BY <3>2, Zenon
      <3> QED
        BY <3>1, <3>2, <3>3, <3>4, <3>5 DEF ReadTo
    <2>3. PlayedTo(p.n + 1)'
      <3>1. SUFFICES ASSUME tx.scheme # "fec", Without({"switch"})
                     PROVE  \A n \in Packets : played'[n] <= 1 /\ (played'[n] > 0 => n < p.n + 1)
        BY <1>2, Zenon DEF PlayedTo
      <3> QED
        BY <1>1, <1>5, <1>6, <1>8, <1>9, <1>12, <3>1, PlayedRead
    <2>4. Healed'
      <3>1. SUFFICES ASSUME tx.scheme = "redundancy", ~Wrapped, Without({"switch"})
                     PROVE  \A n \in got' : \A i \in 0..Entries : i <= n => played'[n - i] > 0
        BY <1>2 DEF Healed, Wrapped
      <3> QED
        BY <1>1, <1>5, <1>7, <1>8, <1>9, <1>12, <3>1, HealedRead
    <2>5. ReceivedIsPlayed'
      <3>1. \A n \in got' : played'[n] = 0 =>
               n >= SeqNos /\ \A k \in got' : k \div SeqNos = n \div SeqNos => k >= n
        BY <1>1, <1>4, <1>5, <1>7, <1>8, <1>9, <1>12, ReceivedRead
      <3> QED
        BY <3>1, Zenon DEF ReceivedIsPlayed
    <2> QED
      BY <1>9, <2>2, <2>3, <2>4, <2>5
  <1> QED
    BY <1>11, <1>12

LEMMA OrderInit ==
    ASSUME CodeSizes, Init
    PROVE  Order
  <1>1. /\ net = <<>> /\ rx.seq = 0 /\ got = {} /\ mishaps = {}
        /\ \A n \in Packets : played[n] = 0
    BY DEF Init, Packets
  <1>2. ReadTo(0)
    BY <1>1 DEF ReadTo
  <1>3. PlayedTo(0)
    BY <1>1 DEF PlayedTo
  <1>4. Healed /\ ReceivedIsPlayed
    BY <1>1 DEF Healed, ReceivedIsPlayed
  <1> QED
    BY <1>2, <1>3, <1>4 DEF Order

LEMMA OInvNext ==
    ASSUME CodeSizes, OInv, [Next]_vars
    PROVE  OInv'
  <1>1. UInv'
    BY UInvNext DEF OInv
  <1>2. CASE Write
    BY <1>1, <1>2, OrderWrite DEF OInv
  <1>3. CASE Receive
    BY <1>1, <1>3, OrderReceive DEF OInv
  <1>4. CASE Lose \/ SetScheme \/ Stop \/ SetPeer \/ UNCHANGED vars
    BY <1>1, <1>4, OrderQuiet DEF OInv
  <1> QED
    BY <1>2, <1>3, <1>4 DEF Next

\* The inductive invariant holds always.
LEMMA OInvAlways ==
    ASSUME CodeSizes
    PROVE  Spec => []OInv
  <1>1. Init => OInv
    BY UInvInit, OrderInit DEF OInv
  <1>2. OInv /\ [Next]_vars => OInv'
    BY OInvNext
  <1> QED
    BY <1>1, <1>2, PTL DEF Spec

-----------------------------------------------------------------------------
(* The theorems.                                                           *)

\* While datagrams are not reordered, one that is read is handed on, whatever the
\* scheme and whatever was lost before it, but for the first of each round of
\* sequence numbers: rx_seq_no only ever follows the datagrams, and is above them
\* when they start again at zero.
THEOREM ReceivedIsPlayedAlways ==
    ASSUME CodeSizes
    PROVE  Spec => []ReceivedIsPlayed
  <1>1. OInv => ReceivedIsPlayed
    BY DEF OInv, Order, ReceivedIsPlayed
  <1> QED
    BY <1>1, OInvAlways, PTL

\* With redundancy an IFP packet is lost for good only if its datagram and those of
\* the next error_correction_entries packets were: the secondaries of any of them
\* bring it back.
THEOREM RedundancyHealsAlways ==
    ASSUME CodeSizes
    PROVE  Spec => []RedundancyHeals
  <1>1. OInv => RedundancyHeals
    <2>1. SUFFICES ASSUME OInv, tx.scheme = "redundancy", ~Wrapped, Without({"reorder", "switch"}),
                          NEW n \in Packets, played[n] = 0, NEW i \in 0..Entries, n + i \in got
                   PROVE  FALSE
      BY DEF RedundancyHeals
    <2>2. Without({"reorder"}) /\ Without({"switch"})
      BY <2>1 DEF Without
    <2>3. n \in Nat /\ i \in Nat /\ i <= n + i /\ (n + i) - i = n
      BY UdptlAssumption DEF Packets
    <2>4. played[(n + i) - i] > 0
      BY <2>1, <2>2, <2>3 DEF OInv, Order, Healed
    <2> QED
      BY <2>1, <2>3, <2>4
  <1> QED
    BY <1>1, OInvAlways, PTL

\* Without parity no IFP packet is handed on twice, as a secondary and in its own
\* datagram or in a datagram that comes twice.
THEOREM PlayedOnceAlways ==
    ASSUME CodeSizes
    PROVE  Spec => [](tx.scheme # "fec" => PlayedOnce)
  <1>1. OInv => (tx.scheme # "fec" => PlayedOnce)
    <2>1. SUFFICES ASSUME OInv, tx.scheme # "fec", Without({"reorder", "switch"})
                   PROVE  \A n \in Packets : played[n] <= 1
      BY DEF PlayedOnce
    <2>2. Without({"reorder"}) /\ Without({"switch"})
      BY <2>1, Zenon DEF Without
    <2> QED
      BY <2>1, <2>2 DEF OInv, Order, PlayedTo
  <1> QED
    BY <1>1, OInvAlways, PTL

\* What one reading does to the order of what was handed on.
LEMMA OrderedStep ==
    ASSUME CodeSizes, OInv, [Next]_vars, frames' # frames, tx.scheme # "fec",
           mishaps' \cap {"reorder", "switch"} = {}
    PROVE  LET N == UNION {f.data : f \in Range(frames')}
           IN  /\ \A i, j \in DOMAIN frames' : i < j =>
                     \A a \in frames'[i].data, b \in frames'[j].data : a < b
               /\ \A a \in N, b \in Packets : played[b] > 0 => b < a
  <1>1. UInv /\ UType
    BY DEF OInv, UInv
  <1>2. Receive
    BY DEF Next, vars, Write, Lose, SetScheme, Stop, SetPeer
  <1>3. Without({"reorder"})' /\ Without({"switch"})'
    BY DEF Without
  <1>4. Without({"reorder"}) /\ Without({"switch"}) /\ net # <<>> /\ net \in Seq(Wire)
    BY <1>1, <1>2, <1>3, ReceiveFx
  <1>5. PICK p \in Wire : p = net[1] /\ Read(p)
    BY <1>1, <1>2, <1>3, ReceiveFx
  <1>6. PICK L \in Nat : ReadTo(L) /\ PlayedTo(L)
    BY <1>4, Zenon DEF OInv, Order
  <1>7. CASE ~rx.them
    <2>1. frames' = <<>>
      BY <1>5, <1>7, Zenon DEF Read
    <2>2. DOMAIN frames' = {} /\ Range(frames') = {}
      BY <2>1 DEF Range
    <2> QED
      BY <2>2
  <1>8. CASE rx.them
    <2>1. ~p.fec /\ p.n \in Nat
      BY <1>4, Zenon DEF Wire, Dgrams, Good
    <2>2. PICK c \in Nat : Run(p, rx, frames', c)
      BY <1>1, <1>5, <1>8, <2>1, PlainRead, Zenon
    <2>3. 1 \in 1..Len(net)
      BY <1>4
    <2>4. /\ rx.seq = IF L = 0 THEN 0 ELSE ((L - 1) % 65536) + 1
          /\ L <= p.n + 1
      BY <1>5, <1>6, <2>3 DEF ReadTo
    <2>5. \A n \in Int : p.n - c < n /\ n <= p.n => L <= n
      BY <2>2, <2>4, Ahead
    <2>6. DOMAIN frames' = 1..c /\ \A i \in 1..c : frames'[i].data = {p.n - (c - i)}
      BY <2>2, RunData
    <2>7. ASSUME NEW i \in DOMAIN frames', NEW j \in DOMAIN frames', i < j,
                 NEW a \in frames'[i].data, NEW b \in frames'[j].data
          PROVE  a < b
      <3>1. i \in 1..c /\ j \in 1..c /\ a = p.n - (c - i) /\ b = p.n - (c - j)
        BY <2>6, <2>7, Zenon
      <3> QED
        BY <2>1, <2>7, <3>1
    <2>8. ASSUME NEW a \in UNION {f.data : f \in Range(frames')}, NEW b \in Packets, played[b] > 0
          PROVE  b < a
      <3>1. PICK i \in 1..c : a = p.n - (c - i)
        BY <2>6, <2>8 DEF Range
      <3>2. a \in Int /\ L <= a
        BY <2>1, <2>5, <3>1
      <3>3. b \in Int /\ b < L
        BY <1>4, <1>6, <2>8, UdptlAssumption DEF PlayedTo, Packets
      <3> QED
        BY <3>2, <3>3
    <2> QED
      BY <2>7, <2>8, Zenon
  <1> QED
    BY <1>7, <1>8

\* Without parity the packets are handed on in the order in which they were written,
\* within one reading and from one to the next.
THEOREM InOrderAlways ==
    ASSUME CodeSizes
    PROVE  Spec => InOrder
  <1> DEFINE A == frames' # frames /\ tx.scheme # "fec" /\ mishaps' \cap {"reorder", "switch"} = {} =>
                    LET N == UNION {f.data : f \in Range(frames')}
                    IN  /\ \A i, j \in DOMAIN frames' : i < j =>
                              \A a \in frames'[i].data, b \in frames'[j].data : a < b
                        /\ \A a \in N, b \in Packets : played[b] > 0 => b < a
  <1>1. OInv /\ [Next]_vars => [A]_vars
    BY OrderedStep
  <1> HIDE DEF A
  <1>2. Spec => [][A]_vars
    BY <1>1, OInvAlways, PTL DEF Spec
  <1> QED
    BY <1>2, PTL DEF A, InOrder

\* Frame f is packet n, under its number and of its length.
Written(f, n) == f.data = {n} /\ f.seqno = SeqNo(n) /\ f.len = Length({n})

\* What one reading hands on is written packets under their numbers.
LEMMA ExactRead ==
    ASSUME CodeSizes, UType, NEW p \in Wire, ~p.fec, Read(p)
    PROVE  \A f \in Range(frames') : \E n \in 0..(tx.seq - 1) : Written(f, n)
  <1>1. p.n \in Nat /\ p.seq = p.n % 65536 /\ SeqNos = 65536 /\ p.n < tx.seq /\ tx.seq \in Nat
    BY DEF Wire, Dgrams, Good, CodeSizes, UType
  <1>2. CASE ~rx.them
    <2>1. frames' = <<>>
      BY <1>2, Zenon DEF Read
    <2>2. Range(frames') = {}
      BY <2>1 DEF Range
    <2> QED
      BY <2>2, Zenon
  <1>3. CASE rx.them
    <2>1. PICK c \in Nat : Run(p, rx, frames', c)
      BY <1>3, PlainRead, Zenon
    <2>2. /\ DOMAIN frames' = 1..c
          /\ \A i \in 1..c : /\ frames'[i].seqno = p.seq - (c - i)
                             /\ frames'[i].data = {p.n - (c - i)}
      BY <2>1, RunData
    <2>5. \A i \in 1..c : frames'[i].len = Length({p.n - (c - i)})
      BY <2>1, RunLength
    <2>3. /\ p.seq < rx.seq => c = 0
          /\ rx.seq <= p.seq => c <= p.seq - rx.seq + 1
          /\ rx.seq \in Nat
      BY <2>1 DEF Run, UType
    <2>4. ASSUME NEW i \in 1..c
          PROVE  \E n \in 0..(tx.seq - 1) : Written(frames'[i], n)
      <3>1. PICK k \in Nat : k = c - i
        BY <2>4
      <3>2. k <= p.n % 65536
        BY <1>1, <2>3, <3>1
      <3>3. k <= p.n /\ (p.n - k) % 65536 = (p.n % 65536) - k
        BY <1>1, <3>2, SeqBack
      <3>4. p.n - k \in 0..(tx.seq - 1)
        BY <1>1, <3>3
      <3>5. frames'[i].data = {p.n - k} /\ frames'[i].seqno = (p.n - k) % SeqNos
        BY <1>1, <2>2, <3>1, <3>3
      <3>6. frames'[i].len = Length({p.n - k})
        BY <2>4, <2>5, <3>1, Zenon
      <3> QED
        BY <3>4, <3>5, <3>6, Zenon DEF Written, SeqNo
    <2> QED
      BY <2>2, <2>4 DEF Range
  <1> QED
    BY <1>2, <1>3, Zenon

\* Without parity every frame is an IFP packet that was written, under its own
\* sequence number and of its own length, however datagrams are lost, repeated or
\* reordered, whatever the scheme changes to, and however often the numbers start again.
THEOREM ExactAlways ==
    ASSUME CodeSizes, "fec" \notin Schemes
    PROVE  Spec => []Exact
  <1> DEFINE AllWritten == \A f \in Range(frames) : \E n \in 0..(tx.seq - 1) : Written(f, n)
  <1>1. Init => UInv /\ AllWritten
    <2>1. Init => Range(frames) = {}
      BY DEF Init, Range
    <2> QED
      BY <2>1, UInvInit
  <1>2. UInv /\ AllWritten /\ [Next]_vars => UInv' /\ AllWritten'
    <2>1. SUFFICES ASSUME UInv, AllWritten, [Next]_vars PROVE AllWritten'
      BY UInvNext
    <2>2. CASE Receive
      <3>1. UType /\ tx' = tx
        BY <2>1, <2>2, ReceiveFx DEF UInv
      <3>2. PICK p \in Wire : Read(p)
        BY <2>2, <3>1, ReceiveFx
      <3>3. ~p.fec
        BY DEF Wire, Good
      <3>4. \A f \in Range(frames') : \E n \in 0..(tx.seq - 1) : Written(f, n)
        BY <3>1, <3>2, <3>3, ExactRead
      <3> QED
        BY <3>1, <3>4
    <2>3. CASE ~Receive
      <3>1. frames' = frames
        BY <2>1, <2>3 DEF Next, vars, Write, Lose, SetScheme, Stop, SetPeer
      <3>2. tx.seq \in Nat /\ (tx'.seq = tx.seq \/ tx'.seq = tx.seq + 1)
        <4>1. tx.seq \in Nat
          BY <2>1 DEF UInv, UType
        <4>2. CASE Write
          BY <2>1, <4>1, <4>2, WriteGood
        <4>3. CASE Lose \/ SetScheme \/ Stop \/ SetPeer \/ UNCHANGED vars
          BY <2>1, <4>1, <4>3, UInvQuiet
        <4> QED
          BY <2>1, <2>3, <4>2, <4>3 DEF Next
      <3>3. \A n \in 0..(tx.seq - 1) : n \in 0..(tx'.seq - 1)
        BY <3>2
      <3> QED
        BY <2>1, <3>1, <3>3
    <2> QED
      BY <2>2, <2>3
  <1>3. AllWritten => Exact
    <2>1. \A n : Length({n}) \in Nat
      BY DEF Length
    <2>2. \A n : Length({n}) >= Length({n})
      BY <2>1
    <2>3. ASSUME NEW f, NEW n \in 0..(tx.seq - 1), Written(f, n)
          PROVE  /\ f.data = {n} /\ f.seqno = SeqNo(n)
                 /\ f.len >= Length({n}) /\ f.len = Length({n})
      BY <2>2, <2>3, Zenon DEF Written
    <2> QED
      BY <2>3, Zenon DEF Exact
  <1> QED
    BY <1>1, <1>2, <1>3, PTL DEF Spec
=============================================================================
