-------------------------------- MODULE Udptl --------------------------------
(***************************************************************************)
(* T.38 over UDPTL (asterisk-1.4/main/udptl.c), one direction: the end     *)
(* that writes IFP packets with redundancy or parity (FEC), a network that *)
(* loses, repeats and reorders datagrams, and the end that reads them and  *)
(* rebuilds what is missing.                                               *)
(*                                                                         *)
(* The n-th IFP packet is the set {n}, so that XOR of packets is symmetric *)
(* difference and the parity of a group shows which packets went into it.  *)
(* Packets are short or long, and the parity of a group is as long as its  *)
(* longest packet.                                                         *)
(***************************************************************************)
EXTENDS Integers, Sequences, FiniteSetsExt

CONSTANTS Ring,       \* slots of the circular buffers, UDPTL_BUF_MASK + 1: 16 in the code
          SeqNos,     \* sequence numbers in a datagram: 65536 in the code
          Span,       \* error_correction_span
          Entries,    \* error_correction_entries
          Schemes,    \* error correction schemes looked at
          Long,       \* the packets that are long
          MaxSent,    \* bound: IFP packets written
          MaxFlight,  \* bound: datagrams in flight
          MaxLost,    \* bound: datagrams lost or thrown away
          Mishaps,    \* what else may happen once each: reorder, repeat, switch, stop
          MaxMishaps  \* bound: mishaps of one behaviour

ASSUME UdptlAssumption ==
    /\ Ring \in Nat \ {0} /\ SeqNos \in Nat \ {0} /\ SeqNos % Ring = 0
    /\ Span \in Nat /\ Entries \in Nat
    /\ Schemes \subseteq {"none", "redundancy", "fec"}
    /\ MaxSent \in Nat /\ MaxFlight \in Nat /\ MaxLost \in Nat /\ MaxMishaps \in Nat

VARIABLES tx,      \* the writing end: tx_seq_no, circular buffer, scheme, peer known
          net,     \* the datagrams in flight, oldest first
          rx,      \* the reading end: rx_seq_no, circular buffer, peer known
          frames,  \* what the last read has returned
          played,  \* [0..MaxSent-1 -> Nat]: how often each IFP packet was returned
          got,     \* the datagrams read so far, by the number of their packet
          lost,    \* how many datagrams were lost or thrown away
          mishaps  \* the mishaps so far

vars == <<tx, net, rx, frames, played, got, lost, mishaps>>

Slots == 0..(Ring - 1)
Blank == [len |-> 0, data |-> {}, fec |-> <<>>, span |-> 0, entries |-> 0]

\* The length of an IFP packet, or of the parity of several: that of the longest.
Length(data) == CASE data = {} -> 0 [] data # {} /\ data \cap Long = {} -> 1 [] OTHER -> 2

Mishap(k) ==
    /\ k \in Mishaps \ mishaps /\ Cardinality(mishaps) < MaxMishaps
    /\ mishaps' = mishaps \cup {k}

-----------------------------------------------------------------------------
(* Parity.                                                                 *)

\* The members of an odd number of the sets data[k], k in G.
Parity(data, G) ==
    {y \in UNION {data[k] : k \in G} : Cardinality({k \in G : y \in data[k]}) % 2 = 1}

\* The slots of the loop from limit - span*entries in steps of entries up to limit,
\* which it may meet early.
Group(limit, span, entries) ==
    LET slot(i) == (limit - (span - i) * entries) % Ring
    IN  {slot(i) : i \in {j \in 0..(span - 1) : \A h \in 0..j : slot(h) # limit}}

-----------------------------------------------------------------------------
(* udptl_build_packet.                                                     *)

\* The sequence number of packet n.
SeqNo(n) == n % SeqNos

\* The span and the number of parities for sequence number seq: "In the initial
\* stages, wind up the FEC smoothly".
FecShape(seq) ==
    IF seq >= Span * Entries THEN [span |-> Span, entries |-> Entries]
    ELSE [span |-> IF seq < Span THEN 0 ELSE Span, entries |-> seq \div Span]

\* What is sent with the packet for error recovery, the packet's slot being entry.
Recovery(n, ring, scheme) ==
    LET seq == SeqNo(n)
        entry == seq % Ring
        s == FecShape(seq)
    IN  CASE scheme = "none" -> <<>>
          [] scheme = "redundancy" ->
                [i \in 1..(IF n > Entries THEN Entries ELSE n) |-> ring[(entry - i) % Ring]]
          [] scheme = "fec" ->
                [m \in 1..s.entries |-> Parity(ring, Group((entry + m - 1) % Ring, s.span, s.entries))]

Datagram(n, ring, scheme) ==
    [n |-> n, seq |-> SeqNo(n), data |-> {n}, fec |-> scheme = "fec",
     ec |-> Recovery(n, ring, scheme),
     shape |-> IF scheme = "fec" THEN FecShape(SeqNo(n)) ELSE [span |-> 0, entries |-> 0]]

-----------------------------------------------------------------------------
(* udptl_rx_packet.                                                        *)

Frame(seqno, data, len) == [seqno |-> seqno, data |-> data, len |-> len]
Whole(seqno, data) == Frame(seqno, data, Length(data))

\* The k newest secondaries of p, oldest first.
Newest(p, k) == [i \in 1..k |-> Whole(p.seq - (k + 1 - i), p.ec[k + 1 - i])]

\* Slips: what was seen counts as new; newest first; the oldest new one is left out.
Secondaries_seen(r, p) == IF p.seq <= r.seq THEN <<>> ELSE Newest(p, Len(p.ec))
Secondaries_newest(r, p) ==
    IF p.seq <= r.seq THEN <<>>
    ELSE [i \in 1..Min({Len(p.ec), p.seq - r.seq}) |-> Whole(p.seq - i, p.ec[i])]
Secondaries_after(r, p) ==
    IF p.seq <= r.seq THEN <<>> ELSE Newest(p, Min({Len(p.ec), p.seq - r.seq - 1}))

\* The secondaries i, of number seq_no - i, with seq_no - i >= rx_seq_no: those that
\* were not seen before.
Secondaries(r, p) ==
    IF p.seq <= r.seq THEN <<>> ELSE Newest(p, Min({Len(p.ec), p.seq - r.seq}))

\* Slip: missed slots keep what they had.
Saved_keep(r, p) ==
    [r.ring EXCEPT ![p.seq % Ring] = [len |-> Length(p.data), data |-> p.data, fec |-> p.ec,
                                      span |-> p.shape.span, entries |-> p.shape.entries]]

\* "Update any missed slots in the buffer", then save the packet and its parities.
Saved(r, p) ==
    LET missed == {q % Ring : q \in r.seq..(p.seq - 1)}
    IN  [k \in Slots |->
           IF k = p.seq % Ring
           THEN [len |-> Length(p.data), data |-> p.data, fec |-> p.ec,
                 span |-> p.shape.span, entries |-> p.shape.entries]
           ELSE IF k \in missed THEN Blank ELSE r.ring[k]]

\* Parity m of slot l, where it covers one missing packet, gives it back, as long as
\* the parity is.  s: the slots and which of them are repaired.
RepairOne(s, l, m) ==
    LET from == s.ring[l]
        group == Group((l + m) % Ring, from.span, from.entries)
        missing == {k \in group : s.ring[k].len = 0}
        parts == [k \in Slots \cup {Ring} |-> IF k = Ring THEN from.fec[m + 1]
                                             ELSE IF s.ring[k].len > 0 THEN s.ring[k].data ELSE {}]
        which == CHOOSE k \in missing : TRUE
    IN  IF Cardinality(missing) # 1 THEN s
        ELSE [ring |-> [s.ring EXCEPT ![which].len = Length(from.fec[m + 1]),
                                      ![which].data = Parity(parts, group \cup {Ring})],
              repaired |-> s.repaired \cup {which}]

\* Slip: only the first parity is looked at.
RepairFrom_first(s, l) ==
    IF s.ring[l].fec = <<>> \/ Length(s.ring[l].fec[1]) = 0 THEN s ELSE RepairOne(s, l, 0)

\* The parities of slot l in turn.
RepairFrom(s, l) ==
    LET upTo[m \in 0..s.ring[l].entries] ==
            IF m = 0 THEN s ELSE RepairOne(upTo[m - 1], l, m - 1)
    IN  IF s.ring[l].fec = <<>> \/ Length(s.ring[l].fec[1]) = 0 THEN s ELSE upTo[s.ring[l].entries]

\* How many slots are hunted back from the new one, its own included.
HuntBack(p) == (Ring - p.shape.span * p.shape.entries) % Ring

\* "See if we can reconstruct anything which is missing".
Repaired(ring, p) ==
    LET back[i \in 0..HuntBack(p)] ==
            IF i = 0 THEN [ring |-> ring, repaired |-> {}]
            ELSE RepairFrom(back[i - 1], (p.seq - (i - 1)) % Ring)
    IN  back[HuntBack(p)]

\* "Now play any new packets forwards in time".
RepairedFrames(s, p) ==
    LET new == {q \in (p.seq - Ring + 1)..(p.seq - 1) : q % Ring \in s.repaired}
        nth(i) == CHOOSE q \in new : Cardinality({h \in new : h <= q}) = i
    IN  [i \in 1..Cardinality(new) |-> Frame(nth(i), s.ring[nth(i) % Ring].data, s.ring[nth(i) % Ring].len)]

\* Slip: the packet that is expected is not new.
Primary_later(r, p) == IF p.seq > r.seq THEN <<Whole(p.seq, p.data)>> ELSE <<>>

\* The primary packet, unless it "may have already [been] processed".
Primary(r, p) == IF p.seq >= r.seq THEN <<Whole(p.seq, p.data)>> ELSE <<>>

\* The reader after datagram p, and the frames it returns.
RxPacket(r, p) ==
    LET s == Repaired(Saved(r, p), p)
    IN  IF p.fec
        THEN [rx |-> [r EXCEPT !.seq = p.seq + 1, !.ring = s.ring],
              out |-> RepairedFrames(s, p) \o Primary(r, p)]
        ELSE [rx |-> [r EXCEPT !.seq = p.seq + 1],
              out |-> Secondaries(r, p) \o Primary(r, p)]

-----------------------------------------------------------------------------
\* ast_udptl_new at both ends, and ast_udptl_set_peer.
Init ==
    /\ tx \in [seq : {0}, ring : {[k \in Slots |-> {}]}, scheme : Schemes, them : {TRUE}]
    /\ net = <<>>
    /\ rx = [seq |-> 0, ring |-> [k \in Slots |-> Blank], them |-> TRUE]
    /\ frames = <<>> /\ played = [n \in 0..(MaxSent - 1) |-> 0] /\ got = {} /\ lost = 0 /\ mishaps = {}

\* Bound: without reordering the number of datagrams in flight makes no difference.
InFlight == IF "reorder" \in Mishaps /\ mishaps = {} THEN MaxFlight ELSE 1

\* ast_udptl_write; without a peer it returns at once.
Write ==
    LET n == tx.seq
        ring == [tx.ring EXCEPT ![SeqNo(n) % Ring] = {n}]
    IN  /\ tx.them /\ n < MaxSent /\ Len(net) < InFlight
        /\ net' = Append(net, Datagram(n, ring, tx.scheme))
        /\ tx' = [tx EXCEPT !.seq = n + 1, !.ring = ring]
        /\ UNCHANGED <<rx, frames, played, got, lost, mishaps>>

\* ast_udptl_read of datagram p; without a peer it is thrown away.
Read(p) ==
    \E res \in {RxPacket(rx, p)} :
        IF rx.them
        THEN /\ rx' = res.rx
             /\ frames' = res.out
             /\ played' = [n \in DOMAIN played |->
                  played[n] + Cardinality({i \in DOMAIN res.out : res.out[i].data = {n}})]
             /\ got' = got \cup {p.n} /\ UNCHANGED lost
        ELSE /\ lost < MaxLost /\ lost' = lost + 1
             /\ frames' = <<>> /\ UNCHANGED <<rx, played, got>>

\* The oldest datagram arrives, and may arrive again; or a younger one overtakes it.
Receive ==
    /\ net # <<>>
    /\ \/ Read(Head(net)) /\ net' = Tail(net) /\ UNCHANGED mishaps
       \/ Read(Head(net)) /\ Mishap("repeat") /\ UNCHANGED net
       \/ /\ Mishap("reorder")
          /\ \E i \in 2..Len(net) : /\ Read(net[i])
                                   /\ net' = SubSeq(net, 1, i - 1) \o SubSeq(net, i + 1, Len(net))
    /\ UNCHANGED tx

\* The network loses the oldest datagram.
Lose ==
    /\ net # <<>> /\ lost < MaxLost
    /\ net' = Tail(net) /\ lost' = lost + 1
    /\ UNCHANGED <<tx, rx, frames, played, got, mishaps>>

\* ast_udptl_set_error_correction_scheme during the call.
SetScheme ==
    /\ Mishap("switch")
    /\ \E s \in Schemes \ {tx.scheme} : tx' = [tx EXCEPT !.scheme = s]
    /\ UNCHANGED <<net, rx, frames, played, got, lost>>

\* ast_udptl_stop at either end ...
Stop ==
    /\ Mishap("stop")
    /\ \/ tx' = [tx EXCEPT !.them = FALSE] /\ UNCHANGED rx
       \/ rx' = [rx EXCEPT !.them = FALSE] /\ UNCHANGED tx
    /\ UNCHANGED <<net, frames, played, got, lost>>

\* ... and ast_udptl_set_peer again.
SetPeer ==
    /\ ~(tx.them /\ rx.them)
    /\ tx' = [tx EXCEPT !.them = TRUE] /\ rx' = [rx EXCEPT !.them = TRUE]
    /\ UNCHANGED <<net, frames, played, got, lost, mishaps>>

Next == Write \/ Receive \/ Lose \/ SetScheme \/ Stop \/ SetPeer

Spec == Init /\ [][Next]_vars

-----------------------------------------------------------------------------
(* Properties.  Each names the mishaps under which it is not promised.     *)

Without(K) == mishaps \cap K = {}

\* The sequence number has started again at zero.
Wrapped == tx.seq > SeqNos

Packets == 0..(MaxSent - 1)
Data == SUBSET Packets
Shapes == [span : 0..Span, entries : 0..Entries]

TypeOK ==
    /\ tx \in [seq : 0..MaxSent, ring : [Slots -> Data], scheme : Schemes, them : BOOLEAN]
    /\ rx.seq \in 0..SeqNos /\ rx.them \in BOOLEAN
    /\ \A k \in Slots : rx.ring[k].len \in 0..2 /\ rx.ring[k].data \in Data
    /\ Len(net) <= MaxFlight
    /\ played \in [Packets -> Nat] /\ got \subseteq Packets /\ lost \in 0..MaxLost

\* Whenever the sequence number started again, a ring of datagrams before it and the
\* first one after it arrived.
Seamless == \A n \in 1..(tx.seq - 1) : SeqNo(n) = 0 => (n - Ring)..n \subseteq got

\* Parity is solved with the packets it was made of.  It is not where datagrams are
\* missing as the sequence number starts again: missed slots are blanked only while
\* seq_no > rx_seq_no, and keep the packets of the round before; and the first short
\* parities let the hunt go back to datagrams whose groups are no longer in the slots.
SlotsFresh == ~Wrapped \/ (Seamless /\ Without({"reorder", "switch"}))

\* Every frame that is handed on is an IFP packet that was written, under its own
\* sequence number, although the slots of both ends are used over and over again,
\* datagrams come late or twice and the scheme changes.  What parity gives back is
\* the lost packet itself, perhaps with zeros behind it up to the length of the
\* longest packet of its group; but not after the sequence number has started again
\* with datagrams missing.
Exact ==
    LET plain == tx.scheme # "fec" /\ Without({"switch"})
    IN  plain \/ SlotsFresh =>
          \A f \in Range(frames) : \E n \in 0..(tx.seq - 1) :
             /\ f.data = {n} /\ f.seqno = SeqNo(n)
             /\ f.len >= Length({n}) /\ (plain => f.len = Length({n}))

\* No IFP packet is handed on twice, however datagrams are lost or repeated; with
\* parity, as long as it is solved with the packets it was made of.
PlayedOnce ==
    Without({"reorder", "switch"}) /\ (tx.scheme # "fec" \/ SlotsFresh) =>
       \A n \in Packets : played[n] <= 1

\* With redundancy the packets are handed on in the order they were written.
InOrder ==
    [][ frames' # frames /\ tx.scheme # "fec" /\ mishaps' \cap {"reorder", "switch"} = {} =>
          LET N == UNION {f.data : f \in Range(frames')}
          IN  /\ \A i, j \in DOMAIN frames' : i < j =>
                    \A a \in frames'[i].data, b \in frames'[j].data : a < b
              /\ \A a \in N, b \in Packets : played[b] > 0 => b < a ]_vars

\* A packet lost for good with redundancy was followed by the loss of as many
\* datagrams as there are entries.
RedundancyHeals ==
    tx.scheme = "redundancy" /\ ~Wrapped /\ Without({"reorder", "switch"}) =>
       \A n \in Packets : played[n] = 0 => \A i \in 0..Entries : n + i \notin got

\* A datagram gives back every packet that is the only one missing in the group of
\* one of its parities.
FecRepairs ==
    [][ tx.scheme = "fec" /\ ~Wrapped /\ mishaps' \cap {"reorder", "switch"} = {} =>
          \A n \in got' \ got :
             LET s == FecShape(n)
             IN  \A m \in 0..(s.entries - 1) :
                    LET missing == {k \in {n + m - j * s.entries : j \in 1..s.span} : played[k] = 0}
                    IN  Cardinality(missing) = 1 => \A k \in missing : played'[k] = 1 ]_vars

\* A datagram that arrives in order is handed on, but for the first one after the
\* sequence number starts again at zero: rx_seq_no does not start again with it.
ReceivedIsPlayed ==
    Without({"reorder"}) =>
       \A n \in got : played[n] = 0 =>
          /\ n >= SeqNos
          /\ \A k \in got : k \div SeqNos = n \div SeqNos => k >= n
=============================================================================
