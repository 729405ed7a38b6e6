----------------------------- MODULE Fragments -----------------------------
(***************************************************************************)
(* packet.rs: cutting an IP packet into datagrams a connection can carry,  *)
(* and putting tetron's own IPv6 envelopes together again.                 *)
(*                                                                         *)
(* A packet is its length and the few header fields the code looks at; a   *)
(* fragment is the range of bytes it carries.                              *)
(***************************************************************************)
EXTENDS Integers, Sequences, FiniteSets, FiniteSetsExt

CONSTANTS
    MaxReassemblyEntries,   \* MAX_REASSEMBLY_ENTRIES (16)
    ReassemblyTimeout       \* REASSEMBLY_TIMEOUT (5 s), in ticks of the model

HEADER_LEN == 20
FRAG6_HEADER_LEN == 8
MAX_REASSEMBLED_IPV6_PACKET == 1280
U16Max == 65535
MAX_FRAG_OFFSET_BYTES == 8191 * 8

\* The loop both fragmenters run: pieces of step bytes until len is used up.
Pieces(len, step) ==
    [i \in 1..((len + step - 1) \div step) |->
        [offset |-> (i - 1) * step, len |-> Min({step, len - (i - 1) * step})]]

\* fragment_ipv4_into.  ipOptions: IHL > 5; intact: the header checksum holds;
\* base, mf: the fragment offset and the More-Fragments flag of the packet
\* itself.  <<>>: it refuses.
FragmentIpv4(len, ipOptions, intact, base, mf, max) ==
    LET payload == len - HEADER_LEN
        step == ((max - HEADER_LEN) \div 8) * 8
        cut == Pieces(payload, step) IN
    IF \/ len <= max \/ len < HEADER_LEN \/ max < HEADER_LEN + 8
       \/ ipOptions \/ ~intact
       \/ base + payload - 1 > MAX_FRAG_OFFSET_BYTES
    THEN <<>>
    ELSE [i \in 1..Len(cut) |->
             [offset |-> base + cut[i].offset, len |-> cut[i].len,
              more |-> IF i = Len(cut) THEN mf ELSE TRUE]]

\* fragment_ipv6_into.  <<>>: it refuses.
FragmentIpv6(len, id, max) ==
    LET cut == Pieces(len, max - FRAG6_HEADER_LEN) IN
    IF len <= max \/ max <= FRAG6_HEADER_LEN \/ len > U16Max
    THEN <<>>
    ELSE [i \in 1..Len(cut) |->
             [id |-> id, offset |-> cut[i].offset, len |-> cut[i].len,
              more |-> i < Len(cut)]]

-----------------------------------------------------------------------------
(* Ipv6Reassembler: partial maps an id to what has arrived of its set, a    *)
(* function from offsets to chunks [len, from], with from the packet the    *)
(* bytes come from.                                                         *)

NoTotal == -1

\* try_complete: walking the chunks in the order of their offsets, each one
\* starts where the one before ended and the last ends at the total.
TryComplete(p) ==
    LET ends(o) == o + p.chunks[o].len IN
    /\ p.total # NoTotal
    /\ \A o \in DOMAIN p.chunks :
           \/ o = 0
           \/ \E q \in DOMAIN p.chunks :
                  /\ q < o /\ ends(q) = o
                  /\ \A r \in DOMAIN p.chunks : ~(q < r /\ r < o)
    /\ 0 \in DOMAIN p.chunks
    /\ \E o \in DOMAIN p.chunks :
           ends(o) = p.total /\ \A r \in DOMAIN p.chunks : r <= o

\* gc_stale
Fresh(partial, now) ==
    [i \in {j \in DOMAIN partial : now - partial[j].seen < ReassemblyTimeout} |-> partial[i]]

Without(partial, id) == [i \in DOMAIN partial \ {id} |-> partial[i]]

\* The sets an accept may make room by dropping: one of those seen the longest
\* time ago, or none while there is room.
Evictable(partial, id) ==
    IF id \in DOMAIN partial \/ Cardinality(DOMAIN partial) < MaxReassemblyEntries
    THEN {}
    ELSE {i \in DOMAIN partial : \A j \in DOMAIN partial : partial[i].seen <= partial[j].seen}

\* The set after one more fragment.
Extend(partial, d, now) ==
    LET old == IF d.id \in DOMAIN partial THEN partial[d.id]
               ELSE [chunks |-> <<>>, total |-> NoTotal, seen |-> now] IN
    [chunks |-> [o \in DOMAIN old.chunks \cup {d.offset} |->
                    IF o = d.offset THEN [len |-> d.len, from |-> d.from] ELSE old.chunks[o]],
     total |-> IF d.more THEN old.total ELSE d.offset + d.len,
     seen |-> now]

\* Ipv6Reassembler::accept for an envelope: every outcome it may have, with the
\* map it leaves.  "Complete" carries the chunks of the packet.
AcceptFragment(stored, d, now) ==
    LET partial == Fresh(stored, now)
        after(p) ==
            LET e == Extend(p, d, now) IN
            IF TryComplete(e)
            THEN [outcome |-> "Complete", chunks |-> e.chunks, partial |-> Without(p, d.id)]
            ELSE [outcome |-> "Waiting", chunks |-> <<>>,
                  partial |-> [i \in DOMAIN p \cup {d.id} |-> IF i = d.id THEN e ELSE p[i]]]
    IN  IF d.offset + d.len > MAX_REASSEMBLED_IPV6_PACKET
        THEN {[outcome |-> "Rejected", chunks |-> <<>>, partial |-> Without(partial, d.id)]}
        ELSE IF Evictable(partial, d.id) = {} THEN {after(partial)}
        ELSE {after(Without(partial, i)) : i \in Evictable(partial, d.id)}
=============================================================================
