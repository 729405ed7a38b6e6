----------------------------- MODULE DataPlane -----------------------------
(***************************************************************************)
(* forward.rs: packets from one daemon's TUN interface to a peer's, over   *)
(* the datagrams of one QUIC connection.                                   *)
(*                                                                         *)
(* The sending side is the loop of run_mesh, which cuts a packet that is   *)
(* too long for the connection into fragments and hands them over one by   *)
(* one; the connection's send buffer drains meanwhile, and the connection  *)
(* may close.  The network loses and reorders datagrams.  The receiving    *)
(* side is the reader task of the connection and the TUN writer behind it. *)
(***************************************************************************)
EXTENDS Fragments, SequencesExt

CONSTANTS
    Packet,      \* packets the host writes to the sender's TUN, each once
    Info,        \* Info[p]: version (4, 6; 0 is not IP), length, genuine source?
    MaxDgram,    \* values max_datagram_size may take (0: datagrams unsupported)
    BufferSize,  \* datagram send buffer of the connection, in bytes
    ChannelSize, \* capacity of the channel to the TUN writer (256)
    IdSpace,     \* NEXT_FRAG6_ID wraps here (2^32)
    MaxTime,     \* bound on the clock
    MaxEvents    \* bound on losses, closes, re-attachments and standby switches

MAX_PEER_DATAGRAM == 1500

ASSUME DataPlaneAssumption ==
    /\ MaxReassemblyEntries \in Nat \ {0} /\ ReassemblyTimeout \in Nat \ {0}
    /\ Info \in [Packet -> [version : {0, 4, 6}, len : 1..MAX_PEER_DATAGRAM, genuine : BOOLEAN]]
    /\ MaxDgram \subseteq 0..MAX_PEER_DATAGRAM /\ BufferSize \in Nat /\ ChannelSize \in Nat \ {0}
    /\ IdSpace \in Nat \ {0} /\ MaxTime \in Nat /\ MaxEvents \in Nat

VARIABLES
    unread,     \* packets the sender has not read yet
    routed,     \* the peer table has a route for their destination
    maxDgram,   \* current max_datagram_size of the connection
    open,       \* the connection is open
    nextId,     \* NEXT_FRAG6_ID
    sender,     \* what run_mesh has still to hand over, and for which packet
    buffer,     \* the connection's send buffer
    network,    \* datagrams under way
    partial,    \* the reader's Ipv6Reassembler
    now,        \* its clock
    holding,    \* the packet the reader is sending to the TUN writer
    channel,    \* the channel to the TUN writer
    attached,   \* a TUN writer is there
    active,     \* the data plane is not in standby
    written,    \* history: what reached the receiver's TUN
    parts,      \* history: datagrams a packet was to be sent as
    sent,       \* history: datagrams of it the connection took
    drops,      \* history: drops recorded for it by the sender
    evicted,    \* history: a send has pushed out a datagram already queued
    events      \* events left

vars == <<unread, routed, maxDgram, open, nextId, sender, buffer, network, partial, now,
          holding, channel, attached, active, written, parts, sent, drops, evicted, events>>
link == <<routed, maxDgram, open>>
receiver == <<partial, now, holding, channel, attached, active, written>>

IdleSender == [todo |-> <<>>, packet |-> "none", checked |-> FALSE]
Nothing == [from |-> "none", kind |-> "none", whole |-> TRUE]

\* A datagram: a whole IP packet or IPv4 fragment, or an envelope.
Plain(p) == [kind |-> "ip", id |-> 0, offset |-> 0, len |-> Info[p].len, more |-> FALSE, from |-> p]
V4Piece(p, f) == [kind |-> "ip", id |-> 0, offset |-> f.offset, len |-> f.len + HEADER_LEN,
                  more |-> f.more, from |-> p]
Envelope(p, f) == [kind |-> "frag6", id |-> f.id, offset |-> f.offset, len |-> f.len,
                   more |-> f.more, from |-> p]
WireLen(d) == IF d.kind = "frag6" THEN d.len + FRAG6_HEADER_LEN ELSE d.len

BytesIn(s) == FoldSeq(LAMBDA d, n : WireLen(d) + n, 0, s)
\* Slip: the configured size instead of what is left of it.
SpaceConfigured == BufferSize
Space == BufferSize - BytesIn(buffer)

\* Every variable has its type; buffers and maps are within their limits.
TypeOK ==
    /\ unread \subseteq Packet /\ routed \in BOOLEAN /\ maxDgram \in MaxDgram /\ open \in BOOLEAN
    /\ nextId \in 0..(IdSpace - 1) /\ now \in 0..MaxTime /\ events \in 0..MaxEvents
    /\ DOMAIN partial \subseteq 0..(IdSpace - 1)
    /\ Len(channel) <= ChannelSize
    /\ attached \in BOOLEAN /\ active \in BOOLEAN /\ evicted \in BOOLEAN
    /\ parts \in [Packet -> Nat] /\ sent \in [Packet -> Nat] /\ drops \in [Packet -> Nat]

Init ==
    /\ unread = Packet /\ routed = TRUE /\ maxDgram \in MaxDgram /\ open = TRUE
    /\ nextId = 0 /\ sender = IdleSender /\ buffer = <<>> /\ network = {}
    /\ partial = <<>> /\ now = 0 /\ holding = Nothing /\ channel = <<>>
    /\ attached = TRUE /\ active = TRUE /\ written = {}
    /\ parts = [p \in Packet |-> 0] /\ sent = parts /\ drops = parts
    /\ evicted = FALSE /\ events = MaxEvents

-----------------------------------------------------------------------------
\* The datagrams run_mesh makes of a packet with a route.
Datagrams(p, id) ==
    LET i == Info[p]
        cut4 == FragmentIpv4(i.len, FALSE, TRUE, 0, FALSE, maxDgram)
        cut6 == FragmentIpv6(i.len, id, maxDgram) IN
    IF i.len <= maxDgram THEN <<Plain(p)>>
    ELSE IF i.version = 4 THEN [k \in 1..Len(cut4) |-> V4Piece(p, cut4[k])]
    ELSE [k \in 1..Len(cut6) |-> Envelope(p, cut6[k])]

TakesId(p) == routed /\ maxDgram # 0 /\ Info[p].version = 6 /\ Info[p].len > maxDgram

\* Slip: a counter that is read and not advanced.
StaleFragId == nextId
\* fetch_add on an AtomicU32
NextFragId == (nextId + 1) % IdSpace

\* One round of run_mesh: what is not IP goes uncounted; no route, no datagrams,
\* and a packet that cannot be cut are drops; the rest is handed over.
ReadTun(p) ==
    LET ds == Datagrams(p, nextId) IN
    /\ sender.todo = <<>> /\ p \in unread
    /\ unread' = unread \ {p}
    /\ nextId' = IF TakesId(p) THEN NextFragId ELSE nextId
    /\ IF Info[p].version = 0 THEN UNCHANGED <<sender, parts, drops>>
       ELSE IF ~routed \/ maxDgram = 0 \/ ds = <<>>
       THEN drops' = [drops EXCEPT ![p] = @ + 1] /\ UNCHANGED <<sender, parts>>
       ELSE /\ sender' = [todo |-> ds, packet |-> p, checked |-> FALSE]
            /\ parts' = [parts EXCEPT ![p] = Len(ds)]
            /\ UNCHANGED drops
    /\ UNCHANGED <<link, buffer, network, receiver, sent, evicted, events>>

\* send_fragment_set, and the same test for a packet that needs no cutting: a
\* set the buffer cannot take whole is given up before its first datagram.
CheckSpace ==
    /\ sender.todo # <<>> /\ ~sender.checked
    /\ IF Space < BytesIn(sender.todo)
       THEN sender' = IdleSender /\ drops' = [drops EXCEPT ![sender.packet] = @ + 1]
       ELSE sender' = [sender EXCEPT !.checked = TRUE] /\ UNCHANGED drops
    /\ UNCHANGED <<unread, link, nextId, buffer, network, receiver, parts, sent, evicted, events>>

\* send_datagram: a closed connection refuses; a full buffer makes room by
\* dropping what has been queued longest.
MakeRoom(b, n) ==
    LET kept(k) == SubSeq(b, k + 1, Len(b))
    IN  kept(Min({k \in 0..Len(b) : k = Len(b) \/ BufferSize - BytesIn(kept(k)) >= n}))

\* One datagram: the space is looked at again, the rest of the set is given up
\* when it is gone, and a refused datagram is counted and the next one tried.
SendOne ==
    LET d == Head(sender.todo)
        rest == IF Len(sender.todo) = 1 THEN IdleSender
                ELSE [sender EXCEPT !.todo = Tail(@)]
        room == MakeRoom(buffer, WireLen(d)) IN
    /\ sender.todo # <<>> /\ sender.checked
    /\ IF Space < WireLen(d)
       THEN /\ sender' = IdleSender /\ drops' = [drops EXCEPT ![sender.packet] = @ + 1]
            /\ UNCHANGED <<buffer, sent, evicted>>
       ELSE IF ~open
       THEN /\ sender' = rest /\ drops' = [drops EXCEPT ![sender.packet] = @ + 1]
            /\ UNCHANGED <<buffer, sent, evicted>>
       ELSE /\ sender' = rest /\ sent' = [sent EXCEPT ![sender.packet] = @ + 1]
            /\ buffer' = Append(room, d) /\ evicted' = (evicted \/ room # buffer)
            /\ UNCHANGED drops
    /\ UNCHANGED <<unread, link, nextId, network, receiver, parts, events>>

-----------------------------------------------------------------------------
Event == events > 0 /\ events' = events - 1

\* The connection sends what it has queued.
Drain ==
    /\ buffer # <<>> /\ open
    /\ network' = network \cup {Head(buffer)} /\ buffer' = Tail(buffer)
    /\ UNCHANGED <<unread, link, nextId, sender, receiver, parts, sent, drops, evicted, events>>

Lose(d) ==
    /\ d \in network /\ Event
    /\ network' = network \ {d}
    /\ UNCHANGED <<unread, link, nextId, sender, buffer, receiver, parts, sent, drops, evicted>>

\* The route disappears and the connection closes, or its limit changes.
LinkChanges ==
    /\ Event
    /\ \/ open /\ open' = FALSE /\ buffer' = <<>> /\ UNCHANGED <<routed, maxDgram>>
       \/ ~open /\ routed /\ routed' = FALSE /\ UNCHANGED <<open, maxDgram, buffer>>
       \/ open /\ maxDgram' \in MaxDgram \ {maxDgram} /\ UNCHANGED <<open, routed, buffer>>
    /\ UNCHANGED <<unread, nextId, sender, network, receiver, parts, sent, drops, evicted>>

Tick ==
    /\ now < MaxTime /\ now' = now + 1
    /\ UNCHANGED <<unread, link, nextId, sender, buffer, network, partial, holding, channel,
                   attached, active, written, parts, sent, drops, evicted, events>>

\* evaluate_inbound: a parsable packet whose source is the peer's own address.
EvaluateInbound(p, len) ==
    IF len > MAX_PEER_DATAGRAM \/ Info[p].version = 0 THEN "DropMalformed"
    ELSE IF ~Info[p].genuine THEN "DropSpoof" ELSE "Accept"

\* What the packets of one round are: the reassembled one is described by the
\* packet its first chunk belongs to, and is whole when all chunks do.
Assembled(chunks) ==
    LET p == chunks[0].from IN
    [from |-> p, kind |-> "packet",
     whole |-> /\ \A o \in DOMAIN chunks : chunks[o].from = p
               /\ \E o \in DOMAIN chunks : o + chunks[o].len = Info[p].len]
AsReceived(d) == [from |-> d.from, kind |-> IF d.len = Info[d.from].len THEN "packet" ELSE "piece",
                  whole |-> TRUE]

\* One round of spawn_peer_reader up to the channel to the TUN writer.
Receive(d) ==
    /\ d \in network /\ holding = Nothing
    /\ network' = network \ {d}
    /\ IF d.kind = "ip"
       THEN /\ holding' = IF EvaluateInbound(d.from, d.len) = "Accept" THEN AsReceived(d) ELSE Nothing
            /\ UNCHANGED partial
       ELSE \E r \in AcceptFragment(partial, d, now) :
            /\ partial' = r.partial
            /\ holding' = IF r.outcome = "Complete"
                             /\ EvaluateInbound(r.chunks[0].from, Info[r.chunks[0].from].len) = "Accept"
                          THEN Assembled(r.chunks) ELSE Nothing
    /\ UNCHANGED <<unread, link, nextId, sender, buffer, now, channel, attached, active, written,
                   parts, sent, drops, evicted, events>>

\* Slip: the reader waits for a writer to be attached.
PassOnAttached ==
    /\ holding # Nothing /\ attached /\ Len(channel) < ChannelSize
    /\ channel' = Append(channel, holding)
    /\ holding' = Nothing
    /\ UNCHANGED <<unread, link, nextId, sender, buffer, network, partial, now, attached, active,
                   written, parts, sent, drops, evicted, events>>

\* The reader's send: it waits for a place in the channel, and loses the packet
\* when no writer is there.
PassOn ==
    /\ holding # Nothing /\ (attached => Len(channel) < ChannelSize)
    /\ channel' = IF attached THEN Append(channel, holding) ELSE channel
    /\ holding' = Nothing
    /\ UNCHANGED <<unread, link, nextId, sender, buffer, network, partial, now, attached, active,
                   written, parts, sent, drops, evicted, events>>

\* spawn_tun_writer: in standby the channel is drained all the same.
WriteTun ==
    /\ attached /\ channel # <<>>
    /\ channel' = Tail(channel)
    /\ written' = IF active THEN written \cup {Head(channel)} ELSE written
    /\ UNCHANGED <<unread, link, nextId, sender, buffer, network, partial, now, holding, attached,
                   active, parts, sent, drops, evicted, events>>

\* attach_tun and detach_tun swap the writer and its channel, attach_tun also
\* when one is attached; activate and deactivate flip the gate.
SwitchTun ==
    /\ Event
    /\ \/ attached' \in BOOLEAN /\ (attached \/ attached') /\ channel' = <<>> /\ UNCHANGED active
       \/ active' = ~active /\ UNCHANGED <<attached, channel>>
    /\ UNCHANGED <<unread, link, nextId, sender, buffer, network, partial, now, holding, written,
                   parts, sent, drops, evicted>>

-----------------------------------------------------------------------------
Next ==
    \/ \E p \in Packet : ReadTun(p)
    \/ CheckSpace \/ SendOne \/ Drain \/ LinkChanges \/ Tick \/ PassOn \/ WriteTun \/ SwitchTun
    \/ \E d \in network : Lose(d) \/ Receive(d)

\* The loops run, and a connection sends what it queues while it is open.
Fairness ==
    /\ WF_vars(\E p \in Packet : ReadTun(p)) /\ WF_vars(CheckSpace) /\ WF_vars(SendOne)
    /\ WF_vars(Drain) /\ WF_vars(\E d \in network : Receive(d))
    /\ WF_vars(PassOn) /\ WF_vars(WriteTun)

Spec == Init /\ [][Next]_vars /\ Fairness

-----------------------------------------------------------------------------
\* Whatever is lost or overtaken on the way, nothing but whole packets and
\* pieces of one packet reaches the peer's TUN: the reassembler never joins
\* envelopes of two packets, since NEXT_FRAG6_ID tells their sets apart.
OnlyWholePackets == \A w \in written : w.whole

\* A packet with a source address that is not the peer's never reaches the TUN,
\* fragmented or not: the check sees the reassembled packet.
OnlyGenuineSources == \A w \in written : Info[w.from].genuine

\* No packet with a valid header is lost without a trace by the sender: when
\* run_mesh has dealt with it, the connection has taken all its datagrams or a
\* drop has been recorded.
SentWholeOrCounted ==
    \A p \in Packet \ unread :
        (Info[p].version # 0 /\ sender.packet # p) =>
            drops[p] > 0 \/ (parts[p] > 0 /\ sent[p] = parts[p])

\* Drop-newest: handing a datagram over never pushes out one already queued,
\* although the buffer is looked at before and not while it is used.
NeverEvicts == ~evicted

\* A peer that opens fragment sets and never completes them fills no memory:
\* the reassembler keeps a bounded number of sets of bounded packets.
ReassemblyBounded ==
    /\ Cardinality(DOMAIN partial) <= MaxReassemblyEntries
    /\ \A i \in DOMAIN partial : \A o \in DOMAIN partial[i].chunks :
           o + partial[i].chunks[o].len <= MAX_REASSEMBLED_IPV6_PACKET

\* The receiver holds its ground whatever arrives in whatever order: what reaches
\* its TUN is whole and the peer's own, and what it keeps meanwhile is bounded
\* (spawn_peer_reader, Ipv6Reassembler).
ReceiverSound == OnlyWholePackets /\ OnlyGenuineSources /\ ReassemblyBounded

\* Nothing is lost at the sender without a count, neither what it cannot send nor
\* what it has queued (run_mesh, send_fragment_set).
SenderSound == SentWholeOrCounted /\ NeverEvicts

\* The reader never gets stuck behind the TUN: a packet it holds is passed on or
\* given up, through standby, detach and a full channel.
ReaderKeepsReading == (holding # Nothing) ~> (holding = Nothing)

\* Both loops get to the end of their work: every packet is read and every
\* datagram that is not lost is received.
AllHandled == <>(unread = {} /\ sender.todo = <<>> /\ (open => buffer = <<>>) /\ network = {})

\* Both ends come to the end of their work, through standby, detach, a full
\* channel and a closed connection (run_mesh, spawn_peer_reader, spawn_tun_writer).
BothFinish == ReaderKeepsReading /\ AllHandled

\* forward.rs: "One `Backpressure` drop is recorded for the abandoned packet,
\* never one per fragment: `stats` counts packets throughout".
OneDropPerPacket == \A p \in Packet : drops[p] <= 1
=============================================================================
