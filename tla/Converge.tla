------------------------------ MODULE Converge ------------------------------
(***************************************************************************)
(* How the nodes of one tetron network agree on its roster.                *)
(*                                                                         *)
(* Every node holds a NetworkState.  Holders of the shared network key     *)
(* ("coordinators") mutate theirs and publish a signed record of it to a   *)
(* pkarr relay; every node polls the record and adopts the blob it signs.  *)
(* The model keeps each task of the daemon as a process of its own with    *)
(* the lock scopes and awaits of the source as its step boundaries: what   *)
(* one task reads before an await may be stale when it writes after it.    *)
(*                                                                         *)
(*   mesh/publish.rs     publisher (notify driven) and lazy publisher      *)
(*   mesh/reconverge.rs  group poller and reconverge worker                *)
(*   mesh/accept.rs      redeeming an invite and admitting a joiner        *)
(*   mesh/coordinator.rs kick and the clean-up of a closed connection      *)
(*   mesh/runtime.rs     nuke, leave, restore after a restart              *)
(*   mesh/create_join.rs joining, restoring as a member                    *)
(***************************************************************************)
EXTENDS GroupBlob

CONSTANTS
    KeyHolder,   \* nodes holding the network secret key
    Lazy,        \* key holders promoted at run time: they run the lazy publisher
    Founders,    \* members of the roster the behaviours start from
    FirstInvites,\* single-use invites it lists
    BaseGen,     \* generation of that roster
    Threshold,   \* nuke_consensus_threshold
    Ops,         \* operations of the environment this instance has
    MaxOps       \* bound on how many of them a behaviour takes

OpNames == {"invite", "join", "deny", "kick", "leave", "stamp", "nuke", "restart",
            "hint", "gossip", "resolve_fails", "fetch_fails", "publish_fails"}

ASSUME ConvergeAssumption ==
    /\ KeyHolder \subseteq Founders /\ Founders \subseteq Node
    /\ Lazy \subseteq KeyHolder /\ FirstInvites \subseteq Invite
    /\ BaseGen \in Nat \ {0} /\ Threshold \in Nat \ {0, 1} /\ MaxOps \in Nat
    /\ Ops \subseteq OpNames

VARIABLES
    state,      \* NetworkState of every node: generation, roster, invites, proposals
    snapshot,   \* NetworkState.snapshot: the blob refresh_snapshot last hashed
    status,     \* life of the network on a node
    saved,      \* roster in the node's config file ({}: no file)
    dht,        \* the signed record at the relay
    publisher,  \* the publisher task of every node
    lazy,       \* key holders whose publisher is the lazy one
    published,  \* last_published of the lazy publisher
    poller,     \* the group poller task
    worker,     \* the reconverge worker task
    pending,    \* roster edits made whose update_snapshot_and_publish is still due
    nuking,     \* the tombstone a nuke_network call is about to publish
    leaving,    \* messages in left_tx that the daemon loop has not handled
    closes,     \* <<c, n>>: LEAVE_CODE close from n that c's clean-up has not handled
    join,       \* the join in progress of a node that is not in the network
    approvals,  \* <<m, j>>: MemberApproved about j that m has not received
    approved,   \* NetworkState.approved of the plain members
    minted,     \* invites ever created (their secrets are random, so fresh)
    budget,     \* operations left
    signed,     \* history: every blob the record has ever signed
    admitted,   \* history: nodes a coordinator has admitted against an invite
    proposed,   \* history: coordinators that have called for a nuke
    dropped     \* history: nodes a coordinator has taken off its roster

vars == <<state, snapshot, status, saved, dht, publisher, lazy, published, poller,
          worker, pending, nuking, leaving, closes, join, approvals, approved,
          minted, budget, signed, admitted, proposed, dropped>>

\* What most steps leave alone.
history == <<minted, signed, admitted, proposed, dropped>>
rest == <<approvals, approved, history>>

Statuses == {"out", "restoring", "up", "left"}
Idle == [pc |-> "idle", blob |-> NoRecord]
IdleReader == [pc |-> "idle", current |-> NoRecord, data |-> NoRecord]
NoJoin == [pc |-> "none", blob |-> NoRecord, coord |-> NoRecord, invite |-> NoRecord]
MaybeBlob == Blob \cup {NoRecord}

NodesOK ==
    /\ state \in [Node -> Blob]
    /\ snapshot \in [Node -> Blob]
    /\ status \in [Node -> Statuses]
    /\ saved \in [Node -> SUBSET Node]

RecordOK ==
    /\ dht \in Blob
    /\ publisher \in [Node -> [pc : {"idle", "guard", "publish"}, blob : MaybeBlob]]
    /\ \A n \in Node : publisher[n].pc # "idle" => publisher[n].blob \in Blob
    /\ lazy \subseteq KeyHolder
    /\ published \in [Node -> MaybeBlob]

PollerOK ==
    /\ poller \in [Node -> [pc : {"idle", "resolve", "apply", "stopped"},
                            current : MaybeBlob, data : MaybeBlob]]
    /\ \A n \in Node : /\ poller[n].pc = "resolve" => poller[n].current \in Blob
                       /\ poller[n].pc = "apply" => poller[n].data \in Blob

WorkerOK ==
    /\ worker \in [Node -> [pc : {"idle", "resolve", "check", "apply"},
                            current : MaybeBlob, data : MaybeBlob]]
    /\ \A n \in Node : worker[n].pc \in {"check", "apply"} => worker[n].data \in Blob

DutiesOK ==
    /\ pending \in [Node -> Nat]
    /\ nuking \in [Node -> MaybeBlob]
    /\ leaving \in [Node -> Nat]
    /\ closes \subseteq Node \X Node

JoinOK ==
    /\ join \in [Node -> [pc : {"none", "fetched", "redeemed", "welcomed"}, blob : MaybeBlob,
                          coord : Node \cup {NoRecord}, invite : Invite \cup {NoRecord}]]
    /\ \A n \in Node : /\ join[n].pc # "none" => join[n].blob \in Blob
                       /\ join[n].pc = "redeemed" =>
                              join[n].coord \in Node /\ join[n].invite \in Invite

GossipOK == approvals \subseteq Node \X Node /\ approved \in [Node -> SUBSET Node]

HistoryOK ==
    /\ minted \subseteq Invite /\ signed \subseteq Blob
    /\ admitted \subseteq Node /\ proposed \subseteq Node /\ dropped \subseteq Node

BudgetOK == budget \in 0..MaxOps

\* Every variable has its type, and a task past an await holds what it awaited.
TypeOK ==
    /\ NodesOK /\ RecordOK /\ PollerOK /\ WorkerOK /\ DutiesOK /\ JoinOK /\ GossipOK
    /\ HistoryOK /\ BudgetOK

-----------------------------------------------------------------------------
\* A network that has been created and joined by its founders: everyone has
\* adopted the published blob.
FoundingBlob ==
    [generation |-> BaseGen, members |-> Founders, invites |-> FirstInvites,
     proposals |-> {}]

\* A node outside the network has no NetworkState.
NoState == Tombstone(0)

Init ==
    /\ state = [n \in Node |-> IF n \in Founders THEN FoundingBlob ELSE NoState]
    /\ snapshot = state
    /\ status = [n \in Node |-> IF n \in Founders THEN "up" ELSE "out"]
    /\ saved = [n \in Node |-> IF n \in Founders THEN Founders ELSE {}]
    /\ dht = FoundingBlob
    /\ publisher = [n \in Node |-> Idle]
    /\ lazy = Lazy
    /\ published = [n \in Node |-> NoRecord]
    /\ poller = [n \in Node |-> IdleReader]
    /\ worker = [n \in Node |-> IdleReader]
    /\ pending = [n \in Node |-> 0]
    /\ nuking = [n \in Node |-> NoRecord]
    /\ leaving = [n \in Node |-> 0]
    /\ closes = {}
    /\ join = [n \in Node |-> NoJoin]
    /\ approvals = {}
    /\ approved = [n \in Node |-> {}]
    /\ minted = FirstInvites
    /\ budget = MaxOps
    /\ signed = {FoundingBlob}
    /\ admitted = {} /\ proposed = {} /\ dropped = {}

\* An operation of a user, or a failure: there are at most MaxOps of them.
Spend(op) == op \in Ops /\ budget > 0 /\ budget' = budget - 1

Up(n) == status[n] = "up"
Coordinator(c) == c \in KeyHolder /\ Up(c)

\* refresh_snapshot under the state's write lock.
SetState(n, s) ==
    /\ state' = [state EXCEPT ![n] = s]
    /\ snapshot' = [snapshot EXCEPT ![n] = s]

\* dht::publish_network: the relay keeps the latest signed packet.
Write(blob) ==
    /\ dht' = blob
    /\ signed' = signed \cup {blob}

\* dht::resolve_network: the record, or an error the callers do not tell from
\* "no record".
Resolve(r) ==
    \/ r = dht /\ UNCHANGED budget
    \/ r = NoRecord /\ Spend("resolve_fails")

-----------------------------------------------------------------------------
(* The publisher task: spawn_network_publisher and spawn_lazy_publisher.   *)

\* One turn starts: generation and hash are read under the state's lock.  The
\* lazy publisher skips the turn when it has published this hash before.
PublisherCapture(n) ==
    /\ Coordinator(n)
    /\ publisher[n].pc = "idle"
    /\ n \in lazy => published[n] # snapshot[n]
    /\ publisher' = [publisher EXCEPT ![n] = [pc |-> "guard", blob |-> snapshot[n]]]
    /\ UNCHANGED <<state, snapshot, status, saved, dht, lazy, published, poller, worker,
                   pending, nuking, leaving, closes, join, budget, rest>>

\* A restoring coordinator runs the guard once, in seal_and_publish, before its
\* tasks start; it saves the roster to config and comes up when that is done.
Sealed(n) ==
    IF status[n] = "restoring"
    THEN /\ status' = [status EXCEPT ![n] = "up"]
         /\ saved' = [saved EXCEPT ![n] = state[n].members]
    ELSE UNCHANGED <<status, saved>>

\* dht_read_before_write lets the captured blob through to publish_network.
PublisherGuardPasses(n) ==
    /\ publisher[n].pc = "guard"
    /\ \E r \in {dht, NoRecord} :
          Resolve(r) /\ dht_read_before_write(publisher[n].blob, r)
    /\ publisher' = [publisher EXCEPT ![n].pc = "publish"]
    /\ UNCHANGED <<state, snapshot, status, saved, dht, lazy, published, poller, worker,
                   pending, nuking, leaving, closes, join, rest>>

\* dht_read_before_write defers: the turn ends without a write.
PublisherGuardDefers(n) ==
    /\ publisher[n].pc = "guard"
    /\ ~ dht_read_before_write(publisher[n].blob, dht)
    /\ publisher' = [publisher EXCEPT ![n] = Idle]
    /\ Sealed(n)
    /\ UNCHANGED <<state, snapshot, dht, lazy, published, poller, worker, pending,
                   nuking, leaving, closes, join, budget, rest>>

\* publish_network succeeds.  A task whose network was torn down meanwhile is
\* only cancelled at its next select, so its write still lands.
PublisherPublish(n) ==
    /\ publisher[n].pc = "publish"
    /\ Write(publisher[n].blob)
    /\ published' = [published EXCEPT ![n] = IF n \in lazy THEN publisher[n].blob ELSE @]
    /\ publisher' = [publisher EXCEPT ![n] = Idle]
    /\ Sealed(n)
    /\ UNCHANGED <<state, snapshot, lazy, poller, worker, pending, nuking, leaving,
                   closes, join, budget, approvals, approved, minted, admitted,
                   proposed, dropped>>

\* publish_network fails: logged, and the turn ends.
PublisherPublishFails(n) ==
    /\ publisher[n].pc = "publish"
    /\ Spend("publish_fails")
    /\ publisher' = [publisher EXCEPT ![n] = Idle]
    /\ Sealed(n)
    /\ UNCHANGED <<state, snapshot, dht, lazy, published, poller, worker, pending,
                   nuking, leaving, closes, join, rest>>

-----------------------------------------------------------------------------
(* The group poller: spawn_group_poller.                                   *)

\* A tick: the current generation and hash are read under the lock.
PollerTick(n) ==
    /\ Up(n)
    /\ poller[n].pc = "idle"
    /\ poller' = [poller EXCEPT ![n] =
                     [pc |-> "resolve", current |-> snapshot[n], data |-> NoRecord]]
    /\ UNCHANGED <<state, snapshot, status, saved, dht, publisher, lazy, published,
                   worker, pending, nuking, leaving, closes, join, budget, rest>>

\* The record is resolved and compared with what was current before the await.
PollerResolve(n) ==
    /\ poller[n].pc = "resolve"
    /\ \E r \in {dht, NoRecord} :
          /\ Resolve(r)
          /\ poller' = [poller EXCEPT ![n] =
                IF r # NoRecord /\ poller_should_fetch(r, poller[n].current)
                THEN [pc |-> "apply", current |-> NoRecord, data |-> r]
                ELSE IdleReader]
    /\ UNCHANGED <<state, snapshot, status, saved, dht, publisher, lazy, published,
                   worker, pending, nuking, leaving, closes, join, rest>>

\* fetch_verified_blob finds the bytes at no peer; a tombstone needs no peer.
PollerFetchFails(n) ==
    /\ poller[n].pc = "apply"
    /\ ~ try_decode_tombstone(poller[n].data)
    /\ Spend("fetch_fails")
    /\ poller' = [poller EXCEPT ![n] = IdleReader]
    /\ UNCHANGED <<state, snapshot, status, saved, dht, publisher, lazy, published,
                   worker, pending, nuking, leaving, closes, join, rest>>

\* The fetched roster lists this node: it replaces the local one, whatever
\* happened to the local one since the tick, and is saved.
PollerApply(n) ==
    /\ poller[n].pc = "apply"
    /\ ~ member_removed(poller[n].data, n)
    /\ SetState(n, Adopted(state[n], poller[n].data))
    /\ saved' = [saved EXCEPT ![n] = poller[n].data.members]
    /\ poller' = [poller EXCEPT ![n] = IdleReader]
    /\ approved' = [approved EXCEPT ![n] = {}]
    /\ UNCHANGED <<status, dht, publisher, lazy, published, worker, pending, nuking,
                   leaving, closes, join, budget, approvals, history>>

\* A slip: the poller stops, and tells nobody.
PollerStopsSilently(n) ==
    /\ poller[n].pc = "apply"
    /\ member_removed(poller[n].data, n)
    /\ poller' = [poller EXCEPT ![n] = [IdleReader EXCEPT !.pc = "stopped"]]
    /\ UNCHANGED <<state, snapshot, status, saved, dht, publisher, lazy, published,
                   worker, pending, nuking, leaving, closes, join, budget, rest>>

\* The fetched roster does not list this node: signal the daemon loop and stop.
PollerRemoved(n) ==
    /\ poller[n].pc = "apply"
    /\ member_removed(poller[n].data, n)
    /\ leaving' = [leaving EXCEPT ![n] = @ + 1]
    /\ poller' = [poller EXCEPT ![n] = [IdleReader EXCEPT !.pc = "stopped"]]
    /\ UNCHANGED <<state, snapshot, status, saved, dht, publisher, lazy, published,
                   worker, pending, nuking, closes, join, budget, rest>>

-----------------------------------------------------------------------------
(* The reconverge worker of a joined node: spawn_reconverge_worker and     *)
(* reconverge_and_apply.  A MemberSync or BlobUpdated hint may come at any *)
(* time.  A coordinator that created or restored the network has none.     *)

WorkerStart(n) ==
    /\ Up(n) /\ (n \notin KeyHolder \/ n \in lazy)
    /\ worker[n].pc = "idle"
    /\ Spend("hint")
    /\ worker' = [worker EXCEPT ![n] =
                     [pc |-> "resolve", current |-> snapshot[n], data |-> NoRecord]]
    /\ UNCHANGED <<state, snapshot, status, saved, dht, publisher, lazy, published,
                   poller, pending, nuking, leaving, closes, join, rest>>

WorkerResolve(n) ==
    /\ worker[n].pc = "resolve"
    /\ \E r \in {dht, NoRecord} :
          /\ Resolve(r)
          /\ worker' = [worker EXCEPT ![n] =
                IF r # NoRecord /\ trusted_reconverge_hash(worker[n].current, r)
                THEN [pc |-> "check", current |-> NoRecord, data |-> r]
                ELSE IdleReader]
    /\ UNCHANGED <<state, snapshot, status, saved, dht, publisher, lazy, published,
                   poller, pending, nuking, leaving, closes, join, rest>>

WorkerFetchFails(n) ==
    /\ worker[n].pc = "check"
    /\ ~ try_decode_tombstone(worker[n].data)
    /\ Spend("fetch_fails")
    /\ worker' = [worker EXCEPT ![n] = IdleReader]
    /\ UNCHANGED <<state, snapshot, status, saved, dht, publisher, lazy, published,
                   poller, pending, nuking, leaving, closes, join, rest>>

\* After the fetch: self-removal first, then the generation, each under a lock
\* of its own.
WorkerCheck(n) ==
    /\ worker[n].pc = "check"
    /\ LET data == worker[n].data IN
        /\ leaving' = [leaving EXCEPT ![n] = @ + IF member_removed(data, n) THEN 1 ELSE 0]
        /\ worker' = [worker EXCEPT ![n] =
              IF member_removed(data, n) \/ data.generation < state[n].generation
              THEN IdleReader
              ELSE [@ EXCEPT !.pc = "apply"]]
    /\ UNCHANGED <<state, snapshot, status, saved, dht, publisher, lazy, published,
                   poller, pending, nuking, closes, join, budget, rest>>

WorkerApply(n) ==
    /\ worker[n].pc = "apply"
    /\ SetState(n, Adopted(state[n], worker[n].data))
    /\ saved' = [saved EXCEPT ![n] = worker[n].data.members]
    /\ worker' = [worker EXCEPT ![n] = IdleReader]
    /\ approved' = [approved EXCEPT ![n] = {}]
    /\ UNCHANGED <<status, dht, publisher, lazy, published, poller, pending, nuking,
                   leaving, closes, join, budget, approvals, history>>

-----------------------------------------------------------------------------
(* Mutations of a coordinator's state.  Each bumps the generation; the     *)
(* publisher is notified, or finds the new hash at its next turn.          *)

\* invite_create: a fresh single-use invite.
invite_create(c, i) ==
    /\ Coordinator(c) /\ Spend("invite")
    /\ i \notin minted /\ minted' = minted \cup {i}
    /\ SetState(c, Bumped([state[c] EXCEPT !.invites = @ \cup {i}]))
    /\ UNCHANGED <<status, saved, dht, publisher, lazy, published, poller, worker,
                   pending, nuking, leaving, closes, join, approvals, approved, signed,
                   admitted, proposed, dropped>>

\* kick_member: the roster is edited under one lock ...
kick_member(c, m) ==
    /\ Coordinator(c) /\ Spend("kick")
    /\ m \in state[c].members \ {c}
    /\ state' = [state EXCEPT ![c].members = @ \ {m}]
    /\ pending' = [pending EXCEPT ![c] = @ + 1]
    /\ dropped' = dropped \cup {m}
    /\ UNCHANGED <<snapshot, status, saved, dht, publisher, lazy, published, poller,
                   worker, nuking, leaving, closes, join, approvals, approved, minted,
                   signed, admitted, proposed>>

\* ... and so is it when the clean-up task sees a LEAVE_CODE close, whether or
\* not the leaver was still listed ...
CleanupLeft(c, m) ==
    /\ Coordinator(c)
    /\ <<c, m>> \in closes
    /\ closes' = closes \ {<<c, m>>}
    /\ state' = [state EXCEPT ![c].members = @ \ {m}]
    /\ pending' = [pending EXCEPT ![c] = @ + 1]
    /\ dropped' = dropped \cup {m}
    /\ UNCHANGED <<snapshot, status, saved, dht, publisher, lazy, published, poller,
                   worker, nuking, leaving, join, budget, approvals, approved, minted,
                   signed, admitted, proposed>>

\* ... or stamps last_seen after any other close (a field the model drops) ...
CleanupStamp(c, m) ==
    /\ Coordinator(c) /\ Spend("stamp")
    /\ m \in state[c].members \ {c}
    /\ pending' = [pending EXCEPT ![c] = @ + 1]
    /\ UNCHANGED <<state, snapshot, status, saved, dht, publisher, lazy, published,
                   poller, worker, nuking, leaving, closes, join, rest>>

\* A slip: a refresh that no edit asked for.
SpuriousRefresh(c) ==
    /\ Up(c)
    /\ SetState(c, Bumped(state[c]))
    /\ pending' = [pending EXCEPT ![c] = @ - 1]
    /\ UNCHANGED <<status, saved, dht, publisher, lazy, published, poller, worker,
                   nuking, leaving, closes, join, budget, rest>>

\* ... and the generation is bumped under the next one.
update_snapshot_and_publish(c) ==
    /\ Up(c) /\ pending[c] > 0
    /\ SetState(c, Bumped(state[c]))
    /\ pending' = [pending EXCEPT ![c] = @ - 1]
    /\ UNCHANGED <<status, saved, dht, publisher, lazy, published, poller, worker,
                   nuking, leaving, closes, join, budget, rest>>

-----------------------------------------------------------------------------
(* A node joins: join_network_inner on its side, redeem_invite_and_admit   *)
(* on the coordinator's.                                                   *)

\* The joiner fetches the signed blob to learn whom to dial.
JoinFetch(j) ==
    /\ status[j] \in {"out", "left"} /\ join[j] = NoJoin
    /\ j \notin KeyHolder
    /\ Spend("join")
    /\ dht.members \cap KeyHolder # {}
    /\ join' = [join EXCEPT ![j] = [NoJoin EXCEPT !.pc = "fetched", !.blob = dht]]
    /\ UNCHANGED <<state, snapshot, status, saved, dht, publisher, lazy, published,
                   poller, worker, pending, nuking, leaving, closes, rest>>

\* The dialled coordinator does not know the joiner, and burns its invite.
RedeemInvite(c, j, i) ==
    /\ Coordinator(c)
    /\ join[j].pc = "fetched" /\ c \in join[j].blob.members
    /\ j \notin state[c].members
    /\ i \in state[c].invites
    /\ SetState(c, Bumped([state[c] EXCEPT !.invites = @ \ {i}]))
    /\ join' = [join EXCEPT ![j].pc = "redeemed", ![j].coord = c, ![j].invite = i]
    /\ UNCHANGED <<status, saved, dht, publisher, lazy, published, poller, worker,
                   pending, nuking, leaving, closes, budget, rest>>

\* The plain members that get a coordinator's broadcast; none in an instance
\* without gossip, where it is always lost.
ConnectedMembers == {m \in Node \ KeyHolder : Up(m) /\ "gossip" \in Ops}

\* admit_peer adds the joiner, tells the members, and answers with the roster.  The joiner builds its
\* state from that roster and from the blob it fetched before it was admitted.
admit_peer(c, j) ==
    /\ Coordinator(c)
    /\ join[j].pc = "redeemed" /\ join[j].coord = c
    /\ SetState(c, Bumped([state[c] EXCEPT !.members = @ \cup {j}]))
    /\ join' = [join EXCEPT ![j].pc = "welcomed",
                            ![j].blob = [@ EXCEPT !.members = state[c].members \cup {j}]]
    /\ approvals' = approvals \cup {<<m, j>> : m \in ConnectedMembers}
    /\ admitted' = admitted \cup {j}
    /\ UNCHANGED <<status, saved, dht, publisher, lazy, published, poller, worker,
                   pending, nuking, leaving, closes, budget, approved, minted, signed,
                   proposed, dropped>>

\* A slip: the joiner is listed before it is validated, and stays when denied.
DeniedButListed(c, j) ==
    /\ Coordinator(c) /\ Spend("deny")
    /\ join[j].pc = "redeemed" /\ join[j].coord = c
    /\ SetState(c, Bumped([state[c] EXCEPT !.invites = @ \cup {join[j].invite},
                                           !.members = @ \cup {j}]))
    /\ join' = [join EXCEPT ![j] = NoJoin]
    /\ UNCHANGED <<status, saved, dht, publisher, lazy, published, poller, worker,
                   pending, nuking, leaving, closes, rest>>

\* validate_admission denies the join: the invite is restored.
DenyPeer(c, j) ==
    /\ Coordinator(c) /\ Spend("deny")
    /\ join[j].pc = "redeemed" /\ join[j].coord = c
    /\ SetState(c, Bumped([state[c] EXCEPT !.invites = @ \cup {join[j].invite}]))
    /\ join' = [join EXCEPT ![j] = NoJoin]
    /\ UNCHANGED <<status, saved, dht, publisher, lazy, published, poller, worker,
                   pending, nuking, leaving, closes, rest>>

\* A slip: the joiner comes up on the roster it fetched, before it is welcomed.
JoinEager(j) ==
    /\ join[j].pc = "redeemed"
    /\ SetState(j, join[j].blob)
    /\ status' = [status EXCEPT ![j] = "up"]
    /\ saved' = [saved EXCEPT ![j] = join[j].blob.members]
    /\ join' = [join EXCEPT ![j] = NoJoin]
    /\ UNCHANGED <<dht, publisher, lazy, published, poller, worker, pending, nuking,
                   leaving, closes, budget, rest>>

\* build_member_state, persist_join_config: the joiner comes up.
JoinWelcomed(j) ==
    /\ join[j].pc = "welcomed"
    /\ SetState(j, join[j].blob)
    /\ status' = [status EXCEPT ![j] = "up"]
    /\ saved' = [saved EXCEPT ![j] = join[j].blob.members]
    /\ join' = [join EXCEPT ![j] = NoJoin]
    /\ UNCHANGED <<dht, publisher, lazy, published, poller, worker, pending, nuking,
                   leaving, closes, budget, rest>>

\* MemberApproved reaches a member, in no order with what else it hears.
MemberApproved(m, j) ==
    /\ Up(m) /\ <<m, j>> \in approvals
    /\ approvals' = approvals \ {<<m, j>>}
    /\ approved' = [approved EXCEPT ![m] = @ \cup {j}]
    /\ UNCHANGED <<state, snapshot, status, saved, dht, publisher, lazy, published,
                   poller, worker, pending, nuking, leaving, closes, join, budget, history>>

\* The joiner says MeshHello to a member of its roster that has it approved: the
\* member seats it in its own roster and bumps its own generation.
admit_approved_member(m, j) ==
    /\ Up(m) /\ Up(j) /\ m \in state[j].members
    /\ j \in approved[m]
    /\ approved' = [approved EXCEPT ![m] = @ \ {j}]
    /\ IF j \in state[m].members
       THEN UNCHANGED <<state, snapshot>>
       ELSE SetState(m, Bumped([state[m] EXCEPT !.members = @ \cup {j}]))
    /\ UNCHANGED <<status, saved, dht, publisher, lazy, published, poller, worker, pending,
                   nuking, leaving, closes, join, budget, approvals, history>>

\* No coordinator of the fetched blob admits the joiner: the join fails.
JoinFails(j) ==
    /\ \/ join[j].pc = "fetched"
       \/ join[j].pc = "redeemed" /\ ~ Up(join[j].coord)
    /\ join' = [join EXCEPT ![j] = NoJoin]
    /\ UNCHANGED <<state, snapshot, status, saved, dht, publisher, lazy, published,
                   poller, worker, pending, nuking, leaving, closes, budget, rest>>

-----------------------------------------------------------------------------
(* Leaving, nuking, restarting.                                            *)

\* n's connections and their unread messages are gone, and so is its approved list.
Unheard(n) ==
    /\ approvals' = {e \in approvals : e[1] # n}
    /\ approved' = [approved EXCEPT ![n] = {}]

\* leave_network(force) on n: close every connection with LEAVE_CODE (the
\* coordinators in `told` receive it), cancel the tasks, delete the config.
\* The publisher task is not aborted: a turn that has begun runs to its end.
Teardown(n, told) ==
    /\ SetState(n, NoState)
    /\ closes' = closes \cup {<<c, n>> : c \in told}
    /\ status' = [status EXCEPT ![n] = "left"]
    /\ saved' = [saved EXCEPT ![n] = {}]
    /\ poller' = [poller EXCEPT ![n] = IdleReader]
    /\ worker' = [worker EXCEPT ![n] = IdleReader]
    /\ pending' = [pending EXCEPT ![n] = 0]
    /\ nuking' = [nuking EXCEPT ![n] = NoRecord]
    /\ Unheard(n)

ConnectedCoordinators(n) == {c \in KeyHolder \ {n} : Up(c)}

\* handle_removed_from_network: the daemon loop takes a message from left_rx and
\* leaves the network it names, if that is there (still, or again).
handle_removed_from_network(n) ==
    /\ status[n] # "restoring" /\ leaving[n] > 0
    /\ leaving' = [leaving EXCEPT ![n] = @ - 1]
    /\ IF Up(n)
       THEN \E told \in SUBSET ConnectedCoordinators(n) : Teardown(n, told)
       ELSE UNCHANGED <<state, snapshot, closes, status, saved, poller, worker, pending,
                        nuking, approvals, approved>>
    /\ UNCHANGED <<dht, publisher, lazy, published, join, budget, history>>

\* tetron leave.
leave_network(n) ==
    /\ Up(n) /\ Spend("leave")
    /\ \E told \in SUBSET ConnectedCoordinators(n) : Teardown(n, told)
    /\ UNCHANGED <<leaving, dht, publisher, lazy, published, join, history>>

\* nuke_network while the caller's roster lists no other coordinator: the
\* tombstone's generation is read under the lock, the write follows an await.
NukeSolo(c) ==
    /\ Coordinator(c) /\ nuking[c] = NoRecord
    /\ Spend("nuke")
    /\ c \in state[c].members /\ coordinator_count(state[c].members, KeyHolder) <= 1
    /\ nuking' = [nuking EXCEPT ![c] = Tombstone(state[c].generation + 1)]
    /\ proposed' = proposed \cup {c}
    /\ UNCHANGED <<state, snapshot, status, saved, dht, publisher, lazy, published,
                   poller, worker, pending, leaving, closes, join, approvals, approved,
                   minted, signed, admitted, dropped>>

\* A slip: the proposal on record is counted as if it were already seconded.
ProposeOneShort(c) ==
    /\ Coordinator(c) /\ nuking[c] = NoRecord
    /\ Spend("nuke")
    /\ c \in state[c].members /\ coordinator_count(state[c].members, KeyHolder) > 1
    /\ LET s == Bumped([state[c] EXCEPT !.proposals = @ \cup {c}]) IN
        /\ SetState(c, s)
        /\ \E expired \in SUBSET (s.proposals \ {c}) :
              nuking' = [nuking EXCEPT ![c] =
                 IF Cardinality(s.proposals \ expired) >= Threshold - 1
                 THEN Tombstone(s.generation + 1) ELSE NoRecord]
    /\ proposed' = proposed \cup {c}
    /\ UNCHANGED <<status, saved, dht, publisher, lazy, published, poller, worker,
                   pending, leaving, closes, join, approvals, approved, minted, signed,
                   admitted, dropped>>

\* nuke_network with other coordinators: propose, and execute at once if the
\* unexpired proposals reach the threshold.
NukePropose(c) ==
    /\ Coordinator(c) /\ nuking[c] = NoRecord
    /\ Spend("nuke")
    /\ c \in state[c].members /\ coordinator_count(state[c].members, KeyHolder) > 1
    /\ LET s == Bumped([state[c] EXCEPT !.proposals = @ \cup {c}]) IN
        /\ SetState(c, s)
        /\ \E expired \in SUBSET (s.proposals \ {c}) :
              nuking' = [nuking EXCEPT ![c] =
                 IF Cardinality(s.proposals \ expired) >= Threshold
                 THEN Tombstone(s.generation + 1) ELSE NoRecord]
    /\ proposed' = proposed \cup {c}
    /\ UNCHANGED <<status, saved, dht, publisher, lazy, published, poller, worker,
                   pending, leaving, closes, join, approvals, approved, minted, signed,
                   admitted, dropped>>

\* nuke_network --cancel.
NukeCancel(c) ==
    /\ Coordinator(c) /\ Spend("nuke")
    /\ c \in state[c].members /\ coordinator_count(state[c].members, KeyHolder) > 1
    /\ c \in state[c].proposals
    /\ SetState(c, Bumped([state[c] EXCEPT !.proposals = @ \ {c}]))
    /\ UNCHANGED <<status, saved, dht, publisher, lazy, published, poller, worker,
                   pending, nuking, leaving, closes, join, rest>>

\* publish_nuke_tombstone, with no read-before-write guard, then leave_network.
publish_nuke_tombstone(c) ==
    /\ Up(c) /\ nuking[c] # NoRecord
    /\ Write(nuking[c])
    /\ \E told \in SUBSET ConnectedCoordinators(c) : Teardown(c, told)
    /\ UNCHANGED <<leaving, publisher, lazy, published, join, minted, budget, admitted,
                   proposed, dropped>>

\* ... the node leaves even if the write fails.
NukePublishFails(c) ==
    /\ Up(c) /\ nuking[c] # NoRecord
    /\ Spend("publish_fails")
    /\ \E told \in SUBSET ConnectedCoordinators(c) : Teardown(c, told)
    /\ UNCHANGED <<leaving, dht, publisher, lazy, published, join, history>>

\* The daemon dies and comes back: nothing in memory survives.
Restarted(n, s) ==
    /\ SetState(n, s)
    /\ poller' = [poller EXCEPT ![n] = IdleReader]
    /\ worker' = [worker EXCEPT ![n] = IdleReader]
    /\ pending' = [pending EXCEPT ![n] = 0]
    /\ nuking' = [nuking EXCEPT ![n] = NoRecord]
    /\ leaving' = [leaving EXCEPT ![n] = 0]
    /\ published' = [published EXCEPT ![n] = NoRecord]
    /\ lazy' = lazy \ {n}
    /\ closes' = {e \in closes : e[1] # n}
    /\ join' = [j \in Node |-> IF join[j].coord = n /\ join[j].pc = "redeemed"
                               THEN NoJoin ELSE join[j]]
    /\ Unheard(n)
    /\ UNCHANGED <<dht, history>>

\* What a node restores from: the signed blob; its config file when the record
\* cannot be resolved or its blob not be fetched, as a tombstone's never can.
ConfigRoster(n) ==
    [generation |-> 0, members |-> saved[n], invites |-> {}, proposals |-> {}]

RestoreSources(n) ==
    {b \in {dht} : ~ try_decode_tombstone(b)}
        \cup {b \in {ConfigRoster(n)} :
                  try_decode_tombstone(dht) \/ Ops \cap {"resolve_fails", "fetch_fails"} # {}}

\* restore_coordinator_network: the node itself is always put on the roster;
\* seal_and_publish comes next.
RestoreCoordinator(c) ==
    /\ Coordinator(c) /\ Spend("restart")
    /\ \E source \in RestoreSources(c) :
          LET restored == [source EXCEPT !.members = @ \cup {c}] IN
          /\ Restarted(c, restored)
          /\ publisher' = [publisher EXCEPT ![c] = [pc |-> "guard", blob |-> restored]]
    /\ status' = [status EXCEPT ![c] = "restoring"]
    /\ UNCHANGED saved

\* join_network_inner(initial = false) and dial_reconnect: the roster is saved if
\* some coordinator greets the node.
RestoreMember(m) ==
    /\ Up(m) /\ m \notin KeyHolder /\ Spend("restart")
    /\ \E source \in RestoreSources(m) :
          /\ Restarted(m, source)
          /\ saved' \in {saved, [saved EXCEPT ![m] = source.members]}
    /\ UNCHANGED <<status, publisher>>

-----------------------------------------------------------------------------
Publisher(n) ==
    \/ PublisherCapture(n) \/ PublisherGuardPasses(n) \/ PublisherGuardDefers(n)
    \/ PublisherPublish(n)

Poller(n) == PollerTick(n) \/ PollerResolve(n) \/ PollerApply(n) \/ PollerRemoved(n)

Worker(n) == WorkerResolve(n) \/ WorkerCheck(n) \/ WorkerApply(n)

\* What the daemon's tasks do by themselves.
Task(n) ==
    \/ Publisher(n) \/ Poller(n) \/ Worker(n)
    \/ update_snapshot_and_publish(n) \/ publish_nuke_tombstone(n)
    \/ handle_removed_from_network(n) \/ JoinWelcomed(n)
    \/ \E m \in Node : CleanupLeft(n, m) \/ admit_peer(n, m)
    \/ \E j \in Node : MemberApproved(n, j) \/ admit_approved_member(n, j)

\* What users and the network do to them.
Environment(n) ==
    \/ PublisherPublishFails(n) \/ PollerFetchFails(n) \/ WorkerFetchFails(n)
    \/ WorkerStart(n) \/ JoinFetch(n) \/ JoinFails(n) \/ leave_network(n)
    \/ NukeSolo(n) \/ NukePropose(n) \/ NukeCancel(n) \/ NukePublishFails(n)
    \/ RestoreCoordinator(n) \/ RestoreMember(n)
    \/ \E m \in Node : kick_member(n, m) \/ CleanupStamp(n, m) \/ DenyPeer(n, m)
    \/ \E i \in Invite : invite_create(n, i)
    \/ \E j \in Node, i \in Invite : RedeemInvite(n, j, i)

Next == \E n \in Node : Task(n) \/ Environment(n)

Spec == Init /\ [][Next]_vars

\* tokio keeps every task running: each turn of a publisher or poller comes
\* round on its timer, and a signalled message is eventually handled.  Users
\* need not act, and a failing relay or peer fails at most MaxOps times.
Fairness ==
    \A n \in Node :
        /\ WF_vars(Publisher(n)) /\ WF_vars(Poller(n)) /\ WF_vars(Worker(n))
        /\ WF_vars(update_snapshot_and_publish(n)) /\ WF_vars(publish_nuke_tombstone(n))
        /\ WF_vars(handle_removed_from_network(n)) /\ WF_vars(JoinWelcomed(n))
        /\ WF_vars(\E m \in Node : CleanupLeft(n, m))
        /\ WF_vars(\E m \in Node : admit_peer(n, m))

FairSpec == Spec /\ Fairness

-----------------------------------------------------------------------------
(* Properties.                                                             *)

\* Publishing only ever moves the signed record to a strictly higher
\* generation.  With one key holder the read-before-write guard of publish.rs is
\* still true when publish_network runs, because nobody else writes: this holds
\* through kicks, restarts and failed writes.
RecordAdvances == [][dht'.generation > dht.generation]_dht

\* A node tears its network down by itself (left_tx, handled by
\* handle_removed_from_network) only if some record signed with the network
\* key left it out: no interleaving of pollers, workers, restarts and publishers
\* of any number of coordinators makes a node leave on a roster nobody signed.
SelfRemovalWasSigned ==
    \A n \in Node : leaving[n] > 0 => \E b \in signed : n \notin b.members

\* Nobody is on any roster, signed, held in memory or saved to disk, who neither
\* founded the network nor was admitted by a coordinator against an invite: not
\* through the approvals members gossip, nor through a restore from an old
\* config, nor through rosters applied late.
NoPhantomMembers ==
    LET known == Founders \cup admitted IN
    /\ \A n \in Node : state[n].members \cup saved[n] \subseteq known
    /\ \A b \in signed : b.members \subseteq known

\* While two or more coordinators are on the rosters, no network is nuked by
\* fewer than Threshold of them (nuke_network), however their proposals,
\* cancellations, expiries and reconverged copies interleave.
NukeNeedsConsensus ==
    (\E b \in signed : b.members = {}) =>
        \/ Cardinality(proposed) >= Threshold
        \/ Cardinality(KeyHolder \ dropped) <= 1

\* All of the above at once, as the specification it amounts to: with one key
\* holder that does not nuke the network, and a relay that answers, the tasks of
\* all daemons together do nothing but sign ever newer records of admitted nodes,
\* and no daemon stops that neither its user nor a signed roster told to.
Roster == INSTANCE SignedRoster WITH
    Founding <- FoundingBlob,
    record <- dht,
    log <- signed,
    known <- Founders \cup admitted,
    running <- {n \in Node : status[n] \in {"up", "restoring"}},
    removed <- {n \in Node : leaving[n] > 0},
    asks <- budget

ImplementsSignedRoster == Roster!Spec

\* When users are done, every node that is up ends with the roster of the signed
\* record, for good: the publisher's next turn publishes what its poller did not
\* overwrite, and every poller fetches a newer record or a tie.
Converged == \A n \in Node : Up(n) => state[n].members = dht.members
RostersConverge == <>[]Converged

\* A node that the signed record leaves out for good does not stay up
\* (CONVERGE-003: its poller or worker makes it leave).
RemovedNodesLeave ==
    \A n \in Node : <>[](n \notin dht.members) => <>[](~ Up(n))

\* A coordinator whose generation is above the record's gets its state published,
\* or loses it to a newer record: it does not stay ahead of the record.
Ahead(n) == Coordinator(n) /\ state[n].generation > dht.generation
AheadGetsPublished == \A n \in KeyHolder : Ahead(n) ~> ~ Ahead(n)

-----------------------------------------------------------------------------
(* What comments and specifications say of the code, and it does not do.   *)

\* A network that has been nuked stays nuked: the tombstone is never written over.
TombstoneIsFinal == [][~ try_decode_tombstone(dht)]_dht

\* No fetched blob takes a running node's state back to a lower generation.
NeverDowngraded ==
    [][\A n \in Node : Up(n) /\ Up(n)' /\ <<poller, worker>>' # <<poller, worker>> =>
          state'[n].generation >= state[n].generation]_vars
=============================================================================
