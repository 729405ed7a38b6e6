--------------------------- MODULE ConvergeTypes ----------------------------
(***************************************************************************)
(* Every reachable state of Converge is well typed, for every number of    *)
(* nodes, key holders and operations.  The other proofs start from here.   *)
(***************************************************************************)
EXTENDS Converge, TLAPS

\* The operators on blobs yield blobs.
LEMMA BlobFacts ==
    /\ \A g \in Nat : Tombstone(g) \in Blob
    /\ \A s \in Blob : Bumped(s) \in Blob /\ s.generation \in Nat
    /\ \A s \in Blob, d \in Blob : Adopted(s, d) \in Blob
    /\ \A s \in Blob : \A S \in SUBSET Node : [s EXCEPT !.members = S] \in Blob
    /\ \A s \in Blob : \A S \in SUBSET Node : [s EXCEPT !.proposals = S] \in Blob
    /\ \A s \in Blob : \A S \in SUBSET Invite : [s EXCEPT !.invites = S] \in Blob
    /\ \A s \in Blob : s.members \subseteq Node /\ s.proposals \subseteq Node /\ s.invites \subseteq Invite
    /\ NoRecord \notin Blob
BY NoRecordIsNoBlob DEF Blob, Tombstone, Bumped, Adopted

\* What a step does not touch keeps its type.
LEMMA Stable ==
    ASSUME TypeOK
    PROVE  /\ UNCHANGED <<state, snapshot, status, saved>> => NodesOK'
           /\ UNCHANGED <<dht, publisher, lazy, published>> => RecordOK'
           /\ UNCHANGED poller => PollerOK'
           /\ UNCHANGED worker => WorkerOK'
           /\ UNCHANGED <<pending, nuking, leaving, closes>> => DutiesOK'
           /\ UNCHANGED join => JoinOK'
           /\ UNCHANGED <<approvals, approved>> => GossipOK'
           /\ UNCHANGED history => HistoryOK'
           /\ UNCHANGED budget => BudgetOK'
BY DEF TypeOK, NodesOK, RecordOK, PollerOK, WorkerOK, DutiesOK, JoinOK, GossipOK, HistoryOK,
       BudgetOK, history

LEMMA InitTypeOK == Init => TypeOK
BY ConvergeAssumption DEF Init, TypeOK, NodesOK, RecordOK, PollerOK, WorkerOK, DutiesOK, JoinOK,
   GossipOK, HistoryOK, BudgetOK, FoundingBlob, NoState, Tombstone, Blob, MaybeBlob,
   Statuses, Idle, IdleReader, NoJoin

LEMMA SpendFacts ==
    ASSUME TypeOK, NEW op, Spend(op)
    PROVE  BudgetOK'
BY ConvergeAssumption DEF TypeOK, BudgetOK, Spend

LEMMA ResolveFacts ==
    ASSUME TypeOK, NEW r, Resolve(r)
    PROVE  BudgetOK'
BY SpendFacts DEF Resolve, TypeOK, BudgetOK

LEMMA SealedFacts ==
    ASSUME TypeOK, NEW n \in Node, Sealed(n), UNCHANGED <<state, snapshot>>
    PROVE  NodesOK'
<1>1. state[n].members \subseteq Node BY BlobFacts DEF TypeOK, NodesOK
<1> QED BY <1>1 DEF TypeOK, NodesOK, Sealed, Statuses

LEMMA SetStateFacts ==
    ASSUME TypeOK, NEW n \in Node, NEW s \in Blob, SetState(n, s)
    PROVE  state' \in [Node -> Blob] /\ snapshot' \in [Node -> Blob]
BY DEF TypeOK, NodesOK, SetState

\* A node that has left, or restarts, starts over.
LEMMA TeardownFacts ==
    ASSUME TypeOK, NEW n \in Node, NEW told \in SUBSET Node, Teardown(n, told)
    PROVE  /\ NodesOK' /\ PollerOK' /\ WorkerOK' /\ GossipOK'
           /\ leaving' \in [Node -> Nat] => DutiesOK'
<1> USE DEF Teardown, TypeOK
<1>1. NodesOK' BY BlobFacts, SetStateFacts DEF NodesOK, NoState, Statuses
<1>2. PollerOK' BY DEF PollerOK, IdleReader, MaybeBlob
<1>3. WorkerOK' BY DEF WorkerOK, IdleReader, MaybeBlob
<1>4. GossipOK' BY DEF GossipOK, Unheard
<1>5. {<<c, n>> : c \in told} \subseteq Node \X Node OBVIOUS
<1>6. leaving' \in [Node -> Nat] => DutiesOK' BY Zenon, <1>5 DEF DutiesOK, MaybeBlob
<1> QED BY <1>1, <1>2, <1>3, <1>4, <1>6

LEMMA RestartedFacts ==
    ASSUME TypeOK, NEW n \in Node, NEW s \in Blob, Restarted(n, s)
    PROVE  /\ state' \in [Node -> Blob] /\ snapshot' \in [Node -> Blob]
           /\ PollerOK' /\ WorkerOK' /\ GossipOK' /\ DutiesOK' /\ JoinOK' /\ HistoryOK'
           /\ lazy' \subseteq KeyHolder /\ published' \in [Node -> MaybeBlob] /\ dht' \in Blob
<1> USE DEF Restarted, TypeOK
<1>1. state' \in [Node -> Blob] /\ snapshot' \in [Node -> Blob] BY SetStateFacts
<1>2. PollerOK' BY DEF PollerOK, IdleReader, MaybeBlob
<1>3. WorkerOK' BY DEF WorkerOK, IdleReader, MaybeBlob
<1>4. GossipOK' BY DEF GossipOK, Unheard
<1>5. DutiesOK' BY DEF DutiesOK, MaybeBlob
<1>6. JoinOK' BY DEF JoinOK, NoJoin, MaybeBlob
<1>7. HistoryOK' BY Stable
<1>8. lazy' \subseteq KeyHolder /\ published' \in [Node -> MaybeBlob] /\ dht' \in Blob
  BY DEF RecordOK, MaybeBlob
<1> QED BY <1>1, <1>2, <1>3, <1>4, <1>5, <1>6, <1>7, <1>8

LEMMA RestoreSourcesFacts ==
    ASSUME TypeOK, NEW n \in Node, NEW s \in RestoreSources(n)
    PROVE  s \in Blob
BY DEF RestoreSources, ConfigRoster, TypeOK, NodesOK, RecordOK, Blob

LEMMA PublisherTypeOK ==
    ASSUME TypeOK, NEW n \in Node,
           Publisher(n) \/ PublisherPublishFails(n)
    PROVE  TypeOK'
<1>1. CASE PublisherCapture(n)
  <2>1. RecordOK' BY <1>1, BlobFacts DEF PublisherCapture, TypeOK, RecordOK, NodesOK, MaybeBlob
  <2> QED BY <1>1, <2>1, Stable DEF PublisherCapture, TypeOK, rest, history
<1>2. CASE PublisherGuardPasses(n)
  <2>1. RecordOK' BY <1>2, BlobFacts DEF PublisherGuardPasses, TypeOK, RecordOK
  <2>2. BudgetOK' BY <1>2, ResolveFacts DEF PublisherGuardPasses
  <2> QED BY <1>2, <2>1, <2>2, Stable DEF PublisherGuardPasses, TypeOK, rest, history
<1>3. CASE PublisherGuardDefers(n)
  <2>1. NodesOK' BY <1>3, SealedFacts DEF PublisherGuardDefers
  <2>2. RecordOK' BY <1>3, BlobFacts DEF PublisherGuardDefers, TypeOK, RecordOK, Idle, MaybeBlob
  <2> QED BY <1>3, <2>1, <2>2, Stable DEF PublisherGuardDefers, TypeOK, rest, history
<1>4. CASE PublisherPublish(n)
  <2>1. NodesOK' BY <1>4, SealedFacts DEF PublisherPublish
  <2>2. RecordOK' BY <1>4, BlobFacts DEF PublisherPublish, TypeOK, RecordOK, Write, Idle, MaybeBlob
  <2>3. HistoryOK' BY <1>4, BlobFacts DEF PublisherPublish, TypeOK, HistoryOK, RecordOK, Write
  <2> QED BY <1>4, <2>1, <2>2, <2>3, Stable DEF PublisherPublish, TypeOK, rest, history
<1>5. CASE PublisherPublishFails(n)
  <2>1. NodesOK' BY <1>5, SealedFacts DEF PublisherPublishFails
  <2>2. RecordOK' BY <1>5, BlobFacts DEF PublisherPublishFails, TypeOK, RecordOK, Idle, MaybeBlob
  <2>3. BudgetOK' BY <1>5, SpendFacts DEF PublisherPublishFails
  <2> QED BY <1>5, <2>1, <2>2, <2>3, Stable DEF PublisherPublishFails, TypeOK, rest, history
<1> QED BY <1>1, <1>2, <1>3, <1>4, <1>5 DEF Publisher

LEMMA ReaderTypeOK ==
    ASSUME TypeOK, NEW n \in Node,
           Poller(n) \/ PollerFetchFails(n) \/ Worker(n) \/ WorkerFetchFails(n) \/ WorkerStart(n)
    PROVE  TypeOK'
<1>1. CASE PollerTick(n)
  <2>1. PollerOK' BY <1>1, BlobFacts DEF PollerTick, TypeOK, PollerOK, NodesOK, MaybeBlob
  <2> QED BY <1>1, <2>1, Stable DEF PollerTick, TypeOK, rest, history
<1>2. CASE PollerResolve(n)
  <2>1. PollerOK' BY <1>2, BlobFacts DEF PollerResolve, TypeOK, PollerOK, RecordOK, IdleReader, MaybeBlob
  <2>2. BudgetOK' BY <1>2, ResolveFacts DEF PollerResolve
  <2> QED BY <1>2, <2>1, <2>2, Stable DEF PollerResolve, TypeOK, rest, history
<1>3. CASE PollerFetchFails(n)
  <2>1. PollerOK' BY <1>3, BlobFacts DEF PollerFetchFails, TypeOK, PollerOK, IdleReader, MaybeBlob
  <2>2. BudgetOK' BY <1>3, SpendFacts DEF PollerFetchFails
  <2> QED BY <1>3, <2>1, <2>2, Stable DEF PollerFetchFails, TypeOK, rest, history
<1>4. CASE PollerApply(n)
  <2>1. NodesOK' BY <1>4, BlobFacts DEF PollerApply, TypeOK, NodesOK, PollerOK, SetState
  <2>2. PollerOK' BY <1>4, BlobFacts DEF PollerApply, TypeOK, PollerOK, IdleReader, MaybeBlob
  <2>3. GossipOK' BY <1>4, BlobFacts DEF PollerApply, TypeOK, GossipOK
  <2> QED BY <1>4, <2>1, <2>2, <2>3, Stable DEF PollerApply, TypeOK, rest, history
<1>5. CASE PollerRemoved(n)
  <2>1. PollerOK' BY <1>5, BlobFacts DEF PollerRemoved, TypeOK, PollerOK, IdleReader, MaybeBlob
  <2>2. DutiesOK' BY <1>5, BlobFacts DEF PollerRemoved, TypeOK, DutiesOK
  <2> QED BY <1>5, <2>1, <2>2, Stable DEF PollerRemoved, TypeOK, rest, history
<1>6. CASE WorkerStart(n)
  <2>1. WorkerOK' BY <1>6, BlobFacts DEF WorkerStart, TypeOK, WorkerOK, NodesOK, MaybeBlob
  <2>2. BudgetOK' BY <1>6, SpendFacts DEF WorkerStart
  <2> QED BY <1>6, <2>1, <2>2, Stable DEF WorkerStart, TypeOK, rest, history
<1>7. CASE WorkerResolve(n)
  <2>1. WorkerOK' BY <1>7, BlobFacts DEF WorkerResolve, TypeOK, WorkerOK, RecordOK, IdleReader, MaybeBlob
  <2>2. BudgetOK' BY <1>7, ResolveFacts DEF WorkerResolve
  <2> QED BY <1>7, <2>1, <2>2, Stable DEF WorkerResolve, TypeOK, rest, history
<1>8. CASE WorkerFetchFails(n)
  <2>1. WorkerOK' BY <1>8, BlobFacts DEF WorkerFetchFails, TypeOK, WorkerOK, IdleReader, MaybeBlob
  <2>2. BudgetOK' BY <1>8, SpendFacts DEF WorkerFetchFails
  <2> QED BY <1>8, <2>1, <2>2, Stable DEF WorkerFetchFails, TypeOK, rest, history
<1>9. CASE WorkerCheck(n)
  <2>1. WorkerOK' BY <1>9, BlobFacts DEF WorkerCheck, TypeOK, WorkerOK, IdleReader, MaybeBlob
  <2>2. DutiesOK' BY <1>9, BlobFacts DEF WorkerCheck, TypeOK, DutiesOK
  <2> QED BY <1>9, <2>1, <2>2, Stable DEF WorkerCheck, TypeOK, rest, history
<1>10. CASE WorkerApply(n)
  <2>1. NodesOK' BY <1>10, BlobFacts DEF WorkerApply, TypeOK, NodesOK, WorkerOK, SetState
  <2>2. WorkerOK' BY <1>10, BlobFacts DEF WorkerApply, TypeOK, WorkerOK, IdleReader, MaybeBlob
  <2>3. GossipOK' BY <1>10, BlobFacts DEF WorkerApply, TypeOK, GossipOK
  <2> QED BY <1>10, <2>1, <2>2, <2>3, Stable DEF WorkerApply, TypeOK, rest, history
<1> QED BY <1>1, <1>2, <1>3, <1>4, <1>5, <1>6, <1>7, <1>8, <1>9, <1>10 DEF Poller, Worker

LEMMA EditTypeOK ==
    ASSUME TypeOK, NEW n \in Node,
           \/ update_snapshot_and_publish(n)
           \/ \E m \in Node : kick_member(n, m) \/ CleanupStamp(n, m) \/ CleanupLeft(n, m)
           \/ \E i \in Invite : invite_create(n, i)
    PROVE  TypeOK'
<1>1. CASE update_snapshot_and_publish(n)
  <2>1. NodesOK' BY <1>1, BlobFacts DEF update_snapshot_and_publish, TypeOK, NodesOK, SetState
  <2>2. DutiesOK' BY <1>1, BlobFacts DEF update_snapshot_and_publish, TypeOK, DutiesOK
  <2> QED BY <1>1, <2>1, <2>2, Stable DEF update_snapshot_and_publish, TypeOK, rest, history
<1>2. ASSUME NEW m \in Node, kick_member(n, m) PROVE TypeOK'
  <2>1. NodesOK' BY Zenon, <1>2, BlobFacts DEF kick_member, TypeOK, NodesOK
  <2>2. DutiesOK' BY <1>2, BlobFacts DEF kick_member, TypeOK, DutiesOK
  <2>3. HistoryOK' BY <1>2, BlobFacts DEF kick_member, TypeOK, HistoryOK
  <2>4. BudgetOK' BY <1>2, SpendFacts DEF kick_member
  <2> QED BY <1>2, <2>1, <2>2, <2>3, <2>4, Stable DEF kick_member, TypeOK, rest, history
<1>3. ASSUME NEW m \in Node, CleanupStamp(n, m) PROVE TypeOK'
  <2>1. DutiesOK'
    <3>1. pending' = [pending EXCEPT ![n] = @ + 1] /\ UNCHANGED <<nuking, leaving, closes>>
      BY Zenon, <1>3 DEF CleanupStamp
    <3> QED BY <3>1 DEF TypeOK, DutiesOK
  <2>2. BudgetOK' BY <1>3, SpendFacts DEF CleanupStamp
  <2> QED BY <1>3, <2>1, <2>2, Stable DEF CleanupStamp, TypeOK, rest, history
<1>4. ASSUME NEW m \in Node, CleanupLeft(n, m) PROVE TypeOK'
  <2>1. NodesOK' BY Zenon, <1>4, BlobFacts DEF CleanupLeft, TypeOK, NodesOK
  <2>2. DutiesOK' BY <1>4, BlobFacts DEF CleanupLeft, TypeOK, DutiesOK
  <2>3. HistoryOK' BY <1>4, BlobFacts DEF CleanupLeft, TypeOK, HistoryOK
  <2> QED BY <1>4, <2>1, <2>2, <2>3, Stable DEF CleanupLeft, TypeOK, rest, history
<1>5. ASSUME NEW i \in Invite, invite_create(n, i) PROVE TypeOK'
  <2>1. NodesOK'
    <3>1. Bumped([state[n] EXCEPT !.invites = @ \cup {i}]) \in Blob
      BY Zenon, BlobFacts DEF TypeOK, NodesOK
    <3> QED BY <1>5, <3>1, SetStateFacts DEF invite_create, TypeOK, NodesOK
  <2>2. HistoryOK' BY <1>5, BlobFacts DEF invite_create, TypeOK, HistoryOK
  <2>3. BudgetOK' BY <1>5, SpendFacts DEF invite_create
  <2> QED BY <1>5, <2>1, <2>2, <2>3, Stable DEF invite_create, TypeOK, rest, history
<1> QED BY <1>1, <1>2, <1>3, <1>4, <1>5

LEMMA JoinTypeOK ==
    ASSUME TypeOK, NEW n \in Node,
           \/ JoinFetch(n) \/ JoinFails(n) \/ JoinWelcomed(n)
           \/ \E j \in Node, i \in Invite : RedeemInvite(n, j, i)
           \/ \E j \in Node : \/ admit_peer(n, j) \/ DenyPeer(n, j)
                            \/ MemberApproved(n, j) \/ admit_approved_member(n, j)
    PROVE  TypeOK'
<1>1. CASE JoinFetch(n)
  <2>1. JoinOK' BY Zenon, <1>1, BlobFacts DEF JoinFetch, TypeOK, JoinOK, RecordOK, NoJoin, MaybeBlob
  <2>2. BudgetOK' BY <1>1, SpendFacts DEF JoinFetch
  <2> QED BY <1>1, <2>1, <2>2, Stable DEF JoinFetch, TypeOK, rest, history
<1>2. CASE JoinFails(n)
  <2>1. JoinOK' BY <1>2, BlobFacts DEF JoinFails, TypeOK, JoinOK, NoJoin, MaybeBlob
  <2> QED BY <1>2, <2>1, Stable DEF JoinFails, TypeOK, rest, history
<1>3. CASE JoinWelcomed(n)
  <2>1. NodesOK' BY <1>3, BlobFacts DEF JoinWelcomed, TypeOK, NodesOK, JoinOK, SetState, Statuses
  <2>2. JoinOK' BY <1>3, BlobFacts DEF JoinWelcomed, TypeOK, JoinOK, NoJoin, MaybeBlob
  <2> QED BY <1>3, <2>1, <2>2, Stable DEF JoinWelcomed, TypeOK, rest, history
<1>4. ASSUME NEW j \in Node, NEW i \in Invite, RedeemInvite(n, j, i) PROVE TypeOK'
  <2>1. NodesOK' BY Zenon, <1>4, BlobFacts DEF RedeemInvite, TypeOK, NodesOK, SetState
  <2>2. JoinOK' BY Zenon, <1>4, BlobFacts DEF RedeemInvite, TypeOK, JoinOK
  <2> QED BY Zenon, <1>4, <2>1, <2>2, Stable DEF RedeemInvite, TypeOK, rest, history
<1>5. ASSUME NEW j \in Node, admit_peer(n, j) PROVE TypeOK'
  <2>1. NodesOK' BY Zenon, <1>5, BlobFacts DEF admit_peer, TypeOK, NodesOK, SetState
  <2>2. JoinOK'
    <3>1. [join[j].blob EXCEPT !.members = state[n].members \cup {j}] \in Blob
      BY Zenon, <1>5, BlobFacts DEF admit_peer, TypeOK, NodesOK, JoinOK
    <3> QED BY <1>5, <3>1 DEF admit_peer, TypeOK, JoinOK, MaybeBlob
  <2>3. GossipOK' BY <1>5, BlobFacts DEF admit_peer, TypeOK, GossipOK, ConnectedMembers
  <2>4. HistoryOK' BY <1>5, BlobFacts DEF admit_peer, TypeOK, HistoryOK
  <2> QED BY <1>5, <2>1, <2>2, <2>3, <2>4, Stable DEF admit_peer, TypeOK, rest, history
<1>6. ASSUME NEW j \in Node, DenyPeer(n, j) PROVE TypeOK'
  <2>1. NodesOK' BY Zenon, <1>6, BlobFacts DEF DenyPeer, TypeOK, NodesOK, JoinOK, SetState
  <2>2. JoinOK' BY <1>6, BlobFacts DEF DenyPeer, TypeOK, JoinOK, NoJoin, MaybeBlob
  <2>3. BudgetOK' BY <1>6, SpendFacts DEF DenyPeer
  <2> QED BY <1>6, <2>1, <2>2, <2>3, Stable DEF DenyPeer, TypeOK, rest, history
<1>7. ASSUME NEW j \in Node, MemberApproved(n, j) PROVE TypeOK'
  <2>1. GossipOK' BY <1>7, BlobFacts DEF MemberApproved, TypeOK, GossipOK
  <2> QED BY <1>7, <2>1, Stable DEF MemberApproved, TypeOK, rest, history
<1>8. ASSUME NEW j \in Node, admit_approved_member(n, j) PROVE TypeOK'
  <2>1. NodesOK'
    <3>1. Bumped([state[n] EXCEPT !.members = @ \cup {j}]) \in Blob
      BY Zenon, BlobFacts DEF TypeOK, NodesOK
    <3> QED BY <1>8, <3>1, SetStateFacts DEF admit_approved_member, TypeOK, NodesOK
  <2>2. GossipOK' BY <1>8, BlobFacts DEF admit_approved_member, TypeOK, GossipOK
  <2> QED BY <1>8, <2>1, <2>2, Stable DEF admit_approved_member, TypeOK, rest, history
<1> QED BY <1>1, <1>2, <1>3, <1>4, <1>5, <1>6, <1>7, <1>8

LEMMA LeaveTypeOK ==
    ASSUME TypeOK, NEW n \in Node,
           \/ handle_removed_from_network(n) \/ leave_network(n)
           \/ NukeSolo(n) \/ NukePropose(n) \/ NukeCancel(n)
           \/ publish_nuke_tombstone(n) \/ NukePublishFails(n)
           \/ RestoreCoordinator(n) \/ RestoreMember(n)
    PROVE  TypeOK'
<1>1. CASE handle_removed_from_network(n)
  <2>1. leaving' \in [Node -> Nat]
    BY <1>1 DEF handle_removed_from_network, TypeOK, DutiesOK
  <2>2. CASE Up(n)
    <3>1. PICK told \in SUBSET Node : Teardown(n, told)
      BY <1>1, <2>2, ConvergeAssumption DEF handle_removed_from_network, ConnectedCoordinators
    <3> QED BY <1>1, <2>1, <3>1, TeardownFacts, Stable
        DEF handle_removed_from_network, TypeOK, history
  <2>3. CASE ~ Up(n)
    <3>1. DutiesOK' BY <1>1, <2>1, <2>3 DEF handle_removed_from_network, TypeOK, DutiesOK
    <3> QED BY <1>1, <2>3, <3>1, Stable DEF handle_removed_from_network, TypeOK, history
  <2> QED BY <2>2, <2>3
<1>2. CASE leave_network(n)
  <2>1. PICK told \in SUBSET Node : Teardown(n, told)
    BY <1>2, ConvergeAssumption DEF leave_network, ConnectedCoordinators
  <2>2. leaving' \in [Node -> Nat] BY <1>2 DEF leave_network, TypeOK, DutiesOK
  <2>3. BudgetOK' BY Zenon, <1>2, SpendFacts DEF leave_network
  <2> QED BY <1>2, <2>1, <2>2, <2>3, TeardownFacts, Stable DEF leave_network, TypeOK, history
<1>3. CASE NukeSolo(n)
  <2>1. DutiesOK'
    <3>1. state[n] \in Blob BY Zenon DEF TypeOK, NodesOK
    <3>2. Tombstone(state[n].generation + 1) \in Blob BY <3>1, BlobFacts
    <3> QED BY Zenon, <1>3, <3>2 DEF NukeSolo, TypeOK, DutiesOK, MaybeBlob
  <2>2. HistoryOK' BY Zenon, <1>3, BlobFacts DEF NukeSolo, TypeOK, HistoryOK
  <2>3. BudgetOK' BY <1>3, SpendFacts DEF NukeSolo
  <2> QED BY Zenon, <1>3, <2>1, <2>2, <2>3, Stable DEF NukeSolo, TypeOK, rest, history
<1>4. CASE NukePropose(n)
  <2>1. NodesOK' BY Zenon, <1>4, BlobFacts DEF NukePropose, TypeOK, NodesOK, SetState
  <2>2. DutiesOK'
    <3> DEFINE s == Bumped([state[n] EXCEPT !.proposals = @ \cup {n}])
    <3>1. s \in Blob BY Zenon, BlobFacts DEF TypeOK, NodesOK
    <3>2. PICK expired \in SUBSET (s.proposals \ {n}) :
             nuking' = [nuking EXCEPT ![n] =
                 IF Cardinality(s.proposals \ expired) >= Threshold
                 THEN Tombstone(s.generation + 1) ELSE NoRecord]
      BY Zenon, <1>4 DEF NukePropose
    <3> HIDE DEF s
    <3>3. Tombstone(s.generation + 1) \in Blob BY <3>1, BlobFacts
    <3>4. nuking' \in [Node -> MaybeBlob] BY <3>2, <3>3 DEF TypeOK, DutiesOK, MaybeBlob
    <3> QED BY <1>4, <3>4 DEF NukePropose, TypeOK, DutiesOK
  <2>3. HistoryOK' BY <1>4, BlobFacts DEF NukePropose, TypeOK, HistoryOK
  <2>4. BudgetOK' BY <1>4, SpendFacts DEF NukePropose
  <2> QED BY <1>4, <2>1, <2>2, <2>3, <2>4, Stable DEF NukePropose, TypeOK, rest, history
<1>5. CASE NukeCancel(n)
  <2>1. NodesOK' BY Zenon, <1>5, BlobFacts DEF NukeCancel, TypeOK, NodesOK, SetState
  <2>2. BudgetOK' BY <1>5, SpendFacts DEF NukeCancel
  <2> QED BY <1>5, <2>1, <2>2, Stable DEF NukeCancel, TypeOK, rest, history
<1>6. CASE publish_nuke_tombstone(n)
  <2>1. PICK told \in SUBSET Node : Teardown(n, told)
    BY <1>6, ConvergeAssumption DEF publish_nuke_tombstone, ConnectedCoordinators
  <2>2. leaving' \in [Node -> Nat] BY <1>6 DEF publish_nuke_tombstone, TypeOK, DutiesOK
  <2>3. nuking[n] \in Blob BY <1>6 DEF publish_nuke_tombstone, TypeOK, DutiesOK, MaybeBlob
  <2>4. RecordOK' BY <1>6, <2>3 DEF publish_nuke_tombstone, Write, TypeOK, RecordOK
  <2>5. HistoryOK' BY <1>6, <2>3 DEF publish_nuke_tombstone, Write, TypeOK, HistoryOK
  <2> QED BY <1>6, <2>1, <2>2, <2>4, <2>5, TeardownFacts, Stable
      DEF publish_nuke_tombstone, TypeOK
<1>7. CASE NukePublishFails(n)
  <2>1. PICK told \in SUBSET Node : Teardown(n, told)
    BY <1>7, ConvergeAssumption DEF NukePublishFails, ConnectedCoordinators
  <2>2. leaving' \in [Node -> Nat] BY <1>7 DEF NukePublishFails, TypeOK, DutiesOK
  <2>3. BudgetOK' BY <1>7, SpendFacts DEF NukePublishFails
  <2> QED BY <1>7, <2>1, <2>2, <2>3, TeardownFacts, Stable DEF NukePublishFails, TypeOK, history
<1>8. CASE RestoreCoordinator(n)
  <2>1. PICK source \in RestoreSources(n) :
            LET restored == [source EXCEPT !.members = @ \cup {n}] IN
            /\ Restarted(n, restored)
            /\ publisher' = [publisher EXCEPT ![n] = [pc |-> "guard", blob |-> restored]]
    BY Zenon, <1>8 DEF RestoreCoordinator
  <2> DEFINE restored == [source EXCEPT !.members = @ \cup {n}]
  <2>2. restored \in Blob BY Zenon, RestoreSourcesFacts, BlobFacts
  <2> HIDE DEF restored
  <2>3. Restarted(n, restored) /\ publisher' = [publisher EXCEPT ![n] = [pc |-> "guard", blob |-> restored]]
    BY <2>1 DEF restored
  <2>4. RecordOK' BY <2>2, <2>3, RestartedFacts DEF TypeOK, RecordOK, MaybeBlob
  <2>5. NodesOK' BY <1>8, <2>2, <2>3, RestartedFacts DEF RestoreCoordinator, TypeOK, NodesOK, Statuses
  <2>6. BudgetOK' BY <1>8, SpendFacts DEF RestoreCoordinator
  <2> QED BY <2>2, <2>3, <2>4, <2>5, <2>6, RestartedFacts DEF TypeOK
<1>9. CASE RestoreMember(n)
  <2>1. PICK source \in RestoreSources(n) :
            /\ Restarted(n, source)
            /\ saved' \in {saved, [saved EXCEPT ![n] = source.members]}
    BY <1>9 DEF RestoreMember
  <2>2. source \in Blob BY RestoreSourcesFacts
  <2>3. RecordOK' BY <1>9, <2>1, <2>2, RestartedFacts DEF RestoreMember, TypeOK, RecordOK
  <2>4. NodesOK' BY Zenon, <1>9, <2>1, <2>2, RestartedFacts, BlobFacts DEF RestoreMember, TypeOK, NodesOK
  <2>5. BudgetOK' BY <1>9, SpendFacts DEF RestoreMember
  <2> QED BY <2>1, <2>2, <2>3, <2>4, <2>5, RestartedFacts DEF TypeOK
<1> QED BY <1>1, <1>2, <1>3, <1>4, <1>5, <1>6, <1>7, <1>8, <1>9

\* Every step keeps every variable in its type.
LEMMA NextTypeOK ==
    ASSUME TypeOK, [Next]_vars
    PROVE  TypeOK'
<1>1. CASE UNCHANGED vars BY <1>1, Stable DEF vars, history, TypeOK
<1>2. ASSUME NEW n \in Node, Task(n) \/ Environment(n) PROVE TypeOK'
  BY <1>2, PublisherTypeOK, ReaderTypeOK, EditTypeOK, JoinTypeOK, LeaveTypeOK
  DEF Task, Environment
<1> QED BY <1>1, <1>2 DEF Next

\* Every reachable state of the daemon tasks is well typed (Converge!TypeOK): in
\* particular a task that has passed an await holds the blob it awaited.
THEOREM TypeCorrect == Spec => []TypeOK
BY InitTypeOK, NextTypeOK, PTL DEF Spec

=============================================================================
