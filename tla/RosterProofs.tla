---------------------------- MODULE RosterProofs ----------------------------
(***************************************************************************)
(* Who can be on a roster, for every number of nodes, key holders and      *)
(* operations.                                                             *)
(***************************************************************************)
EXTENDS ConvergeProofs

(* Nobody unknown on a roster.  The invariant follows the rosters through  *)
(* every place they wait in: a publisher's captured blob, the blob of a    *)
(* join, a snapshot, the approvals on their way to a member.               *)

Known == Founders \cup admitted

RostersKnown ==
    /\ \A n \in Node : snapshot[n].members \subseteq Known
    /\ \A n \in Node : publisher[n].pc # "idle" => publisher[n].blob.members \subseteq Known

JoinsKnown ==
    /\ \A n \in Node : join[n].pc # "none" => join[n].blob.members \subseteq Known
    /\ \A n \in Node : approved[n] \subseteq admitted
    /\ \A e \in approvals : e[2] \in admitted

NukesEmpty == \A n \in Node : nuking[n] # NoRecord => nuking[n].members = {}

PhantomInv ==
    RemovalInv /\ NoPhantomMembers /\ RostersKnown /\ JoinsKnown /\ NukesEmpty

\* Known only grows, so what a step leaves alone stays known.
LEMMA PhantomStable ==
    ASSUME PhantomInv, admitted \subseteq admitted'
    PROVE  /\ UNCHANGED <<state, saved, signed>> => NoPhantomMembers'
           /\ UNCHANGED <<snapshot, publisher>> => RostersKnown'
           /\ UNCHANGED <<join, approvals, approved>> => JoinsKnown'
           /\ UNCHANGED nuking => NukesEmpty'
BY DEF PhantomInv, NoPhantomMembers, RostersKnown, JoinsKnown, NukesEmpty, Known

\* A node takes a known roster: SetState keeps state and snapshot known.
LEMMA PhantomSetState ==
    ASSUME PhantomInv, NEW n \in Node, NEW s \in Blob, SetState(n, s),
           s.members \subseteq Known', admitted \subseteq admitted'
    PROVE  /\ UNCHANGED <<saved, signed>> => NoPhantomMembers'
           /\ UNCHANGED publisher => RostersKnown'
           /\ \A k \in Node : state'[k].members \subseteq Known'
           /\ \A k \in Node : snapshot'[k].members \subseteq Known'
BY DEF PhantomInv, NoPhantomMembers, RostersKnown, Known, SetState, RemovalInv, TypeOK, NodesOK

\* NoPhantomMembers is a statement about three places.
LEMMA PhantomParts ==
    ASSUME \A k \in Node : state'[k].members \subseteq Known',
           \A k \in Node : saved'[k] \subseteq Known',
           \A b \in signed' : b.members \subseteq Known'
    PROVE  NoPhantomMembers'
BY DEF NoPhantomMembers, Known

\* What the edits of a coordinator do to the members of its blob.
LEMMA EditFacts ==
    ASSUME NEW s \in Blob
    PROVE  /\ Bumped(s).members = s.members
           /\ \A d \in Blob : Adopted(s, d).members = d.members
           /\ \A S \in SUBSET Node : [s EXCEPT !.members = S].members = S
BY DEF Blob, Bumped, Adopted

LEMMA MemberEdits ==
    ASSUME NEW s \in Blob, NEW j \in Node
    PROVE  /\ [s EXCEPT !.members = @ \cup {j}] \in Blob
           /\ [s EXCEPT !.members = @ \cup {j}].members = s.members \cup {j}
           /\ Bumped([s EXCEPT !.members = @ \cup {j}]) \in Blob
           /\ Bumped([s EXCEPT !.members = @ \cup {j}]).members = s.members \cup {j}
           /\ Bumped([s EXCEPT !.proposals = @ \cup {j}]) \in Blob
           /\ Bumped([s EXCEPT !.proposals = @ \cup {j}]).members = s.members
           /\ Bumped([s EXCEPT !.proposals = @ \ {j}]) \in Blob
           /\ Bumped([s EXCEPT !.proposals = @ \ {j}]).members = s.members
<1> DEFINE added == [s EXCEPT !.members = @ \cup {j}]
           called == [s EXCEPT !.proposals = @ \cup {j}]
           cancelled == [s EXCEPT !.proposals = @ \ {j}]
<1>1. added \in Blob /\ added.members = s.members \cup {j} BY DEF Blob
<1>2. called \in Blob /\ called.members = s.members BY DEF Blob
<1>3. cancelled \in Blob /\ cancelled.members = s.members BY DEF Blob
<1> HIDE DEF added, called, cancelled
<1>4. /\ Bumped(added) \in Blob /\ Bumped(added).members = added.members
      /\ Bumped(called) \in Blob /\ Bumped(called).members = called.members
      /\ Bumped(cancelled) \in Blob /\ Bumped(cancelled).members = cancelled.members
  BY Zenon, <1>1, <1>2, <1>3, BlobFacts, EditFacts
<1> QED BY <1>1, <1>2, <1>3, <1>4 DEF added, called, cancelled

LEMMA InviteEdits ==
    ASSUME NEW s \in Blob, NEW i \in Invite
    PROVE  /\ Bumped([s EXCEPT !.invites = @ \cup {i}]) \in Blob
           /\ Bumped([s EXCEPT !.invites = @ \cup {i}]).members = s.members
           /\ Bumped([s EXCEPT !.invites = @ \ {i}]) \in Blob
           /\ Bumped([s EXCEPT !.invites = @ \ {i}]).members = s.members
<1> DEFINE added == [s EXCEPT !.invites = @ \cup {i}]
           burnt == [s EXCEPT !.invites = @ \ {i}]
<1>1. added \in Blob /\ added.members = s.members BY DEF Blob
<1>2. burnt \in Blob /\ burnt.members = s.members BY DEF Blob
<1> HIDE DEF added, burnt
<1>3. /\ Bumped(added) \in Blob /\ Bumped(added).members = added.members
      /\ Bumped(burnt) \in Blob /\ Bumped(burnt).members = burnt.members
  BY <1>1, <1>2, BlobFacts, EditFacts
<1> QED BY <1>1, <1>2, <1>3 DEF added, burnt

LEMMA SealedKnown ==
    ASSUME PhantomInv, NEW n \in Node, Sealed(n), UNCHANGED <<state, admitted>>,
           \A b \in signed' : b.members \subseteq Known
    PROVE  NoPhantomMembers'
BY DEF PhantomInv, NoPhantomMembers, Known, Sealed, RemovalInv, TypeOK, NodesOK

LEMMA PhantomPublisher ==
    ASSUME PhantomInv, NEW n \in Node, Publisher(n) \/ PublisherPublishFails(n), RemovalInv'
    PROVE  PhantomInv'
<1> USE DEF PhantomInv
<1>1. CASE PublisherCapture(n)
  <2>1. RostersKnown'
    BY <1>1 DEF PublisherCapture, RostersKnown, Known, RemovalInv, TypeOK, RecordOK, rest, history
  <2> QED BY <1>1, <2>1, PhantomStable DEF PublisherCapture, rest, history
<1>2. CASE PublisherGuardPasses(n)
  <2>1. RostersKnown'
    BY <1>2 DEF PublisherGuardPasses, RostersKnown, Known, RemovalInv, TypeOK, RecordOK, rest,
                history
  <2> QED BY <1>2, <2>1, PhantomStable DEF PublisherGuardPasses, rest, history
<1>3. CASE PublisherGuardDefers(n)
  <2>1. RostersKnown'
    BY <1>3 DEF PublisherGuardDefers, Idle, RostersKnown, Known, RemovalInv, TypeOK, RecordOK,
                rest, history
  <2>2. NoPhantomMembers'
    BY <1>3, SealedKnown DEF PublisherGuardDefers, rest, history, NoPhantomMembers, Known
  <2> QED BY <1>3, <2>1, <2>2, PhantomStable DEF PublisherGuardDefers, rest, history
<1>4. CASE PublisherPublish(n)
  <2>1. RostersKnown'
    BY <1>4 DEF PublisherPublish, Idle, RostersKnown, Known, RemovalInv, TypeOK, RecordOK
  <2>2. \A b \in signed' : b.members \subseteq Known
    BY <1>4 DEF PublisherPublish, Write, NoPhantomMembers, RostersKnown, Known
  <2>3. NoPhantomMembers' BY <1>4, <2>2, SealedKnown DEF PublisherPublish
  <2> QED BY <1>4, <2>1, <2>3, PhantomStable DEF PublisherPublish
<1>5. CASE PublisherPublishFails(n)
  <2>1. RostersKnown'
    BY <1>5 DEF PublisherPublishFails, Idle, RostersKnown, Known, RemovalInv, TypeOK, RecordOK,
                rest, history
  <2>2. NoPhantomMembers'
    BY <1>5, SealedKnown DEF PublisherPublishFails, rest, history, NoPhantomMembers, Known
  <2> QED BY <1>5, <2>1, <2>2, PhantomStable DEF PublisherPublishFails, rest, history
<1> QED BY <1>1, <1>2, <1>3, <1>4, <1>5 DEF Publisher

LEMMA PhantomReader ==
    ASSUME PhantomInv, NEW n \in Node,
           Poller(n) \/ PollerFetchFails(n) \/ Worker(n) \/ WorkerFetchFails(n) \/ WorkerStart(n),
           RemovalInv'
    PROVE  PhantomInv'
<1> USE DEF PhantomInv
<1>1. CASE PollerTick(n) \/ PollerResolve(n) \/ PollerFetchFails(n) \/ PollerRemoved(n)
  BY <1>1, PhantomStable
  DEF PollerTick, PollerResolve, PollerFetchFails, PollerRemoved, rest, history
<1>2. CASE WorkerStart(n) \/ WorkerResolve(n) \/ WorkerFetchFails(n) \/ WorkerCheck(n)
  BY <1>2, PhantomStable
  DEF WorkerStart, WorkerResolve, WorkerFetchFails, WorkerCheck, rest, history
<1>3. ASSUME NEW data \in signed,
             SetState(n, Adopted(state[n], data)), saved' = [saved EXCEPT ![n] = data.members],
             approved' = [approved EXCEPT ![n] = {}],
             UNCHANGED <<publisher, nuking, join, approvals, history>>
      PROVE  PhantomInv'
  <2>1. data \in Blob /\ state[n] \in Blob /\ data.members \subseteq Known
    BY DEF RemovalInv, TypeOK, HistoryOK, NodesOK, NoPhantomMembers, Known
  <2>2. Adopted(state[n], data) \in Blob /\ Adopted(state[n], data).members \subseteq Known'
    BY Zenon, <1>3, <2>1, BlobFacts, EditFacts DEF history, Known
  <2>3. NoPhantomMembers'
    BY <1>3, <2>1, <2>2, PhantomSetState
    DEF NoPhantomMembers, Known, history, RemovalInv, TypeOK, NodesOK
  <2>4. RostersKnown' BY <1>3, <2>2, PhantomSetState DEF history
  <2>5. JoinsKnown' BY <1>3 DEF JoinsKnown, Known, history, RemovalInv, TypeOK, GossipOK
  <2> QED BY <1>3, <2>3, <2>4, <2>5, PhantomStable DEF history
<1>4. CASE PollerApply(n)
  <2>1. poller[n].data \in signed BY <1>4 DEF PollerApply, RemovalInv, SourcesSigned
  <2> QED BY Zenon, <1>3, <1>4, <2>1 DEF PollerApply
<1>5. CASE WorkerApply(n)
  <2>1. worker[n].data \in signed BY <1>5 DEF WorkerApply, RemovalInv, SourcesSigned
  <2> QED BY Zenon, <1>3, <1>5, <2>1 DEF WorkerApply
<1> QED BY <1>1, <1>2, <1>4, <1>5 DEF Poller, Worker

LEMMA PhantomEdit ==
    ASSUME PhantomInv, RemovalInv', NEW n \in Node,
           \/ update_snapshot_and_publish(n)
           \/ \E m \in Node : kick_member(n, m) \/ CleanupStamp(n, m) \/ CleanupLeft(n, m)
           \/ \E i \in Invite : invite_create(n, i)
    PROVE  PhantomInv'
<1> USE DEF PhantomInv
<1>1. state[n] \in Blob /\ state[n].members \subseteq Known
  BY DEF RemovalInv, TypeOK, NodesOK, NoPhantomMembers, Known
<1>2. CASE update_snapshot_and_publish(n)
  BY Zenon, <1>1, <1>2, BlobFacts, EditFacts, PhantomSetState, PhantomStable
  DEF update_snapshot_and_publish, rest, history, Known
<1>3. ASSUME NEW m \in Node, kick_member(n, m) \/ CleanupLeft(n, m) PROVE PhantomInv'
  <2>1. \A k \in Node : state'[k].members \subseteq state[k].members
    <3>1. state' = [state EXCEPT ![n].members = @ \ {m}]
      BY Zenon, <1>3 DEF kick_member, CleanupLeft
    <3> QED BY <3>1 DEF RemovalInv, TypeOK, NodesOK, Blob
  <2>2. NoPhantomMembers' BY <1>3, <2>1 DEF kick_member, CleanupLeft, NoPhantomMembers
  <2> QED BY <1>3, <2>2, PhantomStable DEF kick_member, CleanupLeft
<1>4. ASSUME NEW m \in Node, CleanupStamp(n, m) PROVE PhantomInv'
  BY <1>4, PhantomStable DEF CleanupStamp, rest, history
<1>5. ASSUME NEW i \in Invite, invite_create(n, i) PROVE PhantomInv'
  <2> DEFINE s == Bumped([state[n] EXCEPT !.invites = @ \cup {i}])
  <2>1. s \in Blob /\ s.members \subseteq Known BY Zenon, <1>1, InviteEdits
  <2> HIDE DEF s
  <2>2. SetState(n, s) BY <1>5 DEF invite_create, s
  <2> QED BY <1>5, <2>1, <2>2, PhantomSetState, PhantomStable DEF invite_create, Known
<1> QED BY <1>2, <1>3, <1>4, <1>5

LEMMA PhantomJoin ==
    ASSUME PhantomInv, RemovalInv', NEW n \in Node,
           \/ JoinFetch(n) \/ JoinFails(n) \/ JoinWelcomed(n)
           \/ \E j \in Node, i \in Invite : RedeemInvite(n, j, i)
           \/ \E j \in Node : \/ admit_peer(n, j) \/ DenyPeer(n, j)
                              \/ MemberApproved(n, j) \/ admit_approved_member(n, j)
    PROVE  PhantomInv'
<1> USE DEF PhantomInv
<1>1. state[n] \in Blob /\ state[n].members \subseteq Known
  BY DEF RemovalInv, TypeOK, NodesOK, NoPhantomMembers, Known
<1>2. CASE JoinFetch(n)
  <2>1. dht.members \subseteq Known BY DEF RemovalInv, SourcesSigned, NoPhantomMembers, Known
  <2>2. JoinsKnown'
    BY <1>2, <2>1 DEF JoinFetch, NoJoin, JoinsKnown, Known, RemovalInv, TypeOK, JoinOK, rest, history
  <2> QED BY <1>2, <2>2, PhantomStable DEF JoinFetch, rest, history
<1>3. CASE JoinFails(n)
  <2>1. JoinsKnown'
    <3>1. join' = [join EXCEPT ![n] = NoJoin] /\ UNCHANGED <<approvals, approved, admitted>>
      BY Zenon, <1>3 DEF JoinFails, rest, history
    <3> QED BY <3>1 DEF NoJoin, JoinsKnown, Known, RemovalInv, TypeOK, JoinOK
  <2> QED BY Zenon, <1>3, <2>1, PhantomStable DEF JoinFails, rest, history
<1>4. CASE JoinWelcomed(n)
  <2>1. join[n].blob \in Blob /\ join[n].blob.members \subseteq Known
    BY Zenon, <1>4 DEF JoinWelcomed, RemovalInv, TypeOK, JoinOK, JoinsKnown
  <2>2. NoPhantomMembers'
    <3>1. Known' = Known /\ signed' = signed /\ admitted' = admitted
      BY Zenon, <1>4 DEF JoinWelcomed, Known, rest, history
    <3>2. \A k \in Node : state'[k].members \subseteq Known'
      BY Zenon, <1>4, <2>1, <3>1, PhantomSetState DEF JoinWelcomed
    <3>3. \A k \in Node : saved'[k] \subseteq Known'
      BY Zenon, <1>4, <2>1, <3>1 DEF JoinWelcomed, NoPhantomMembers, Known, RemovalInv, TypeOK, NodesOK
    <3> QED BY <3>1, <3>2, <3>3, PhantomParts DEF NoPhantomMembers, Known
  <2>3. RostersKnown' BY Zenon, <1>4, <2>1, PhantomSetState DEF JoinWelcomed, Known, rest, history
  <2>4. JoinsKnown'
    <3>1. join' = [join EXCEPT ![n] = NoJoin] /\ UNCHANGED <<approvals, approved, admitted>>
      BY Zenon, <1>4 DEF JoinWelcomed, rest, history
    <3> QED BY <3>1 DEF NoJoin, JoinsKnown, Known, RemovalInv, TypeOK, JoinOK
  <2> QED BY Zenon, <1>4, <2>2, <2>3, <2>4, PhantomStable DEF JoinWelcomed, rest, history
<1>5. ASSUME NEW j \in Node, NEW i \in Invite, RedeemInvite(n, j, i) PROVE PhantomInv'
  <2> DEFINE s == Bumped([state[n] EXCEPT !.invites = @ \ {i}])
  <2>1. s \in Blob /\ s.members \subseteq Known BY Zenon, <1>1, InviteEdits
  <2>2. NoPhantomMembers' /\ RostersKnown'
    BY Zenon, <1>5, <2>1, PhantomSetState DEF RedeemInvite, Known, rest, history
  <2>3. JoinsKnown'
    <3>1. /\ join[j].pc = "fetched"
          /\ join' = [join EXCEPT ![j].pc = "redeemed", ![j].coord = n, ![j].invite = i]
      BY Zenon, <1>5 DEF RedeemInvite
    <3>2. \A k \in Node : /\ join'[k].blob = join[k].blob
                          /\ join'[k].pc # "none" => join[k].pc # "none"
      BY <3>1 DEF RemovalInv, TypeOK, JoinOK
    <3> QED BY Zenon, <1>5, <3>2 DEF RedeemInvite, JoinsKnown, Known, rest, history
  <2> QED BY Zenon, <1>5, <2>2, <2>3, PhantomStable DEF RedeemInvite, rest, history
<1>6. ASSUME NEW j \in Node, admit_peer(n, j) PROVE PhantomInv'
  <2> DEFINE s == Bumped([state[n] EXCEPT !.members = @ \cup {j}])
             roster == state[n].members \cup {j}
  <2>1. admitted' = admitted \cup {j} /\ Known' = Known \cup {j}
    BY <1>6 DEF admit_peer, Known
  <2>2. roster \in SUBSET Node /\ roster \subseteq Known' BY <1>1, <2>1, BlobFacts
  <2>3. s \in Blob /\ s.members \subseteq Known' BY Zenon, <1>1, <2>2, MemberEdits
  <2>4. NoPhantomMembers' /\ RostersKnown'
    BY Zenon, <1>6, <2>1, <2>3, PhantomSetState DEF admit_peer
  <2>5. [join[j].blob EXCEPT !.members = roster].members = roster
    BY <1>6, <2>2, EditFacts DEF admit_peer, RemovalInv, TypeOK, JoinOK
  <2>6. \A k \in Node : join'[k].pc # "none" => join'[k].blob.members \subseteq Known'
    <3>1. join' = [join EXCEPT ![j].pc = "welcomed", ![j].blob = [@ EXCEPT !.members = roster]]
      BY Zenon, <1>6 DEF admit_peer
    <3>2. \A k \in Node \ {j} : join'[k] = join[k] BY <3>1 DEF RemovalInv, TypeOK, JoinOK
    <3>3. join'[j].blob = [join[j].blob EXCEPT !.members = roster]
      BY <3>1 DEF RemovalInv, TypeOK, JoinOK
    <3> QED BY Zenon, <2>1, <2>2, <2>5, <3>2, <3>3 DEF JoinsKnown
  <2>7. JoinsKnown'
    <3>1. \A e \in approvals' : e[2] \in admitted'
      BY <1>6, <2>1 DEF admit_peer, JoinsKnown
    <3>2. \A k \in Node : approved'[k] \subseteq admitted'
      BY <1>6, <2>1 DEF admit_peer, JoinsKnown
    <3> QED BY <2>6, <3>1, <3>2 DEF JoinsKnown
  <2> QED BY <1>6, <2>1, <2>4, <2>7, PhantomStable DEF admit_peer
<1>7. ASSUME NEW j \in Node, DenyPeer(n, j) PROVE PhantomInv'
  <2> DEFINE s == Bumped([state[n] EXCEPT !.invites = @ \cup {join[j].invite}])
  <2>0. join[j].invite \in Invite BY <1>7 DEF DenyPeer, RemovalInv, TypeOK, JoinOK
  <2>1. s \in Blob /\ s.members \subseteq Known BY Zenon, <1>1, <2>0, InviteEdits
  <2>2. NoPhantomMembers' /\ RostersKnown'
    BY <1>7, <2>1, PhantomSetState DEF DenyPeer, Known, rest, history
  <2>3. JoinsKnown'
    BY <1>7 DEF DenyPeer, NoJoin, JoinsKnown, Known, RemovalInv, TypeOK, JoinOK, rest, history
  <2> QED BY <1>7, <2>2, <2>3, PhantomStable DEF DenyPeer, rest, history
<1>8. ASSUME NEW j \in Node, MemberApproved(n, j) PROVE PhantomInv'
  <2>1. j \in admitted BY Zenon, <1>8 DEF MemberApproved, JoinsKnown
  <2>2. JoinsKnown'
    BY Zenon, <1>8, <2>1 DEF MemberApproved, JoinsKnown, Known, history, RemovalInv, TypeOK, GossipOK
  <2> QED BY <1>8, <2>2, PhantomStable DEF MemberApproved, history
<1>9. ASSUME NEW j \in Node, admit_approved_member(n, j) PROVE PhantomInv'
  <2> DEFINE s == Bumped([state[n] EXCEPT !.members = @ \cup {j}])
             roster == state[n].members \cup {j}
  <2>1. j \in admitted BY <1>9 DEF admit_approved_member, JoinsKnown
  <2>2. roster \in SUBSET Node /\ roster \subseteq Known BY <1>1, <2>1, BlobFacts DEF Known
  <2>3. s \in Blob /\ s.members \subseteq Known BY Zenon, <1>1, <2>2, MemberEdits
  <2>4. NoPhantomMembers' /\ RostersKnown'
    BY Zenon, <1>9, <2>3, PhantomSetState, PhantomStable DEF admit_approved_member, Known, history
  <2>5. JoinsKnown'
    <3>1. /\ approved' = [approved EXCEPT ![n] = @ \ {j}]
          /\ UNCHANGED <<join, approvals, admitted>>
      BY Zenon, <1>9 DEF admit_approved_member, history
    <3> QED BY Zenon, <3>1 DEF JoinsKnown, Known, RemovalInv, TypeOK, GossipOK
  <2> QED BY <1>9, <2>4, <2>5, PhantomStable DEF admit_approved_member, history
<1> QED BY Zenon, <1>2, <1>3, <1>4, <1>5, <1>6, <1>7, <1>8, <1>9

LEMMA PhantomTeardown ==
    ASSUME PhantomInv, NEW n \in Node, NEW told, Teardown(n, told), UNCHANGED <<publisher, join, admitted>>,
           \A b \in signed' : b.members \subseteq Known
    PROVE  NoPhantomMembers' /\ RostersKnown' /\ JoinsKnown' /\ NukesEmpty'
<1> USE DEF PhantomInv
<1>1. NoState \in Blob /\ NoState.members \subseteq Known' BY BlobFacts DEF NoState, Tombstone
<1>2. SetState(n, NoState) BY DEF Teardown
<1>3. RostersKnown' /\ \A k \in Node : state'[k].members \subseteq Known'
  BY <1>1, <1>2, PhantomSetState
<1>4. NoPhantomMembers'
  BY Zenon, <1>3 DEF Teardown, NoPhantomMembers, Known, RemovalInv, TypeOK, NodesOK
<1>5. JoinsKnown'
  BY DEF Teardown, Unheard, JoinsKnown, Known, RemovalInv, TypeOK, GossipOK
<1>6. NukesEmpty' BY DEF Teardown, NukesEmpty, RemovalInv, TypeOK, DutiesOK
<1> QED BY <1>3, <1>4, <1>5, <1>6

LEMMA PhantomLeave ==
    ASSUME PhantomInv, RemovalInv', NEW n \in Node,
           \/ handle_removed_from_network(n) \/ leave_network(n)
           \/ NukeSolo(n) \/ NukePropose(n) \/ NukeCancel(n)
           \/ publish_nuke_tombstone(n) \/ NukePublishFails(n)
    PROVE  PhantomInv'
<1> USE DEF PhantomInv
<1>1. state[n] \in Blob /\ state[n].members \subseteq Known
  BY DEF RemovalInv, TypeOK, NodesOK, NoPhantomMembers, Known
<1>2. \A g \in Nat : Tombstone(g).members = {} BY DEF Tombstone
<1>3. \A b \in signed : b.members \subseteq Known BY DEF NoPhantomMembers, Known
<1>4. CASE handle_removed_from_network(n)
  <2>1. CASE Up(n)
    BY <1>3, <1>4, <2>1, PhantomTeardown DEF handle_removed_from_network, history
  <2>2. CASE ~ Up(n)
    BY Zenon, <1>4, <2>2, PhantomStable DEF handle_removed_from_network, history
  <2> QED BY Zenon, <2>1, <2>2
<1>5. CASE leave_network(n) \/ NukePublishFails(n)
  BY Zenon, <1>3, <1>5, PhantomTeardown DEF leave_network, NukePublishFails, history
<1>6. CASE NukeSolo(n)
  <2>1. Tombstone(state[n].generation + 1).members = {} BY <1>1, <1>2, BlobFacts
  <2>2. nuking' = [nuking EXCEPT ![n] = Tombstone(state[n].generation + 1)]
    BY Zenon, <1>6 DEF NukeSolo
  <2>3. NukesEmpty' BY <2>1, <2>2 DEF NukesEmpty, RemovalInv, TypeOK, DutiesOK
  <2> QED BY <1>6, <2>3, PhantomStable DEF NukeSolo
<1>7. CASE NukePropose(n)
  <2> DEFINE s == Bumped([state[n] EXCEPT !.proposals = @ \cup {n}])
  <2>1. s \in Blob /\ s.members \subseteq Known BY Zenon, <1>1, MemberEdits
  <2>2. NoPhantomMembers' /\ RostersKnown'
    BY Zenon, <1>7, <2>1, PhantomSetState DEF NukePropose, Known
  <2>3. PICK expired \in SUBSET (s.proposals \ {n}) :
             nuking' = [nuking EXCEPT ![n] =
                 IF Cardinality(s.proposals \ expired) >= Threshold
                 THEN Tombstone(s.generation + 1) ELSE NoRecord]
    BY Zenon, <1>7 DEF NukePropose
  <2> HIDE DEF s
  <2>4. Tombstone(s.generation + 1).members = {} BY <1>2, <2>1, BlobFacts
  <2>5. NukesEmpty' BY <2>3, <2>4 DEF NukesEmpty, RemovalInv, TypeOK, DutiesOK
  <2> QED BY <1>7, <2>2, <2>5, PhantomStable DEF NukePropose
<1>8. CASE NukeCancel(n)
  <2> DEFINE s == Bumped([state[n] EXCEPT !.proposals = @ \ {n}])
  <2>1. s \in Blob /\ s.members \subseteq Known BY Zenon, <1>1, MemberEdits
  <2> QED BY Zenon, <1>8, <2>1, PhantomSetState, PhantomStable DEF NukeCancel, Known, rest, history
<1>9. CASE publish_nuke_tombstone(n)
  <2>1. \A b \in signed' : b.members \subseteq Known
    BY Zenon, <1>3, <1>9 DEF publish_nuke_tombstone, Write, NukesEmpty
  <2> QED BY Zenon, <1>9, <2>1, PhantomTeardown DEF publish_nuke_tombstone
<1> QED BY Zenon, <1>4, <1>5, <1>6, <1>7, <1>8, <1>9

LEMMA PhantomRestore ==
    ASSUME PhantomInv, RemovalInv', NEW n \in Node, RestoreCoordinator(n) \/ RestoreMember(n)
    PROVE  PhantomInv'
<1> USE DEF PhantomInv
<1>1. \A s \in RestoreSources(n) : s \in Blob /\ s.members \subseteq Known
  <2>1. dht.members \subseteq Known
    BY Zenon DEF RemovalInv, SourcesSigned, NoPhantomMembers, Known
  <2>2. ConfigRoster(n).members \subseteq Known BY DEF ConfigRoster, NoPhantomMembers, Known
  <2>3. \A s \in RestoreSources(n) : s \in {dht, ConfigRoster(n)} BY DEF RestoreSources
  <2>4. \A s \in RestoreSources(n) : s \in Blob BY RestoreSourcesFacts DEF RemovalInv
  <2> QED BY Zenon, <2>1, <2>2, <2>3, <2>4
<1>2. ASSUME NEW s \in Blob, s.members \subseteq Known, Restarted(n, s)
      PROVE  /\ \A k \in Node : state'[k].members \subseteq Known'
             /\ \A k \in Node : snapshot'[k].members \subseteq Known'
             /\ JoinsKnown' /\ NukesEmpty' /\ Known' = Known /\ signed' = signed
  <2>1. Known' = Known /\ admitted' = admitted /\ signed' = signed
    BY Zenon, <1>2 DEF Restarted, history, Known
  <2>2. /\ \A k \in Node : state'[k].members \subseteq Known'
        /\ \A k \in Node : snapshot'[k].members \subseteq Known'
    BY Zenon, <1>2, <2>1, PhantomSetState DEF Restarted
  <2>3. JoinsKnown'
    BY Zenon, <1>2, <2>1 DEF Restarted, Unheard, NoJoin, JoinsKnown, RemovalInv, TypeOK, GossipOK, JoinOK
  <2>4. NukesEmpty' BY Zenon, <1>2 DEF Restarted, NukesEmpty, RemovalInv, TypeOK, DutiesOK
  <2> QED BY Zenon, <2>1, <2>2, <2>3, <2>4
<1>3. CASE RestoreCoordinator(n)
  <2>1. PICK source \in RestoreSources(n) :
            LET restored == [source EXCEPT !.members = @ \cup {n}] IN
            /\ Restarted(n, restored)
            /\ publisher' = [publisher EXCEPT ![n] = [pc |-> "guard", blob |-> restored]]
    BY Zenon, <1>3 DEF RestoreCoordinator
  <2> DEFINE restored == [source EXCEPT !.members = @ \cup {n}]
  <2>2. n \in Known BY <1>3, ConvergeAssumption DEF RestoreCoordinator, Coordinator, Known
  <2>3. restored \in Blob /\ restored.members = source.members \cup {n}
    BY Zenon, <1>1, MemberEdits
  <2>4. restored.members \subseteq Known BY <1>1, <2>2, <2>3
  <2> HIDE DEF restored
  <2>5. Restarted(n, restored) /\ publisher' = [publisher EXCEPT ![n] = [pc |-> "guard", blob |-> restored]]
    BY <2>1 DEF restored
  <2>6. RostersKnown'
    BY <1>2, <2>3, <2>4, <2>5 DEF RostersKnown, RemovalInv, TypeOK, RecordOK
  <2>7. NoPhantomMembers'
    BY Zenon, <1>2, <1>3, <2>3, <2>4, <2>5 DEF RestoreCoordinator, NoPhantomMembers, Known
  <2> QED BY <1>2, <2>3, <2>4, <2>5, <2>6, <2>7
<1>4. CASE RestoreMember(n)
  <2>1. PICK source \in RestoreSources(n) :
            /\ Restarted(n, source)
            /\ saved' \in {saved, [saved EXCEPT ![n] = source.members]}
    BY <1>4 DEF RestoreMember
  <2>2. source \in Blob /\ source.members \subseteq Known BY Zenon, <1>1
  <2>3. NoPhantomMembers'
    BY Zenon, <1>2, <2>1, <2>2 DEF NoPhantomMembers, Known, RemovalInv, TypeOK, NodesOK
  <2>4. RostersKnown' BY Zenon, <1>2, <1>4, <2>1, <2>2 DEF RestoreMember, RostersKnown
  <2> QED BY <1>2, <2>1, <2>2, <2>3, <2>4
<1> QED BY Zenon, <1>3, <1>4

LEMMA PhantomInit == Init => PhantomInv
<1> SUFFICES ASSUME Init PROVE PhantomInv OBVIOUS
<1>1. RemovalInv BY Zenon, RemovalInit
<1>2. NoPhantomMembers
  <2>1. FoundingBlob.members = Founders /\ NoState.members = {}
    BY DEF FoundingBlob, NoState, Tombstone
  <2>2. \A k \in Node : state[k].members \cup saved[k] \subseteq Founders BY <2>1 DEF Init
  <2>3. \A b \in signed : b.members \subseteq Founders BY <2>1 DEF Init
  <2> QED BY <2>2, <2>3 DEF NoPhantomMembers
<1>3. RostersKnown
  BY Zenon DEF Init, RostersKnown, Known, FoundingBlob, NoState, Tombstone, Idle
<1>4. JoinsKnown /\ NukesEmpty BY DEF Init, JoinsKnown, NukesEmpty, NoJoin
<1> QED BY <1>1, <1>2, <1>3, <1>4 DEF PhantomInv

LEMMA PhantomNext ==
    ASSUME PhantomInv, [Next]_vars
    PROVE  PhantomInv'
<1>1. RemovalInv' BY RemovalNext DEF PhantomInv
<1>2. CASE UNCHANGED vars BY <1>1, <1>2, PhantomStable DEF vars, PhantomInv
<1>3. ASSUME NEW n \in Node, Task(n) \/ Environment(n) PROVE PhantomInv'
  BY <1>1, <1>3, PhantomPublisher, PhantomReader, PhantomEdit, PhantomJoin, PhantomLeave,
     PhantomRestore DEF Task, Environment
<1> QED BY <1>2, <1>3 DEF Next

\* Whoever is on a roster, signed, in memory or on disk, founded the network or
\* was admitted against an invite by a coordinator: the daemon has no other way
\* in, whatever is gossiped, restored from old files or applied late.
THEOREM NoPhantoms == Spec => []NoPhantomMembers
<1>1. Init => PhantomInv BY PhantomInit
<1>2. PhantomInv /\ [Next]_vars => PhantomInv' BY PhantomNext
<1>3. PhantomInv => NoPhantomMembers BY DEF PhantomInv
<1> QED BY <1>1, <1>2, <1>3, PTL DEF Spec

=============================================================================
