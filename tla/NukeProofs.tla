----------------------------- MODULE NukeProofs -----------------------------
(***************************************************************************)
(* Who it takes to nuke a network, for every finite number of nodes and    *)
(* every number of operations.                                             *)
(***************************************************************************)
EXTENDS ConvergeProofs, FiniteSetTheorems

(* Until a nuke has its consensus, every roster that any task holds lists  *)
(* every coordinator that no coordinator has dropped, and counts only      *)
(* proposals that were made: whatever copy a nuke_network call reads, it   *)
(* sees the coordinators it has to ask.                                    *)

Consensus ==
    \/ Cardinality(proposed) >= Threshold
    \/ Cardinality(KeyHolder \ dropped) <= 1

\* Such a roster, against what was dropped and proposed so far.
Sound(b, gone, called) == KeyHolder \ b.members \subseteq gone /\ b.proposals \subseteq called

Running(n) == status[n] \in {"up", "restoring"}

NodesSound ==
    \A n \in Node : Running(n) =>
        /\ Sound(state[n], dropped, proposed)
        /\ Sound(snapshot[n], dropped, proposed)
        /\ KeyHolder \ saved[n] \subseteq dropped

PublishersSound ==
    \A n \in Node : publisher[n].pc # "idle" => Sound(publisher[n].blob, dropped, proposed)

JoinsSound ==
    \A n \in Node : join[n].pc # "none" => Sound(join[n].blob, dropped, proposed)

SignedSound == \A b \in signed : Sound(b, dropped, proposed)

NobodyNukes == \A n \in Node : nuking[n] = NoRecord

AllSound == NodesSound /\ PublishersSound /\ JoinsSound /\ SignedSound /\ NobodyNukes

NukeInv == RemovalInv /\ (Consensus \/ AllSound)

-----------------------------------------------------------------------------
LEMMA ConsensusStable ==
    ASSUME IsFiniteSet(Node), TypeOK', Consensus,
           proposed \subseteq proposed', dropped \subseteq dropped'
    PROVE  Consensus'
<1>1. IsFiniteSet(proposed') /\ IsFiniteSet(KeyHolder \ dropped)
  BY FS_Subset, ConvergeAssumption DEF TypeOK, HistoryOK
<1>2. IsFiniteSet(proposed) BY <1>1, FS_Subset
<1>3. Cardinality(proposed) <= Cardinality(proposed') BY <1>1, FS_Subset
<1>4. Cardinality(KeyHolder \ dropped') <= Cardinality(KeyHolder \ dropped)
  BY <1>1, FS_Subset
<1>5. /\ Cardinality(proposed) \in Nat /\ Cardinality(proposed') \in Nat
      /\ Cardinality(KeyHolder \ dropped) \in Nat /\ Cardinality(KeyHolder \ dropped') \in Nat
  BY <1>1, <1>2, FS_Subset, FS_CardinalityType
<1> QED BY <1>3, <1>4, <1>5, ConvergeAssumption DEF Consensus

\* What has been dropped or proposed stays so.
LEMMA HistoryGrows ==
    ASSUME [Next]_vars
    PROVE  proposed \subseteq proposed' /\ dropped \subseteq dropped'
<1>1. CASE UNCHANGED vars BY <1>1 DEF vars
<1>2. ASSUME NEW n \in Node, Task(n) \/ Environment(n)
      PROVE  proposed \subseteq proposed' /\ dropped \subseteq dropped'
  <2>1. CASE Publisher(n) \/ PublisherPublishFails(n)
    BY Zenon, <2>1 DEF Publisher, PublisherCapture, PublisherGuardPasses,
       PublisherGuardDefers, PublisherPublish, PublisherPublishFails, rest, history
  <2>2. CASE Poller(n) \/ PollerFetchFails(n)
    BY Zenon, <2>2 DEF Poller, PollerTick, PollerResolve, PollerApply, PollerRemoved,
       PollerFetchFails, rest, history
  <2>3. CASE Worker(n) \/ WorkerFetchFails(n) \/ WorkerStart(n)
    BY Zenon, <2>3 DEF Worker, WorkerResolve, WorkerCheck, WorkerApply, WorkerFetchFails,
       WorkerStart, rest, history
  <2>4. CASE \/ update_snapshot_and_publish(n) \/ JoinWelcomed(n) \/ JoinFetch(n) \/ JoinFails(n)
             \/ handle_removed_from_network(n) \/ leave_network(n)
             \/ publish_nuke_tombstone(n) \/ NukePublishFails(n) \/ NukeCancel(n)
    BY Zenon, <2>4 DEF update_snapshot_and_publish, JoinWelcomed, JoinFetch, JoinFails,
       handle_removed_from_network, leave_network, publish_nuke_tombstone, NukePublishFails,
       NukeCancel, rest, history
  <2>5. CASE NukeSolo(n) \/ NukePropose(n) BY <2>5 DEF NukeSolo, NukePropose
  <2>6. ASSUME NEW m \in Node,
               \/ CleanupStamp(n, m) \/ DenyPeer(n, m) \/ admit_peer(n, m)
               \/ MemberApproved(n, m) \/ admit_approved_member(n, m)
        PROVE  proposed \subseteq proposed' /\ dropped \subseteq dropped'
    BY Zenon, <2>6 DEF CleanupStamp, DenyPeer, admit_peer, MemberApproved,
       admit_approved_member, rest, history
  <2>7. ASSUME NEW m \in Node, CleanupLeft(n, m) \/ kick_member(n, m)
        PROVE  proposed \subseteq proposed' /\ dropped \subseteq dropped'
    BY <2>7 DEF CleanupLeft, kick_member
  <2>8. ASSUME NEW i \in Invite,
               invite_create(n, i) \/ \E j \in Node : RedeemInvite(n, j, i)
        PROVE  proposed \subseteq proposed' /\ dropped \subseteq dropped'
    BY Zenon, <2>8 DEF invite_create, RedeemInvite, rest, history
  <2>9. CASE RestoreCoordinator(n) \/ RestoreMember(n)
    BY Zenon, <2>9 DEF RestoreCoordinator, RestoreMember, Restarted, history
  <2> QED BY Zenon, <1>2, <2>1, <2>2, <2>3, <2>4, <2>5, <2>6, <2>7, <2>8, <2>9
      DEF Task, Environment
<1> QED BY <1>1, <1>2 DEF Next

LEMMA SoundGrows ==
    ASSUME NEW b, NEW gone, NEW called, NEW gone2, NEW called2, Sound(b, gone, called),
           gone \subseteq gone2, called \subseteq called2
    PROVE  Sound(b, gone2, called2)
BY DEF Sound

LEMMA SoundStable ==
    ASSUME AllSound, proposed \subseteq proposed', dropped \subseteq dropped'
    PROVE  /\ UNCHANGED <<state, snapshot, status, saved>> => NodesSound'
           /\ UNCHANGED publisher => PublishersSound'
           /\ UNCHANGED join => JoinsSound'
           /\ UNCHANGED signed => SignedSound'
           /\ UNCHANGED nuking => NobodyNukes'
<1>1. UNCHANGED <<state, snapshot, status, saved>> => NodesSound'
  BY DEF AllSound, NodesSound, Running, Sound
<1>2. UNCHANGED publisher => PublishersSound'
  BY DEF AllSound, PublishersSound, Sound
<1>3. UNCHANGED join => JoinsSound' BY DEF AllSound, JoinsSound, Sound
<1>4. UNCHANGED signed => SignedSound' BY Zenon, SoundGrows DEF AllSound, SignedSound
<1>5. UNCHANGED nuking => NobodyNukes' BY DEF AllSound, NobodyNukes
<1> QED BY <1>1, <1>2, <1>3, <1>4, <1>5

\* A node takes a sound roster.
LEMMA SoundSetState ==
    ASSUME TypeOK, AllSound, proposed \subseteq proposed', dropped \subseteq dropped',
           NEW n \in Node, NEW s, SetState(n, s), Sound(s, dropped', proposed'),
           \A k \in Node \ {n} : Running(k)' => Running(k),
           \A k \in Node : Running(k)' => KeyHolder \ saved'[k] \subseteq dropped'
    PROVE  NodesSound'
<1> SUFFICES ASSUME NEW k \in Node, Running(k)'
             PROVE  /\ Sound(state'[k], dropped', proposed')
                    /\ Sound(snapshot'[k], dropped', proposed')
                    /\ KeyHolder \ saved'[k] \subseteq dropped'
  BY Zenon DEF NodesSound
<1>1. CASE k = n
  <2>1. state'[n] = s /\ snapshot'[n] = s BY DEF SetState, TypeOK, NodesOK
  <2> QED BY Zenon, <1>1, <2>1
<1>2. CASE k # n
  <2>1. state'[k] = state[k] /\ snapshot'[k] = snapshot[k] BY <1>2 DEF SetState, TypeOK, NodesOK
  <2>2. Sound(state[k], dropped, proposed) /\ Sound(snapshot[k], dropped, proposed)
    BY Zenon, <1>2 DEF AllSound, NodesSound
  <2> QED BY Zenon, <2>1, <2>2, SoundGrows
<1> QED BY Zenon, <1>1, <1>2

\* What the edits of a coordinator leave of a sound roster.
LEMMA SoundEdits ==
    ASSUME NEW s \in Blob, NEW gone, NEW called, Sound(s, gone, called)
    PROVE  /\ Sound(Bumped(s), gone, called)
           /\ \A d \in Blob : Sound(Adopted(d, s), gone, called)
           /\ \A j \in Node : Sound(Bumped([s EXCEPT !.members = @ \cup {j}]), gone, called)
           /\ \A j \in Node : Sound([s EXCEPT !.members = @ \cup {j}], gone, called)
           /\ \A j \in Node : Sound([s EXCEPT !.members = @ \ {j}], gone \cup {j}, called)
           /\ \A j \in Node : Sound(Bumped([s EXCEPT !.proposals = @ \cup {j}]), gone, called \cup {j})
           /\ \A j \in Node : Sound(Bumped([s EXCEPT !.proposals = @ \ {j}]), gone, called)
           /\ \A i \in Invite : Sound(Bumped([s EXCEPT !.invites = @ \cup {i}]), gone, called)
           /\ \A i \in Invite : Sound(Bumped([s EXCEPT !.invites = @ \ {i}]), gone, called)
BY DEF Sound, Blob, Bumped, Adopted

LEMMA SoundPublisher ==
    ASSUME RemovalInv, AllSound, NEW n \in Node, Publisher(n) \/ PublisherPublishFails(n)
    PROVE  AllSound'
<1> USE DEF AllSound
<1>0. TypeOK BY DEF RemovalInv
<1>1. CASE PublisherCapture(n)
  <2>1. Sound(snapshot[n], dropped, proposed)
    BY Zenon, <1>1 DEF PublisherCapture, Coordinator, Up, NodesSound, Running
  <2>2. PublishersSound'
    BY <1>0, <1>1, <2>1 DEF PublisherCapture, PublishersSound, Sound, TypeOK, RecordOK, rest, history
  <2> QED BY <1>1, <2>2, SoundStable DEF PublisherCapture, rest, history
<1>2. CASE PublisherGuardPasses(n)
  <2>1. PublishersSound'
    BY <1>0, <1>2 DEF PublisherGuardPasses, PublishersSound, Sound, TypeOK, RecordOK, rest, history
  <2> QED BY <1>2, <2>1, SoundStable DEF PublisherGuardPasses, rest, history
<1>3. CASE PublisherGuardDefers(n) \/ PublisherPublish(n) \/ PublisherPublishFails(n)
  <2>1. UNCHANGED <<state, snapshot, join, nuking, dropped, proposed>> /\ Sealed(n)
    BY Zenon, <1>3
    DEF PublisherGuardDefers, PublisherPublish, PublisherPublishFails, rest, history
  <2>2. publisher' = [publisher EXCEPT ![n] = Idle]
    BY Zenon, <1>3 DEF PublisherGuardDefers, PublisherPublish, PublisherPublishFails
  <2>3. PublishersSound'
    BY <1>0, <2>1, <2>2 DEF PublishersSound, Sound, Idle, TypeOK, RecordOK
  <2>4. NodesSound' BY <1>0, <2>1 DEF Sealed, NodesSound, Running, Sound, TypeOK, NodesOK
  <2>5. signed' = signed \/ (publisher[n].pc = "publish" /\ signed' = signed \cup {publisher[n].blob})
    BY Zenon, <1>3
    DEF PublisherGuardDefers, PublisherPublish, PublisherPublishFails, Write, rest, history
  <2>6. SignedSound' BY <2>1, <2>5 DEF SignedSound, PublishersSound, Sound
  <2> QED BY <2>1, <2>3, <2>4, <2>6, SoundStable
<1> QED BY Zenon, <1>1, <1>2, <1>3 DEF Publisher

LEMMA SoundReader ==
    ASSUME RemovalInv, AllSound, NEW n \in Node,
           Poller(n) \/ PollerFetchFails(n) \/ Worker(n) \/ WorkerFetchFails(n) \/ WorkerStart(n)
    PROVE  AllSound'
<1> USE DEF AllSound
<1>0. TypeOK BY DEF RemovalInv
<1>1. CASE PollerTick(n) \/ PollerResolve(n) \/ PollerFetchFails(n) \/ PollerRemoved(n)
  BY Zenon, <1>1, SoundStable
  DEF PollerTick, PollerResolve, PollerFetchFails, PollerRemoved, rest, history
<1>2. CASE WorkerStart(n) \/ WorkerResolve(n) \/ WorkerFetchFails(n) \/ WorkerCheck(n)
  BY Zenon, <1>2, SoundStable
  DEF WorkerStart, WorkerResolve, WorkerFetchFails, WorkerCheck, rest, history
<1>3. ASSUME NEW data \in signed, SetState(n, Adopted(state[n], data)),
             saved' = [saved EXCEPT ![n] = data.members],
             UNCHANGED <<status, publisher, nuking, join, history>>
      PROVE  AllSound'
  <2>1. Sound(data, dropped, proposed) /\ data \in Blob /\ state[n] \in Blob
    BY <1>0 DEF SignedSound, TypeOK, NodesOK, HistoryOK
  <2>2. UNCHANGED <<dropped, proposed, signed>> BY Zenon, <1>3 DEF history
  <2>3. Sound(Adopted(state[n], data), dropped', proposed') BY Zenon, <2>1, <2>2, SoundEdits
  <2>4. \A k \in Node : Running(k)' => KeyHolder \ saved'[k] \subseteq dropped'
    BY <1>0, <1>3, <2>1, <2>2 DEF NodesSound, Running, Sound, TypeOK, NodesOK
  <2>5. \A k \in Node : Running(k)' => Running(k) BY <1>3 DEF Running
  <2>6. NodesSound' BY <1>0, <1>3, <2>2, <2>3, <2>4, <2>5, SoundSetState
  <2> QED BY <1>3, <2>2, <2>6, SoundStable
<1>4. CASE PollerApply(n)
  BY Zenon, <1>3, <1>4 DEF PollerApply, RemovalInv, SourcesSigned
<1>5. CASE WorkerApply(n)
  BY <1>3, <1>5 DEF WorkerApply, RemovalInv, SourcesSigned
<1> QED BY Zenon, <1>1, <1>2, <1>4, <1>5 DEF Poller, Worker

\* A running node edits its roster, and nothing else of this changes.
LEMMA SoundEdit ==
    ASSUME RemovalInv, AllSound, NEW n \in Node, NEW s, SetState(n, s),
           Sound(s, dropped', proposed'),
           proposed \subseteq proposed', dropped \subseteq dropped',
           UNCHANGED <<status, saved>>
    PROVE  NodesSound'
<1>1. TypeOK BY DEF RemovalInv
<1>2. \A k \in Node : Running(k)' => Running(k) BY DEF Running
<1>3. \A k \in Node : Running(k)' => KeyHolder \ saved'[k] \subseteq dropped'
  BY <1>2 DEF AllSound, NodesSound
<1> QED BY Zenon, <1>1, <1>2, <1>3, SoundSetState

LEMMA SoundCoordinator ==
    ASSUME RemovalInv, AllSound, NEW n \in Node, NEW m \in Node,
           \/ update_snapshot_and_publish(n) \/ kick_member(n, m) \/ CleanupStamp(n, m)
           \/ CleanupLeft(n, m) \/ \E i \in Invite : invite_create(n, i)
    PROVE  AllSound'
<1> USE DEF AllSound
<1>0. TypeOK BY DEF RemovalInv
<1>1. Running(n)
  BY Zenon DEF update_snapshot_and_publish, kick_member, CleanupStamp, CleanupLeft,
     invite_create, Coordinator, Up, Running
<1>2. state[n] \in Blob /\ Sound(state[n], dropped, proposed)
  BY <1>0, <1>1 DEF NodesSound, TypeOK, NodesOK
<1>3. CASE update_snapshot_and_publish(n)
  <2>1. Sound(Bumped(state[n]), dropped, proposed) BY Zenon, <1>2, SoundEdits
  <2>2. NodesSound'
    BY Zenon, <1>3, <2>1, SoundEdit DEF update_snapshot_and_publish, rest, history
  <2> QED BY Zenon, <1>3, <2>2, SoundStable DEF update_snapshot_and_publish, rest, history
<1>4. CASE kick_member(n, m) \/ CleanupLeft(n, m)
  <2>1. /\ state' = [state EXCEPT ![n] = [state[n] EXCEPT !.members = @ \ {m}]]
        /\ dropped' = dropped \cup {m}
        /\ UNCHANGED <<snapshot, status, saved, publisher, nuking, join, proposed, signed>>
    BY <1>4 DEF kick_member, CleanupLeft
  <2>2. Sound([state[n] EXCEPT !.members = @ \ {m}], dropped', proposed')
    BY Zenon, <1>2, <2>1, SoundEdits
  <2>3. \A k \in Node : Running(k) => Sound(state'[k], dropped', proposed')
    BY <1>0, <2>1, <2>2 DEF NodesSound, Sound, TypeOK, NodesOK
  <2>4. NodesSound' BY <2>1, <2>3 DEF NodesSound, Sound, Running
  <2> QED BY <2>1, <2>4, SoundStable
<1>5. CASE CleanupStamp(n, m)
  BY Zenon, <1>5, SoundStable DEF CleanupStamp, rest, history
<1>6. ASSUME NEW i \in Invite, invite_create(n, i) PROVE AllSound'
  <2>1. Sound(Bumped([state[n] EXCEPT !.invites = @ \cup {i}]), dropped, proposed)
    BY Zenon, <1>2, SoundEdits
  <2>2. NodesSound' BY Zenon, <1>6, <2>1, SoundEdit DEF invite_create
  <2> QED BY Zenon, <1>6, <2>2, SoundStable DEF invite_create
<1> QED BY Zenon, <1>3, <1>4, <1>5, <1>6

LEMMA SoundJoin ==
    ASSUME RemovalInv, AllSound, NEW n \in Node, NEW j \in Node,
           \/ JoinFetch(n) \/ JoinFails(n) \/ JoinWelcomed(n)
           \/ \E i \in Invite : RedeemInvite(n, j, i)
           \/ admit_peer(n, j) \/ DenyPeer(n, j)
           \/ MemberApproved(n, j) \/ admit_approved_member(n, j)
    PROVE  AllSound'
<1> USE DEF AllSound
<1>0. TypeOK /\ NoJoin.pc = "none" BY DEF RemovalInv, NoJoin
<1>1. Running(n) => state[n] \in Blob /\ Sound(state[n], dropped, proposed)
  BY <1>0 DEF NodesSound, TypeOK, NodesOK
<1>2. ASSUME NEW k \in Node, NEW e, join' = [join EXCEPT ![k] = e],
             e.pc = "none" \/ Sound(e.blob, dropped, proposed), UNCHANGED <<dropped, proposed>>
      PROVE  JoinsSound'
  BY <1>0, <1>2 DEF JoinsSound, Sound, TypeOK, JoinOK
<1>3. CASE JoinFetch(n)
  <2> DEFINE e == [NoJoin EXCEPT !.pc = "fetched", !.blob = dht]
  <2>1. e.blob = dht BY DEF NoJoin
  <2>2. Sound(dht, dropped, proposed) BY Zenon DEF RemovalInv, SourcesSigned, SignedSound
  <2>3. JoinsSound' BY <1>2, <1>3, <2>1, <2>2 DEF JoinFetch, rest, history
  <2> QED BY Zenon, <1>3, <2>3, SoundStable DEF JoinFetch, rest, history
<1>4. CASE JoinFails(n)
  <2>1. JoinsSound' BY Zenon, <1>0, <1>2, <1>4 DEF JoinFails, rest, history
  <2> QED BY Zenon, <1>4, <2>1, SoundStable DEF JoinFails, rest, history
<1>5. CASE JoinWelcomed(n)
  <2>1. Sound(join[n].blob, dropped, proposed) /\ UNCHANGED <<dropped, proposed>>
    BY <1>5 DEF JoinWelcomed, JoinsSound, rest, history
  <2>2. \A k \in Node \ {n} : Running(k)' => Running(k) /\ saved'[k] = saved[k]
    BY <1>0, <1>5 DEF JoinWelcomed, Running, TypeOK, NodesOK
  <2>3. saved'[n] = join[n].blob.members BY <1>0, <1>5 DEF JoinWelcomed, TypeOK, NodesOK
  <2>4. \A k \in Node : Running(k)' => KeyHolder \ saved'[k] \subseteq dropped'
    BY <2>1, <2>2, <2>3 DEF NodesSound, Sound
  <2>5. NodesSound' BY Zenon, <1>0, <1>5, <2>1, <2>2, <2>4, SoundSetState DEF JoinWelcomed
  <2>6. JoinsSound' BY Zenon, <1>0, <1>2, <1>5, <2>1 DEF JoinWelcomed
  <2> QED BY Zenon, <1>5, <2>5, <2>6, SoundStable DEF JoinWelcomed, rest, history
<1>6. ASSUME NEW i \in Invite, RedeemInvite(n, j, i) PROVE AllSound'
  <2>1. Sound(Bumped([state[n] EXCEPT !.invites = @ \ {i}]), dropped, proposed)
    BY Zenon, <1>1, <1>6, SoundEdits DEF RedeemInvite, Coordinator, Up, Running
  <2>2. NodesSound' BY Zenon, <1>6, <2>1, SoundEdit DEF RedeemInvite, rest, history
  <2>3. \A k \in Node : join'[k].blob = join[k].blob /\ (join'[k].pc # "none" => join[k].pc # "none")
    BY <1>0, <1>6 DEF RedeemInvite, TypeOK, JoinOK
  <2>4. JoinsSound' BY <1>6, <2>3 DEF RedeemInvite, JoinsSound, Sound, rest, history
  <2> QED BY Zenon, <1>6, <2>2, <2>4, SoundStable DEF RedeemInvite, rest, history
<1>7. CASE admit_peer(n, j)
  <2>1. Running(n) BY Zenon, <1>7 DEF admit_peer, Coordinator, Up, Running
  <2>2. Sound(Bumped([state[n] EXCEPT !.members = @ \cup {j}]), dropped, proposed)
    BY Zenon, <1>1, <2>1, SoundEdits
  <2>3. NodesSound' BY Zenon, <1>7, <2>2, SoundEdit DEF admit_peer
  <2>4. join[j].blob \in Blob /\ Sound(join[j].blob, dropped, proposed)
    BY <1>0, <1>7 DEF admit_peer, JoinsSound, TypeOK, JoinOK
  <2>5. /\ \A k \in Node \ {j} : join'[k] = join[k]
        /\ join'[j].blob = [join[j].blob EXCEPT !.members = state[n].members \cup {j}]
    BY <1>0, <1>7 DEF admit_peer, TypeOK, JoinOK
  <2>6. /\ join'[j].blob.members = state[n].members \cup {j}
        /\ join'[j].blob.proposals = join[j].blob.proposals
    BY <2>4, <2>5 DEF Blob
  <2>7. JoinsSound'
    BY <1>1, <1>7, <2>1, <2>4, <2>5, <2>6 DEF admit_peer, JoinsSound, Sound
  <2> QED BY Zenon, <1>7, <2>3, <2>7, SoundStable DEF admit_peer
<1>8. CASE DenyPeer(n, j)
  <2>1. join[j].invite \in Invite /\ Running(n)
    BY <1>0, <1>8 DEF DenyPeer, TypeOK, JoinOK, Coordinator, Up, Running
  <2>2. Sound(Bumped([state[n] EXCEPT !.invites = @ \cup {join[j].invite}]), dropped, proposed)
    BY Zenon, <1>1, <2>1, SoundEdits
  <2>3. NodesSound' BY Zenon, <1>8, <2>2, SoundEdit DEF DenyPeer, rest, history
  <2>4. JoinsSound' BY Zenon, <1>0, <1>2, <1>8 DEF DenyPeer, rest, history
  <2> QED BY Zenon, <1>8, <2>3, <2>4, SoundStable DEF DenyPeer, rest, history
<1>9. CASE MemberApproved(n, j)
  BY Zenon, <1>9, SoundStable DEF MemberApproved, history
<1>10. CASE admit_approved_member(n, j)
  <2>1. CASE j \in state[n].members
    BY Zenon, <1>10, <2>1, SoundStable DEF admit_approved_member, history
  <2>2. CASE j \notin state[n].members
    <3>1. Sound(Bumped([state[n] EXCEPT !.members = @ \cup {j}]), dropped, proposed)
      BY Zenon, <1>1, <1>10, SoundEdits DEF admit_approved_member, Up, Running
    <3>2. NodesSound'
      BY Zenon, <1>10, <2>2, <3>1, SoundEdit DEF admit_approved_member, history
    <3> QED BY Zenon, <1>10, <3>2, SoundStable DEF admit_approved_member, history
  <2> QED BY Zenon, <2>1, <2>2
<1> QED BY Zenon, <1>3, <1>4, <1>5, <1>6, <1>7, <1>8, <1>9, <1>10

\* A node that tears its network down holds no roster any more.
LEMMA SoundLeave ==
    ASSUME RemovalInv, AllSound, NEW n \in Node, handle_removed_from_network(n) \/ leave_network(n)
    PROVE  AllSound'
<1> USE DEF AllSound
<1>0. TypeOK BY DEF RemovalInv
<1>1. UNCHANGED <<publisher, join, history>>
  BY Zenon DEF handle_removed_from_network, leave_network
<1>2. ASSUME NEW told, Teardown(n, told) PROVE AllSound'
  <2>1. ~ Running(n)' BY <1>0, <1>2 DEF Teardown, Running, TypeOK, NodesOK
  <2>2. \A k \in Node \ {n} :
            /\ state'[k] = state[k] /\ snapshot'[k] = snapshot[k]
            /\ status'[k] = status[k] /\ saved'[k] = saved[k]
    BY <1>0, <1>2 DEF Teardown, SetState, TypeOK, NodesOK
  <2>3. NodesSound' BY <1>1, <2>1, <2>2 DEF NodesSound, Running, Sound, history
  <2>4. NobodyNukes' BY <1>0, <1>2 DEF Teardown, NobodyNukes, TypeOK, DutiesOK
  <2> QED BY Zenon, <1>1, <2>3, <2>4, SoundStable DEF history
<1>3. CASE handle_removed_from_network(n)
  <2>1. CASE Up(n) BY Zenon, <1>2, <1>3, <2>1 DEF handle_removed_from_network
  <2>2. CASE ~ Up(n)
    BY Zenon, <1>1, <1>3, <2>2, SoundStable DEF handle_removed_from_network, history
  <2> QED BY Zenon, <2>1, <2>2
<1>4. CASE leave_network(n) BY Zenon, <1>2, <1>4 DEF leave_network
<1> QED BY Zenon, <1>3, <1>4

\* nuke_network decides on a sound roster: a decision to go ahead is a consensus.
LEMMA SoundNuke ==
    ASSUME IsFiniteSet(Node), RemovalInv, TypeOK', AllSound, NEW n \in Node,
           \/ NukeSolo(n) \/ NukePropose(n) \/ NukeCancel(n)
           \/ publish_nuke_tombstone(n) \/ NukePublishFails(n)
    PROVE  Consensus' \/ AllSound'
<1> USE DEF AllSound
<1>0. TypeOK BY DEF RemovalInv
<1>1. Running(n) => state[n] \in Blob /\ Sound(state[n], dropped, proposed)
  BY <1>0 DEF NodesSound, TypeOK, NodesOK
<1>2. CASE NukeSolo(n)
  <2>1. Sound(state[n], dropped, proposed)
    BY Zenon, <1>1, <1>2 DEF NukeSolo, Coordinator, Up, Running
  <2>2. KeyHolder \ dropped \subseteq state[n].members \cap KeyHolder BY <2>1 DEF Sound
  <2>3. IsFiniteSet(state[n].members \cap KeyHolder) BY FS_Subset, ConvergeAssumption
  <2>4. Cardinality(KeyHolder \ dropped) <= Cardinality(state[n].members \cap KeyHolder)
    BY <2>2, <2>3, FS_Subset
  <2>5. IsFiniteSet(KeyHolder \ dropped) BY <2>2, <2>3, FS_Subset
  <2>6. Cardinality(KeyHolder \ dropped) \in Nat /\ Cardinality(state[n].members \cap KeyHolder) \in Nat
    BY <2>3, <2>5, FS_CardinalityType
  <2>7. Cardinality(state[n].members \cap KeyHolder) <= 1 /\ dropped' = dropped
    BY Zenon, <1>2 DEF NukeSolo, coordinator_count
  <2>8. Cardinality(KeyHolder \ dropped) <= 1 BY <2>4, <2>6, <2>7
  <2> QED BY Zenon, <2>7, <2>8 DEF Consensus
<1>3. CASE NukePropose(n)
  <2> DEFINE s == Bumped([state[n] EXCEPT !.proposals = @ \cup {n}])
  <2>1. SetState(n, s) /\ proposed' = proposed \cup {n}
        /\ UNCHANGED <<status, saved, publisher, join, signed, dropped>>
    BY Zenon, <1>3 DEF NukePropose
  <2>2. Sound(s, dropped', proposed')
    <3>1. Running(n) BY Zenon, <1>3 DEF NukePropose, Coordinator, Up, Running
    <3>2. Sound(s, dropped, proposed \cup {n}) BY Zenon, <1>1, <3>1, SoundEdits
    <3> QED BY Zenon, <2>1, <3>2
  <2>3. PICK expired \in SUBSET (s.proposals \ {n}) :
            nuking' = [nuking EXCEPT ![n] = IF Cardinality(s.proposals \ expired) >= Threshold
                                            THEN Tombstone(s.generation + 1) ELSE NoRecord]
    BY Zenon, <1>3 DEF NukePropose
  <2> HIDE DEF s
  <2>4. CASE Cardinality(s.proposals \ expired) >= Threshold
    <3>1. s.proposals \ expired \subseteq proposed' BY <2>2 DEF Sound
    <3>2. IsFiniteSet(proposed') BY FS_Subset DEF TypeOK, HistoryOK
    <3>3. /\ Cardinality(s.proposals \ expired) <= Cardinality(proposed')
          /\ IsFiniteSet(s.proposals \ expired)
      BY <3>1, <3>2, FS_Subset
    <3>4. Cardinality(s.proposals \ expired) \in Nat /\ Cardinality(proposed') \in Nat
      BY <3>2, <3>3, FS_CardinalityType
    <3>5. Cardinality(proposed') >= Threshold BY <2>4, <3>3, <3>4, ConvergeAssumption
    <3> QED BY Zenon, <3>5 DEF Consensus
  <2>5. CASE ~ (Cardinality(s.proposals \ expired) >= Threshold)
    <3>1. NobodyNukes' BY <1>0, <2>3, <2>5 DEF NobodyNukes, TypeOK, DutiesOK
    <3>2. NodesSound' BY <2>1, <2>2, SoundEdit
    <3> QED BY <2>1, <3>1, <3>2, SoundStable
  <2> QED BY Zenon, <2>4, <2>5
<1>4. CASE NukeCancel(n)
  <2>1. Sound(Bumped([state[n] EXCEPT !.proposals = @ \ {n}]), dropped, proposed)
    BY Zenon, <1>1, <1>4, SoundEdits DEF NukeCancel, Coordinator, Up, Running
  <2>2. NodesSound' BY Zenon, <1>4, <2>1, SoundEdit DEF NukeCancel, rest, history
  <2> QED BY Zenon, <1>4, <2>2, SoundStable DEF NukeCancel, rest, history
<1>5. ~ (publish_nuke_tombstone(n) \/ NukePublishFails(n))
  BY Zenon DEF publish_nuke_tombstone, NukePublishFails, NobodyNukes
<1> QED BY Zenon, <1>2, <1>3, <1>4, <1>5

\* A restarted node takes a signed roster, or the one it saved while it ran.
LEMMA SoundRestore ==
    ASSUME RemovalInv, AllSound, NEW n \in Node, RestoreCoordinator(n) \/ RestoreMember(n)
    PROVE  AllSound'
<1> USE DEF AllSound
<1>0. TypeOK BY DEF RemovalInv
<1>1. Running(n) BY Zenon DEF RestoreCoordinator, RestoreMember, Coordinator, Up, Running
<1>2. \A b \in RestoreSources(n) : b \in Blob /\ Sound(b, dropped, proposed)
  <2>1. Sound(dht, dropped, proposed) BY Zenon DEF RemovalInv, SourcesSigned, SignedSound
  <2>2. Sound(ConfigRoster(n), dropped, proposed) BY <1>1 DEF ConfigRoster, Sound, NodesSound
  <2>3. \A b \in RestoreSources(n) : b \in {dht, ConfigRoster(n)} BY DEF RestoreSources
  <2> QED BY Zenon, <1>0, <2>1, <2>2, <2>3, RestoreSourcesFacts
<1>3. ASSUME NEW s, Restarted(n, s), Sound(s, dropped, proposed),
             \A k \in Node : Running(k)' => Running(k),
             \A k \in Node : saved'[k] = saved[k] \/ (k = n /\ KeyHolder \ saved'[k] \subseteq dropped)
      PROVE  NodesSound' /\ JoinsSound' /\ SignedSound' /\ NobodyNukes' /\ UNCHANGED <<dropped, proposed>>
  <2>1. UNCHANGED <<dropped, proposed, signed>> BY Zenon, <1>3 DEF Restarted, history
  <2>2. \A k \in Node : Running(k)' => KeyHolder \ saved'[k] \subseteq dropped'
    BY <1>3, <2>1 DEF NodesSound
  <2>3. NodesSound' BY Zenon, <1>0, <1>3, <2>1, <2>2, SoundSetState DEF Restarted
  <2>4. \A k \in Node : join'[k].pc # "none" => join'[k] = join[k]
    BY Zenon, <1>3 DEF Restarted, NoJoin
  <2>5. JoinsSound' BY <2>1, <2>4 DEF JoinsSound, Sound
  <2>6. NobodyNukes' BY <1>0, <1>3 DEF Restarted, NobodyNukes, TypeOK, DutiesOK
  <2> QED BY <2>1, <2>3, <2>5, <2>6, SoundStable
<1>4. CASE RestoreMember(n)
  <2>1. PICK source \in RestoreSources(n) :
            Restarted(n, source) /\ saved' \in {saved, [saved EXCEPT ![n] = source.members]}
    BY Zenon, <1>4 DEF RestoreMember
  <2>2. UNCHANGED <<status, publisher>> BY Zenon, <1>4 DEF RestoreMember
  <2>3. \A k \in Node : saved'[k] = saved[k] \/ (k = n /\ KeyHolder \ saved'[k] \subseteq dropped)
    BY <1>0, <1>2, <2>1 DEF Sound, TypeOK, NodesOK
  <2>4. \A k \in Node : Running(k)' => Running(k) BY <2>2 DEF Running
  <2>5. Sound(source, dropped, proposed) BY Zenon, <1>2
  <2> QED BY <1>3, <2>1, <2>2, <2>3, <2>4, <2>5, SoundStable
<1>5. CASE RestoreCoordinator(n)
  <2>1. PICK source \in RestoreSources(n) :
            LET restored == [source EXCEPT !.members = @ \cup {n}] IN
            /\ Restarted(n, restored)
            /\ publisher' = [publisher EXCEPT ![n] = [pc |-> "guard", blob |-> restored]]
    BY Zenon, <1>5 DEF RestoreCoordinator
  <2> DEFINE restored == [source EXCEPT !.members = @ \cup {n}]
  <2>2. Sound(restored, dropped, proposed) BY Zenon, <1>2, SoundEdits
  <2>3. Restarted(n, restored) /\ publisher' = [publisher EXCEPT ![n] = [pc |-> "guard", blob |-> restored]]
    BY Zenon, <2>1
  <2> HIDE DEF restored
  <2>4. status' = [status EXCEPT ![n] = "restoring"] /\ saved' = saved
    BY Zenon, <1>5 DEF RestoreCoordinator
  <2>5. \A k \in Node : Running(k)' => Running(k)
    BY <1>0, <1>1, <2>4 DEF Running, TypeOK, NodesOK
  <2>6. NodesSound' /\ JoinsSound' /\ SignedSound' /\ NobodyNukes' /\ UNCHANGED <<dropped, proposed>>
    BY Zenon, <1>3, <2>2, <2>3, <2>4, <2>5
  <2>7. PublishersSound'
    BY <1>0, <2>2, <2>3, <2>6 DEF PublishersSound, Sound, TypeOK, RecordOK
  <2> QED BY Zenon, <2>6, <2>7
<1> QED BY Zenon, <1>4, <1>5

\* However many coordinators there are, and however their proposals,
\* cancellations, kicks, restarts and stale copies interleave: nuke_network and
\* publish_nuke_tombstone sign an empty roster only if Threshold coordinators
\* called for it, or all but one had been taken off the roster.
THEOREM NukesAreAgreed ==
    ASSUME IsFiniteSet(Node)
    PROVE  Spec => []NukeNeedsConsensus
<1>1. Init => NukeInv
  <2> SUFFICES ASSUME Init PROVE NukeInv OBVIOUS
  <2>1. RemovalInv BY Zenon, RemovalInit
  <2>2. Sound(FoundingBlob, {}, {}) BY ConvergeAssumption DEF Sound, FoundingBlob
  <2>3. \A n \in Node : Running(n) => state[n] = FoundingBlob /\ saved[n] = Founders
    BY DEF Init, Running
  <2>4. NodesSound BY <2>2, <2>3, ConvergeAssumption DEF Init, NodesSound
  <2>5. PublishersSound /\ JoinsSound BY Zenon DEF Init, PublishersSound, JoinsSound, Idle, NoJoin
  <2>6. SignedSound /\ NobodyNukes BY Zenon, <2>2 DEF Init, SignedSound, NobodyNukes
  <2> QED BY Zenon, <2>1, <2>4, <2>5, <2>6 DEF NukeInv, AllSound
<1>2. NukeInv /\ [Next]_vars => NukeInv'
  <2> SUFFICES ASSUME NukeInv, [Next]_vars PROVE NukeInv' OBVIOUS
  <2>1. RemovalInv /\ RemovalInv' /\ TypeOK' BY RemovalNext DEF NukeInv, RemovalInv
  <2>2. proposed \subseteq proposed' /\ dropped \subseteq dropped' BY Zenon, HistoryGrows
  <2>3. CASE Consensus BY Zenon, <2>1, <2>2, <2>3, ConsensusStable DEF NukeInv
  <2>4. CASE AllSound
    <3>1. CASE UNCHANGED vars BY <2>1, <2>4, <3>1, SoundStable DEF vars, AllSound, NukeInv
    <3>2. ASSUME NEW n \in Node, Task(n) \/ Environment(n) PROVE Consensus' \/ AllSound'
      BY Zenon, <2>1, <2>4, <3>2, SoundPublisher, SoundReader, SoundCoordinator, SoundJoin,
         SoundLeave, SoundNuke, SoundRestore DEF Task, Environment
    <3> QED BY Zenon, <2>1, <3>1, <3>2 DEF Next, NukeInv
  <2> QED BY Zenon, <2>3, <2>4 DEF NukeInv
<1>3. NukeInv => NukeNeedsConsensus
  <2> SUFFICES ASSUME NukeInv, NEW b \in signed, b.members = {} PROVE Consensus
    BY Zenon DEF NukeNeedsConsensus, Consensus
  <2>1. CASE AllSound
    <3>1. KeyHolder \ dropped = {} BY <2>1 DEF AllSound, SignedSound, Sound
    <3>2. Cardinality(KeyHolder \ dropped) = 0 BY Zenon, <3>1, FS_EmptySet
    <3> QED BY <3>2 DEF Consensus
  <2> QED BY Zenon, <2>1 DEF NukeInv
<1> QED BY <1>1, <1>2, <1>3, PTL DEF Spec

=============================================================================
