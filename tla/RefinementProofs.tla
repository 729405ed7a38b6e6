-------------------------- MODULE RefinementProofs --------------------------
(***************************************************************************)
(* The tasks of Converge implement SignedRoster, for every number of nodes *)
(* and operations, as long as one node holds the network key.              *)
(***************************************************************************)
EXTENDS RosterProofs

\* A joiner that holds a Welcome has been admitted.
WelcomedKnown == \A n \in Node : join[n].pc = "welcomed" => n \in Known

RefinementInv == PhantomInv /\ SoleInv /\ WelcomedKnown

running == {n \in Node : status[n] \in {"up", "restoring"}}
removed == {n \in Node : leaving[n] > 0}

LEMMA RefinementInit == Init => RefinementInv /\ Roster!Init
<1> SUFFICES ASSUME Init PROVE RefinementInv /\ Roster!Init OBVIOUS
<1>1. PhantomInv /\ SoleInv BY Zenon, PhantomInit, SoleInit
<1>2. WelcomedKnown BY DEF Init, WelcomedKnown, NoJoin
<1>3. FoundingBlob.members = Founders BY DEF FoundingBlob
<1>4. running = Founders /\ removed = {}
  BY ConvergeAssumption DEF Init, running, removed
<1>5. Roster!Init
  BY <1>3, <1>4, ConvergeAssumption DEF Roster!Init, Init, running, removed
<1> QED BY <1>1, <1>2, <1>5 DEF RefinementInv

LEMMA WelcomedStable ==
    ASSUME WelcomedKnown, admitted \subseteq admitted',
           \A n \in Node : join'[n].pc = "welcomed" => join[n].pc = "welcomed"
    PROVE  WelcomedKnown'
BY DEF WelcomedKnown, Known

LEMMA WelcomedNext ==
    ASSUME TypeOK, WelcomedKnown, [Next]_vars
    PROVE  WelcomedKnown'
<1>1. CASE UNCHANGED vars BY <1>1, WelcomedStable DEF vars
<1>2. ASSUME NEW n \in Node, Task(n) \/ Environment(n) PROVE WelcomedKnown'
  <2>1. CASE Publisher(n) \/ PublisherPublishFails(n)
    BY Zenon, <2>1, WelcomedStable DEF Publisher, PublisherCapture, PublisherGuardPasses,
       PublisherGuardDefers, PublisherPublish, PublisherPublishFails, rest, history
  <2>2. CASE Poller(n) \/ PollerFetchFails(n)
    BY Zenon, <2>2, WelcomedStable DEF Poller, PollerTick, PollerResolve, PollerApply,
       PollerRemoved, PollerFetchFails, rest, history
  <2>3. CASE Worker(n) \/ WorkerFetchFails(n) \/ WorkerStart(n)
    BY Zenon, <2>3, WelcomedStable DEF Worker, WorkerResolve, WorkerCheck, WorkerApply,
       WorkerFetchFails, WorkerStart, rest, history
  <2>4. CASE \/ update_snapshot_and_publish(n) \/ NukeSolo(n) \/ NukePropose(n) \/ NukeCancel(n)
             \/ handle_removed_from_network(n) \/ leave_network(n)
             \/ publish_nuke_tombstone(n) \/ NukePublishFails(n)
    BY Zenon, <2>4, WelcomedStable DEF update_snapshot_and_publish, NukeSolo, NukePropose,
       NukeCancel, handle_removed_from_network, leave_network, publish_nuke_tombstone,
       NukePublishFails, rest, history
  <2>5. CASE JoinWelcomed(n) \/ JoinFetch(n) \/ JoinFails(n)
    <3>1. NoJoin.pc = "none" /\ [NoJoin EXCEPT !.pc = "fetched", !.blob = dht].pc = "fetched"
      BY DEF NoJoin
    <3>2. PICK e : e.pc # "welcomed" /\ join' = [join EXCEPT ![n] = e]
      BY <2>5, <3>1 DEF JoinWelcomed, JoinFetch, JoinFails
    <3>3. \A k \in Node : join'[k].pc = "welcomed" => join[k].pc = "welcomed"
      BY <3>2 DEF TypeOK, JoinOK
    <3> QED BY Zenon, <2>5, <3>3, WelcomedStable
        DEF JoinWelcomed, JoinFetch, JoinFails, rest, history
  <2>6. ASSUME NEW m \in Node,
               \/ CleanupLeft(n, m) \/ kick_member(n, m) \/ CleanupStamp(n, m)
               \/ MemberApproved(n, m) \/ admit_approved_member(n, m)
        PROVE WelcomedKnown'
    BY Zenon, <2>6, WelcomedStable DEF CleanupLeft, kick_member, CleanupStamp,
       MemberApproved, admit_approved_member, rest, history
  <2>7. ASSUME NEW m \in Node, DenyPeer(n, m) PROVE WelcomedKnown'
    <3>1. \A k \in Node : join'[k].pc = "welcomed" => join[k].pc = "welcomed"
      BY <2>7 DEF DenyPeer, NoJoin, TypeOK, JoinOK
    <3> QED BY Zenon, <2>7, <3>1, WelcomedStable DEF DenyPeer, rest, history
  <2>8. ASSUME NEW m \in Node, admit_peer(n, m) PROVE WelcomedKnown'
    <3>1. \A k \in Node \ {m} : join'[k] = join[k]
      BY <2>8 DEF admit_peer, TypeOK, JoinOK
    <3> QED BY <2>8, <3>1 DEF admit_peer, WelcomedKnown, Known
  <2>9. ASSUME NEW i \in Invite, invite_create(n, i) PROVE WelcomedKnown'
    BY Zenon, <2>9, WelcomedStable DEF invite_create
  <2>10. ASSUME NEW j \in Node, NEW i \in Invite, RedeemInvite(n, j, i) PROVE WelcomedKnown'
    <3>1. \A k \in Node : join'[k].pc = "welcomed" => join[k].pc = "welcomed"
      BY <2>10 DEF RedeemInvite, TypeOK, JoinOK
    <3> QED BY Zenon, <2>10, <3>1, WelcomedStable DEF RedeemInvite, rest, history
  <2>11. CASE RestoreCoordinator(n) \/ RestoreMember(n)
    <3>1. PICK s : Restarted(n, s) BY Zenon, <2>11 DEF RestoreCoordinator, RestoreMember
    <3>2. \A k \in Node : join'[k].pc = "welcomed" => join[k].pc = "welcomed"
      BY <3>1 DEF Restarted, NoJoin
    <3> QED BY Zenon, <3>1, <3>2, WelcomedStable DEF Restarted, history
  <2> QED BY Zenon, <1>2, <2>1, <2>2, <2>3, <2>4, <2>5, <2>6, <2>7, <2>8, <2>9, <2>10, <2>11
      DEF Task, Environment
<1> QED BY <1>1, <1>2 DEF Next

-----------------------------------------------------------------------------
(* One step of a daemon is one step of the roster, or none.                *)

RosterStep == [Roster!Next]_(Roster!vars)

LEMMA QuietStep ==
    ASSUME TypeOK, UNCHANGED <<dht, signed, admitted, status, leaving>>,
           budget' = budget \/ budget' = budget - 1
    PROVE  RosterStep
<1>1. budget' < budget \/ budget' = budget BY DEF TypeOK, BudgetOK
<1>2. UNCHANGED Roster!roster BY DEF Roster!roster
<1> QED BY <1>1, <1>2 DEF RosterStep, Roster!Next, Roster!Ask, Roster!vars

\* A node's status and left_tx change with nothing else.
LEMMA RunningChanges ==
    ASSUME TypeOK, NEW n \in Node, NEW v \in Statuses, status' = [status EXCEPT ![n] = v]
    PROVE  running' = IF v \in {"up", "restoring"} THEN running \cup {n} ELSE running \ {n}
BY DEF TypeOK, NodesOK, running, Statuses

LEMMA RemovedChanges ==
    ASSUME TypeOK, NEW n \in Node, NEW v \in Nat, leaving' = [leaving EXCEPT ![n] = v]
    PROVE  removed' = IF v > 0 THEN removed \cup {n} ELSE removed \ {n}
BY DEF TypeOK, DutiesOK, removed

LEMMA SealKeepsRunning ==
    ASSUME TypeOK, NEW n \in Node, Sealed(n)
    PROVE  running' = running
<1>1. CASE status[n] = "restoring"
  <2>1. status' = [status EXCEPT ![n] = "up"] BY <1>1 DEF Sealed
  <2>2. n \in running BY <1>1 DEF running
  <2>3. "up" \in Statuses BY DEF Statuses
  <2>4. running' = running \cup {n} BY <2>1, <2>3, RunningChanges
  <2> QED BY <2>2, <2>4
<1>2. CASE status[n] # "restoring" BY <1>2 DEF Sealed, running
<1> QED BY <1>1, <1>2

LEMMA PublisherStep ==
    ASSUME RefinementInv, RefinementInv', NEW n \in Node, Publisher(n) \/ PublisherPublishFails(n),
           dht' # dht => dht'.generation > dht.generation
    PROVE  RosterStep
<1>0. TypeOK BY DEF RefinementInv, SoleInv
<1>1. CASE PublisherCapture(n)
  BY Zenon, <1>0, <1>1, QuietStep DEF PublisherCapture, rest, history
<1>2. CASE PublisherGuardPasses(n)
  BY Zenon, <1>0, <1>2, QuietStep DEF PublisherGuardPasses, Resolve, Spend, rest, history
<1>3. CASE PublisherGuardDefers(n) \/ PublisherPublishFails(n)
  <2>1. running' = running
    BY Zenon, <1>0, <1>3, SealKeepsRunning DEF PublisherGuardDefers, PublisherPublishFails
  <2>2. UNCHANGED <<dht, signed, admitted, leaving>>
    BY Zenon, <1>3 DEF PublisherGuardDefers, PublisherPublishFails, rest, history
  <2>3. budget' = budget \/ budget' = budget - 1
    BY Zenon, <1>3 DEF PublisherGuardDefers, PublisherPublishFails, Spend
  <2>4. budget' < budget \/ budget' = budget BY <1>0, <2>3 DEF TypeOK, BudgetOK
  <2>5. UNCHANGED Roster!roster BY <2>1, <2>2 DEF Roster!roster, running
  <2> QED BY <2>4, <2>5 DEF RosterStep, Roster!Next, Roster!Ask, Roster!vars
<1>4. CASE PublisherPublish(n)
  <2>1. UNCHANGED <<running, removed, admitted, budget>>
    BY Zenon, <1>0, <1>4, SealKeepsRunning DEF PublisherPublish, removed
  <2>2. signed' = signed \cup {dht'} BY Zenon, <1>4 DEF PublisherPublish, Write
  <2>3. dht'.members \subseteq Founders \cup admitted
    BY Zenon, <2>1, <2>2 DEF RefinementInv, PhantomInv, NoPhantomMembers
  <2>4. dht'.generation > dht.generation
    BY Zenon, <1>4 DEF PublisherPublish, Write, RefinementInv, SoleInv
  <2>5. Roster!Sign BY <2>1, <2>2, <2>3, <2>4 DEF Roster!Sign, running, removed
  <2> QED BY Zenon, <2>5 DEF RosterStep, Roster!Next
<1> QED BY Zenon, <1>1, <1>2, <1>3, <1>4 DEF Publisher

LEMMA ReaderStep ==
    ASSUME RefinementInv, RefinementInv', NEW n \in Node,
           Poller(n) \/ PollerFetchFails(n) \/ Worker(n) \/ WorkerFetchFails(n) \/ WorkerStart(n)
    PROVE  RosterStep
<1>0. TypeOK BY DEF RefinementInv, SoleInv
<1>1. CASE PollerTick(n) \/ PollerResolve(n) \/ PollerFetchFails(n) \/ PollerApply(n)
  BY Zenon, <1>0, <1>1, QuietStep
  DEF PollerTick, PollerResolve, PollerFetchFails, PollerApply, Resolve, Spend, rest, history
<1>2. CASE WorkerStart(n) \/ WorkerResolve(n) \/ WorkerFetchFails(n) \/ WorkerApply(n)
  BY Zenon, <1>0, <1>2, QuietStep
  DEF WorkerStart, WorkerResolve, WorkerFetchFails, WorkerApply, Resolve, Spend, rest, history
<1>3. ASSUME leaving' = [leaving EXCEPT ![n] = @ + 1],
             UNCHANGED <<dht, signed, admitted, status, budget>>
      PROVE RosterStep
  <2>1. leaving[n] + 1 \in Nat /\ leaving[n] + 1 > 0 /\ leaving' = [leaving EXCEPT ![n] = leaving[n] + 1]
    BY <1>0, <1>3 DEF TypeOK, DutiesOK
  <2>2. removed' = removed \cup {n} BY <1>0, <2>1, RemovedChanges
  <2>3. n \in removed' BY <2>2
  <2>4. \E b \in signed : n \notin b.members
    BY Zenon, <1>3, <2>3
    DEF removed, RefinementInv, PhantomInv, RemovalInv, SelfRemovalWasSigned
  <2>5. Roster!Remove(n) BY <1>3, <2>2, <2>4 DEF Roster!Remove, removed
  <2> QED BY Zenon, <2>5 DEF RosterStep, Roster!Next
<1>4. CASE PollerRemoved(n) BY Zenon, <1>3, <1>4 DEF PollerRemoved, rest, history
<1>5. CASE WorkerCheck(n)
  <2>1. CASE member_removed(worker[n].data, n)
    BY <1>3, <1>5, <2>1 DEF WorkerCheck, rest, history
  <2>2. CASE ~ member_removed(worker[n].data, n)
    <3>1. leaving' = leaving BY <1>0, <1>5, <2>2 DEF WorkerCheck, TypeOK, DutiesOK
    <3> QED BY Zenon, <1>0, <1>5, <3>1, QuietStep DEF WorkerCheck, rest, history
  <2> QED BY Zenon, <2>1, <2>2
<1> QED BY Zenon, <1>1, <1>2, <1>4, <1>5 DEF Poller, Worker

LEMMA EditStep ==
    ASSUME RefinementInv, NEW n \in Node,
           \/ update_snapshot_and_publish(n) \/ JoinFetch(n) \/ JoinFails(n)
           \/ \E m \in Node : \/ kick_member(n, m) \/ CleanupStamp(n, m) \/ CleanupLeft(n, m)
                              \/ DenyPeer(n, m) \/ MemberApproved(n, m)
                              \/ admit_approved_member(n, m)
           \/ \E i \in Invite : invite_create(n, i)
           \/ \E j \in Node, i \in Invite : RedeemInvite(n, j, i)
    PROVE  RosterStep
<1>0. TypeOK BY DEF RefinementInv, SoleInv
<1>1. UNCHANGED <<dht, signed, admitted, status, leaving>>
  BY Zenon DEF update_snapshot_and_publish, JoinFetch, JoinFails, kick_member, CleanupStamp,
     CleanupLeft, DenyPeer, MemberApproved, admit_approved_member, invite_create,
     RedeemInvite, rest, history
<1>2. budget' = budget \/ budget' = budget - 1
  BY Zenon DEF update_snapshot_and_publish, JoinFetch, JoinFails, kick_member, CleanupStamp,
     CleanupLeft, DenyPeer, MemberApproved, admit_approved_member, invite_create,
     RedeemInvite, Spend
<1> QED BY Zenon, <1>0, <1>1, <1>2, QuietStep

LEMMA JoinStep ==
    ASSUME RefinementInv, NEW n \in Node, JoinWelcomed(n) \/ \E j \in Node : admit_peer(n, j)
    PROVE  RosterStep
<1>0. TypeOK BY DEF RefinementInv, SoleInv
<1>1. CASE JoinWelcomed(n)
  <2>1. n \in Founders \cup admitted
    BY Zenon, <1>1 DEF JoinWelcomed, RefinementInv, WelcomedKnown, Known
  <2>2. status' = [status EXCEPT ![n] = "up"] /\ "up" \in Statuses
    BY Zenon, <1>1 DEF JoinWelcomed, Statuses
  <2>3. running' = running \cup {n} BY <1>0, <2>2, RunningChanges
  <2>4. UNCHANGED <<dht, signed, admitted, leaving, budget>>
    BY Zenon, <1>1 DEF JoinWelcomed, rest, history
  <2>5. Roster!Start(n) BY <2>1, <2>3, <2>4 DEF Roster!Start, running
  <2> QED BY Zenon, <2>5 DEF RosterStep, Roster!Next
<1>2. ASSUME NEW j \in Node, admit_peer(n, j) PROVE RosterStep
  <2>1. admitted' = admitted \cup {j} /\ UNCHANGED <<dht, signed, status, leaving, budget>>
    BY Zenon, <1>2 DEF admit_peer
  <2>2. Roster!Admit(j) BY <2>1 DEF Roster!Admit
  <2> QED BY Zenon, <2>2 DEF RosterStep, Roster!Next
<1> QED BY Zenon, <1>1, <1>2

\* Nobody nukes the network, so a node goes down because its user asks it to,
\* or because it was removed.
LEMMA LeaveStep ==
    ASSUME RefinementInv, NEW n \in Node, handle_removed_from_network(n) \/ leave_network(n)
    PROVE  RosterStep
<1>0. TypeOK BY DEF RefinementInv, SoleInv
<1>1. ASSUME NEW told, Teardown(n, told) PROVE running' = running \ {n}
  <2>1. status' = [status EXCEPT ![n] = "left"] /\ "left" \in Statuses
    BY Zenon, <1>1 DEF Teardown, Statuses
  <2> QED BY <1>0, <2>1, RunningChanges
<1>2. CASE handle_removed_from_network(n)
  <2>1. leaving[n] - 1 \in Nat /\ n \in removed /\ leaving' = [leaving EXCEPT ![n] = leaving[n] - 1]
    BY <1>0, <1>2 DEF handle_removed_from_network, TypeOK, DutiesOK, removed
  <2>2. removed' = removed \cup {n} \/ removed' = removed \ {n}
    BY Zenon, <1>0, <2>1, RemovedChanges
  <2>3. removed' \in {removed, removed \ {n}} BY <2>1, <2>2
  <2>4. UNCHANGED <<dht, signed, admitted, budget>>
    BY Zenon, <1>2 DEF handle_removed_from_network, history
  <2>5. running' = running \ {n}
    <3>1. CASE Up(n) BY Zenon, <1>1, <1>2, <3>1 DEF handle_removed_from_network
    <3>2. CASE ~ Up(n)
      <4>1. status[n] # "restoring" /\ status' = status
        BY Zenon, <1>2, <3>2 DEF handle_removed_from_network
      <4> QED BY <3>2, <4>1 DEF running, Up
    <3> QED BY Zenon, <3>1, <3>2
  <2>6. Roster!StopRemoved(n)
    BY <2>1, <2>3, <2>4, <2>5 DEF Roster!StopRemoved, running, removed
  <2> QED BY Zenon, <2>6 DEF RosterStep, Roster!Next
<1>3. CASE leave_network(n)
  <2>1. running' = running \ {n} BY Zenon, <1>1, <1>3 DEF leave_network
  <2>2. UNCHANGED <<dht, signed, admitted, leaving>> BY Zenon, <1>3 DEF leave_network, history
  <2>3. budget' < budget BY <1>0, <1>3 DEF leave_network, Spend, TypeOK, BudgetOK
  <2>4. Roster!StopAsked(n) BY <2>1, <2>2, <2>3 DEF Roster!StopAsked, running
  <2> QED BY Zenon, <2>4 DEF RosterStep, Roster!Next
<1> QED BY Zenon, <1>2, <1>3

LEMMA RestartStep ==
    ASSUME RefinementInv, NEW n \in Node, RestoreCoordinator(n) \/ RestoreMember(n)
    PROVE  RosterStep
<1>0. TypeOK BY DEF RefinementInv, SoleInv
<1>1. PICK s : Restarted(n, s) BY Zenon DEF RestoreCoordinator, RestoreMember
<1>2. UNCHANGED <<dht, signed, admitted>> BY Zenon, <1>1 DEF Restarted, history
<1>3. removed' = removed \ {n}
  <2>1. leaving' = [leaving EXCEPT ![n] = 0] BY Zenon, <1>1 DEF Restarted
  <2>2. 0 \in Nat /\ ~(0 > 0) OBVIOUS
  <2> QED BY Zenon, <1>0, <2>1, <2>2, RemovedChanges
<1>4. budget' = budget - 1 BY Zenon DEF RestoreCoordinator, RestoreMember, Spend
<1>5. budget' < budget BY <1>0, <1>4 DEF TypeOK, BudgetOK
<1>6. running' = running
  <2>1. CASE RestoreMember(n) BY Zenon, <2>1 DEF RestoreMember, running
  <2>2. CASE RestoreCoordinator(n)
    <3>1. n \in running BY <2>2 DEF RestoreCoordinator, Coordinator, Up, running
    <3>2. status' = [status EXCEPT ![n] = "restoring"] /\ "restoring" \in Statuses
      BY Zenon, <2>2 DEF RestoreCoordinator, Statuses
    <3>3. running' = running \cup {n} BY <1>0, <3>2, RunningChanges
    <3> QED BY <3>1, <3>3
  <2> QED BY Zenon, <2>1, <2>2
<1>7. Roster!Restart(n) BY <1>2, <1>3, <1>5, <1>6 DEF Roster!Restart, running, removed
<1> QED BY Zenon, <1>7 DEF RosterStep, Roster!Next

\* With one key holder, no nuke and a relay that answers, the publishers, pollers,
\* workers, joins, leaves and restarts of all daemons implement SignedRoster: the
\* record moves forward only and lists admitted nodes only, and a daemon stops
\* only for its user or for a signed roster without it.
THEOREM RosterImplemented ==
    ASSUME SoleKeyHolder, Ops \cap {"nuke", "resolve_fails"} = {}
    PROVE  Spec => ImplementsSignedRoster
<1>1. Init => RefinementInv /\ Roster!Init BY RefinementInit
<1>2. RefinementInv /\ [Next]_vars => RefinementInv' /\ [Roster!Next]_(Roster!vars)
  <2> SUFFICES ASSUME RefinementInv, [Next]_vars PROVE RefinementInv' /\ RosterStep
    BY DEF RosterStep
  <2>1. PhantomInv /\ SoleInv /\ TypeOK /\ WelcomedKnown BY DEF RefinementInv, SoleInv
  <2>2. RefinementInv'
    BY Zenon, <2>1, PhantomNext, SoleNext, WelcomedNext DEF RefinementInv
  <2>3. dht' # dht => dht'.generation > dht.generation BY Zenon, <2>1, SoleNext
  <2>4. CASE UNCHANGED vars BY <2>1, <2>2, <2>4, QuietStep DEF vars
  <2>5. ASSUME NEW n \in Node, Task(n) \/ Environment(n) PROVE RosterStep
    <3>1. ~ (NukeSolo(n) \/ NukePropose(n) \/ NukeCancel(n))
      BY DEF NukeSolo, NukePropose, NukeCancel, Spend
    <3>2. ~ (publish_nuke_tombstone(n) \/ NukePublishFails(n))
      BY Zenon, <2>1 DEF publish_nuke_tombstone, NukePublishFails, SoleInv
    <3> QED BY Zenon, <2>2, <2>3, <2>5, <3>1, <3>2, PublisherStep, ReaderStep, EditStep,
               JoinStep, LeaveStep, RestartStep DEF Task, Environment
  <2> QED BY Zenon, <2>2, <2>4, <2>5 DEF Next
<1> QED BY <1>1, <1>2, PTL DEF Spec, ImplementsSignedRoster, Roster!Spec

=============================================================================
