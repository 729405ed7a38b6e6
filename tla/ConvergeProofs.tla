--------------------------- MODULE ConvergeProofs ---------------------------
(***************************************************************************)
(* What a node may do on its own, and what the sole coordinator of a       *)
(* network does to its record, for every number of nodes and operations.   *)
(***************************************************************************)
EXTENDS ConvergeTypes

(* Self-removal.  SelfRemovalWasSigned is not inductive: the roster a      *)
(* poller or worker acts on was read from the record some steps earlier.   *)
(* What makes it so is that whatever they hold has been signed.            *)

SourcesSigned ==
    /\ dht \in signed
    /\ \A n \in Node : poller[n].pc = "apply" => poller[n].data \in signed
    /\ \A n \in Node : worker[n].pc \in {"check", "apply"} => worker[n].data \in signed

RemovalInv == TypeOK /\ SourcesSigned /\ SelfRemovalWasSigned

\* Steps of no reader, that neither write the record nor signal a removal.
LEMMA RemovalStable ==
    ASSUME RemovalInv, TypeOK', UNCHANGED <<dht, signed, poller, worker, leaving>>
    PROVE  RemovalInv'
BY DEF RemovalInv, SourcesSigned, SelfRemovalWasSigned

\* A node whose tasks are gone has no reader with a blob to act on.
LEMMA RemovalReset ==
    ASSUME RemovalInv, TypeOK', NEW n \in Node,
           dht' \in signed', signed \subseteq signed',
           poller' = [poller EXCEPT ![n] = IdleReader],
           worker' = [worker EXCEPT ![n] = IdleReader],
           \A k \in Node : leaving'[k] > 0 => leaving[k] > 0
    PROVE  RemovalInv'
BY DEF RemovalInv, SourcesSigned, SelfRemovalWasSigned, IdleReader, TypeOK, PollerOK, WorkerOK

LEMMA RemovalInit == Init => RemovalInv
<1> SUFFICES ASSUME Init PROVE RemovalInv OBVIOUS
<1>1. TypeOK BY InitTypeOK
<1>2. SourcesSigned BY DEF Init, SourcesSigned, IdleReader
<1>3. SelfRemovalWasSigned BY DEF Init, SelfRemovalWasSigned
<1> QED BY <1>1, <1>2, <1>3 DEF RemovalInv

LEMMA RemovalNext ==
    ASSUME RemovalInv, [Next]_vars
    PROVE  RemovalInv'
<1>0. TypeOK /\ TypeOK' BY NextTypeOK DEF RemovalInv
<1> USE <1>0
<1>1. CASE UNCHANGED vars BY <1>1, RemovalStable DEF vars
<1>2. ASSUME NEW n \in Node, Task(n) \/ Environment(n) PROVE RemovalInv'
  <2>1. CASE PublisherCapture(n) \/ PublisherGuardPasses(n) \/ PublisherGuardDefers(n)
                \/ PublisherPublishFails(n)
    BY <2>1, RemovalStable DEF PublisherCapture, PublisherGuardPasses, PublisherGuardDefers,
       PublisherPublishFails, rest, history
  <2>2. CASE PublisherPublish(n)
    BY <2>2 DEF PublisherPublish, Write, RemovalInv, SourcesSigned, SelfRemovalWasSigned
  <2>3. CASE PollerTick(n)
    BY <2>3 DEF PollerTick, RemovalInv, SourcesSigned, SelfRemovalWasSigned, rest, history,
                TypeOK, PollerOK
  <2>4. CASE PollerResolve(n)
    BY <2>4 DEF PollerResolve, RemovalInv, SourcesSigned, SelfRemovalWasSigned, rest, history,
                IdleReader, TypeOK, PollerOK
  <2>5. CASE PollerFetchFails(n)
    BY <2>5 DEF PollerFetchFails, RemovalInv, SourcesSigned, SelfRemovalWasSigned, rest,
                history, IdleReader, TypeOK, PollerOK
  <2>6. CASE PollerApply(n)
    BY <2>6 DEF PollerApply, RemovalInv, SourcesSigned, SelfRemovalWasSigned, history,
                IdleReader, TypeOK, PollerOK
  <2>7. CASE PollerRemoved(n)
    BY <2>7 DEF PollerRemoved, RemovalInv, SourcesSigned, SelfRemovalWasSigned, rest, history,
                IdleReader, TypeOK, PollerOK, DutiesOK, member_removed
  <2>8. CASE WorkerStart(n)
    BY <2>8 DEF WorkerStart, RemovalInv, SourcesSigned, SelfRemovalWasSigned, rest, history,
                TypeOK, WorkerOK
  <2>9. CASE WorkerResolve(n)
    BY <2>9 DEF WorkerResolve, RemovalInv, SourcesSigned, SelfRemovalWasSigned, rest, history,
                IdleReader, TypeOK, WorkerOK
  <2>10. CASE WorkerFetchFails(n)
    BY <2>10 DEF WorkerFetchFails, RemovalInv, SourcesSigned, SelfRemovalWasSigned, rest,
                 history, IdleReader, TypeOK, WorkerOK
  <2>11. CASE WorkerCheck(n)
    <3>1. SourcesSigned'
      BY <2>11 DEF WorkerCheck, RemovalInv, SourcesSigned, rest, history, IdleReader, TypeOK,
                   WorkerOK
    <3>2. SelfRemovalWasSigned'
      BY <2>11 DEF WorkerCheck, RemovalInv, SourcesSigned, SelfRemovalWasSigned, rest, history,
                   TypeOK, DutiesOK, member_removed
    <3> QED BY <3>1, <3>2 DEF RemovalInv
  <2>12. CASE WorkerApply(n)
    BY <2>12 DEF WorkerApply, RemovalInv, SourcesSigned, SelfRemovalWasSigned, history,
                 IdleReader, TypeOK, WorkerOK
  <2>13. CASE update_snapshot_and_publish(n) \/ JoinWelcomed(n) \/ JoinFetch(n) \/ JoinFails(n)
                \/ NukeSolo(n) \/ NukePropose(n) \/ NukeCancel(n)
    BY <2>13, RemovalStable DEF update_snapshot_and_publish, JoinWelcomed, JoinFetch, JoinFails,
       NukeSolo, NukePropose, NukeCancel, rest, history
  <2>14. ASSUME NEW m \in Node,
                \/ CleanupLeft(n, m) \/ admit_peer(n, m) \/ kick_member(n, m)
                \/ CleanupStamp(n, m) \/ DenyPeer(n, m) \/ MemberApproved(n, m)
                \/ admit_approved_member(n, m)
         PROVE RemovalInv'
    BY <2>14, RemovalStable DEF CleanupLeft, admit_peer, kick_member, CleanupStamp, DenyPeer,
       MemberApproved, admit_approved_member, rest, history
  <2>15. ASSUME NEW i \in Invite, invite_create(n, i) PROVE RemovalInv'
    BY <2>15, RemovalStable DEF invite_create
  <2>16. ASSUME NEW j \in Node, NEW i \in Invite, RedeemInvite(n, j, i) PROVE RemovalInv'
    BY <2>16, RemovalStable DEF RedeemInvite, rest, history
  <2>17. CASE handle_removed_from_network(n)
    <3>1. \A k \in Node : leaving'[k] > 0 => leaving[k] > 0
      BY <2>17 DEF handle_removed_from_network, TypeOK, DutiesOK
    <3>2. CASE Up(n)
      BY <2>17, <3>1, <3>2, RemovalReset
      DEF handle_removed_from_network, Teardown, history, RemovalInv, SourcesSigned
    <3>3. CASE ~ Up(n)
      BY <2>17, <3>1, <3>3
      DEF handle_removed_from_network, history, RemovalInv, SourcesSigned, SelfRemovalWasSigned
    <3> QED BY <3>2, <3>3
  <2>18. CASE leave_network(n) \/ NukePublishFails(n)
    BY <2>18, RemovalReset
    DEF leave_network, NukePublishFails, Teardown, history, RemovalInv, SourcesSigned
  <2>19. CASE publish_nuke_tombstone(n)
    BY Zenon, <2>19, RemovalReset DEF publish_nuke_tombstone, Write, Teardown
  <2>20. CASE RestoreCoordinator(n) \/ RestoreMember(n)
    <3>1. PICK s : Restarted(n, s) BY Zenon, <2>20 DEF RestoreCoordinator, RestoreMember
    <3>2. \A k \in Node : leaving'[k] > 0 => leaving[k] > 0
      BY <3>1 DEF Restarted, TypeOK, DutiesOK
    <3> QED BY Zenon, <3>1, <3>2, RemovalReset DEF Restarted, history, RemovalInv, SourcesSigned
  <2> QED BY <1>2, <2>1, <2>2, <2>3, <2>4, <2>5, <2>6, <2>7, <2>8, <2>9, <2>10, <2>11, <2>12,
             <2>13, <2>14, <2>15, <2>16, <2>17, <2>18, <2>19, <2>20
      DEF Task, Environment, Publisher, Poller, Worker
<1> QED BY <1>1, <1>2 DEF Next

\* However many coordinators publish, over each other or over a tombstone, and
\* however pollers, workers and restarts interleave with them, a node leaves by
\* itself only if a roster signed with the network key left it out.
THEOREM SelfRemovalSigned == Spec => []SelfRemovalWasSigned
<1>1. Init => RemovalInv BY RemovalInit
<1>2. RemovalInv /\ [Next]_vars => RemovalInv' BY RemovalNext
<1>3. RemovalInv => SelfRemovalWasSigned BY DEF RemovalInv
<1> QED BY <1>1, <1>2, <1>3, PTL DEF Spec

-----------------------------------------------------------------------------
(* The record of a network with one key holder.  Only its publisher writes *)
(* it, so what dht_read_before_write found is still true at the write.     *)

SoleKeyHolder == \A a, b \in KeyHolder : a = b

SoleInv ==
    /\ TypeOK
    /\ \A n \in Node : nuking[n] = NoRecord
    /\ \A n \in Node : publisher[n].pc # "idle" => n \in KeyHolder
    /\ \A n \in Node : publisher[n].pc = "publish" =>
                           publisher[n].blob.generation > dht.generation

LEMMA SoleStable ==
    ASSUME SoleInv, TypeOK', UNCHANGED <<dht, publisher>>,
           \A n \in Node : nuking'[n] \in {nuking[n], NoRecord}
    PROVE  SoleInv' /\ UNCHANGED dht
BY DEF SoleInv

LEMMA SoleInit == Init => SoleInv
BY InitTypeOK DEF Init, SoleInv, Idle

LEMMA SoleNext ==
    ASSUME SoleKeyHolder, Ops \cap {"nuke", "resolve_fails"} = {}, SoleInv, [Next]_vars
    PROVE  SoleInv' /\ (dht' # dht => dht'.generation > dht.generation)
<1> DEFINE Goal == SoleInv' /\ (dht' # dht => dht'.generation > dht.generation)
<1>0. TypeOK /\ TypeOK' BY NextTypeOK DEF SoleInv
<1> USE <1>0
<1>1. CASE UNCHANGED vars BY <1>1, SoleStable DEF vars
<1>2. ASSUME NEW n \in Node, Task(n) \/ Environment(n) PROVE Goal
  <2>1. CASE PublisherCapture(n)
    BY <2>1 DEF PublisherCapture, Coordinator, SoleInv, TypeOK, RecordOK
  <2>2. CASE PublisherGuardPasses(n)
    <3>1. publisher[n].blob.generation > dht.generation
      BY <2>2, BlobFacts
      DEF PublisherGuardPasses, Resolve, Spend, dht_read_before_write, TypeOK, RecordOK
    <3> QED BY <2>2, <3>1 DEF PublisherGuardPasses, SoleInv, TypeOK, RecordOK
  <2>3. CASE PublisherGuardDefers(n) \/ PublisherPublishFails(n)
    BY <2>3 DEF PublisherGuardDefers, PublisherPublishFails, Idle, SoleInv, TypeOK, RecordOK
  <2>4. CASE PublisherPublish(n)
    <3>1. n \in KeyHolder /\ \A k \in Node \ {n} : publisher[k].pc = "idle"
      BY <2>4 DEF PublisherPublish, SoleInv, SoleKeyHolder
    <3>2. dht'.generation > dht.generation BY <2>4 DEF PublisherPublish, Write, SoleInv
    <3> QED BY <2>4, <3>1, <3>2
        DEF PublisherPublish, Write, Idle, SoleInv, TypeOK, RecordOK
  <2>5. CASE PollerTick(n) \/ PollerResolve(n) \/ PollerFetchFails(n) \/ PollerApply(n)
                \/ PollerRemoved(n)
    BY <2>5, SoleStable DEF PollerTick, PollerResolve, PollerFetchFails, PollerApply,
       PollerRemoved
  <2>6. CASE WorkerStart(n) \/ WorkerResolve(n) \/ WorkerFetchFails(n) \/ WorkerCheck(n)
                \/ WorkerApply(n)
    BY <2>6, SoleStable DEF WorkerStart, WorkerResolve, WorkerFetchFails, WorkerCheck,
       WorkerApply
  <2>7. CASE update_snapshot_and_publish(n) \/ JoinWelcomed(n) \/ JoinFetch(n) \/ JoinFails(n)
    BY <2>7, SoleStable DEF update_snapshot_and_publish, JoinWelcomed, JoinFetch, JoinFails
  <2>8. CASE NukeSolo(n) \/ NukePropose(n) \/ NukeCancel(n)
    BY <2>8 DEF NukeSolo, NukePropose, NukeCancel, Spend
  <2>9. ASSUME NEW m \in Node,
               \/ CleanupLeft(n, m) \/ admit_peer(n, m) \/ kick_member(n, m)
               \/ CleanupStamp(n, m) \/ DenyPeer(n, m) \/ MemberApproved(n, m)
               \/ admit_approved_member(n, m)
        PROVE Goal
    BY <2>9, SoleStable DEF CleanupLeft, admit_peer, kick_member, CleanupStamp, DenyPeer,
       MemberApproved, admit_approved_member
  <2>10. ASSUME NEW i \in Invite, invite_create(n, i) PROVE Goal
    BY <2>10, SoleStable DEF invite_create
  <2>11. ASSUME NEW j \in Node, NEW i \in Invite, RedeemInvite(n, j, i) PROVE Goal
    BY Zenon, <2>11, SoleStable DEF RedeemInvite
  <2>12. CASE handle_removed_from_network(n) \/ leave_network(n) \/ NukePublishFails(n)
    <3>1. \A k \in Node : nuking'[k] \in {nuking[k], NoRecord}
      BY <2>12 DEF handle_removed_from_network, leave_network, NukePublishFails, Teardown,
         TypeOK, DutiesOK
    <3> QED BY <2>12, <3>1, SoleStable
        DEF handle_removed_from_network, leave_network, NukePublishFails
  <2>13. CASE publish_nuke_tombstone(n) BY Zenon, <2>13 DEF publish_nuke_tombstone, SoleInv
  <2>14. CASE RestoreMember(n)
    <3>1. PICK s : Restarted(n, s) BY Zenon, <2>14 DEF RestoreMember
    <3>2. \A k \in Node : nuking'[k] \in {nuking[k], NoRecord}
      BY <3>1 DEF Restarted, TypeOK, DutiesOK
    <3> QED BY <2>14, <3>1, <3>2, SoleStable DEF RestoreMember, Restarted
  <2>15. CASE RestoreCoordinator(n)
    <3>1. PICK s : Restarted(n, s) /\ publisher' = [publisher EXCEPT ![n] = [pc |-> "guard", blob |-> s]]
      BY Zenon, <2>15 DEF RestoreCoordinator
    <3>2. \A k \in Node : nuking'[k] = NoRecord
      BY <3>1 DEF Restarted, SoleInv, TypeOK, DutiesOK
    <3> QED BY Zenon, <2>15, <3>1, <3>2
        DEF RestoreCoordinator, Coordinator, Restarted, SoleInv, TypeOK, RecordOK
  <2> QED BY <1>2, <2>1, <2>2, <2>3, <2>4, <2>5, <2>6, <2>7, <2>8, <2>9, <2>10, <2>11, <2>12,
             <2>13, <2>14, <2>15
      DEF Task, Environment, Publisher, Poller, Worker
<1> QED BY <1>1, <1>2 DEF Next

\* As long as one node holds the network key, the relay answers it truly and it
\* does not nuke the network, publish.rs never replaces the record by one of the
\* same or a lower generation: not after a restart from a stale config, nor when
\* the coordinator's own poller has taken its state back.
THEOREM SoleRecordAdvances ==
    ASSUME SoleKeyHolder, Ops \cap {"nuke", "resolve_fails"} = {}
    PROVE  Spec => RecordAdvances
<1>1. Init => SoleInv BY SoleInit
<1>2. SoleInv /\ [Next]_vars => SoleInv' /\ [dht'.generation > dht.generation]_dht
  BY SoleNext
<1> QED BY <1>1, <1>2, PTL DEF Spec, RecordAdvances

=============================================================================
