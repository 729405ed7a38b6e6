----------------------------- MODULE Admission ------------------------------
(***************************************************************************)
(* How joiners get a seat, that is a place on the roster and an address,   *)
(* from the coordinator of a network (mesh/accept.rs), and how the rosters *)
(* of the other nodes come to show the same seats (mesh/reconverge.rs).    *)
(*                                                                         *)
(* Every connection is handled by a task of its own, and a handler takes   *)
(* the state's lock once per step: joins that are handled at the same time *)
(* interleave between those.  Publication and adoption are single steps    *)
(* here; Converge has their interleavings.                                 *)
(***************************************************************************)
EXTENDS Addressing

CONSTANTS
    Coord,      \* the coordinator
    Invite,     \* single-use invite secrets
    NoInvite,
    Ops,        \* operations of the environment this instance has
    MaxOps      \* bound on how many of them a behaviour takes

OpNames == {"join", "kick", "revoke", "expire", "restart", "hint"}

ASSUME AdmissionAssumption ==
    /\ Coord \in Node /\ NoInvite \notin Invite /\ MaxOps \in Nat /\ Ops \subseteq OpNames

VARIABLES
    members,    \* NetworkState.members of every node
    generation, \* NetworkState.generation of every node
    status,     \* life of the network on a node
    own,        \* the address of the node's TUN device
    handler,    \* the coordinator's task for a joiner's connection
    invites,    \* the invite table: a function on the entries it has
    expired,    \* invites whose expiry has passed
    record,     \* the signed record: generation and roster
    admittedBy, \* history: whom admit_peer has admitted on an invite
    kicked,     \* history: nodes that have been kicked
    budget      \* operations left

vars == <<members, generation, status, own, handler, invites, expired, record,
          admittedBy, kicked, budget>>

\* What no step of a handler touches.
world == <<record, expired, kicked, budget>>

Statuses == {"out", "joining", "up", "restored"}
Phases == {"none", "redeemed", "assigned", "denied", "checked", "added"}
NoSeat == [ip |-> derive_ip(Coord), collision_index |-> 0]
NoHandler == [pc |-> "none", invite |-> NoInvite, seat |-> NoSeat]
NoRoster == [n \in {} |-> NoSeat]

\* Every variable has its type, and a handler past the redemption holds an invite.
TypeOK ==
    /\ members \in [Node -> Roster] /\ generation \in [Node -> Nat]
    /\ status \in [Node -> Statuses] /\ own \in [Node -> Addr]
    /\ handler \in [Node -> [pc : Phases, invite : Invite \cup {NoInvite}, seat : Seat]]
    /\ \A n \in Node : handler[n].pc # "none" => handler[n].invite \in Invite
    /\ invites \in UNION {[S -> {"live", "revoked"}] : S \in SUBSET Invite}
    /\ expired \subseteq Invite
    /\ record \in [generation : Nat, members : Roster]
    /\ admittedBy \in [Invite -> SUBSET Node] /\ kicked \subseteq Node
    /\ budget \in 0..MaxOps

\* A network its coordinator has just created, with its invites handed out.
Founding == add(NoRoster, Coord, assign_ip(NoRoster, Coord))

Init ==
    /\ members = [n \in Node |-> IF n = Coord THEN Founding ELSE NoRoster]
    /\ generation = [n \in Node |-> IF n = Coord THEN 1 ELSE 0]
    /\ status = [n \in Node |-> IF n = Coord THEN "up" ELSE "out"]
    /\ own = [n \in Node |-> derive_ip(n)]
    /\ handler = [n \in Node |-> NoHandler]
    /\ invites = [i \in Invite |-> "live"]
    /\ expired = {}
    /\ record = [generation |-> 1, members |-> Founding]
    /\ admittedBy = [i \in Invite |-> {}]
    /\ kicked = {}
    /\ budget = MaxOps

Spend(op) == op \in Ops /\ budget > 0 /\ budget' = budget - 1

Running(n) == status[n] \in {"up", "restored"}

\* The coordinator's roster, and bump_generation_and_refresh after an edit.
Edit(list) ==
    /\ members' = [members EXCEPT ![Coord] = list]
    /\ generation' = [generation EXCEPT ![Coord] = @ + 1]

Phase(j, pc) == handler' = [handler EXCEPT ![j].pc = pc]

HandlerDone(j) == handler' = [handler EXCEPT ![j] = NoHandler]

-----------------------------------------------------------------------------
(* A join, on both sides.                                                  *)

\* join_network_inner: the joiner fetches the signed blob, whose generation its
\* state will start from, and dials.  It does not dial again while the
\* coordinator is still busy with its last connection.
Dial(j) ==
    /\ status[j] = "out" /\ handler[j] = NoHandler /\ j # Coord
    /\ Spend("join")
    /\ status' = [status EXCEPT ![j] = "joining"]
    /\ generation' = [generation EXCEPT ![j] = record.generation]
    /\ UNCHANGED <<members, own, handler, invites, expired, record, admittedBy, kicked>>

\* JoinDenied arrives, nobody answers a known member's JoinRequest, or no answer
\* comes in time: the join fails on the joiner's side alone.
JoinFails(j) ==
    /\ status[j] = "joining"
    /\ status' = [status EXCEPT ![j] = "out"]
    /\ UNCHANGED <<members, generation, own, handler, invites, admittedBy, world>>

\* validate_invite
Redeemable(i) == i \in DOMAIN invites /\ invites[i] = "live" /\ i \notin expired

\* A slip: the invite is looked up, and burnt only once the joiner is seated.
ValidateWithoutBurning(j, i) ==
    /\ status[j] = "joining" /\ handler[j] = NoHandler
    /\ j \notin DOMAIN members[Coord]
    /\ Redeemable(i)
    /\ handler' = [handler EXCEPT ![j] = [pc |-> "redeemed", invite |-> i, seat |-> NoSeat]]
    /\ UNCHANGED <<members, generation, status, own, invites, admittedBy, world>>

\* redeem_invite_and_admit, phase 1: consume_invite under the write lock.
redeem_invite_and_admit(j, i) ==
    /\ status[j] = "joining" /\ handler[j] = NoHandler
    /\ j \notin DOMAIN members[Coord]
    /\ Redeemable(i)
    /\ invites' = [k \in DOMAIN invites \ {i} |-> invites[k]]
    /\ Edit(members[Coord])
    /\ handler' = [handler EXCEPT ![j] = [pc |-> "redeemed", invite |-> i, seat |-> NoSeat]]
    /\ UNCHANGED <<status, own, admittedBy, world>>

\* validate_admission: the seat is chosen under one read lock ...
AssignSeat(j) ==
    /\ handler[j].pc = "redeemed" /\ FreeIndices(members[Coord], j) # {}
    /\ handler' = [handler EXCEPT ![j].pc = "assigned",
                                  ![j].seat = assign_ip(members[Coord], j)]
    /\ UNCHANGED <<members, generation, status, own, invites, admittedBy, world>>

\* ... and looked at again under another.
CheckSeat(j) ==
    /\ handler[j].pc = "assigned"
    /\ Phase(j, IF TakenFrom(members[Coord], j, handler[j].seat.ip)
                THEN "denied" ELSE "checked")
    /\ UNCHANGED <<members, generation, status, own, invites, admittedBy, world>>

\* deny has told the joiner; restore_invite puts the invite back unless it has
\* expired or is in the table again.
RestoreInvite(j) ==
    /\ handler[j].pc = "denied"
    /\ LET i == handler[j].invite IN
       IF i \in expired \cup DOMAIN invites
       THEN UNCHANGED <<invites, members, generation>>
       ELSE /\ invites' = [k \in DOMAIN invites \cup {i} |->
                              IF k = i THEN "live" ELSE invites[k]]
            /\ Edit(members[Coord])
    /\ HandlerDone(j)
    /\ UNCHANGED <<status, own, admittedBy, world>>

\* A slip: the member is inserted without MemberList::add's look at the address.
InsertMember(j) ==
    /\ handler[j].pc = "checked"
    /\ Edit([m \in DOMAIN members[Coord] \cup {j} |->
                IF m = j THEN handler[j].seat ELSE members[Coord][m]])
    /\ Phase(j, "added")
    /\ admittedBy' = [admittedBy EXCEPT ![handler[j].invite] = @ \cup {j}]
    /\ UNCHANGED <<status, own, invites, world>>

\* admit_peer adds the member; an error of MemberList::add is ignored.
AddMember(j) ==
    /\ handler[j].pc = "checked"
    /\ Edit(add(members[Coord], j, handler[j].seat))
    /\ Phase(j, "added")
    /\ admittedBy' = [admittedBy EXCEPT ![handler[j].invite] = @ \cup {j}]
    /\ UNCHANGED <<status, own, invites, world>>

\* resolve_welcome_self_ip: the seat the roster has for the joiner; its own guess
\* if there is none and nobody else sits there.
WelcomeSelfIp(roster, j) ==
    IF j \in DOMAIN roster THEN roster[j].ip ELSE derive_ip(j)

\* A slip: the roster is not looked at.
NeverCollides(roster, j) == FALSE

WelcomeCollides(roster, j) ==
    j \notin DOMAIN roster /\ TakenFrom(roster, j, derive_ip(j))

\* After the broadcast of MemberApproved, admit_peer answers Welcome with the
\* roster of that moment.  A joiner that is still waiting comes up on it
\* (build_member_state), or bails out.
Welcome(j) ==
    /\ handler[j].pc = "added"
    /\ LET roster == members[Coord] IN
       IF status[j] # "joining"
       THEN UNCHANGED <<status, members, own>>
       ELSE IF WelcomeCollides(roster, j)
       THEN status' = [status EXCEPT ![j] = "out"] /\ UNCHANGED <<members, own>>
       ELSE /\ status' = [status EXCEPT ![j] = "up"]
            /\ members' = [members EXCEPT ![j] = roster]
            /\ own' = [own EXCEPT ![j] = WelcomeSelfIp(roster, j)]
    /\ HandlerDone(j)
    /\ UNCHANGED <<generation, invites, admittedBy, world>>

-----------------------------------------------------------------------------
(* Edits of the coordinator that race with joins.                          *)

\* kick_member
kick_member(m) ==
    /\ m \in DOMAIN members[Coord] \ {Coord} /\ Spend("kick")
    /\ Edit(remove(members[Coord], m))
    /\ kicked' = kicked \cup {m}
    /\ UNCHANGED <<status, own, handler, invites, expired, record, admittedBy>>

\* invite_revoke: a consumed invite is no longer in the table to be revoked.
invite_revoke(i) ==
    /\ i \in DOMAIN invites /\ Spend("revoke")
    /\ invites' = [invites EXCEPT ![i] = "revoked"]
    /\ Edit(members[Coord])
    /\ UNCHANGED <<status, own, handler, expired, record, admittedBy, kicked>>

\* The clock passes an invite's expiry.
Expire(i) ==
    /\ i \notin expired /\ Spend("expire")
    /\ expired' = expired \cup {i}
    /\ UNCHANGED <<members, generation, status, own, handler, invites, record,
                   admittedBy, kicked>>

-----------------------------------------------------------------------------
(* The record and its readers.                                             *)

\* spawn_network_publisher: the sole key holder's guard passes when it is ahead.
Publish ==
    /\ generation[Coord] > record.generation
    /\ record' = [generation |-> generation[Coord], members |-> members[Coord]]
    /\ UNCHANGED <<members, generation, status, own, handler, invites, expired,
                   admittedBy, kicked, budget>>

\* Reader n takes the network down: it is not on the signed roster.
SelfRemoval(n) ==
    /\ status' = [status EXCEPT ![n] = "out"]
    /\ members' = [members EXCEPT ![n] = NoRoster]
    /\ generation' = [generation EXCEPT ![n] = 0]

Adopt(n, list) ==
    /\ members' = [members EXCEPT ![n] = list]
    /\ generation' = [generation EXCEPT ![n] = record.generation]
    /\ UNCHANGED status

\* A slip: only a higher generation is fetched.
FetchNewerOnly(n) == record.generation > generation[n]

\* poller_should_fetch: a newer record, or another one of the same generation.
poller_should_fetch(n) ==
    \/ record.generation > generation[n]
    \/ record.generation = generation[n] /\ record.members # members[n]

\* spawn_group_poller takes the roster as it is signed.
Poll(n) ==
    /\ Running(n) /\ n # Coord /\ poller_should_fetch(n)
    /\ IF n \in DOMAIN record.members THEN Adopt(n, record.members) ELSE SelfRemoval(n)
    /\ UNCHANGED <<own, handler, invites, expired, record, admittedBy, kicked, budget>>

\* reconverge_and_apply, on a MemberSync or BlobUpdated hint: any other hash than
\* the one held, unless it is older; every member is seated anew.
Reconverge(n) ==
    /\ Running(n) /\ n # Coord /\ "hint" \in Ops
    /\ <<record.generation, record.members>> # <<generation[n], members[n]>>
    /\ \/ n \notin DOMAIN record.members /\ SelfRemoval(n)
       \/ /\ n \in DOMAIN record.members /\ record.generation >= generation[n]
          /\ Adopt(n, resolve_ip_tiebreak(record.members))
    /\ UNCHANGED <<own, handler, invites, expired, record, admittedBy, kicked, budget>>

\* The daemon of a member restarts: join_network_inner takes the roster of the
\* record and derives the node's address anew, at index 0.
RestoreMember(n) ==
    /\ Running(n) /\ n # Coord /\ Spend("restart")
    /\ members' = [members EXCEPT ![n] = record.members]
    /\ generation' = [generation EXCEPT ![n] = record.generation]
    /\ own' = [own EXCEPT ![n] = derive_ip(n)]
    /\ status' = [status EXCEPT ![n] = "restored"]
    /\ UNCHANGED <<handler, invites, expired, record, admittedBy, kicked>>

-----------------------------------------------------------------------------
Handler(j) ==
    AssignSeat(j) \/ CheckSeat(j) \/ RestoreInvite(j) \/ AddMember(j) \/ Welcome(j)

Next ==
    \/ Publish
    \/ \E n \in Node :
        \/ Dial(n) \/ JoinFails(n) \/ Handler(n)
        \/ kick_member(n) \/ Poll(n) \/ Reconverge(n) \/ RestoreMember(n)
    \/ \E i \in Invite : invite_revoke(i) \/ Expire(i)
    \/ \E j \in Node, i \in Invite : redeem_invite_and_admit(j, i)

Spec == Init /\ [][Next]_vars

\* The publisher and every poller come round on their timers and a handler runs
\* to its end; users, hints and the failures of a joiner owe nothing.
FairSpec ==
    Spec /\ WF_vars(Publish) /\ \A n \in Node : WF_vars(Handler(n)) /\ WF_vars(Poll(n))

-----------------------------------------------------------------------------
(* Properties.                                                             *)

\* No interleaving of joins, kicks and re-seatings leaves a roster, the
\* coordinator's, the signed one or one a reader has adopted, on which an address
\* is not derived from its identity and index or two members share one:
\* decode_group_blob would refuse it on every node.
RostersVerify ==
    Verifies(record.members) /\ \A n \in Node : Verifies(members[n])

\* A single-use invite admits one joiner at most (INVITE-ATOMIC-001), through
\* concurrent redemptions, denials that put it back, revocation and expiry.
InviteAdmitsOne == \A i \in Invite : \A m, n \in admittedBy[i] : m = n

\* As long as nobody has been kicked, a node that came up on a Welcome is on the
\* coordinator's roster, at the address it gave its TUN device.  The check and
\* the insertion are under different locks and a lost insertion goes unnoticed;
\* it is the joiner's resolve_welcome_self_ip that refuses.
WelcomedAreSeated ==
    kicked = {} =>
        \A n \in Node : status[n] = "up" =>
            n \in DOMAIN members[Coord] /\ members[Coord][n].ip = own[n]

\* When users are done, all running nodes end with the signed map of addresses:
\* what a hint's tiebreak has moved, the poller puts back.
MapsConverge == <>[](\A n \in Node : Running(n) => members[n] = record.members)

-----------------------------------------------------------------------------
(* What comments say of the code, and it does not do.                      *)

\* A node that restarts has the address its roster has for it.
RestartKeepsAddress ==
    \A n \in Node : status[n] = "restored" /\ n \in DOMAIN members[n] =>
                        own[n] = members[n][n].ip

\* A reader that has adopted a signed roster without clashing addresses shows the
\* addresses that were signed.
AdoptedAsSigned ==
    \A n \in Node : Running(n) /\ generation[n] = record.generation
                        /\ DOMAIN members[n] = DOMAIN record.members =>
                    members[n] = record.members
=============================================================================
