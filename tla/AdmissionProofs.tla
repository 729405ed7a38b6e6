-------------------------- MODULE AdmissionProofs ---------------------------
(***************************************************************************)
(* Theorems about Admission, for every number of joiners, invites and      *)
(* addresses and every derivation of addresses.                            *)
(***************************************************************************)
EXTENDS Admission, WellFoundedInduction, TLAPS

-----------------------------------------------------------------------------
(* Addressing.                                                             *)

LEMMA LeastOfNaturals ==
    ASSUME NEW R, IsWellFoundedOn(R, Nat), NEW T \in SUBSET Nat, T # {}
    PROVE  \E x \in T : \A y \in T : ~ (<<y, x>> \in R)
<1>1. T \subseteq Nat OBVIOUS
<1> QED BY Zenon, <1>1, WFMin

\* A set of naturals has a least element, so Min picks it.
LEMMA MinOfNaturals ==
    ASSUME NEW T \in SUBSET Nat, T # {}
    PROVE  Min(T) \in T /\ \A y \in T : Min(T) =< y
<1>1. PICK R : /\ IsWellFoundedOn(R, Nat)
               /\ \A x, y \in Nat : x < y => <<x, y>> \in R
  <2>1. \A x, y \in Nat : x < y => <<x, y>> \in OpToRel(<, Nat) BY DEF OpToRel
  <2> QED BY Zenon, <2>1, NatLessThanWellFounded
<1>2. PICK x \in T : \A y \in T : ~ (<<y, x>> \in R) BY <1>1, LeastOfNaturals
<1>3. \A y \in T : x \in Nat /\ y \in Nat /\ ~ (y < x) BY Zenon, <1>1, <1>2
<1>4. \A y \in T : x =< y BY <1>3
<1> QED BY Zenon, <1>4 DEF Min

LEMMA RosterFacts ==
    /\ \A list \in Roster : DOMAIN list \subseteq Node /\ list \in [DOMAIN list -> Seat]
    /\ \A S \in SUBSET Node : \A f \in [S -> Seat] : f \in Roster
BY DEF Roster

\* assign_ip returns a free address of n, and another than its first choice only
\* if somebody sits there.
LEMMA AssignFacts ==
    ASSUME NEW list, NEW n \in Node, FreeIndices(list, n) # {}
    PROVE  LET seat == assign_ip(list, n) IN
           /\ seat \in Seat /\ ~ TakenFrom(list, n, seat.ip)
           /\ seat.ip = derive_ip_with_index(n, seat.collision_index)
           /\ seat.ip = derive_ip(n) \/ TakenFrom(list, n, derive_ip(n))
<1> DEFINE free == FreeIndices(list, n)
           index == Min(free)
<1>1. free \in SUBSET Nat /\ free \subseteq Index
  BY AddressingAssumption DEF FreeIndices, Index
<1>2. index \in free /\ \A y \in free : index =< y BY <1>1, MinOfNaturals
<1>3. index \in Index /\ index \in Nat BY <1>1, <1>2
<1>4. ~ TakenFrom(list, n, derive_ip_with_index(n, index)) BY <1>2 DEF FreeIndices
<1>5. index = 0 \/ 0 \notin free BY <1>2, <1>3
<1>6. 0 \in Index BY AddressingAssumption DEF Index
<1>7. 0 \notin free => TakenFrom(list, n, derive_ip_with_index(n, 0)) BY <1>6 DEF FreeIndices
<1>8. derive_ip_with_index(n, index) \in Addr BY <1>3, AddressingAssumption
<1> HIDE DEF index, free
<1>9. assign_ip(list, n) = [ip |-> derive_ip_with_index(n, index), collision_index |-> index]
  BY DEF assign_ip, index, free
<1> QED BY <1>3, <1>4, <1>5, <1>7, <1>8, <1>9 DEF Seat, derive_ip

\* MemberList::add changes no other seat, and none at all when the address is held.
LEMMA AddFacts ==
    ASSUME NEW list \in Roster, NEW n \in Node, NEW seat \in Seat
    PROVE  /\ add(list, n, seat) \in Roster
           /\ TakenFrom(list, n, seat.ip) => add(list, n, seat) = list
           /\ ~ TakenFrom(list, n, seat.ip) =>
                  /\ DOMAIN add(list, n, seat) = DOMAIN list \cup {n}
                  /\ add(list, n, seat)[n] = seat
           /\ \A m \in DOMAIN list \ {n} :
                  m \in DOMAIN add(list, n, seat) /\ add(list, n, seat)[m] = list[m]
<1> DEFINE longer == [m \in DOMAIN list \cup {n} |-> IF m = n THEN seat ELSE list[m]]
<1>1. DOMAIN list \subseteq Node /\ list \in [DOMAIN list -> Seat] BY RosterFacts
<1>2. longer \in [DOMAIN list \cup {n} -> Seat] BY <1>1
<1>3. longer \in Roster
  <2>1. DOMAIN list \cup {n} \in SUBSET Node BY <1>1
  <2> HIDE DEF longer
  <2> QED BY <1>2, <2>1, RosterFacts
<1> QED BY <1>3 DEF add

LEMMA RemoveFacts ==
    ASSUME NEW list \in Roster, NEW n \in Node
    PROVE  /\ remove(list, n) \in Roster /\ DOMAIN remove(list, n) = DOMAIN list \ {n}
           /\ \A m \in DOMAIN list \ {n} : remove(list, n)[m] = list[m]
<1> DEFINE shorter == [m \in DOMAIN list \ {n} |-> list[m]]
<1>1. DOMAIN list \subseteq Node /\ list \in [DOMAIN list -> Seat] BY RosterFacts
<1>2. shorter \in [DOMAIN list \ {n} -> Seat] BY <1>1
<1>3. shorter \in Roster
  <2>1. DOMAIN list \ {n} \in SUBSET Node BY <1>1
  <2> HIDE DEF shorter
  <2> QED BY <1>2, <2>1, RosterFacts
<1> QED BY <1>3 DEF remove

LEMMA AddVerifies ==
    ASSUME NEW list \in Roster, NEW n \in Node, NEW seat \in Seat, Verifies(list),
           seat.ip = derive_ip_with_index(n, seat.collision_index)
    PROVE  Verifies(add(list, n, seat))
<1>1. CASE TakenFrom(list, n, seat.ip)
  <2>1. add(list, n, seat) = list BY <1>1 DEF add
  <2> QED BY <2>1
<1>2. CASE ~ TakenFrom(list, n, seat.ip)
  <2> DEFINE longer == add(list, n, seat)
  <2>1. /\ DOMAIN longer = DOMAIN list \cup {n} /\ longer[n] = seat
        /\ \A m \in DOMAIN list \ {n} : longer[m] = list[m]
    BY <1>2, AddFacts
  <2> HIDE DEF longer
  <2>2. \A m \in DOMAIN list \ {n} : list[m].ip # seat.ip BY <1>2 DEF TakenFrom
  <2>3. \A m \in DOMAIN longer : longer[m].ip = derive_ip_with_index(m, longer[m].collision_index)
    BY <2>1 DEF Verifies
  <2>4. \A m \in DOMAIN longer : ~ TakenFrom(longer, m, longer[m].ip)
    BY <2>1, <2>2 DEF Verifies, TakenFrom
  <2> QED BY <2>3, <2>4 DEF Verifies, longer
<1> QED BY <1>1, <1>2

LEMMA RemoveVerifies ==
    ASSUME NEW list \in Roster, NEW n \in Node, Verifies(list)
    PROVE  Verifies(remove(list, n))
<1> DEFINE shorter == remove(list, n)
<1>1. /\ DOMAIN shorter = DOMAIN list \ {n}
      /\ \A m \in DOMAIN list \ {n} : shorter[m] = list[m]
  BY RemoveFacts
<1> HIDE DEF shorter
<1>2. Verifies(shorter) BY <1>1 DEF Verifies, TakenFrom
<1> QED BY <1>2 DEF shorter

-----------------------------------------------------------------------------
(* Types, as far as the proofs below need them.  What the tiebreak makes   *)
(* of the roster of a reader is a recursive function of the roster, beyond *)
(* the prover; nothing is asked of it here.                                *)

HandlerOK ==
    /\ handler \in [Node -> [pc : Phases, invite : Invite \cup {NoInvite}, seat : Seat]]
    /\ \A n \in Node : handler[n].pc # "none" => handler[n].invite \in Invite

CoordOK ==
    /\ members = [n \in Node |-> members[n]] /\ members[Coord] \in Roster
    /\ status \in [Node -> Statuses] /\ own = [n \in Node |-> own[n]]
    /\ HandlerOK /\ admittedBy \in [Invite -> SUBSET Node]

LEMMA NoSeatFacts == NoSeat \in Seat /\ NoHandler.pc = "none" /\ NoRoster \in Roster
<1>1. NoSeat \in Seat
  BY AddressingAssumption, AdmissionAssumption DEF NoSeat, Seat, derive_ip, Index
<1>2. NoRoster \in [{} -> Seat] BY DEF NoRoster
<1>3. NoRoster \in Roster BY Zenon, <1>2, RosterFacts
<1> QED BY <1>1, <1>3 DEF NoHandler

\* The founding roster seats the coordinator at its first choice.
LEMMA FoundingFacts ==
    /\ Founding \in Roster /\ Verifies(Founding)
    /\ DOMAIN Founding = {Coord} /\ Founding[Coord].ip = derive_ip(Coord)
<1> DEFINE seat == assign_ip(NoRoster, Coord)
<1>1. DOMAIN NoRoster = {} /\ NoRoster \in Roster BY NoSeatFacts DEF NoRoster
<1>2. \A ip : ~ TakenFrom(NoRoster, Coord, ip) BY <1>1 DEF TakenFrom
<1>3. 0 \in FreeIndices(NoRoster, Coord)
  BY <1>2, AddressingAssumption DEF FreeIndices, Index
<1>4. /\ seat \in Seat /\ seat.ip = derive_ip_with_index(Coord, seat.collision_index)
      /\ seat.ip = derive_ip(Coord)
  BY <1>2, <1>3, AssignFacts, AdmissionAssumption
<1>5. Verifies(NoRoster) BY <1>1 DEF Verifies
<1> HIDE DEF seat
<1>6. Founding = add(NoRoster, Coord, seat) BY DEF Founding, seat
<1>7. add(NoRoster, Coord, seat) \in Roster /\ Verifies(add(NoRoster, Coord, seat))
  BY Zenon, <1>1, <1>4, <1>5, AddFacts, AddVerifies, AdmissionAssumption
<1>8. /\ DOMAIN add(NoRoster, Coord, seat) = {Coord}
      /\ add(NoRoster, Coord, seat)[Coord] = seat
  BY <1>1, <1>2 DEF add
<1> QED BY <1>4, <1>6, <1>7, <1>8

LEMMA CoordInit == Init => CoordOK
<1> SUFFICES ASSUME Init PROVE CoordOK OBVIOUS
<1>1. members = [n \in Node |-> members[n]] /\ members[Coord] \in Roster
  BY FoundingFacts, AdmissionAssumption DEF Init
<1>2. status \in [Node -> Statuses] /\ own = [n \in Node |-> own[n]]
  BY DEF Init, Statuses
<1>3. HandlerOK BY NoSeatFacts DEF Init, HandlerOK, NoHandler, Phases
<1>4. admittedBy \in [Invite -> SUBSET Node] BY DEF Init
<1> QED BY <1>1, <1>2, <1>3, <1>4 DEF CoordOK

LEMMA CoordNext ==
    ASSUME CoordOK, [Next]_vars
    PROVE  CoordOK'
<1> USE DEF CoordOK
<1>1. CASE UNCHANGED vars BY <1>1 DEF vars, HandlerOK
<1>2. CASE Publish BY <1>2 DEF Publish, HandlerOK
<1>3. ASSUME NEW n \in Node, Dial(n) \/ JoinFails(n) PROVE CoordOK'
  BY <1>3 DEF Dial, JoinFails, Statuses, HandlerOK
<1>4. ASSUME NEW n \in Node, AssignSeat(n) PROVE CoordOK'
  <2>1. assign_ip(members[Coord], n) \in Seat BY <1>4, AssignFacts DEF AssignSeat
  <2>2. HandlerOK' BY Zenon, <1>4, <2>1 DEF AssignSeat, HandlerOK, Phases
  <2> QED BY <1>4, <2>2 DEF AssignSeat
<1>5. ASSUME NEW n \in Node, CheckSeat(n) PROVE CoordOK'
  <2>1. HandlerOK' BY <1>5 DEF CheckSeat, Phase, HandlerOK, Phases
  <2> QED BY <1>5, <2>1 DEF CheckSeat
<1>6. ASSUME NEW n \in Node, RestoreInvite(n) PROVE CoordOK'
  <2>1. HandlerOK' BY <1>6, NoSeatFacts DEF RestoreInvite, HandlerDone, HandlerOK, NoHandler, Phases
  <2>2. (members = [k \in Node |-> members[k]])' /\ (members[Coord] \in Roster)'
    BY <1>6, AdmissionAssumption DEF RestoreInvite, Edit
  <2> QED BY <1>6, <2>1, <2>2 DEF RestoreInvite
<1>7. ASSUME NEW n \in Node, AddMember(n) PROVE CoordOK'
  <2>1. add(members[Coord], n, handler[n].seat) \in Roster BY Zenon, AddFacts DEF HandlerOK
  <2>2. (members = [k \in Node |-> members[k]])' /\ (members[Coord] \in Roster)'
    BY <1>7, <2>1, AdmissionAssumption DEF AddMember, Edit
  <2>3. HandlerOK' BY <1>7 DEF AddMember, Phase, HandlerOK, Phases
  <2>4. (admittedBy \in [Invite -> SUBSET Node])' BY <1>7 DEF AddMember, HandlerOK
  <2> QED BY <1>7, <2>2, <2>3, <2>4 DEF AddMember
<1>8. ASSUME NEW n \in Node, Welcome(n) PROVE CoordOK'
  <2>1. HandlerOK' BY <1>8, NoSeatFacts DEF Welcome, HandlerDone, HandlerOK, NoHandler, Phases
  <2>2. (members = [k \in Node |-> members[k]])' /\ (members[Coord] \in Roster)'
    BY <1>8, AdmissionAssumption DEF Welcome
  <2>3. (status \in [Node -> Statuses])' /\ (own = [k \in Node |-> own[k]])'
    BY <1>8 DEF Welcome, Statuses
  <2> QED BY <1>8, <2>1, <2>2, <2>3 DEF Welcome
<1>9. ASSUME NEW n \in Node, kick_member(n) PROVE CoordOK'
  <2>1. remove(members[Coord], n) \in Roster BY Zenon, RemoveFacts
  <2>2. (members = [k \in Node |-> members[k]])' /\ (members[Coord] \in Roster)'
    BY <1>9, <2>1, AdmissionAssumption DEF kick_member, Edit
  <2> QED BY <1>9, <2>2 DEF kick_member, HandlerOK
<1>10. ASSUME NEW n \in Node, NEW list, members' = [members EXCEPT ![n] = list], n # Coord,
              status' = status \/ \E s \in Statuses : status' = [status EXCEPT ![n] = s],
              own' = own \/ own' = [own EXCEPT ![n] = derive_ip(n)],
              UNCHANGED <<handler, admittedBy>>
       PROVE  CoordOK'
  <2>1. (members = [k \in Node |-> members[k]])' /\ (members[Coord] \in Roster)'
    BY <1>10, AdmissionAssumption
  <2>2. (status \in [Node -> Statuses])' /\ (own = [k \in Node |-> own[k]])' BY <1>10
  <2> QED BY <1>10, <2>1, <2>2 DEF HandlerOK
<1>11. ASSUME NEW n \in Node, Poll(n) \/ Reconverge(n) \/ RestoreMember(n) PROVE CoordOK'
  <2>1. {"out", "restored"} \subseteq Statuses BY DEF Statuses
  <2>2. CASE Poll(n) BY Zenon, <1>10, <2>1, <2>2 DEF Poll, Adopt, SelfRemoval
  <2>3. CASE Reconverge(n) BY Zenon, <1>10, <2>1, <2>3 DEF Reconverge, Adopt, SelfRemoval
  <2>4. CASE RestoreMember(n) BY Zenon, <1>10, <2>1, <2>4 DEF RestoreMember
  <2> QED BY <1>11, <2>2, <2>3, <2>4
<1>12. ASSUME NEW i \in Invite, invite_revoke(i) \/ Expire(i) PROVE CoordOK'
  BY <1>12, AdmissionAssumption DEF invite_revoke, Expire, Edit, HandlerOK
<1>13. ASSUME NEW j \in Node, NEW i \in Invite, redeem_invite_and_admit(j, i) PROVE CoordOK'
  <2>1. HandlerOK' BY <1>13, NoSeatFacts DEF redeem_invite_and_admit, HandlerOK, Phases
  <2>2. (members = [k \in Node |-> members[k]])' /\ (members[Coord] \in Roster)'
    BY <1>13, AdmissionAssumption DEF redeem_invite_and_admit, Edit
  <2> QED BY <1>13, <2>1, <2>2 DEF redeem_invite_and_admit
<1> QED BY <1>1, <1>2, <1>3, <1>4, <1>5, <1>6, <1>7, <1>8, <1>9, <1>11, <1>12, <1>13
    DEF Next, Handler

-----------------------------------------------------------------------------
(* Single-use invites.  InviteAdmitsOne follows from where an invite is:   *)
(* in the table, with one handler, or spent on one joiner.                 *)

Holds(n, i) ==
    handler[n].invite = i /\ handler[n].pc \in {"redeemed", "assigned", "denied", "checked"}

InviteInv ==
    /\ CoordOK
    /\ \A i \in Invite : i \in DOMAIN invites => admittedBy[i] = {}
    /\ \A n \in Node, i \in Invite : Holds(n, i) =>
           i \notin DOMAIN invites /\ admittedBy[i] = {} /\ \A m \in Node : Holds(m, i) => m = n
    /\ InviteAdmitsOne

\* Nobody takes hold of an invite and none comes back to the table.
LEMMA InviteStable ==
    ASSUME InviteInv, CoordOK', DOMAIN invites' \subseteq DOMAIN invites, UNCHANGED admittedBy,
           \A n \in Node, i \in Invite : Holds(n, i)' => Holds(n, i)
    PROVE  InviteInv'
BY DEF InviteInv, InviteAdmitsOne

LEMMA InviteNext ==
    ASSUME InviteInv, [Next]_vars
    PROVE  InviteInv'
<1>0. CoordOK /\ CoordOK' BY CoordNext DEF InviteInv
<1>1. CASE UNCHANGED vars BY <1>0, <1>1, InviteStable DEF vars, Holds
<1>2. CASE Publish BY <1>0, <1>2, InviteStable DEF Publish, Holds
<1>3. ASSUME NEW n \in Node,
             \/ Dial(n) \/ JoinFails(n) \/ kick_member(n)
             \/ Poll(n) \/ Reconverge(n) \/ RestoreMember(n)
      PROVE  InviteInv'
  <2>1. UNCHANGED <<handler, invites, admittedBy>>
    BY Zenon, <1>3 DEF Dial, JoinFails, kick_member, Poll, Reconverge, RestoreMember
  <2> QED BY <1>0, <2>1, InviteStable DEF Holds
<1>4. ASSUME NEW j \in Node, AssignSeat(j) \/ CheckSeat(j) \/ Welcome(j) PROVE InviteInv'
  <2>1. UNCHANGED <<invites, admittedBy>> BY Zenon, <1>4 DEF AssignSeat, CheckSeat, Welcome
  <2>2. \A n \in Node, i \in Invite : Holds(n, i)' => Holds(n, i)
    <3>1. CASE AssignSeat(j) BY <1>0, <3>1 DEF AssignSeat, Holds, CoordOK, HandlerOK
    <3>2. CASE CheckSeat(j) BY <1>0, <3>2 DEF CheckSeat, Phase, Holds, CoordOK, HandlerOK
    <3>3. CASE Welcome(j)
      BY <1>0, <3>3, NoSeatFacts DEF Welcome, HandlerDone, Holds, CoordOK, HandlerOK
    <3> QED BY <1>4, <3>1, <3>2, <3>3
  <2> QED BY <1>0, <2>1, <2>2, InviteStable
<1>5. ASSUME NEW j \in Node, RestoreInvite(j) PROVE InviteInv'
  <2>1. PICK i \in Invite : i = handler[j].invite /\ Holds(j, i)
    BY <1>0, <1>5 DEF RestoreInvite, Holds, CoordOK, HandlerOK
  <2>2. DOMAIN invites' \subseteq DOMAIN invites \cup {i} /\ UNCHANGED admittedBy
    BY <1>5, <2>1 DEF RestoreInvite
  <2>3. \A n \in Node, k \in Invite : Holds(n, k)' => Holds(n, k) /\ n # j
    BY <1>0, <1>5, NoSeatFacts DEF RestoreInvite, HandlerDone, Holds, CoordOK, HandlerOK
  <2>4. admittedBy[i] = {} /\ \A n \in Node : ~ Holds(n, i)' BY <2>1, <2>3 DEF InviteInv
  <2> QED BY <1>0, <2>1, <2>2, <2>3, <2>4 DEF InviteInv, InviteAdmitsOne
<1>6. ASSUME NEW j \in Node, AddMember(j) PROVE InviteInv'
  <2>1. PICK i \in Invite : i = handler[j].invite /\ Holds(j, i)
    BY <1>0, <1>6 DEF AddMember, Holds, CoordOK, HandlerOK
  <2>2. /\ UNCHANGED invites
        /\ admittedBy' = [admittedBy EXCEPT ![i] = @ \cup {j}]
    BY <1>6, <2>1 DEF AddMember
  <2>3. \A n \in Node, k \in Invite : Holds(n, k)' => Holds(n, k) /\ n # j
    BY <1>0, <1>6 DEF AddMember, Phase, Holds, CoordOK, HandlerOK
  <2>4. /\ i \notin DOMAIN invites /\ \A n \in Node : ~ Holds(n, i)'
        /\ admittedBy'[i] = {j} /\ \A k \in Invite \ {i} : admittedBy'[k] = admittedBy[k]
    BY <1>0, <2>1, <2>2, <2>3 DEF InviteInv, CoordOK
  <2> QED BY <1>0, <2>1, <2>2, <2>3, <2>4 DEF InviteInv, InviteAdmitsOne
<1>7. ASSUME NEW i \in Invite, invite_revoke(i) \/ Expire(i) PROVE InviteInv'
  <2>1. UNCHANGED <<handler, admittedBy>> /\ DOMAIN invites' = DOMAIN invites
    BY <1>7 DEF invite_revoke, Expire
  <2> QED BY <1>0, <2>1, InviteStable DEF Holds
<1>8. ASSUME NEW j \in Node, NEW i \in Invite, redeem_invite_and_admit(j, i) PROVE InviteInv'
  <2>1. /\ i \in DOMAIN invites /\ DOMAIN invites' = DOMAIN invites \ {i}
        /\ UNCHANGED admittedBy
    BY <1>8 DEF redeem_invite_and_admit, Redeemable
  <2>2. \A n \in Node, k \in Invite : Holds(n, k)' => Holds(n, k) \/ (n = j /\ k = i)
    BY <1>0, <1>8 DEF redeem_invite_and_admit, Holds, CoordOK, HandlerOK
  <2>3. admittedBy[i] = {} /\ \A n \in Node : ~ Holds(n, i) BY <2>1 DEF InviteInv
  <2> QED BY <1>0, <2>1, <2>2, <2>3 DEF InviteInv, InviteAdmitsOne
<1> QED BY <1>1, <1>2, <1>3, <1>4, <1>5, <1>6, <1>7, <1>8 DEF Next, Handler

\* INVITE-ATOMIC-001 for every number of joiners and invites: whatever order
\* redemptions, denials, revocations and expiries come in, redeem_invite_and_admit
\* lets an invite admit one joiner at most.
THEOREM InvitesAreSingleUse == Spec => []InviteAdmitsOne
<1>1. Init => InviteInv
  BY CoordInit, NoSeatFacts DEF Init, InviteInv, InviteAdmitsOne, Holds, NoHandler
<1>2. InviteInv /\ [Next]_vars => InviteInv' BY InviteNext
<1>3. InviteInv => InviteAdmitsOne BY DEF InviteInv
<1> QED BY <1>1, <1>2, <1>3, PTL DEF Spec

-----------------------------------------------------------------------------
(* Seats.  A joiner that is refused its first choice is so because somebody *)
(* sits there, and nobody leaves a seat before the first kick: if the seat  *)
(* it was given is lost as well, the joiner finds its own guess taken.      *)

CoordSeated ==
    /\ status[Coord] = "up" /\ Coord \in DOMAIN members[Coord]
    /\ members[Coord][Coord].ip = own[Coord]

HandlersUnseated ==
    \A j \in Node :
        /\ handler[j].pc # "none" => status[j] \in {"joining", "out"}
        /\ handler[j].pc \in {"redeemed", "assigned", "denied", "checked"} =>
               j \notin DOMAIN members[Coord]

Taken(j, ip) == TakenFrom(members[Coord], j, ip)

SeatsExplained ==
    kicked = {} => \A j \in Node :
        /\ handler[j].pc \in {"assigned", "checked", "added"} =>
               handler[j].seat.ip = derive_ip(j) \/ Taken(j, derive_ip(j))
        /\ handler[j].pc = "added" /\ j \notin DOMAIN members[Coord] =>
               Taken(j, handler[j].seat.ip)

SeatInv == CoordOK /\ CoordSeated /\ HandlersUnseated /\ SeatsExplained /\ WelcomedAreSeated

\* Steps that leave the coordinator's roster and the handlers alone, and by which
\* nobody comes up.
LEMMA SeatStable ==
    ASSUME SeatInv, CoordOK', members'[Coord] = members[Coord], UNCHANGED <<handler, kicked>>,
           \A n \in Node :
               \/ status'[n] = status[n] /\ own'[n] = own[n]
               \/ /\ n # Coord /\ status'[n] # "up"
                  /\ handler[n].pc = "none" \/ status'[n] \in {"joining", "out"}
    PROVE  SeatInv'
<1> USE AdmissionAssumption DEF SeatInv
<1>1. CoordSeated' BY DEF CoordSeated
<1>2. HandlersUnseated' BY DEF HandlersUnseated
<1>3. SeatsExplained' BY DEF SeatsExplained, Taken
<1>4. WelcomedAreSeated' BY DEF WelcomedAreSeated
<1> QED BY <1>1, <1>2, <1>3, <1>4

\* Handlers that change nothing but their own phase and seat.
LEMMA SeatHandler ==
    ASSUME SeatInv, CoordOK', members'[Coord] = members[Coord], UNCHANGED <<status, own, kicked>>,
           NEW j \in Node, \A n \in Node \ {j} : handler'[n] = handler[n],
           handler[j].pc \in {"redeemed", "assigned", "denied"},
           \/ handler'[j].pc \in {"none", "denied"}
           \/ /\ handler'[j].pc \in {"assigned", "checked"}
              /\ kicked = {} => \/ handler'[j].seat.ip = derive_ip(j)
                                \/ Taken(j, derive_ip(j))
    PROVE  SeatInv'
<1> USE DEF SeatInv
<1>1. CoordSeated' BY DEF CoordSeated
<1>2. HandlersUnseated' BY DEF HandlersUnseated
<1>3. SeatsExplained' BY DEF SeatsExplained, Taken
<1>4. WelcomedAreSeated' BY DEF WelcomedAreSeated
<1> QED BY <1>1, <1>2, <1>3, <1>4

LEMMA SeatAdd ==
    ASSUME SeatInv, CoordOK', NEW j \in Node, AddMember(j)
    PROVE  SeatInv'
<1> USE AdmissionAssumption DEF SeatInv
<1> DEFINE list == members[Coord]
           longer == members'[Coord]
<1>1. j \notin DOMAIN list /\ handler[j].pc = "checked" /\ handler[j].seat \in Seat
  BY DEF AddMember, HandlersUnseated, CoordOK, HandlerOK
<1>2. longer = add(list, j, handler[j].seat) BY DEF AddMember, Edit, CoordOK
<1>3. /\ \A m \in DOMAIN list : m \in DOMAIN longer /\ longer[m] = list[m]
      /\ DOMAIN longer \subseteq DOMAIN list \cup {j}
      /\ j \in DOMAIN longer \/ Taken(j, handler[j].seat.ip)
  BY <1>1, <1>2 DEF add, Taken
<1>4. \A n \in Node, ip \in Addr : Taken(n, ip) => Taken(n, ip)'
  BY <1>3 DEF Taken, TakenFrom
<1>5. /\ handler'[j].pc = "added" /\ handler'[j].seat = handler[j].seat
      /\ \A n \in Node \ {j} : handler'[n] = handler[n]
      /\ UNCHANGED <<status, own, kicked>>
  BY DEF AddMember, Phase, world, CoordOK, HandlerOK
<1> HIDE DEF list, longer
<1>6. CoordSeated' BY <1>3, <1>5 DEF CoordSeated, list, longer
<1>7. HandlersUnseated' BY <1>1, <1>3, <1>5 DEF HandlersUnseated, list, longer
<1>8. SeatsExplained'
  <2>1. \A n \in Node : derive_ip(n) \in Addr BY AddressingAssumption DEF derive_ip, Index
  <2>2. \A n \in Node : handler[n].seat.ip \in Addr BY DEF CoordOK, HandlerOK, Seat
  <2> QED BY <1>1, <1>3, <1>4, <1>5, <2>1, <2>2 DEF SeatsExplained, list, longer
<1>9. WelcomedAreSeated' BY <1>3, <1>5 DEF WelcomedAreSeated, list, longer
<1> QED BY <1>6, <1>7, <1>8, <1>9

LEMMA SeatWelcome ==
    ASSUME SeatInv, CoordOK', NEW j \in Node, Welcome(j)
    PROVE  SeatInv'
<1> USE AdmissionAssumption DEF SeatInv
<1>1. j # Coord BY DEF Welcome, HandlersUnseated, CoordSeated
<1>2. members'[Coord] = members[Coord] /\ kicked' = kicked
  BY <1>1 DEF Welcome, world, CoordOK
<1>3. /\ handler'[j].pc = "none" /\ handler[j].pc = "added"
      /\ \A n \in Node \ {j} : handler'[n] = handler[n]
  BY NoSeatFacts DEF Welcome, HandlerDone, CoordOK, HandlerOK
<1>4. \A n \in Node \ {j} : status'[n] = status[n] /\ own'[n] = own[n]
  BY DEF Welcome, CoordOK
<1>5. CoordSeated' BY <1>1, <1>2, <1>4 DEF CoordSeated
<1>6. HandlersUnseated' BY <1>2, <1>3, <1>4 DEF HandlersUnseated
<1>7. SeatsExplained' BY <1>2, <1>3 DEF SeatsExplained, Taken
<1>8. WelcomedAreSeated'
  <2>1. ASSUME kicked = {}, status'[j] = "up"
        PROVE  j \in DOMAIN members[Coord] /\ members[Coord][j].ip = own'[j]
    <3>1. /\ ~ WelcomeCollides(members[Coord], j)
          /\ own' = [own EXCEPT ![j] = WelcomeSelfIp(members[Coord], j)]
      BY <1>3, <2>1 DEF Welcome, HandlersUnseated, CoordOK
    <3>2. j \in DOMAIN members[Coord]
      BY <1>3, <2>1, <3>1 DEF WelcomeCollides, SeatsExplained, Taken
    <3> QED BY <3>1, <3>2 DEF WelcomeSelfIp, CoordOK
  <2> QED BY <1>2, <1>4, <2>1 DEF WelcomedAreSeated
<1> QED BY <1>5, <1>6, <1>7, <1>8

LEMMA SeatNext ==
    ASSUME SeatInv, [Next]_vars
    PROVE  SeatInv'
<1>0. CoordOK /\ CoordOK' BY CoordNext DEF SeatInv
<1> USE <1>0, AdmissionAssumption
<1>1. CASE UNCHANGED vars BY <1>1, SeatStable DEF vars
<1>2. CASE Publish BY <1>2, SeatStable DEF Publish
<1>3. ASSUME NEW n \in Node, Dial(n) \/ JoinFails(n) PROVE SeatInv'
  <2>1. /\ n # Coord /\ UNCHANGED <<members, own, handler, kicked>>
        /\ \E s \in {"joining", "out"} : status' = [status EXCEPT ![n] = s]
    BY <1>3 DEF Dial, JoinFails, world, SeatInv, CoordSeated
  <2> QED BY <2>1, SeatStable DEF CoordOK
<1>4. ASSUME NEW n \in Node, Poll(n) \/ Reconverge(n) \/ RestoreMember(n) PROVE SeatInv'
  <2>1. /\ n # Coord /\ UNCHANGED <<handler, kicked>>
        /\ \E list : members' = [members EXCEPT ![n] = list]
    BY Zenon, <1>4 DEF Poll, Reconverge, RestoreMember, Adopt, SelfRemoval
  <2>2. members'[Coord] = members[Coord] BY <2>1 DEF CoordOK
  <2>3. CASE Poll(n) \/ Reconverge(n)
    <3>1. own' = own /\ (status' = status \/ status' = [status EXCEPT ![n] = "out"])
      BY Zenon, <2>3 DEF Poll, Reconverge, Adopt, SelfRemoval
    <3> QED BY <2>1, <2>2, <3>1, SeatStable DEF CoordOK
  <2>4. CASE RestoreMember(n)
    <3>1. handler[n].pc = "none"
      BY <2>4 DEF RestoreMember, Running, SeatInv, HandlersUnseated
    <3>2. /\ own' = [own EXCEPT ![n] = derive_ip(n)]
          /\ status' = [status EXCEPT ![n] = "restored"]
      BY Zenon, <2>4 DEF RestoreMember
    <3> QED BY <2>1, <2>2, <3>1, <3>2, SeatStable DEF CoordOK
  <2> QED BY <1>4, <2>3, <2>4
<1>5. ASSUME NEW j \in Node, AssignSeat(j) PROVE SeatInv'
  <2>1. LET seat == assign_ip(members[Coord], j) IN
        seat.ip = derive_ip(j) \/ Taken(j, derive_ip(j))
    BY <1>5, AssignFacts DEF AssignSeat, Taken
  <2>2. /\ handler[j].pc = "redeemed" /\ handler'[j].pc = "assigned"
        /\ handler'[j].seat = assign_ip(members[Coord], j)
        /\ \A n \in Node \ {j} : handler'[n] = handler[n]
    BY <1>5 DEF AssignSeat, CoordOK, HandlerOK
  <2> QED BY Zenon, <1>5, <2>1, <2>2, SeatHandler DEF AssignSeat, world
<1>6. ASSUME NEW j \in Node, CheckSeat(j) PROVE SeatInv'
  <2>1. /\ handler[j].pc = "assigned" /\ handler'[j].pc \in {"denied", "checked"}
        /\ handler'[j].seat = handler[j].seat
        /\ \A n \in Node \ {j} : handler'[n] = handler[n]
    BY <1>6 DEF CheckSeat, Phase, CoordOK, HandlerOK
  <2>2. kicked = {} => handler[j].seat.ip = derive_ip(j) \/ Taken(j, derive_ip(j))
    BY <2>1 DEF SeatInv, SeatsExplained
  <2> QED BY <1>6, <2>1, <2>2, SeatHandler DEF CheckSeat, world
<1>7. ASSUME NEW j \in Node, RestoreInvite(j) PROVE SeatInv'
  <2>1. /\ handler[j].pc = "denied" /\ handler'[j].pc = "none"
        /\ \A n \in Node \ {j} : handler'[n] = handler[n]
    BY <1>7, NoSeatFacts DEF RestoreInvite, HandlerDone, CoordOK, HandlerOK
  <2>2. members'[Coord] = members[Coord] BY <1>7 DEF RestoreInvite, Edit, CoordOK
  <2> QED BY <1>7, <2>1, <2>2, SeatHandler DEF RestoreInvite, world
<1>8. ASSUME NEW m \in Node, kick_member(m) PROVE SeatInv'
  <2>1. members'[Coord] = remove(members[Coord], m) /\ m # Coord /\ kicked' # {}
    BY <1>8 DEF kick_member, Edit, CoordOK
  <2>2. /\ DOMAIN members'[Coord] = DOMAIN members[Coord] \ {m}
        /\ \A k \in DOMAIN members[Coord] \ {m} : members'[Coord][k] = members[Coord][k]
    BY <2>1 DEF remove
  <2>3. UNCHANGED <<status, own, handler>> BY <1>8 DEF kick_member
  <2>4. CoordSeated' /\ HandlersUnseated'
    BY <2>1, <2>2, <2>3 DEF SeatInv, CoordSeated, HandlersUnseated
  <2> QED BY <2>1, <2>4 DEF SeatInv, SeatsExplained, WelcomedAreSeated
<1>9. ASSUME NEW i \in Invite, invite_revoke(i) \/ Expire(i) PROVE SeatInv'
  <2>1. members'[Coord] = members[Coord] /\ UNCHANGED <<status, own, handler, kicked>>
    BY <1>9 DEF invite_revoke, Expire, Edit, CoordOK
  <2> QED BY <2>1, SeatStable
<1>10. ASSUME NEW j \in Node, NEW i \in Invite, redeem_invite_and_admit(j, i) PROVE SeatInv'
  <2>1. members'[Coord] = members[Coord] /\ UNCHANGED <<status, own, kicked>>
    BY <1>10 DEF redeem_invite_and_admit, Edit, world, CoordOK
  <2>2. /\ status[j] = "joining" /\ j \notin DOMAIN members[Coord]
        /\ handler'[j].pc = "redeemed" /\ \A n \in Node \ {j} : handler'[n] = handler[n]
    BY <1>10 DEF redeem_invite_and_admit, CoordOK, HandlerOK
  <2>3. CoordSeated' BY <2>1 DEF SeatInv, CoordSeated
  <2>4. HandlersUnseated' BY <2>1, <2>2 DEF SeatInv, HandlersUnseated
  <2>5. SeatsExplained' BY <2>1, <2>2 DEF SeatInv, SeatsExplained, Taken
  <2>6. WelcomedAreSeated' BY <2>1 DEF SeatInv, WelcomedAreSeated
  <2> QED BY <2>3, <2>4, <2>5, <2>6 DEF SeatInv
<1>11. ASSUME NEW j \in Node, AddMember(j) \/ Welcome(j) PROVE SeatInv'
  BY <1>11, SeatAdd, SeatWelcome
<1> QED BY <1>1, <1>2, <1>3, <1>4, <1>5, <1>6, <1>7, <1>8, <1>9, <1>10, <1>11
    DEF Next, Handler

\* For every number of joiners that race for every pattern of colliding addresses,
\* until somebody is kicked: who comes up on a Welcome is on the coordinator's
\* roster, under the address it came up with (accept.rs, select.rs).
THEOREM WelcomesAreSound == Spec => []WelcomedAreSeated
<1>1. Init => SeatInv
  <2> SUFFICES ASSUME Init PROVE SeatInv OBVIOUS
  <2>1. members[Coord] = Founding /\ own[Coord] = derive_ip(Coord) /\ status[Coord] = "up"
    BY AdmissionAssumption DEF Init
  <2>2. CoordSeated BY Zenon, <2>1, FoundingFacts DEF CoordSeated
  <2>3. HandlersUnseated /\ SeatsExplained
    BY NoSeatFacts DEF Init, HandlersUnseated, SeatsExplained
  <2>4. WelcomedAreSeated BY <2>1, <2>2 DEF Init, WelcomedAreSeated, CoordSeated
  <2> QED BY <2>2, <2>3, <2>4, CoordInit DEF SeatInv
<1>2. SeatInv /\ [Next]_vars => SeatInv' BY SeatNext
<1>3. SeatInv => WelcomedAreSeated BY DEF SeatInv
<1> QED BY <1>1, <1>2, <1>3, PTL DEF Spec

-----------------------------------------------------------------------------
(* Rosters that verify.                                                    *)

SeatsDerived ==
    \A j \in Node : handler[j].pc \in {"assigned", "checked"} =>
        handler[j].seat.ip = derive_ip_with_index(j, handler[j].seat.collision_index)

VerifyInv == CoordOK /\ SeatsDerived /\ RostersVerify

LEMMA VerifyNext ==
    ASSUME "hint" \notin Ops, VerifyInv, [Next]_vars
    PROVE  VerifyInv'
<1>0. CoordOK /\ CoordOK' BY CoordNext DEF VerifyInv
<1> USE <1>0, AdmissionAssumption DEF VerifyInv
<1>1. ASSUME UNCHANGED handler,
             \A n \in Node : \/ members'[n] \in {members[k] : k \in Node}
                             \/ members'[n] \in {record.members, NoRoster},
             record'.members \in {record.members, members[Coord]}
      PROVE  VerifyInv'
  <2>1. Verifies(NoRoster) BY DEF NoRoster, Verifies
  <2>2. RostersVerify' BY <1>1, <2>1 DEF RostersVerify
  <2> QED BY <1>1, <2>2 DEF SeatsDerived
<1>2. CASE UNCHANGED vars BY <1>1, <1>2 DEF vars
<1>3. CASE Publish BY <1>1, <1>3 DEF Publish
<1>4. ASSUME NEW n \in Node, Dial(n) \/ JoinFails(n) PROVE VerifyInv'
  BY <1>1, <1>4 DEF Dial, JoinFails, world
<1>5. ASSUME NEW n \in Node, Poll(n) \/ RestoreMember(n) PROVE VerifyInv'
  <2>1. /\ \E list \in {record.members, NoRoster} : members' = [members EXCEPT ![n] = list]
        /\ UNCHANGED <<handler, record>>
    BY Zenon, <1>5 DEF Poll, RestoreMember, Adopt, SelfRemoval
  <2> QED BY <1>1, <2>1 DEF CoordOK
<1>6. ASSUME NEW i \in Invite, invite_revoke(i) \/ Expire(i) PROVE VerifyInv'
  <2>1. UNCHANGED <<members, handler, record>> BY <1>6 DEF invite_revoke, Expire, Edit, CoordOK
  <2> QED BY <1>1, <2>1
<1>7. ASSUME UNCHANGED <<members, record>>, SeatsDerived' PROVE VerifyInv'
  BY <1>7 DEF RostersVerify
<1>8. ASSUME NEW j \in Node, AssignSeat(j) PROVE VerifyInv'
  <2>1. LET seat == assign_ip(members[Coord], j) IN
        seat.ip = derive_ip_with_index(j, seat.collision_index)
    BY <1>8, AssignFacts DEF AssignSeat
  <2>2. SeatsDerived' BY <1>8, <2>1 DEF AssignSeat, SeatsDerived, CoordOK, HandlerOK
  <2> QED BY <1>7, <1>8, <2>2 DEF AssignSeat, world
<1>9. ASSUME NEW j \in Node, CheckSeat(j) PROVE VerifyInv'
  <2>1. SeatsDerived' BY <1>9 DEF CheckSeat, Phase, SeatsDerived, CoordOK, HandlerOK
  <2> QED BY <1>7, <1>9, <2>1 DEF CheckSeat, world
<1>10. ASSUME NEW j \in Node, RestoreInvite(j) PROVE VerifyInv'
  <2>1. SeatsDerived'
    BY <1>10, NoSeatFacts DEF RestoreInvite, HandlerDone, SeatsDerived, CoordOK, HandlerOK
  <2>2. UNCHANGED <<members, record>> BY <1>10 DEF RestoreInvite, Edit, world, CoordOK
  <2> QED BY <1>7, <2>1, <2>2
<1>11. ASSUME NEW j \in Node, NEW i \in Invite, redeem_invite_and_admit(j, i) PROVE VerifyInv'
  <2>1. SeatsDerived'
    BY <1>11 DEF redeem_invite_and_admit, SeatsDerived, CoordOK, HandlerOK
  <2>2. UNCHANGED <<members, record>> BY <1>11 DEF redeem_invite_and_admit, Edit, world, CoordOK
  <2> QED BY <1>7, <2>1, <2>2
<1>12. ASSUME NEW list, Verifies(list), members' = [members EXCEPT ![Coord] = list],
              UNCHANGED record, SeatsDerived'
       PROVE  VerifyInv'
  <2>1. RostersVerify' BY <1>12 DEF RostersVerify, CoordOK
  <2> QED BY <1>12, <2>1
<1>13. ASSUME NEW j \in Node, AddMember(j) PROVE VerifyInv'
  <2>1. /\ members[Coord] \in Roster /\ Verifies(members[Coord]) /\ handler[j].seat \in Seat
        /\ handler[j].seat.ip = derive_ip_with_index(j, handler[j].seat.collision_index)
    BY <1>13 DEF AddMember, RostersVerify, SeatsDerived, CoordOK, HandlerOK
  <2>2. Verifies(add(members[Coord], j, handler[j].seat)) BY <2>1, AddVerifies
  <2>3. SeatsDerived' BY <1>13 DEF AddMember, Phase, SeatsDerived, CoordOK, HandlerOK
  <2> QED BY Zenon, <1>12, <1>13, <2>2, <2>3 DEF AddMember, Edit, world
<1>14. ASSUME NEW m \in Node, kick_member(m) PROVE VerifyInv'
  <2>1. Verifies(remove(members[Coord], m)) BY RemoveVerifies DEF RostersVerify, CoordOK
  <2>2. SeatsDerived' BY <1>14 DEF kick_member, SeatsDerived
  <2> QED BY Zenon, <1>12, <1>14, <2>1, <2>2 DEF kick_member, Edit
<1>15. ASSUME NEW j \in Node, Welcome(j) PROVE VerifyInv'
  <2>1. SeatsDerived'
    BY <1>15, NoSeatFacts DEF Welcome, HandlerDone, SeatsDerived, CoordOK, HandlerOK
  <2>2. /\ members' = members \/ members' = [members EXCEPT ![j] = members[Coord]]
        /\ UNCHANGED record
    BY Zenon, <1>15 DEF Welcome, world
  <2>3. RostersVerify' BY <2>2 DEF RostersVerify, CoordOK
  <2> QED BY <2>1, <2>3
<1>16. ASSUME NEW n \in Node PROVE ~ Reconverge(n) BY DEF Reconverge
<1> QED BY <1>2, <1>3, <1>4, <1>5, <1>6, <1>8, <1>9, <1>10, <1>11, <1>13, <1>14, <1>15, <1>16
    DEF Next, Handler

\* Where rosters are taken as signed, by polls alone, every roster in memory and
\* on the record passes what decode_group_blob and validate_no_duplicate_ips ask,
\* for any number of racing joins and kicks.
THEOREM RostersStayValid ==
    ASSUME "hint" \notin Ops
    PROVE  Spec => []RostersVerify
<1>1. Init => VerifyInv
  <2> SUFFICES ASSUME Init PROVE VerifyInv OBVIOUS
  <2>1. Verifies(NoRoster) BY DEF NoRoster, Verifies
  <2>2. RostersVerify BY <2>1, FoundingFacts DEF Init, RostersVerify
  <2>3. SeatsDerived BY NoSeatFacts DEF Init, SeatsDerived
  <2> QED BY <2>2, <2>3, CoordInit DEF VerifyInv
<1>2. VerifyInv /\ [Next]_vars => VerifyInv' BY VerifyNext
<1>3. VerifyInv => RostersVerify BY DEF VerifyInv
<1> QED BY <1>1, <1>2, <1>3, PTL DEF Spec
=============================================================================
