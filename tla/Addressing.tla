----------------------------- MODULE Addressing -----------------------------
(***************************************************************************)
(* Who has which IPv4 address in a network (addressing.rs, membership.rs). *)
(*                                                                         *)
(* An address is a hash of the identity and a collision index, cut to the  *)
(* subnet's host bits: any function of the two.  A roster is a MemberList: *)
(* a function from the identities it lists to their seats.                 *)
(***************************************************************************)
EXTENDS FiniteSetsExt

CONSTANTS
    Node,                       \* endpoint identities; <= is the order of their bytes
    Addr,                       \* host addresses of the network's subnet
    MaxIndex,                   \* collision indices are 0..MaxIndex
    derive_ip_with_index(_, _)  \* FNV-1a of identity and index, in the subnet

Index == 0..MaxIndex

ASSUME AddressingAssumption ==
    /\ Node \subseteq Nat /\ IsFiniteSet(Node) /\ MaxIndex \in Nat
    /\ \A n \in Node, i \in Index : derive_ip_with_index(n, i) \in Addr

Seat == [ip : Addr, collision_index : Index]
Roster == UNION {[S -> Seat] : S \in SUBSET Node}

\* derive_ip: where a node expects to sit before it has seen a roster.
derive_ip(n) == derive_ip_with_index(n, 0)

\* MemberList::get_by_ip finds somebody else at the address.
TakenFrom(list, n, ip) == \E m \in DOMAIN list \ {n} : list[m].ip = ip

\* The indices whose address is free for n.  assign_ip tries them upwards and
\* does not return when there is none.
FreeIndices(list, n) ==
    {i \in Index : ~ TakenFrom(list, n, derive_ip_with_index(n, i))}

assign_ip(list, n) ==
    LET index == Min(FreeIndices(list, n))
    IN  [ip |-> derive_ip_with_index(n, index), collision_index |-> index]

\* MemberList::add refuses an address somebody else holds.
add(list, n, seat) ==
    IF TakenFrom(list, n, seat.ip)
    THEN list
    ELSE [m \in DOMAIN list \cup {n} |-> IF m = n THEN seat ELSE list[m]]

\* MemberList::remove.
remove(list, n) == [m \in DOMAIN list \ {n} |-> list[m]]

\* resolve_ip_tiebreak: everyone is seated anew, in the order of identities.
resolve_ip_tiebreak(list) ==
    LET seated[S \in SUBSET DOMAIN list] ==
            IF S = {} THEN [m \in {} |-> list[m]]
            ELSE LET n == Max(S)
                     before == seated[S \ {n}]
                 IN  add(before, n, assign_ip(before, n))
    IN  seated[DOMAIN list]

\* What every node asks of a roster: each address is derived from its identity
\* and index (validate_member, when a blob is decoded) and held once
\* (validate_no_duplicate_ips).
Verifies(list) ==
    \A m \in DOMAIN list :
        /\ list[m].ip = derive_ip_with_index(m, list[m].collision_index)
        /\ ~ TakenFrom(list, m, list[m].ip)
=============================================================================
