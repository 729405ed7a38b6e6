---------------------------- MODULE MCDataPlane ----------------------------
(***************************************************************************)
(* DataPlane with three packets: two long IPv6 packets of the same length, *)
(* whose envelopes look alike but for their ids, and a long IPv4 packet    *)
(* from an address that is not the peer's.                                 *)
(***************************************************************************)
EXTENDS DataPlane

CONSTANTS p1, p2, p3

Long == [p \in Packet |-> [version |-> IF p = p3 THEN 4 ELSE 6, len |-> 1280, genuine |-> p # p3]]
=============================================================================
