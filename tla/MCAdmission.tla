---------------------------- MODULE MCAdmission -----------------------------
(***************************************************************************)
(* Instances of Admission.  Nodes 2 and 3 hash to the same address, and    *)
(* the second choice of either is what node 4 hashes to.                   *)
(***************************************************************************)
EXTENDS Admission

MCHash == <<0, 1, 1, 2>>
MCDerive(n, i) == (MCHash[n] + i) % (MaxIndex + 1)
=============================================================================
