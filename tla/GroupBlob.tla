----------------------------- MODULE GroupBlob -----------------------------
(***************************************************************************)
(* The signed, content-addressed group blob and the pure decisions the     *)
(* daemon takes on it (membership.rs, publish.rs, reconverge.rs).          *)
(*                                                                         *)
(* A blob's hash is blake3 of its canonical bytes, so two blobs have equal *)
(* hashes exactly when they are equal: the blob itself stands for its      *)
(* hash.  The pkarr record (hash, generation) is then the blob it signs.   *)
(***************************************************************************)
EXTENDS Integers, FiniteSets

CONSTANTS
    Node,       \* endpoint identities
    Invite,     \* single-use invite secrets
    NoRecord    \* the relay answers with no usable record

(***************************************************************************)
(* GroupBlob, reduced to what the protocol tells apart: generation, the    *)
(* roster, the single-use invites and the pending nuke proposals.          *)
(***************************************************************************)
Blob == [generation : Nat, members : SUBSET Node,
         invites : SUBSET Invite, proposals : SUBSET Node]

ASSUME NoRecordIsNoBlob == NoRecord \notin Blob

\* The deterministic empty blob of a nuked network.
Tombstone(generation) ==
    [generation |-> generation, members |-> {}, invites |-> {}, proposals |-> {}]

\* try_decode_tombstone: the record's hash is the one of the empty blob at the
\* record's own generation, so no peer has to serve its bytes.
try_decode_tombstone(signed) == signed = Tombstone(signed.generation)

\* bump_generation_and_refresh: the new state after a local mutation.
Bumped(s) == [s EXCEPT !.generation = @ + 1]

\* A slip: defer for ever to a record that is not ours (CONVERGE-001's guard).
DeferToAny(local, record) == record = NoRecord

\* dht_read_before_write: publish over nothing (or over an error, which the
\* code cannot tell from nothing) or over a strictly lower generation.
dht_read_before_write(local, record) ==
    record # NoRecord => local.generation > record.generation

\* A slip: the next generation is not enough.
FetchOffByOne(remote, current) == remote.generation > current.generation + 1

\* poller_should_fetch: everything except an older record and a tie with the
\* hash this node already has.
poller_should_fetch(remote, current) ==
    ~ \/ remote.generation < current.generation
      \/ remote.generation = current.generation /\ remote = current

\* trusted_reconverge_hash: anything but the hash this node already has.
trusted_reconverge_hash(current, signed) == current # signed

\* A slip: somebody else's removal counts.
AnyoneRemoved(data, n) == \E k \in Node : k \notin data.members

\* member_removed: this node is on neither list of the fetched roster.
member_removed(data, n) == n \notin data.members

\* coordinator_count: members whose is_coordinator flag is set.
coordinator_count(members, keyHolders) == Cardinality(members \cap keyHolders)

\* Adoption of a verified blob: generation, roster and proposals are replaced;
\* the invites stay those of the local state.
Adopted(s, data) ==
    [data EXCEPT !.invites = s.invites]

=============================================================================
