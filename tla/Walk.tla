-------------------------------- MODULE Walk --------------------------------
(***************************************************************************)
(* The bounded walks over peers that may be dead: a restore tries the      *)
(* coordinators its roster flags, one after the other, until one lets it   *)
(* in (dial_reconnect); a roster fetch asks connected peers and seeds in   *)
(* turn (fetch_verified_blob).  Both stop starting attempts once a budget  *)
(* is spent, and each attempt has a bound of its own.                      *)
(***************************************************************************)
EXTENDS Naturals, Sequences, FiniteSets, SequencesExt

CONSTANTS
    Peer, Self,          \* the other members, and this node
    WalkBudget,          \* RESTORE_COORDINATOR_BUDGET, BLOB_FETCH_BUDGET
    AttemptBound         \* what one attempt takes at most

ASSUME WalkAssumption ==
    Self \notin Peer /\ WalkBudget \in Nat /\ AttemptBound \in Nat

VARIABLES
    roster,      \* the members of the verified blob, in its order
    order,       \* whom this walk tries
    tried,       \* how many it has tried
    elapsed,     \* since the walk began
    ending       \* "walking", "Joined", "Pending", "Exhausted"

walkVars == <<roster, order, tried, elapsed, ending>>

Entry == [identity : Peer \cup {Self}, is_coordinator : BOOLEAN]

\* A roster is keyed by identity.
Rosters ==
    {r \in BoundedSeq(Entry, Cardinality(Peer) + 1) :
        \A i, j \in DOMAIN r : r[i].identity = r[j].identity => i = j}

Identities(entries) == [i \in DOMAIN entries |-> entries[i].identity]

\* Slip: only the first coordinator that is flagged.
FirstCoordinator(minter, members) ==
    LET flagged == SelectSeq(members, LAMBDA m : m.is_coordinator /\ m.identity # Self)
    IN  IF flagged = <<>> THEN <<>> ELSE <<flagged[1].identity>>

\* coordinator_dial_order: the minter first if it is flagged, then the others.
coordinator_dial_order(minter, members) ==
    LET flagged == SelectSeq(members, LAMBDA m : m.is_coordinator /\ m.identity # Self)
        first == SelectSeq(flagged, LAMBDA m : m.identity = minter)
        rest == SelectSeq(flagged, LAMBDA m : m.identity # minter)
    IN  Identities(first \o rest)

WalkInit ==
    /\ roster \in Rosters
    /\ \E minter \in Peer \cup {Self} : order = coordinator_dial_order(minter, roster)
    /\ tried = 0 /\ elapsed = 0 /\ ending = "walking"

\* The loop of walk_restore_coordinators and of first_some_bounded: the first
\* attempt is always made.
Continues == tried < Len(order) /\ (tried = 0 \/ elapsed < WalkBudget)

\* One attempt: connect and handshake, each under a timeout.
Attempt(took, outcome) ==
    /\ ending = "walking" /\ Continues
    /\ tried' = tried + 1 /\ elapsed' = elapsed + took
    /\ ending' = IF outcome = "Failed" THEN "walking" ELSE outcome
    /\ UNCHANGED <<roster, order>>

GiveUp ==
    /\ ending = "walking" /\ ~Continues
    /\ ending' = "Exhausted" /\ UNCHANGED <<roster, order, tried, elapsed>>

WalkNext ==
    \/ \E took \in 0..AttemptBound, outcome \in {"Joined", "Pending", "Failed"} :
           Attempt(took, outcome)
    \/ GiveUp

WalkSpec == WalkInit /\ [][WalkNext]_walkVars

\* The types of the variables.
WalkTypeOK ==
    /\ roster \in Rosters /\ order \in Seq(Peer) /\ tried \in 0..Len(order)
    /\ elapsed \in Nat /\ ending \in {"walking", "Joined", "Pending", "Exhausted"}

-----------------------------------------------------------------------------
\* One dead coordinator, or one flag no live key holder backs, is not fatal: a
\* walk is given up only when every flagged coordinator but this node has been
\* tried, or the budget is spent, and never without one attempt
\* (RESTORE-COORD-FALLTHROUGH-001).
NotFatal ==
    LET flagged == {r.identity : r \in {e \in Range(roster) : e.is_coordinator}} \ {Self}
        asked == {order[i] : i \in 1..tried} IN
    ending = "Exhausted" =>
        /\ asked = flagged \/ elapsed >= WalkBudget
        /\ flagged # {} => asked # {}

\* The restore is bounded however many coordinators are dead: it ends within its
\* budget and the one attempt that was running then.
WalkBounded == elapsed <= WalkBudget + AttemptBound

\* A restore tries what it can and ends in time (walk_restore_coordinators).
WalkEnds == NotFatal /\ WalkBounded
=============================================================================
