------------------------------- MODULE Grant -------------------------------
(***************************************************************************)
(* Making a member a co-coordinator (mesh/admin.rs): the network key is    *)
(* sent, the grant noted in the configuration, and the member flagged in   *)
(* the signed record, which others may be moving at the same time.  Two    *)
(* `admin add` commands of one daemon may run at once; another coordinator *)
(* kicks and edits, and both poll.                                         *)
(*                                                                         *)
(* A roster is what the grant tells apart: the generation, the members,    *)
(* those flagged as coordinators, and how many other edits it has seen.    *)
(***************************************************************************)
EXTENDS Naturals, FiniteSetsExt

CONSTANTS
    Member,                    \* those being granted the key
    NoAnswer,                  \* the resolve fails or finds nothing
    GRANT_PUBLISH_ATTEMPTS,    \* 3
    MaxEdits,                  \* bound on the other coordinator's edits
    MaxGrants                  \* bound on the commands

ASSUME GrantAssumption ==
    GRANT_PUBLISH_ATTEMPTS \in Nat \ {0} /\ MaxEdits \in Nat /\ MaxGrants \in Nat

VARIABLES
    record,   \* the signed record
    local,    \* the granting node's NetworkState
    other,    \* the other coordinator's
    grant,    \* [Member -> the running command]
    admins,   \* NetworkConfig.admins, on disk
    keys,     \* the members that have been sent the key
    moved,    \* history: [Member -> writes of others and failed fetches it met]
    clean     \* history: [Member -> nothing came between its flag and its write]

grantVars == <<record, local, other, grant, admins, keys, moved, clean>>

Roster == [gen : Nat, members : SUBSET Member, flags : SUBSET Member, edits : Nat]

NoGrant == [pc |-> "idle", attempt |-> 0, loaded |-> {}, mine |-> NoAnswer, runs |-> 0]

GrantInit ==
    /\ record = [gen |-> GRANT_PUBLISH_ATTEMPTS + 1, members |-> Member, flags |-> {}, edits |-> 0]
    /\ local \in {record, [record EXCEPT !.gen = 0]} /\ other = record
    /\ grant = [m \in Member |-> NoGrant] /\ admins = {} /\ keys = {}
    /\ moved = [m \in Member |-> 0] /\ clean = [m \in Member |-> FALSE]

\* A command that has ended keeps nothing but its answer.
Moves(m, pc) ==
    grant' = [grant EXCEPT ![m] =
                 IF pc \in {"ok", "error"} THEN [NoGrant EXCEPT !.pc = pc, !.runs = grant[m].runs]
                 ELSE [@ EXCEPT !.pc = pc, !.mine = NoAnswer]]

Runs == MapThenSumSet(LAMBDA m : grant[m].runs, Member)

\* More than the rounds of a grant need not be told apart.
Met(n) == IF n < GRANT_PUBLISH_ATTEMPTS THEN n + 1 ELSE n

\* Somebody else has written or replaced something the grants had in hand.
Disturb(ms) == clean' = [m \in Member |-> clean[m] /\ m \notin ms]

-----------------------------------------------------------------------------
\* Slip: the answer does not depend on whether the key went out.
SendKeyAnyway(m, delivered) ==
    /\ grant[m].pc \in {"idle", "failed", "error"} /\ Runs < MaxGrants
    /\ keys' = IF delivered THEN keys \cup {m} ELSE keys
    /\ grant' = [grant EXCEPT ![m] = [NoGrant EXCEPT !.pc = "load", !.runs = grant[m].runs + 1]]
    /\ moved' = [moved EXCEPT ![m] = 0] /\ Disturb({m})
    /\ UNCHANGED <<record, local, other, admins>>

\* grant_admin_key: over the member's own connection; without one, an error.  The
\* operator may repeat a command that failed.
SendKey(m, delivered) ==
    /\ grant[m].pc \in {"idle", "failed", "error"} /\ Runs < MaxGrants
    /\ keys' = IF delivered THEN keys \cup {m} ELSE keys
    /\ grant' = [grant EXCEPT ![m] = [NoGrant EXCEPT !.runs = grant[m].runs + 1,
                                                     !.pc = IF delivered THEN "load" ELSE "failed"]]
    /\ moved' = [moved EXCEPT ![m] = 0] /\ Disturb({m})
    /\ UNCHANGED <<record, local, other, admins>>

\* The grant is noted: load_network, and, in a second step, save_network.
LoadAdmins(m) ==
    /\ grant[m].pc = "load"
    /\ grant' = [grant EXCEPT ![m].loaded = admins,
                              ![m].pc = IF m \in admins THEN "flag" ELSE "save"]
    /\ UNCHANGED <<record, local, other, admins, keys, moved, clean>>

SaveAdmins(m) ==
    /\ grant[m].pc = "save"
    /\ admins' = grant[m].loaded \cup {m}
    /\ grant' = [grant EXCEPT ![m].pc = "flag", ![m].loaded = {}]
    /\ UNCHANGED <<record, local, other, keys, moved, clean>>


\* mark_coordinator and bump_generation_and_refresh.
Flagged(m) == [local EXCEPT !.gen = @ + 1, !.flags = @ \cup ({m} \cap local.members)]

\* A round of publish_grant begins, under the state's write lock.
Flag(m) ==
    /\ grant[m].pc = "flag"
    /\ local' = Flagged(m)
    /\ grant' = [grant EXCEPT ![m].pc = "resolve", ![m].attempt = @ + 1, ![m].mine = local']
    /\ clean' = [clean EXCEPT ![m] = TRUE]
    /\ UNCHANGED <<record, other, admins, keys, moved>>

\* Slip: a tie is taken for our own record.
TieIsOurs(mine, dht) ==
    IF dht = NoAnswer THEN "publish"
    ELSE IF mine.gen > dht.gen THEN "publish"
    ELSE IF mine.gen = dht.gen THEN "ok" ELSE "reconverge"

grant_publish_action(mine, dht) ==
    IF dht = NoAnswer THEN "publish"
    ELSE IF mine.gen > dht.gen THEN "publish"
    ELSE IF mine.gen = dht.gen /\ mine = dht THEN "ok" ELSE "reconverge"

\* resolve_network, an error being no record.
Resolve(m, answered) ==
    /\ grant[m].pc = "resolve"
    /\ Moves(m, grant_publish_action(grant[m].mine, IF answered THEN record ELSE NoAnswer))
    /\ UNCHANGED <<record, local, other, admins, keys, moved, clean>>

\* store_and_publish_group reads the state of that moment under its lock ...
ReadGroup(m) ==
    /\ grant[m].pc = "publish"
    /\ grant' = [grant EXCEPT ![m].pc = "write", ![m].mine = local]
    /\ UNCHANGED <<record, local, other, admins, keys, moved, clean>>

\* ... and later writes it, unconditionally; a write that fails is logged.
\* Either way the command answers Ok.
Publish(m, written) ==
    /\ grant[m].pc = "write" /\ Moves(m, "ok")
    /\ record' = IF written THEN grant[m].mine ELSE record
    /\ moved' = [k \in Member |-> IF k # m /\ written THEN Met(moved[k]) ELSE moved[k]]
    /\ Disturb(IF written THEN Member \ {m} ELSE {m})
    /\ UNCHANGED <<local, other, admins, keys>>

\* reconverge_and_apply takes another record that is not older (Converge has its
\* steps one by one).
Adopts(s) == record # s /\ record.gen >= s.gen

\* reconverge_now, then the next round, or after the last one the error.
Reconverge(m, fetched) ==
    /\ grant[m].pc = "reconverge"
    /\ local' = IF fetched /\ Adopts(local) THEN record ELSE local
    /\ moved' = [moved EXCEPT ![m] = IF fetched THEN @ ELSE Met(@)]
    /\ Moves(m, IF grant[m].attempt < GRANT_PUBLISH_ATTEMPTS THEN "flag" ELSE "error")
    /\ Disturb(IF local' = local THEN {} ELSE Member)
    /\ UNCHANGED <<record, other, admins, keys>>

\* The granting node's poller; it may run between any two steps of a grant.
Poll ==
    /\ Adopts(local) /\ local' = record /\ Disturb(Member)
    /\ UNCHANGED <<record, other, grant, admins, keys, moved>>

\* The other coordinator follows the record, ...
OtherPolls ==
    /\ record # other /\ record.gen >= other.gen /\ other' = record
    /\ UNCHANGED <<record, local, grant, admins, keys, moved, clean>>

\* ... and edits its roster, kicking perhaps, and publishes what is newer.
OtherEdits(kicked) ==
    /\ other.edits < MaxEdits
    /\ other' = [gen |-> other.gen + 1, members |-> other.members \ kicked,
                 flags |-> other.flags \ kicked, edits |-> other.edits + 1]
    /\ other'.gen > record.gen /\ record' = other'
    /\ moved' = [m \in Member |-> Met(moved[m])] /\ Disturb(Member)
    /\ UNCHANGED <<local, grant, admins, keys>>

GrantNext ==
    \/ \E m \in Member :
          \/ \E went \in BOOLEAN :
                SendKey(m, went) \/ Resolve(m, went) \/ Publish(m, went) \/ Reconverge(m, went)
          \/ LoadAdmins(m) \/ SaveAdmins(m) \/ Flag(m) \/ ReadGroup(m) \/ OtherEdits({m})
    \/ Poll \/ OtherPolls \/ OtherEdits({})

GrantSpec == GrantInit /\ [][GrantNext]_grantVars

\* The types of the variables.
GrantTypeOK ==
    /\ {record, local, other} \subseteq Roster /\ admins \subseteq Member /\ keys \subseteq Member
    /\ \A m \in Member :
           /\ grant[m].pc \in {"idle", "load", "save", "flag", "resolve", "publish", "write",
                               "reconverge", "ok", "error", "failed"}
           /\ grant[m].attempt \in 0..GRANT_PUBLISH_ATTEMPTS /\ grant[m].runs \in 0..MaxGrants
    /\ moved \in [Member -> Nat] /\ clean \in [Member -> BOOLEAN]

-----------------------------------------------------------------------------
\* Nobody is shown as a coordinator that joiners would dial and that cannot
\* admit them: a flag follows a key that was sent, in the granting node's
\* state, in the record and at the other coordinator (grant_admin_key).
FlagNeedsKey == record.flags \cup local.flags \cup other.flags \subseteq keys

\* An undisturbed grant lands: when a grant answers Ok and nothing came between
\* its flag and its write, the record shows the flag, however often it had to
\* reconverge before (GRANT-PUBLISH-001), unless the member has been kicked.
GrantLands ==
    [][\A m \in Member :
          grant[m].pc # "ok" /\ grant'[m].pc = "ok" /\ clean'[m] /\ m \in record'.members
             => m \in record'.flags]_grantVars

\* "The network record kept moving ahead of this node": a grant gives up only
\* after others wrote, or a fetch failed, in all its rounds but the one that
\* finds the node behind when the command starts (publish_grant).
GivesUpForCause ==
    \A m \in Member : grant[m].pc = "error" => moved[m] >= GRANT_PUBLISH_ATTEMPTS - 1


\* "The record must hold even if the publish below fails" (admin.rs 99-101):
\* once a grant is past its note, `admin list` has the member.  Two grants of
\* one network at a time read the same list, and the later save drops the other.
KeysListed ==
    \A m \in Member :
        grant[m].pc \in {"flag", "resolve", "publish", "write", "reconverge", "ok", "error"} => m \in admins

\* "Publish it without losing it to a newer DHT record" (admin.rs 114-115):
\* an Ok means that the record has shown the flag.  The node's own poller may
\* replace the flagged roster between the check and the write.
OkMeansFlagged ==
    [][\A m \in Member :
          grant[m].pc # "ok" /\ grant'[m].pc = "ok" /\ m \in record'.members => m \in record'.flags]_grantVars
=============================================================================
