---------------------------- MODULE StatusCache ----------------------------
(***************************************************************************)
(* The cached answer to `tetron status` (mesh/diagnostics.rs).  A read     *)
(* takes the snapshot if it is young enough; otherwise it builds one and   *)
(* stores it, two steps with no lock held across them.  Commands drop the  *)
(* snapshot before they run (handle_request), background tasks after they  *)
(* have changed something (reconverge_and_apply, spawn_peer_cleanup,       *)
(* spawn_reconnect_loop).                                                  *)
(*                                                                         *)
(* What status shows is the version of the daemon's state it was built of. *)
(***************************************************************************)
EXTENDS Naturals, Sequences

CONSTANTS
    Reader, Command,      \* clients that ask for status, and that change something
    Interval,             \* status-cache.interval, in ticks
    NoSnapshot,
    MaxVersion, MaxTicks  \* bounds

ASSUME StatusAssumption == Interval \in Nat \ {0} /\ MaxVersion \in Nat /\ MaxTicks \in Nat

VARIABLES
    version,   \* of the daemon's state
    until,     \* history: [version -> the tick in which it was replaced]
    ticks,
    snapshot,  \* status_snapshot: [version, built_at] or NoSnapshot
    reading,   \* [Reader -> the version it has built and not stored, or NoSnapshot]
    running,   \* the commands being handled
    owed       \* history: the version the last command that ended left behind

statusVars == <<version, until, ticks, snapshot, reading, running, owed>>

StatusInit ==
    /\ version = 0 /\ until = <<>> /\ ticks = 0 /\ snapshot = NoSnapshot
    /\ reading = [r \in Reader |-> NoSnapshot] /\ running = {} /\ owed = 0


status_snapshot_is_stale(age) == age >= Interval

\* The snapshot is served.
Hit == snapshot # NoSnapshot /\ ~status_snapshot_is_stale(ticks - snapshot.built_at)

\* network_statuses_cached: a hit is the snapshot and changes nothing; a miss is
\* build_network_statuses, ...
ReadMiss(r) ==
    /\ reading[r] = NoSnapshot /\ ~Hit
    /\ reading' = [reading EXCEPT ![r] = version]
    /\ UNCHANGED <<version, until, ticks, snapshot, running, owed>>

\* ... whose result is then stored.
StoreSnapshot(r) ==
    /\ reading[r] # NoSnapshot
    /\ snapshot' = [version |-> reading[r], built_at |-> ticks]
    /\ reading' = [reading EXCEPT ![r] = NoSnapshot]
    /\ UNCHANGED <<version, until, ticks, running, owed>>

Change ==
    /\ version < MaxVersion /\ version' = version + 1 /\ until' = Append(until, ticks)

\* handle_request: a command that is not a query drops the snapshot and runs; ...
Handle(c) ==
    /\ c \notin running /\ running' = running \cup {c} /\ snapshot' = NoSnapshot
    /\ UNCHANGED <<version, until, ticks, reading, owed>>

\* ... its change is there when it answers.
Handled(c) ==
    /\ c \in running /\ running' = running \ {c} /\ Change /\ owed' = version'
    /\ UNCHANGED <<ticks, snapshot, reading>>

\* A background task changes the state and drops the snapshot.
Background ==
    /\ Change /\ snapshot' = NoSnapshot
    /\ UNCHANGED <<ticks, reading, running, owed>>

\* A build is far shorter than a tick.
StatusTick ==
    /\ ticks < MaxTicks /\ \A r \in Reader : reading[r] = NoSnapshot
    /\ ticks' = ticks + 1
    /\ UNCHANGED <<version, until, snapshot, reading, running, owed>>

StatusNext ==
    \/ \E r \in Reader : ReadMiss(r) \/ StoreSnapshot(r)
    \/ \E c \in Command : Handle(c) \/ Handled(c)
    \/ Background \/ StatusTick

StatusSpec == StatusInit /\ [][StatusNext]_statusVars

\* The types of the variables.
StatusTypeOK ==
    /\ version \in 0..MaxVersion /\ ticks \in 0..MaxTicks
    /\ until \in Seq(0..MaxTicks) /\ Len(until) = version
    /\ snapshot = NoSnapshot \/ snapshot \in [version : 0..version, built_at : 0..ticks]
    /\ reading \in [Reader -> (0..version) \cup {NoSnapshot}] /\ running \subseteq Command
    /\ owed \in 0..version

-----------------------------------------------------------------------------

\* "So a UI is never stale straight after an action the user just took"
\* (daemon/mod.rs 1275-1277): what is served once a command has answered has its
\* change in it.  A read during the command stores the state before it.
FreshAfterAction == Hit => snapshot.version >= owed

\* "Any number of polling clients together cost at most one rebuild per
\* interval" (mesh/diagnostics.rs 64-67): no two reads build at a time.
OneRebuild ==
    \A r, q \in Reader : reading[r] # NoSnapshot /\ reading[q] # NoSnapshot => r = q
=============================================================================
