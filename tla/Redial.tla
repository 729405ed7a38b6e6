------------------------------- MODULE Redial -------------------------------
(***************************************************************************)
(* How long a member waits before it dials a lost peer again               *)
(* (select.rs, mesh/join.rs).  Peering says whether it dials; this is the  *)
(* schedule: a floor that doubles, three ceilings the failures climb       *)
(* through, and the streak of short-lived connections that outlives the    *)
(* task that redials.                                                      *)
(*                                                                         *)
(* Times are in seconds.                                                   *)
(***************************************************************************)
EXTENDS Naturals

CONSTANTS
    BACKOFF_INITIAL, BACKOFF_MAX,            \* 1, 30
    ColdThreshold, ColdMax,                  \* reconnect-cold: 10, 600
    FrozenThreshold, FrozenMax,              \* reconnect-frozen: 154, 86400
    MinUptime, JitterPct,                    \* reconnect-holddown: 5, 20
    MaxFailures                              \* bound on failures and flaps

ASSUME RedialAssumption ==
    /\ BACKOFF_INITIAL \in Nat \ {0} /\ BACKOFF_MAX \in Nat /\ BACKOFF_INITIAL <= BACKOFF_MAX
    /\ ColdMax \in Nat /\ BACKOFF_MAX <= ColdMax /\ FrozenMax \in Nat /\ ColdMax <= FrozenMax
    /\ ColdThreshold \in Nat \ {0} /\ FrozenThreshold \in Nat /\ ColdThreshold <= FrozenThreshold
    /\ MinUptime \in Nat \ {0} /\ JitterPct \in Nat /\ MaxFailures \in Nat

VARIABLES
    peer,      \* "up", "gone" (off the roster), or "asleep": a redial task waits
    streak,    \* the peer's entry in reconnect_health, 0 when it has none
    backoff,   \* the task's backoff before this sleep
    failed,    \* its failed_attempts
    sleep,     \* how long this sleep is
    flaps,     \* history: short-lived connections since the last healthy one
    seeded     \* history: the task was started without a connection to judge

redialVars == <<peer, streak, backoff, failed, sleep, flaps, seeded>>

Least(a, b) == IF a < b THEN a ELSE b

backoff_cap(n) ==
    IF n >= FrozenThreshold THEN FrozenMax ELSE IF n >= ColdThreshold THEN ColdMax ELSE BACKOFF_MAX

\* Slip: straight to the ceiling.
JumpToCap(current, max) == max

next_backoff(current, max) == Least(2 * current, max)

\* BACKOFF_INITIAL * 2^n, where the shift stops at 20.
Climbed(n) == BACKOFF_INITIAL * 2 ^ Least(n, 20)

\* reconnect_storm_decision: the streak and the backoff a new task starts with.
Seed == [streak |-> streak, backoff |-> BACKOFF_INITIAL]

Storm(uptime) ==
    IF uptime >= MinUptime THEN [streak |-> 0, backoff |-> BACKOFF_INITIAL]
    ELSE [streak |-> streak + 1, backoff |-> Least(Climbed(streak + 1), backoff_cap(streak + 1))]

\* Slip: the jitter also shortens.
JitterBothWays(b) == {b - (b * JitterPct) \div 100, b + (b * JitterPct) \div 100}

\* jitter_backoff: none of the draw, or (nearly) all of it.
jitter_backoff(b) == {b, b + (b * JitterPct) \div 100}

-----------------------------------------------------------------------------
RedialInit ==
    /\ peer \in {"up", "gone"} /\ streak = 0 /\ backoff = BACKOFF_INITIAL /\ failed = 0
    /\ sleep = 0 /\ flaps = 0 /\ seeded = FALSE

\* A task starts: what it begins with is also what reconnect_health keeps.
Begin(start) ==
    /\ peer' = "asleep" /\ streak' = start.streak
    /\ backoff' = start.backoff /\ failed' = start.streak
    /\ sleep' \in jitter_backoff(start.backoff)

\* A connection that lived so long ends.
ConnectionEnds(uptime) ==
    /\ peer = "up" /\ streak < MaxFailures
    /\ Begin(Storm(uptime)) /\ seeded' = FALSE
    /\ flaps' = IF uptime >= MinUptime THEN 0 ELSE flaps + 1

\* A restored network seeds a task for a peer that was never connected.
SeedTask ==
    /\ peer = "up" /\ Begin(Seed) /\ seeded' = TRUE /\ UNCHANGED flaps

\* The sleep is over and the task looks again: the peer is off the roster ...
Abandon ==
    /\ peer = "asleep" /\ peer' = "gone" /\ streak' = 0 /\ flaps' = 0
    /\ backoff' = BACKOFF_INITIAL /\ failed' = 0 /\ sleep' = 0 /\ seeded' = FALSE

\* ... or it is connected again, inbound or by this dial ...
Connected ==
    /\ peer = "asleep" /\ peer' = "up"
    /\ backoff' = BACKOFF_INITIAL /\ failed' = 0 /\ sleep' = 0 /\ seeded' = FALSE
    /\ UNCHANGED <<streak, flaps>>

\* ... or the dial fails, or another task is dialing and nothing is counted.
SleepAgain(n) ==
    /\ peer = "asleep" /\ failed + n <= MaxFailures
    /\ backoff' = next_backoff(backoff, backoff_cap(failed))
    /\ failed' = failed + n
    /\ sleep' \in jitter_backoff(backoff')
    /\ UNCHANGED <<peer, streak, flaps, seeded>>

DialFails == SleepAgain(1)
DialSkipped == SleepAgain(0)

\* The peer is listed again and connects.
Readmitted == peer = "gone" /\ peer' = "up" /\ UNCHANGED <<streak, backoff, failed, sleep, flaps, seeded>>

RedialNext ==
    \/ \E uptime \in {0, MinUptime - 1, MinUptime} : ConnectionEnds(uptime)
    \/ SeedTask \/ Abandon \/ Connected \/ DialFails \/ DialSkipped \/ Readmitted

RedialSpec == RedialInit /\ [][RedialNext]_redialVars

\* The types of the variables.
RedialTypeOK ==
    /\ peer \in {"up", "gone", "asleep"} /\ streak \in 0..MaxFailures /\ failed \in 0..MaxFailures
    /\ backoff \in Nat /\ sleep \in Nat /\ flaps \in Nat /\ seeded \in BOOLEAN

-----------------------------------------------------------------------------
\* A listed peer is always dialed again, and no later than its failures have
\* earned: a sleep longer than the warm ceiling (jitter apart) takes
\* ColdThreshold failures in a row, one longer than the cold ceiling
\* FrozenThreshold, and none is longer than the frozen one (CONVERGE-011/013).
SleepIsEarned ==
    LET jittered(t) == t + (t * JitterPct) \div 100 IN
    peer = "asleep" =>
        /\ sleep > jittered(BACKOFF_MAX) => failed >= ColdThreshold
        /\ sleep > jittered(ColdMax) => failed >= FrozenThreshold
        /\ sleep <= jittered(FrozenMax)

\* The floor holds: jitter only ever adds, and a peer that drops connection
\* after connection is not dialed at the floor again, however often the task
\* that dials it is replaced (reconnect_storm_decision, RECONNECT-STORM-001).
FlapperHeldDown ==
    peer = "asleep" =>
        /\ sleep >= BACKOFF_INITIAL
        /\ ~seeded => sleep >= Least(Climbed(flaps), BACKOFF_MAX)

\* Within a task a sleep is at least as long as the one before and at most
\* twice that: crossing a tier has no cliff (next_backoff, CONVERGE-011).
NoCliff ==
    [][peer = "asleep" /\ peer' = "asleep" => backoff <= backoff' /\ backoff' <= 2 * backoff]_redialVars

\* The pace of the dials as a whole: never longer asleep than earned, never at the
\* floor for a flapper, and no jump on the way.
DialPace == []SleepIsEarned /\ []FlapperHeldDown /\ NoCliff

\* A chronic flapper is to escalate "on the same schedule a chronically-offline
\* peer does" (select.rs 616-620): its first sleep is at most twice the first
\* sleep of a peer with one flap less.  It is not: the ceiling is reached in one
\* step when the streak crosses a threshold.
SameSchedule ==
    \A n \in 1..MaxFailures :
        Least(Climbed(n), backoff_cap(n)) <= 2 * Least(Climbed(n - 1), backoff_cap(n - 1))
=============================================================================
