------------------------------ MODULE Debounce ------------------------------
(***************************************************************************)
(* The per-peer debounce of repeated log lines: reconnect_log_decision     *)
(* (join.rs), path_flap_decision (forward.rs) and the veilid client's      *)
(* reconnect_log_decision are the same function of a window's start and    *)
(* count.  The state is log_path_events' own; the other two loops only     *)
(* meet "selected" events of real paths.                                   *)
(***************************************************************************)
EXTENDS Naturals, FiniteSets

CONSTANTS
    Threshold,   \* lines at info in a window
    Window,      \* its length
    MaxTime,     \* bound on the clock
    MaxCount     \* bound on the events of a window

ASSUME DebounceAssumption ==
    Threshold \in Nat /\ Window \in Nat \ {0} /\ MaxTime \in Nat /\ MaxCount \in Nat

VARIABLES
    now,
    started,     \* flap_window_start
    count,       \* flap_count
    lines,       \* history: the info lines of the last Window ticks, <<when, which>>
    quiet        \* history: the last event that counts was logged at debug only

debounceVars == <<now, started, count, lines, quiet>>

\* Slip: every event pushes the window forward.
SlidesForward(at, start, n) ==
    IF at - start >= Window THEN [info |-> TRUE, start |-> at, count |-> 1]
    ELSE [info |-> n + 1 <= Threshold, start |-> at, count |-> n + 1]

path_flap_decision(at, start, n) ==
    IF at - start >= Window THEN [info |-> TRUE, start |-> at, count |-> 1]
    ELSE [info |-> n + 1 <= Threshold, start |-> start, count |-> n + 1]

Recent(ls, at) == {l \in ls : at - l[1] < Window}

DebounceInit == now = 0 /\ started = 0 /\ count = 0 /\ lines = {} /\ quiet = FALSE

\* A "selected" event; a self-referential candidate is never shown and not counted.
Selected(isSelf) ==
    LET d == path_flap_decision(now, started, count) IN
    IF isSelf THEN UNCHANGED debounceVars
    ELSE /\ count < MaxCount
         /\ started' = d.start /\ count' = d.count
         /\ lines' = Recent(lines, now) \cup
                     IF d.info THEN {<<now, Cardinality(lines)>>} ELSE {}
         /\ quiet' = ~d.info
         /\ UNCHANGED now

\* Time passes.  Opened, closed and lagged events are logged and change nothing.
DebounceTick ==
    /\ now < MaxTime /\ now' = now + 1
    /\ lines' = Recent(lines, now')
    /\ UNCHANGED <<started, count, quiet>>

DebounceNext == (\E isSelf \in BOOLEAN : Selected(isSelf)) \/ DebounceTick

DebounceSpec == DebounceInit /\ [][DebounceNext]_debounceVars

\* The types of the variables.
DebounceTypeOK ==
    /\ now \in 0..MaxTime /\ started \in 0..now /\ count \in Nat
    /\ lines \subseteq (0..now) \X Nat /\ quiet \in BOOLEAN

-----------------------------------------------------------------------------
\* The log never falls silent about a peer that keeps failing or flapping: when
\* an event is quieted, a line at info was written within the window before it
\* (reconnect_log_decision: "without ever going permanently silent").
NeverSilent == [][count' # count /\ quiet' => lines # {}]_debounceVars

\* Sustained churn is quieted: over any stretch as long as the window at most
\* twice the threshold is written at info, as the stretch may meet two windows.
ChurnQuieted == Cardinality(lines) <= 2 * Threshold

\* The log of a peer that keeps flapping is neither flooded nor silent
\* (path_flap_decision, reconnect_log_decision).
LogPace == []ChurnQuieted /\ NeverSilent

\* "A fresh window's first attempt always logs at info" (join.rs 31-32,
\* forward.rs 102-104).  With a threshold of zero, which `config set` accepts,
\* the first event of a task is already quieted.
FirstIsShown == [][count = 0 /\ count' = 1 => ~quiet']_debounceVars
=============================================================================
