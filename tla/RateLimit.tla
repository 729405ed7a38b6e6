----------------------------- MODULE RateLimit -----------------------------
(***************************************************************************)
(* The gate in front of the control listeners (ratelimit.rs): a token      *)
(* bucket and a strike counter per connection, and one bucket and counter  *)
(* the whole daemon shares.  The listener loops are those of coordinator.rs *)
(* and join.rs: a message that is not allowed is dropped, or its connection *)
(* closed; a peer may connect again and gets a fresh gate of its own.       *)
(*                                                                         *)
(* The ratelimit crate is external: a bucket gains its refill once a        *)
(* second, up to its capacity.                                             *)
(***************************************************************************)
EXTENDS Naturals, FiniteSets, FiniteSetsExt

CONSTANTS
    Conn,                                              \* connections
    CAPACITY, REFILL_PER_SEC, STRIKE_LIMIT,            \* a connection's gate
    GLOBAL_CAPACITY, GLOBAL_REFILL_PER_SEC, GLOBAL_STRIKE_LIMIT,
    MaxSeconds, MaxReconnects                          \* bounds

ASSUME RateLimitAssumption ==
    /\ {CAPACITY, REFILL_PER_SEC, STRIKE_LIMIT, GLOBAL_CAPACITY, GLOBAL_REFILL_PER_SEC,
        GLOBAL_STRIKE_LIMIT, MaxSeconds, MaxReconnects} \subseteq Nat \ {0}
    /\ REFILL_PER_SEC <= CAPACITY /\ GLOBAL_REFILL_PER_SEC <= GLOBAL_CAPACITY

VARIABLES
    second,
    gate,        \* [Conn -> the connection's ControlGate, and whether it is open]
    step,        \* [Conn -> where its message is: "none", "global", "spend", "strike"]
    shared,      \* the GlobalRateLimiter: tokens and strikes
    dispatched,  \* history: messages handed to a handler
    refused      \* history: [Conn -> messages of this connection dropped by its own gate]

rateVars == <<second, gate, step, shared, dispatched, refused>>

FreshGate == [open |-> TRUE, tokens |-> CAPACITY, strikes |-> 0]

RateInit ==
    /\ second = 0 /\ gate = [c \in Conn |-> FreshGate] /\ step = [c \in Conn |-> "none"]
    /\ shared = [tokens |-> GLOBAL_CAPACITY, strikes |-> 0]
    /\ dispatched = 0 /\ refused = [c \in Conn |-> 0]

Decayed(strikes) == IF strikes = 0 THEN 0 ELSE strikes - 1

\* ControlGate::check: the gate after one message; it closes at the limit.
check(g) ==
    IF g.tokens > 0 THEN [g EXCEPT !.tokens = @ - 1, !.strikes = Decayed(@)]
    ELSE [g EXCEPT !.strikes = @ + 1, !.open = g.strikes + 1 < STRIKE_LIMIT]

\* A control message arrives; the connection's own gate comes first.
Receive(c) ==
    /\ gate[c].open /\ step[c] = "none"
    /\ gate' = [gate EXCEPT ![c] = check(@)]
    /\ IF gate[c].tokens > 0
       THEN step' = [step EXCEPT ![c] = "global"] /\ UNCHANGED refused
       ELSE refused' = [refused EXCEPT ![c] = @ + 1] /\ UNCHANGED step
    /\ UNCHANGED <<second, shared, dispatched>>

\* Slip: what the connection's own gate allows is dispatched.
PassesOwnGate(c) ==
    /\ step[c] = "global"
    /\ step' = [step EXCEPT ![c] = "spend"]
    /\ UNCHANGED <<second, gate, shared, dispatched, refused>>

\* check_with_global: the shared bucket's try_wait, an atomic step of its own.
TryShared(c) ==
    /\ step[c] = "global"
    /\ IF shared.tokens > 0
       THEN /\ shared' = [shared EXCEPT !.tokens = @ - 1]
            /\ step' = [step EXCEPT ![c] = "spend"]
       ELSE step' = [step EXCEPT ![c] = "strike"] /\ UNCHANGED shared
    /\ UNCHANGED <<second, gate, dispatched, refused>>

\* It had a token: the strikes decay and the message is dispatched.
Dispatch(c) ==
    /\ step[c] = "spend"
    /\ shared' = [shared EXCEPT !.strikes = Decayed(@)]
    /\ step' = [step EXCEPT ![c] = "none"] /\ dispatched' = dispatched + 1
    /\ UNCHANGED <<second, gate, refused>>

\* It had none: the message is dropped, and at the limit its connection closed.
StrikeShared(c) ==
    /\ step[c] = "strike"
    /\ shared' = [shared EXCEPT !.strikes = @ + 1]
    /\ gate' = [gate EXCEPT ![c].open = shared.strikes + 1 < GLOBAL_STRIKE_LIMIT]
    /\ step' = [step EXCEPT ![c] = "none"]
    /\ UNCHANGED <<second, dispatched, refused>>

Second ==
    /\ second < MaxSeconds /\ second' = second + 1
    /\ gate' = [c \in Conn |->
                   [gate[c] EXCEPT !.tokens = Min({CAPACITY, @ + REFILL_PER_SEC})]]
    /\ shared' = [shared EXCEPT !.tokens = Min({GLOBAL_CAPACITY, @ + GLOBAL_REFILL_PER_SEC})]
    /\ UNCHANGED <<step, dispatched, refused>>

\* The peer of a closed connection dials again.
Redialled(c) ==
    /\ ~gate[c].open /\ shared.strikes < GLOBAL_STRIKE_LIMIT + MaxReconnects
    /\ gate' = [gate EXCEPT ![c] = FreshGate] /\ refused' = [refused EXCEPT ![c] = 0]
    /\ UNCHANGED <<second, step, shared, dispatched>>

RateNext ==
    \/ \E c \in Conn : Receive(c) \/ TryShared(c) \/ Dispatch(c) \/ StrikeShared(c) \/ Redialled(c)
    \/ Second

RateSpec == RateInit /\ [][RateNext]_rateVars

\* The types of the variables.
RateTypeOK ==
    /\ second \in 0..MaxSeconds /\ dispatched \in Nat /\ refused \in [Conn -> Nat]
    /\ gate \in [Conn -> [open : BOOLEAN, tokens : 0..CAPACITY, strikes : 0..STRIKE_LIMIT]]
    /\ step \in [Conn -> {"none", "global", "spend", "strike"}]
    /\ shared.tokens \in 0..GLOBAL_CAPACITY /\ shared.strikes \in Nat

-----------------------------------------------------------------------------
\* However many peers send, and however often they come back with a fresh gate,
\* the daemon handles no more than the shared budget (HARDEN-004).
WorkBounded == dispatched <= GLOBAL_CAPACITY + GLOBAL_REFILL_PER_SEC * second

\* A flood is cut: a connection that stays open has had its own gate refuse
\* fewer messages than STRIKE_LIMIT more than it may admit (HARDEN-002).
FloodIsCut ==
    \A c \in Conn :
        gate[c].open => refused[c] < STRIKE_LIMIT + CAPACITY + REFILL_PER_SEC * second

\* Both limits hold at once: the daemon's work is bounded by the shared bucket, and
\* a connection that floods is cut by its own gate.
RateLimited == WorkBounded /\ FloodIsCut
=============================================================================
