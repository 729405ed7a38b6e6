----------------------------- MODULE PartsProofs -----------------------------
(***************************************************************************)
(* The rate limits and the grant of the network key, for every number of   *)
(* connections, members, messages, seconds and commands.                   *)
(***************************************************************************)
EXTENDS RateLimit, Grant, FiniteSetTheorems, TLAPS

-----------------------------------------------------------------------------
(* Rate limits.  What has been handled and what is about to be has been    *)
(* taken from the shared bucket; what a connection's own gate refused is   *)
(* in its strikes, but for the decays its admitted messages paid for.      *)

Gate == [open : BOOLEAN, tokens : Nat, strikes : Nat]

Spending == {c \in Conn : step[c] = "spend"}

RateTypes ==
    /\ second \in Nat /\ dispatched \in Nat /\ refused \in [Conn -> Nat]
    /\ gate \in [Conn -> Gate]
    /\ step \in [Conn -> {"none", "global", "spend", "strike"}]
    /\ shared \in [tokens : Nat, strikes : Nat]

SharedSpent ==
    dispatched + Cardinality(Spending) + shared.tokens
        <= GLOBAL_CAPACITY + GLOBAL_REFILL_PER_SEC * second

OwnSpent ==
    \A c \in Conn :
        /\ step[c] # "none" => gate[c].open
        /\ gate[c].open => gate[c].strikes < STRIKE_LIMIT
        /\ refused[c] + gate[c].tokens <= gate[c].strikes + CAPACITY + REFILL_PER_SEC * second

RateInv == RateTypes /\ SharedSpent /\ OwnSpent

LEMMA RateConstants ==
    /\ CAPACITY \in Nat /\ REFILL_PER_SEC \in Nat /\ STRIKE_LIMIT \in Nat \ {0}
    /\ GLOBAL_CAPACITY \in Nat /\ GLOBAL_REFILL_PER_SEC \in Nat
BY RateLimitAssumption

LEMMA MinFacts ==
    ASSUME NEW a \in Nat, NEW b \in Nat
    PROVE  Min({a, b}) \in Nat /\ Min({a, b}) <= a /\ Min({a, b}) <= b
<1>1. \E x \in {a, b} : \A y \in {a, b} : x <= y OBVIOUS
<1>2. Min({a, b}) \in {a, b} /\ \A y \in {a, b} : Min({a, b}) <= y BY <1>1 DEF Min
<1> QED BY <1>2

\* A message that a gate lets through, and one that it refuses.
LEMMA CheckFacts ==
    ASSUME NEW g \in Gate
    PROVE  /\ g.tokens > 0 =>
                  check(g) = [open |-> g.open, tokens |-> g.tokens - 1, strikes |-> Decayed(g.strikes)]
           /\ ~(g.tokens > 0) =>
                  check(g) = [open |-> g.strikes + 1 < STRIKE_LIMIT, tokens |-> g.tokens,
                              strikes |-> g.strikes + 1]
           /\ Decayed(g.strikes) \in Nat /\ Decayed(g.strikes) <= g.strikes
           /\ Decayed(g.strikes) >= g.strikes - 1
           /\ g.open \in BOOLEAN /\ g.tokens \in Nat /\ g.strikes \in Nat
<1>1. g = [open |-> g.open, tokens |-> g.tokens, strikes |-> g.strikes] BY DEF Gate
<1>2. g.open \in BOOLEAN /\ g.tokens \in Nat /\ g.strikes \in Nat BY DEF Gate
<1>3. /\ Decayed(g.strikes) \in Nat /\ Decayed(g.strikes) <= g.strikes
      /\ Decayed(g.strikes) >= g.strikes - 1
  BY <1>2 DEF Decayed
<1>4. ASSUME g.tokens > 0
      PROVE check(g) = [open |-> g.open, tokens |-> g.tokens - 1, strikes |-> Decayed(g.strikes)]
  <2>1. check(g) = [g EXCEPT !.tokens = g.tokens - 1, !.strikes = Decayed(g.strikes)]
    BY <1>4 DEF check
  <2> QED BY Zenon, <1>1, <2>1
<1>5. ASSUME ~(g.tokens > 0)
      PROVE check(g) = [open |-> g.strikes + 1 < STRIKE_LIMIT, tokens |-> g.tokens, strikes |-> g.strikes + 1]
  <2>1. check(g) = [g EXCEPT !.strikes = g.strikes + 1, !.open = g.strikes + 1 < STRIKE_LIMIT]
    BY <1>5 DEF check
  <2> QED BY Zenon, <1>1, <2>1
<1> QED BY Zenon, <1>2, <1>3, <1>4, <1>5

\* Closing a gate leaves its counters alone.
LEMMA OpenFacts ==
    ASSUME NEW g \in Gate, NEW b, NEW h, h = [g EXCEPT !.open = b]
    PROVE  h = [open |-> b, tokens |-> g.tokens, strikes |-> g.strikes]
<1>1. g = [open |-> g.open, tokens |-> g.tokens, strikes |-> g.strikes] BY DEF Gate
<1> QED BY Zenon, <1>1

LEMMA RateInitInv == ASSUME IsFiniteSet(Conn) PROVE RateInit => RateInv
<1> SUFFICES ASSUME RateInit PROVE RateInv OBVIOUS
<1>1. RateTypes BY RateConstants DEF RateInit, RateTypes, FreshGate, Gate
<1>2. SharedSpent
  <2>1. Spending = {} BY DEF RateInit, Spending
  <2>2. Cardinality(Spending) = 0 BY Zenon, <2>1, FS_EmptySet
  <2> QED BY <2>2, RateConstants DEF RateInit, SharedSpent
<1>3. OwnSpent BY RateConstants DEF RateInit, OwnSpent, FreshGate
<1> QED BY <1>1, <1>2, <1>3 DEF RateInv

\* A second more buys one refill.
LEMMA Refill ==
    ASSUME NEW r \in Nat, NEW s \in Nat
    PROVE  r * s \in Nat /\ r * (s + 1) = r * s + r
OBVIOUS

LEMMA RateNextInv ==
    ASSUME IsFiniteSet(Conn), RateInv, [RateNext]_rateVars
    PROVE  RateInv'
<1> USE DEF RateInv
<1>0. IsFiniteSet(Spending) /\ Cardinality(Spending) \in Nat
  BY FS_Subset, FS_CardinalityType DEF Spending
<1>1. CASE UNCHANGED rateVars
  BY <1>1 DEF rateVars, RateTypes, SharedSpent, OwnSpent, Spending
<1>2. ASSUME NEW c \in Conn, Receive(c) PROVE RateInv'
  <2> DEFINE earned == REFILL_PER_SEC * second
  <2>0. earned \in Nat /\ second' = second BY <1>2, RateConstants, Refill DEF RateTypes, Receive
  <2> HIDE DEF earned
  <2>1. /\ gate[c] \in Gate /\ refused[c] \in Nat
        /\ refused[c] + gate[c].tokens <= gate[c].strikes + CAPACITY + earned
        /\ gate[c].open /\ gate[c].strikes < STRIKE_LIMIT
    BY <1>2 DEF Receive, RateTypes, OwnSpent, earned
  <2>2. gate' = [gate EXCEPT ![c] = check(gate[c])] /\ UNCHANGED <<second, shared, dispatched>>
    BY <1>2 DEF Receive
  <2>3. CASE gate[c].tokens > 0
    <3> DEFINE g == [open |-> gate[c].open, tokens |-> gate[c].tokens - 1,
                     strikes |-> Decayed(gate[c].strikes)]
    <3>1. gate' = [gate EXCEPT ![c] = g] BY <2>1, <2>2, <2>3, CheckFacts
    <3>2. step' = [step EXCEPT ![c] = "global"] /\ refused' = refused
      BY <1>2, <2>3 DEF Receive
    <3>3. g \in Gate BY <2>1, <2>3, CheckFacts DEF Gate
    <3>4. RateTypes' BY <2>2, <3>1, <3>2, <3>3 DEF RateTypes
    <3>5. Spending' = Spending BY <1>2, <3>2 DEF Receive, Spending, RateTypes
    <3>6. g.open /\ g.strikes < STRIKE_LIMIT
          /\ refused[c] + g.tokens <= g.strikes + CAPACITY + earned
      BY <2>0, <2>1, <2>3, CheckFacts, RateConstants
    <3> HIDE DEF g
    <3>7. OwnSpent' BY <2>0, <2>2, <3>1, <3>2, <3>6 DEF OwnSpent, RateTypes, earned
    <3> QED BY <2>2, <3>4, <3>5, <3>7 DEF SharedSpent
  <2>4. CASE ~(gate[c].tokens > 0)
    <3> DEFINE g == [open |-> gate[c].strikes + 1 < STRIKE_LIMIT, tokens |-> gate[c].tokens,
                     strikes |-> gate[c].strikes + 1]
    <3>1. gate' = [gate EXCEPT ![c] = g] BY <2>1, <2>2, <2>4, CheckFacts
    <3>2. step' = step /\ step[c] = "none" /\ refused' = [refused EXCEPT ![c] = refused[c] + 1]
      BY <1>2, <2>4 DEF Receive
    <3>3. g \in Gate
      <4>1. gate[c].tokens \in Nat /\ gate[c].strikes + 1 \in Nat BY <2>1, CheckFacts
      <4>2. (gate[c].strikes + 1 < STRIKE_LIMIT) \in BOOLEAN OBVIOUS
      <4> QED BY Zenon, <4>1, <4>2 DEF Gate
    <3>4. RateTypes' BY <2>1, <2>2, <3>1, <3>2, <3>3 DEF RateTypes
    <3>5. Spending' = Spending BY <3>2 DEF Spending
    <3>6. /\ g.open => g.strikes < STRIKE_LIMIT
          /\ (refused[c] + 1) + g.tokens <= g.strikes + CAPACITY + earned
      <4>1. /\ g.open => gate[c].strikes + 1 < STRIKE_LIMIT
            /\ g.tokens = gate[c].tokens /\ g.strikes = gate[c].strikes + 1
        BY Zenon
      <4>2. gate[c].tokens \in Nat /\ gate[c].strikes \in Nat BY <2>1, CheckFacts
      <4> HIDE DEF g
      <4> QED BY <2>0, <2>1, <4>1, <4>2, RateConstants
    <3> HIDE DEF g
    <3>7. OwnSpent' BY <2>0, <2>2, <3>1, <3>2, <3>6 DEF OwnSpent, RateTypes, earned
    <3> QED BY <2>2, <3>4, <3>5, <3>7 DEF SharedSpent
  <2> QED BY <2>3, <2>4
<1>3. ASSUME NEW c \in Conn, TryShared(c) PROVE RateInv'
  <2>1. OwnSpent' BY <1>3 DEF TryShared, OwnSpent, RateTypes
  <2>2. CASE shared.tokens > 0
    <3>1. /\ shared' = [shared EXCEPT !.tokens = shared.tokens - 1]
          /\ step' = [step EXCEPT ![c] = "spend"] /\ UNCHANGED <<second, gate, dispatched, refused>>
      BY <1>3, <2>2 DEF TryShared
    <3>2. RateTypes' BY <2>2, <3>1 DEF RateTypes
    <3>3. Spending' = Spending \cup {c} /\ c \notin Spending
      BY <1>3, <3>1 DEF TryShared, Spending, RateTypes
    <3>4. Cardinality(Spending') = Cardinality(Spending) + 1 BY Zenon, <1>0, <3>3, FS_AddElement
    <3>5. shared'.tokens = shared.tokens - 1 BY <3>1 DEF RateTypes
    <3>6. SharedSpent'
      BY <1>0, <3>1, <3>4, <3>5, RateConstants, Refill DEF SharedSpent, RateTypes
    <3> QED BY <2>1, <3>2, <3>6
  <2>3. CASE ~(shared.tokens > 0)
    <3>1. step' = [step EXCEPT ![c] = "strike"] /\ UNCHANGED <<second, gate, dispatched, refused, shared>>
      BY <1>3, <2>3 DEF TryShared
    <3>2. Spending' = Spending BY <1>3, <3>1 DEF TryShared, Spending, RateTypes
    <3> QED BY <2>1, <3>1, <3>2 DEF RateTypes, SharedSpent
  <2> QED BY <2>2, <2>3
<1>4. ASSUME NEW c \in Conn, Dispatch(c) PROVE RateInv'
  <2>1. /\ shared'.tokens = shared.tokens /\ dispatched' = dispatched + 1
        /\ step' = [step EXCEPT ![c] = "none"] /\ UNCHANGED <<second, gate, refused>>
    BY <1>4 DEF Dispatch, RateTypes
  <2>2. RateTypes' BY <1>4 DEF Dispatch, RateTypes, Decayed
  <2>3. Spending' = Spending \ {c} /\ c \in Spending
    BY <1>4, <2>1 DEF Dispatch, Spending, RateTypes
  <2>4. Cardinality(Spending') = Cardinality(Spending) - 1 BY Zenon, <1>0, <2>3, FS_RemoveElement
  <2>5. SharedSpent' BY <1>0, <2>1, <2>4, RateConstants, Refill DEF SharedSpent, RateTypes
  <2>6. OwnSpent' BY <2>1 DEF OwnSpent, RateTypes
  <2> QED BY <2>2, <2>5, <2>6
<1>5. ASSUME NEW c \in Conn, StrikeShared(c) PROVE RateInv'
  <2> DEFINE still == shared.strikes + 1 < GLOBAL_STRIKE_LIMIT
             g == [open |-> still, tokens |-> gate[c].tokens, strikes |-> gate[c].strikes]
  <2>1. gate[c] \in Gate /\ gate[c].open BY <1>5 DEF StrikeShared, RateTypes, OwnSpent
  <2>2. gate' = [gate EXCEPT ![c] = [gate[c] EXCEPT !.open = still]] BY <1>5 DEF StrikeShared
  <2>3. still \in BOOLEAN OBVIOUS
  <2>4. gate[c].tokens \in Nat /\ gate[c].strikes \in Nat BY <2>1, CheckFacts
  <2>5. [gate[c] EXCEPT !.open = still] = g BY Zenon, <2>1, <2>3, OpenFacts
  <2>6. g \in Gate BY Zenon, <2>3, <2>4 DEF Gate
  <2>7. g.tokens = gate[c].tokens /\ g.strikes = gate[c].strikes BY Zenon
  <2> HIDE DEF g
  <2>8. gate' = [gate EXCEPT ![c] = g] BY <2>2, <2>5
  <2>9. /\ shared'.tokens = shared.tokens /\ shared' \in [tokens : Nat, strikes : Nat]
        /\ step[c] = "strike" /\ step' = [step EXCEPT ![c] = "none"]
        /\ UNCHANGED <<second, dispatched, refused>>
    BY <1>5 DEF StrikeShared, RateTypes
  <2>10. RateTypes' BY <2>6, <2>8, <2>9 DEF RateTypes
  <2>11. Spending' = Spending BY <2>9 DEF Spending, RateTypes
  <2>12. OwnSpent' BY <2>1, <2>7, <2>8, <2>9 DEF OwnSpent, RateTypes
  <2> QED BY <2>9, <2>10, <2>11, <2>12 DEF SharedSpent
<1>6. ASSUME NEW c \in Conn, Redialled(c) PROVE RateInv'
  <2>1. /\ gate' = [gate EXCEPT ![c] = FreshGate] /\ refused' = [refused EXCEPT ![c] = 0]
        /\ UNCHANGED <<second, step, shared, dispatched>> /\ step[c] = "none"
    BY <1>6 DEF Redialled, OwnSpent
  <2>2. FreshGate \in Gate /\ FreshGate.strikes = 0 /\ FreshGate.tokens = CAPACITY
    BY RateConstants DEF FreshGate, Gate
  <2>3. RateTypes' BY <2>1, <2>2 DEF RateTypes
  <2>4. OwnSpent' BY <2>1, <2>2, RateConstants, Refill DEF OwnSpent, RateTypes
  <2> QED BY <2>1, <2>3, <2>4 DEF SharedSpent, Spending
<1>7. ASSUME Second PROVE RateInv'
  <2> DEFINE tokens(c) == Min({CAPACITY, gate[c].tokens + REFILL_PER_SEC})
             g(c) == [open |-> gate[c].open, tokens |-> tokens(c), strikes |-> gate[c].strikes]
             left == Min({GLOBAL_CAPACITY, shared.tokens + GLOBAL_REFILL_PER_SEC})
  <2>1. ASSUME NEW c \in Conn
        PROVE  /\ gate'[c] = g(c) /\ g(c) \in Gate
               /\ g(c).tokens <= gate[c].tokens + REFILL_PER_SEC
               /\ g(c).open = gate[c].open /\ g(c).strikes = gate[c].strikes
    <3>1. gate'[c] = [gate[c] EXCEPT !.tokens = tokens(c)] BY <1>7 DEF Second
    <3>2. gate[c] = [open |-> gate[c].open, tokens |-> gate[c].tokens, strikes |-> gate[c].strikes]
          /\ gate[c].open \in BOOLEAN /\ gate[c].tokens \in Nat /\ gate[c].strikes \in Nat
      BY DEF Gate, RateTypes
    <3>3. tokens(c) \in Nat /\ tokens(c) <= gate[c].tokens + REFILL_PER_SEC
      BY <3>2, MinFacts, RateConstants
    <3> QED BY Zenon, <3>1, <3>2, <3>3 DEF Gate
  <2>2. DOMAIN gate' = Conn /\ gate' = [c \in Conn |-> gate'[c]] BY <1>7 DEF Second
  <2>3. /\ shared' \in [tokens : Nat, strikes : Nat]
        /\ shared'.tokens <= shared.tokens + GLOBAL_REFILL_PER_SEC
    <3>1. left \in Nat /\ left <= shared.tokens + GLOBAL_REFILL_PER_SEC
      BY MinFacts, RateConstants DEF RateTypes
    <3>2. shared' = [shared EXCEPT !.tokens = left] BY <1>7 DEF Second
    <3> HIDE DEF left
    <3> QED BY <3>1, <3>2 DEF RateTypes
  <2> HIDE DEF g, tokens, left
  <2>4. second' = second + 1 /\ UNCHANGED <<step, dispatched, refused>> BY <1>7 DEF Second
  <2>5. gate' \in [Conn -> Gate] BY Zenon, <2>1, <2>2
  <2>6. RateTypes' BY <2>3, <2>4, <2>5 DEF RateTypes
  <2>7. SharedSpent'
    BY <1>0, <2>3, <2>4, RateConstants, Refill DEF SharedSpent, Spending, RateTypes
  <2>8. ASSUME NEW c \in Conn
        PROVE  /\ step'[c] # "none" => gate'[c].open
               /\ gate'[c].open => gate'[c].strikes < STRIKE_LIMIT
               /\ refused'[c] + gate'[c].tokens
                      <= gate'[c].strikes + CAPACITY + REFILL_PER_SEC * second'
    <3>1. gate[c] \in Gate /\ gate'[c] \in Gate /\ refused[c] \in Nat BY <2>5 DEF RateTypes
    <3>2. /\ gate'[c].open = gate[c].open /\ gate'[c].strikes = gate[c].strikes
          /\ gate'[c].tokens <= gate[c].tokens + REFILL_PER_SEC
      BY Zenon, <2>1
    <3>3. gate[c].tokens \in Nat /\ gate'[c].tokens \in Nat /\ gate[c].strikes \in Nat
      BY <3>1, CheckFacts
    <3>4. /\ step[c] # "none" => gate[c].open
          /\ gate[c].open => gate[c].strikes < STRIKE_LIMIT
          /\ refused[c] + gate[c].tokens <= gate[c].strikes + CAPACITY + REFILL_PER_SEC * second
      BY DEF OwnSpent
    <3>5. REFILL_PER_SEC * second \in Nat
          /\ REFILL_PER_SEC * (second + 1) = REFILL_PER_SEC * second + REFILL_PER_SEC
      BY Refill, RateConstants DEF RateTypes
    <3>6. refused'[c] + gate'[c].tokens <= gate'[c].strikes + CAPACITY + REFILL_PER_SEC * second'
      BY <2>4, <3>1, <3>2, <3>3, <3>4, <3>5, RateConstants
    <3> QED BY <2>4, <3>2, <3>4, <3>6, Zenon
  <2>9. OwnSpent' BY Zenon, <2>8 DEF OwnSpent
  <2> QED BY <2>6, <2>7, <2>9
<1> QED BY <1>1, <1>2, <1>3, <1>4, <1>5, <1>6, <1>7 DEF RateNext

\* However many connections share the daemon, no more messages are handled than
\* the shared bucket of ratelimit.rs has had tokens.
LEMMA SharedBudgetHolds == ASSUME IsFiniteSet(Conn) PROVE RateSpec => []WorkBounded
<1>1. RateInit => RateInv BY RateInitInv
<1>2. RateInv /\ [RateNext]_rateVars => RateInv' BY RateNextInv
<1>3. RateInv => WorkBounded
  <2> SUFFICES ASSUME RateInv PROVE WorkBounded OBVIOUS
  <2>1. IsFiniteSet(Spending) BY FS_Subset DEF Spending
  <2>2. Cardinality(Spending) \in Nat BY Zenon, <2>1, FS_CardinalityType
  <2> QED BY <2>2, RateConstants, Refill DEF RateInv, RateTypes, SharedSpent, WorkBounded
<1> QED BY <1>1, <1>2, <1>3, PTL DEF RateSpec

\* A connection that ControlGate still lets through has not been refused for
\* longer than its tokens and its strikes allow.
LEMMA FloodsAreCut == ASSUME IsFiniteSet(Conn) PROVE RateSpec => []FloodIsCut
<1>1. RateInit => RateInv BY RateInitInv
<1>2. RateInv /\ [RateNext]_rateVars => RateInv' BY RateNextInv
<1>3. RateInv => FloodIsCut
  <2> SUFFICES ASSUME RateInv, NEW c \in Conn, gate[c].open
               PROVE  refused[c] < STRIKE_LIMIT + CAPACITY + REFILL_PER_SEC * second
    BY DEF FloodIsCut
  <2>1. gate[c] \in Gate /\ refused[c] \in Nat BY DEF RateInv, RateTypes
  <2>2. gate[c].tokens \in Nat /\ gate[c].strikes \in Nat BY <2>1, CheckFacts
  <2> QED BY <2>1, <2>2, RateConstants, Refill DEF RateInv, RateTypes, OwnSpent
<1> QED BY <1>1, <1>2, <1>3, PTL DEF RateSpec

\* Both limits of ratelimit.rs hold, for any number of connections and any
\* capacities, refills and strike limits.
THEOREM LimitsHold == ASSUME IsFiniteSet(Conn) PROVE RateSpec => []RateLimited
<1>1. RateSpec => []WorkBounded BY SharedBudgetHolds
<1>2. RateSpec => []FloodIsCut BY FloodsAreCut
<1>3. WorkBounded /\ FloodIsCut => RateLimited BY DEF RateLimited
<1> QED BY <1>1, <1>2, <1>3, PTL

-----------------------------------------------------------------------------
(* The grant.  A command past the sending of the key has sent it, and no   *)
(* roster anywhere has a flag without a key: not the one the command took  *)
(* aside for its comparison or its write either.                           *)

Pcs == {"idle", "load", "save", "flag", "resolve", "publish", "write", "reconverge", "ok", "error", "failed"}

KeyedPcs == {"load", "save", "flag", "resolve", "publish", "write", "reconverge"}

Commands ==
    [pc : Pcs, attempt : Nat, loaded : SUBSET Member, mine : Roster \cup {NoAnswer}, runs : Nat]

GrantInv ==
    /\ {record, local, other} \subseteq Roster /\ keys \subseteq Member /\ admins \subseteq Member
    /\ grant \in [Member -> Commands]
    /\ record.flags \subseteq keys /\ local.flags \subseteq keys /\ other.flags \subseteq keys
    /\ \A m \in Member :
           /\ grant[m].pc \in KeyedPcs => m \in keys
           /\ grant[m].pc = "write" => grant[m].mine \in Roster /\ grant[m].mine.flags \subseteq keys

LEMMA GrantInitInv == GrantInit => GrantInv
<1> SUFFICES ASSUME GrantInit PROVE GrantInv OBVIOUS
<1>1. record \in Roster /\ record.flags = {} BY GrantAssumption DEF GrantInit, Roster
<1>2. local \in Roster /\ local.flags = {} /\ other = record
  BY <1>1 DEF GrantInit, Roster
<1>3. NoGrant \in Commands /\ NoGrant.pc = "idle" BY DEF NoGrant, Commands, Pcs
<1> QED BY <1>1, <1>2, <1>3 DEF GrantInit, GrantInv, KeyedPcs

\* Moves touches nothing but its own command, and leaves no roster in it.
LEMMA MovesFacts ==
    ASSUME GrantInv, NEW m \in Member, NEW pc \in Pcs, Moves(m, pc)
    PROVE  /\ grant' \in [Member -> Commands] /\ grant'[m].pc = pc
           /\ \A k \in Member \ {m} : grant'[k] = grant[k]
<1>1. grant[m] \in Commands /\ NoGrant \in Commands BY DEF GrantInv, NoGrant, Commands, Pcs
<1>2. CASE pc \in {"ok", "error"}
  <2> DEFINE g == [NoGrant EXCEPT !.pc = pc, !.runs = grant[m].runs]
  <2>1. g \in Commands /\ g.pc = pc BY <1>1 DEF Commands
  <2>2. grant' = [grant EXCEPT ![m] = g] BY <1>2 DEF Moves
  <2> QED BY <2>1, <2>2 DEF GrantInv
<1>3. CASE pc \notin {"ok", "error"}
  <2> DEFINE g == [grant[m] EXCEPT !.pc = pc, !.mine = NoAnswer]
  <2>1. g \in Commands /\ g.pc = pc BY <1>1 DEF Commands
  <2>2. grant' = [grant EXCEPT ![m] = g] BY <1>3 DEF Moves
  <2> QED BY <2>1, <2>2 DEF GrantInv
<1> QED BY <1>2, <1>3

LEMMA GrantNextInv == ASSUME GrantInv, [GrantNext]_grantVars PROVE GrantInv'
<1>1. CASE UNCHANGED grantVars BY <1>1 DEF grantVars, GrantInv
<1>2. ASSUME NEW m \in Member, NEW went \in BOOLEAN, SendKey(m, went) PROVE GrantInv'
  <2> DEFINE pc == IF went THEN "load" ELSE "failed"
             g == [NoGrant EXCEPT !.runs = grant[m].runs + 1, !.pc = pc]
  <2>1. grant' = [grant EXCEPT ![m] = g] BY <1>2 DEF SendKey
  <2>2. g \in Commands /\ g.pc = pc
    <3>1. pc \in Pcs /\ grant[m].runs + 1 \in Nat BY DEF GrantInv, Commands, Pcs
    <3>2. NoGrant \in Commands BY DEF NoGrant, Commands, Pcs
    <3> HIDE DEF pc
    <3> QED BY <3>1, <3>2 DEF Commands
  <2>3. keys \subseteq keys' /\ keys' \subseteq Member /\ (went => m \in keys')
        /\ UNCHANGED <<record, local, other, admins>>
    BY <1>2 DEF SendKey, GrantInv
  <2> HIDE DEF g
  <2> QED BY <2>1, <2>2, <2>3 DEF GrantInv, KeyedPcs
<1>3. ASSUME NEW m \in Member, LoadAdmins(m) \/ SaveAdmins(m) PROVE GrantInv'
  <2>1. grant[m].pc \in {"load", "save"} /\ UNCHANGED <<record, local, other, keys>>
    BY <1>3 DEF LoadAdmins, SaveAdmins
  <2>2. grant' \in [Member -> Commands] /\ grant'[m].pc \in {"save", "flag"}
        /\ \A k \in Member \ {m} : grant'[k] = grant[k]
    BY <1>3 DEF LoadAdmins, SaveAdmins, GrantInv, Commands, Pcs
  <2>3. admins' \subseteq Member BY <1>3 DEF LoadAdmins, SaveAdmins, GrantInv, Commands, Pcs
  <2> QED BY <2>1, <2>2, <2>3 DEF GrantInv, KeyedPcs
<1>4. ASSUME NEW m \in Member, Flag(m) PROVE GrantInv'
  <2>1. m \in keys BY <1>4 DEF Flag, GrantInv, KeyedPcs
  <2>2. local' \in Roster /\ local'.flags \subseteq keys
    <3>1. local \in Roster /\ local.flags \subseteq keys BY DEF GrantInv
    <3> DEFINE flags == local.flags \cup ({m} \cap local.members)
    <3>2. local' = [local EXCEPT !.gen = local.gen + 1, !.flags = flags] BY <1>4 DEF Flag, Flagged
    <3>3. flags \in SUBSET Member /\ flags \subseteq keys /\ local.gen + 1 \in Nat
      BY <2>1, <3>1 DEF Roster
    <3> HIDE DEF flags
    <3> QED BY <3>1, <3>2, <3>3 DEF Roster
  <2>3. grant' \in [Member -> Commands] /\ grant'[m].pc = "resolve"
        /\ \A k \in Member \ {m} : grant'[k] = grant[k]
    BY <1>4, <2>2 DEF Flag, GrantInv, Commands, Pcs
  <2> QED BY <1>4, <2>1, <2>2, <2>3 DEF Flag, GrantInv
<1>5. ASSUME NEW m \in Member, NEW went \in BOOLEAN, Resolve(m, went) PROVE GrantInv'
  <2> DEFINE pc == grant_publish_action(grant[m].mine, IF went THEN record ELSE NoAnswer)
  <2>1. pc \in {"publish", "ok", "reconverge"} BY DEF grant_publish_action
  <2>2. Moves(m, pc) /\ m \in keys /\ UNCHANGED <<record, local, other, admins, keys>>
    BY <1>5 DEF Resolve, GrantInv, KeyedPcs
  <2> HIDE DEF pc
  <2>3. /\ grant' \in [Member -> Commands] /\ grant'[m].pc = pc
        /\ \A k \in Member \ {m} : grant'[k] = grant[k]
    BY <2>1, <2>2, MovesFacts DEF Pcs
  <2> QED BY <2>1, <2>2, <2>3 DEF GrantInv
<1>6. ASSUME NEW m \in Member, ReadGroup(m) PROVE GrantInv'
  <2>1. m \in keys /\ UNCHANGED <<record, local, other, admins, keys>>
    BY <1>6 DEF ReadGroup, GrantInv, KeyedPcs
  <2>2. /\ grant' \in [Member -> Commands] /\ grant'[m].mine = local
        /\ \A k \in Member \ {m} : grant'[k] = grant[k]
    <3>1. grant[m] \in Commands /\ local \in Roster BY DEF GrantInv
    <3>2. [grant[m] EXCEPT !.pc = "write", !.mine = local] \in Commands BY <3>1 DEF Commands, Pcs
    <3>3. grant' = [grant EXCEPT ![m] = [grant[m] EXCEPT !.pc = "write", !.mine = local]]
      BY <1>6 DEF ReadGroup
    <3> QED BY <3>1, <3>2, <3>3 DEF GrantInv, Commands
  <2> QED BY <2>1, <2>2 DEF GrantInv
<1>7. ASSUME NEW m \in Member, NEW went \in BOOLEAN, Publish(m, went) PROVE GrantInv'
  <2>1. record' \in Roster /\ record'.flags \subseteq keys /\ UNCHANGED <<local, other, admins, keys>>
    BY <1>7 DEF Publish, GrantInv
  <2>2. /\ grant' \in [Member -> Commands] /\ grant'[m].pc = "ok"
        /\ \A k \in Member \ {m} : grant'[k] = grant[k]
    BY <1>7, MovesFacts DEF Publish, Pcs
  <2> QED BY <2>1, <2>2 DEF GrantInv, KeyedPcs
<1>8. ASSUME NEW m \in Member, NEW went \in BOOLEAN, Reconverge(m, went) PROVE GrantInv'
  <2> DEFINE pc == IF grant[m].attempt < GRANT_PUBLISH_ATTEMPTS THEN "flag" ELSE "error"
  <2>1. local' \in {local, record} /\ Moves(m, pc) /\ m \in keys
        /\ UNCHANGED <<record, other, admins, keys>>
    BY <1>8 DEF Reconverge, GrantInv, KeyedPcs
  <2>2. pc \in {"flag", "error"} OBVIOUS
  <2> HIDE DEF pc
  <2>3. /\ grant' \in [Member -> Commands] /\ grant'[m].pc = pc
        /\ \A k \in Member \ {m} : grant'[k] = grant[k]
    BY <2>1, <2>2, MovesFacts DEF Pcs
  <2> QED BY <2>1, <2>2, <2>3 DEF GrantInv
<1>9. CASE Poll \/ OtherPolls BY <1>9 DEF Poll, OtherPolls, GrantInv
<1>10. ASSUME NEW kicked \in SUBSET Member, OtherEdits(kicked) PROVE GrantInv'
  <2>1. other' \in Roster /\ other'.flags \subseteq keys BY <1>10 DEF OtherEdits, GrantInv, Roster
  <2> QED BY <1>10, <2>1 DEF OtherEdits, GrantInv
<1> QED BY <1>1, <1>2, <1>3, <1>4, <1>5, <1>6, <1>7, <1>8, <1>9, <1>10 DEF GrantNext

\* Whatever others publish in between, and however many grants run, no roster
\* shows a coordinator that grant_admin_key has not sent the key to.
THEOREM FlagsFollowKeys == GrantSpec => []FlagNeedsKey
<1>1. GrantInv => FlagNeedsKey BY DEF GrantInv, FlagNeedsKey
<1> QED BY <1>1, GrantInitInv, GrantNextInv, PTL DEF GrantSpec
=============================================================================
