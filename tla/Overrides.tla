----------------------------- MODULE Overrides -----------------------------
(***************************************************************************)
(* `tetron config set`, `unset` and `get` (config/overrides.rs), and what  *)
(* the daemon makes of the values (config/schema.rs).                      *)
(*                                                                         *)
(* A value on the command line is a list of entries; an entry is a word, a *)
(* number or a number with a unit.  Numbers keep their widths, scaled.     *)
(***************************************************************************)
EXTENDS Naturals, Sequences, Functions

CONSTANTS
    U16Width, U32Width, U64Width,   \* the largest values of the types, scaled
    Numbers,                        \* the numbers tried
    MaxChanged                      \* bound on the keys set at once

ASSUME OverridesAssumption ==
    /\ Numbers \subseteq Nat /\ MaxChanged \in Nat
    /\ U16Width \in Nat /\ U32Width \in Nat /\ U64Width \in Nat
    /\ U16Width < U32Width /\ U32Width < U64Width

VARIABLE cfg    \* the keys that are set, with their values

Word(w) == <<"word", w>>
Number(n) == <<"number", n>>
Duration(n, unit) == <<"duration", n, unit>>

\* The keys of each section, with the type of their fields.
ratelimit == [capacity |-> "u64", refill_per_sec |-> "u64", strike_limit |-> "u32",
              global_capacity |-> "u64", global_refill_per_sec |-> "u64", global_strike_limit |-> "u32"]
drop_monitor == [window |-> "u64", threshold |-> "u64", cooldown |-> "u64"]
path_flap == [threshold |-> "u32", window |-> "u64"]
reconnect_log == [threshold |-> "u32", window |-> "u64"]
reconnect_cold == [threshold |-> "u32", backoff |-> "u64"]
reconnect_frozen == [threshold |-> "u32", backoff |-> "u64"]
reconnect_holddown == [min_uptime |-> "u64", jitter_pct |-> "u32"]
ipc == [request_timeout |-> "u64", response_timeout |-> "u64", max_clients |-> "u64", reserved_clients |-> "u64"]
hello == [timeout |-> "u64"]
join == [request_timeout |-> "u64"]
status_cache == [interval |-> "u64"]

Sections ==
    [ratelimit |-> ratelimit, drop_monitor |-> drop_monitor, path_flap |-> path_flap,
     reconnect_log |-> reconnect_log, reconnect_cold |-> reconnect_cold,
     reconnect_frozen |-> reconnect_frozen, reconnect_holddown |-> reconnect_holddown,
     ipc |-> ipc, hello |-> hello, join |-> join, status_cache |-> status_cache]

Plain ==
    [relay |-> "relay", discovery_dns |-> "servers", subnet |-> "cidr",
     nuke_proposal_ttl |-> "duration", listen_port |-> "u16", poller_interval |-> "u64",
     log_retention |-> "u32", invite_default_expiry |-> "duration",
     selfcapture_mitigation |-> "bool", log_level |-> "level", path_preference |-> "transport"]

Keys == {<<k>> : k \in DOMAIN Plain} \cup
        UNION {{<<s, k>> : k \in DOMAIN Sections[s]} : s \in DOMAIN Sections}

TypeOf(key) == IF Len(key) = 1 THEN Plain[key[1]] ELSE Sections[key[1]][key[2]]

WidthOf(type) == CASE type = "u16" -> U16Width [] type = "u32" -> U32Width [] OTHER -> U64Width

-----------------------------------------------------------------------------
Rejected == <<"rejected">>

Seconds(unit) ==
    CASE unit = "s" -> 1 [] unit = "m" -> 60 [] unit = "h" -> 3600 [] unit = "d" -> 86400
      [] unit = "w" -> 604800

\* Slip: a bare number counts minutes.
BareMinutes(e) ==
    LET n == e[2] unit == IF e[1] = "number" THEN "m" ELSE e[3] IN
    IF e[1] = "word" THEN Rejected
    ELSE IF n > U64Width \div Seconds(unit) THEN Rejected
    ELSE Number(n * Seconds(unit))

\* parse_duration: a bare number counts seconds; checked_mul.
parse_duration(e) ==
    LET n == e[2] unit == IF e[1] = "number" THEN "s" ELSE e[3] IN
    IF e[1] = "word" THEN Rejected
    ELSE IF n > U64Width \div Seconds(unit) THEN Rejected
    ELSE Number(n * Seconds(unit))

\* parse_ratelimit_value: a whole number that fits the type.
parse_ratelimit_value(type, e) ==
    IF e[1] = "number" /\ e[2] <= WidthOf(type) THEN e ELSE Rejected

OneOf(words, e) == IF e[1] = "word" /\ e[2] \in words THEN e ELSE Rejected

\* parse_bool_value
parse_bool_value(e) ==
    IF e \in {Word("on"), Word("true"), Number(1)} THEN Word("on")
    ELSE IF e \in {Word("off"), Word("false"), Number(0)} THEN Word("off")
    ELSE Rejected

\* The value a single entry gives a key of some type.
Parsed(type, e) ==
    CASE type = "duration" -> parse_duration(e)
      [] type = "bool" -> parse_bool_value(e)
      [] type = "level" -> OneOf({"info", "debug"}, e)
      [] type = "transport" -> OneOf({"direct", "relay", "tor", "veilid"}, e)
      [] type = "cidr" -> OneOf({"cidr"}, e)
      [] OTHER -> parse_ratelimit_value(type, e)

\* resolve_url_entry: the preset's name or an http(s) URL.  Text after a blank is
\* a part of the path; a URL without one is refused for it.
resolve_url_entry(e) ==
    IF e[1] = "labelled" /\ e[2] = "https://b/" THEN e ELSE OneOf({"rayfish", "https://b", "https://b/"}, e)

\* The relay and discovery-dns arms of config_set.
Servers(type, entries, replace) ==
    IF type = "relay" /\ entries = <<Word("off")>> THEN <<"servers", entries, TRUE>>
    ELSE IF \E i \in DOMAIN entries : resolve_url_entry(entries[i]) = Rejected THEN Rejected
    ELSE <<"servers", entries, replace>>

\* config_set: a reset, the new value, or a rejection.
config_set(key, entries, replace) ==
    LET type == TypeOf(key) IN
    IF entries = <<>> \/ entries = <<Word("n0")>> THEN <<"reset">>
    ELSE IF type \in {"relay", "servers"} THEN Servers(type, entries, replace)
    ELSE IF Len(entries) # 1 THEN Rejected
    ELSE Parsed(type, entries[1])

\* render_override: the last entry is followed by the mode of the list.
render_override(v) ==
    LET last == Len(v[2]) IN
    IF v[2] = <<Word("off")>> THEN v[2]
    ELSE [v[2] EXCEPT ![last] = <<"labelled", @[2], v[3]>>]

\* config_get for one key, as the entries its text would be read as; the
\* reconnect-holddown keys have no row.
config_get(key) ==
    IF key[1] = "reconnect_holddown" THEN Rejected
    ELSE IF key \notin DOMAIN cfg THEN <<Word("<default>")>>
    ELSE IF TypeOf(key) \in {"relay", "servers"} THEN render_override(cfg[key])
    ELSE <<cfg[key]>>

-----------------------------------------------------------------------------
Entries ==
    {Number(n) : n \in Numbers} \cup {Duration(n, u) : n \in Numbers, u \in {"m", "w"}} \cup
    {Word(w) : w \in {"n0", "off", "on", "rayfish", "https://b", "https://b/", "cidr", "info", "tor", "junk"}}

Inputs == {<<>>} \cup {<<e>> : e \in Entries} \cup
          {<<Word("rayfish"), e>> : e \in {Word("off"), Word("n0"), Word("https://b")}}

OverridesInit == cfg = <<>>

\* cmd_config: load, config_set, save_settings; a rejection saves nothing.
Set(key, entries, replace) ==
    LET v == config_set(key, entries, replace) IN
    /\ v # Rejected
    /\ cfg' = IF v = <<"reset">> THEN Restrict(cfg, DOMAIN cfg \ {key})
              ELSE [k \in DOMAIN cfg \cup {key} |-> IF k = key THEN v ELSE cfg[k]]

OverridesNext ==
    \E key \in Keys, entries \in Inputs, replace \in BOOLEAN :
        /\ DOMAIN cfg \subseteq {key} \/ MaxChanged > 1
        /\ Set(key, entries, replace)

OverridesSpec == OverridesInit /\ [][OverridesNext]_cfg

\* The types of the variable: every stored number fits its field.
OverridesTypeOK ==
    \A key \in DOMAIN cfg :
        /\ key \in Keys /\ cfg[key][1] \in {"number", "word", "servers"}
        /\ cfg[key][1] = "number" => cfg[key][2] <= WidthOf(TypeOf(key))

-----------------------------------------------------------------------------
\* What the daemon takes a number to be, of a key and its compiled default.  The
\* accessors of JoinConfig, IpcConfig and HelloConfig, and status_cache_interval:
\* zero is "unset".
Filtered(key, default) ==
    IF key \in DOMAIN cfg /\ cfg[key][2] > 0 THEN cfg[key][2] ELSE default

\* The redial task reads its knobs with unwrap_or.
Knob(key, default) == IF key \in DOMAIN cfg THEN cfg[key][2] ELSE default

ZeroIsUnset == {"join", "ipc", "hello", "status_cache"}

\* What `get` prints means what is stored: typed back into `set` it is refused
\* or changes nothing, whatever units and spellings the value was first given in.
\* Lists are left out: a URL with a path swallows the mode that is printed after it.
ReadBack ==
    \A key \in DOMAIN cfg :
        key[1] # "reconnect_holddown" /\ TypeOf(key) \notin {"relay", "servers"} =>
            config_set(key, config_get(key), FALSE) = cfg[key]

\* "Unset (or set to 0/empty) to return to the default" (schema.rs 258-259, and
\* the same of reconnect-frozen and reconnect-holddown): a zero means the default.
\* The redial task takes the zero, and with a cold ceiling of zero seconds it
\* dials without a pause.
ZeroIsDefault ==
    \A key \in DOMAIN cfg :
        key[1] \in ZeroIsUnset \cup {"reconnect_cold", "reconnect_frozen"} /\ cfg[key][2] = 0 =>
            (IF key[1] \in ZeroIsUnset THEN Filtered(key, 1) ELSE Knob(key, 1)) = 1
=============================================================================
