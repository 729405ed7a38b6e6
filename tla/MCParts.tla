------------------------------ MODULE MCParts ------------------------------
(***************************************************************************)
(* The parts of the daemon that stand by themselves, for one run of TLC:   *)
(* the configuration files, `config set`, the status cache, the redial     *)
(* schedule, the log debouncer, the rate limits, the walk over the         *)
(* coordinators, path selection and the grant of the key.  They share      *)
(* nothing, so each behaviour moves one of them and leaves the others as   *)
(* they start.                                                             *)
(***************************************************************************)
EXTENDS MCConfigStore, Overrides, StatusCache, Redial, Debounce, RateLimit, Walk, Paths, Grant

VARIABLE part    \* the one that moves

Part == {"store", "overrides", "status", "redial", "debounce", "rate", "walk", "paths", "grant"}

partsVars == <<part, storeVars, cfg, statusVars, redialVars, debounceVars, rateVars, walkVars,
               pathVars, grantVars>>

\* Where a part has several initial states, the others see one of them.
PartsInit ==
    /\ part \in Part
    /\ StoreInit /\ OverridesInit /\ StatusInit /\ DebounceInit /\ RateInit /\ PathsInit
    /\ RedialInit /\ (part # "redial" => peer = "up")
    /\ WalkInit /\ (part # "walk" => roster = <<>>)
    /\ GrantInit /\ (part # "grant" => local = record)

Frozen(p, v) == part # p => UNCHANGED v

PartsNext ==
    /\ UNCHANGED part
    /\ \/ part = "store" /\ StoreNext
       \/ part = "overrides" /\ OverridesNext
       \/ part = "status" /\ StatusNext
       \/ part = "redial" /\ RedialNext
       \/ part = "debounce" /\ DebounceNext
       \/ part = "rate" /\ RateNext
       \/ part = "walk" /\ WalkNext
       \/ part = "paths" /\ PathsNext
       \/ part = "grant" /\ GrantNext
    /\ Frozen("store", storeVars) /\ Frozen("overrides", cfg) /\ Frozen("status", statusVars)
    /\ Frozen("redial", redialVars) /\ Frozen("debounce", debounceVars)
    /\ Frozen("rate", rateVars) /\ Frozen("walk", walkVars) /\ Frozen("paths", pathVars)
    /\ Frozen("grant", grantVars)

PartsSpec == PartsInit /\ [][PartsNext]_partsVars

\* The types of the variables of every part.
PartsTypeOK ==
    /\ part \in Part /\ StoreTypeOK /\ OverridesTypeOK /\ StatusTypeOK /\ RedialTypeOK
    /\ DebounceTypeOK /\ RateTypeOK /\ WalkTypeOK /\ PathsTypeOK /\ GrantTypeOK
=============================================================================
