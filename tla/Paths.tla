------------------------------- MODULE Paths -------------------------------
(***************************************************************************)
(* The paths of one connection: which one iroh is told to use              *)
(* (path_selector.rs) and which one `tetron status` reports, with what     *)
(* explanation (select.rs, diagnostics.rs).                                *)
(*                                                                         *)
(* A path is its class, whether its address is none of this daemon's own   *)
(* overlay addresses (in_subnet), and whether it has received anything.    *)
(* iroh is external: it opens and closes paths as it likes, and without a  *)
(* preference selects any of them.                                         *)
(***************************************************************************)
EXTENDS Naturals, Sequences, SequencesExt

CONSTANTS MaxPaths    \* bound on the paths open at once

ASSUME PathsAssumption == MaxPaths \in Nat

VARIABLES
    paths,        \* the connection's paths, in the order they were opened
    selected,     \* the index of the selected one, 0 for none
    preference    \* the PathPreferenceSlot: "auto" or a class

pathVars == <<paths, selected, preference>>

\* The order in which status prefers classes.
Classes == <<"Direct", "Relay", "Tor", "Veilid">>

\* classify_candidate_addr: only an IP address can be one of our own.
Addresses == [class : {"Direct"}, in_subnet : BOOLEAN] \cup
             [class : {"Relay", "Tor", "Veilid"}, in_subnet : {TRUE}]

matches_preference(path, want) == path.class = want

Firsts(S) == {i \in S : \A j \in S : i <= j}

\* Slip: a preferred path is taken before anything came through it.
SelectUnvalidated(want) ==
    LET preferred == {i \in DOMAIN paths : matches_preference(paths[i], want)} IN
    IF preferred # {} THEN Firsts(preferred) ELSE 0..Len(paths)

\* TetronPathSelector::select: the first preferred path that has received
\* something, else what iroh's own selector chooses.
Select(want) ==
    LET validated == {i \in DOMAIN paths : matches_preference(paths[i], want) /\ paths[i].active}
    IN  IF validated # {} THEN Firsts(validated) ELSE 0..Len(paths)

\* The first path of the best class among those of T.
Best(ps, T) ==
    LET rank(i) == CHOOSE k \in DOMAIN Classes : Classes[k] = ps[i].class IN
    {i \in T : \A j \in T : rank(i) < rank(j) \/ (rank(i) = rank(j) /\ i <= j)}

\* choose_path_index, 0 for None.
choose_path_index(ps, sel) ==
    LET trusted == {i \in DOMAIN ps : ps[i].in_subnet}
        active == {i \in trusted : ps[i].active}
        tier == IF sel \in active \/ trusted = {sel} THEN {sel}
                ELSE IF active # {} THEN Best(ps, active) ELSE Best(ps, trusted)
    IN  IF tier = {} THEN 0 ELSE CHOOSE i \in tier : TRUE

\* classify_via_detail, for a winner that is not direct.
classify_via_detail(ps) ==
    LET direct == {i \in DOMAIN ps : ps[i].class = "Direct"} IN
    IF \E i \in direct : ps[i].in_subnet THEN "DirectUnvalidated"
    ELSE IF direct # {} THEN "DirectBled" ELSE "NoDirectCandidate"

-----------------------------------------------------------------------------
PathsInit == paths = <<>> /\ selected = 0 /\ preference = "auto"

\* iroh opens a path, ...
Open(address) ==
    /\ Len(paths) < MaxPaths
    /\ paths' = Append(paths, [class |-> address.class, in_subnet |-> address.in_subnet,
                               active |-> FALSE])
    /\ UNCHANGED <<selected, preference>>

\* ... something is received on one, ...
Received(i) ==
    /\ paths' = [paths EXCEPT ![i].active = TRUE] /\ UNCHANGED <<selected, preference>>

\* ... or one closes.
Closes(i) ==
    /\ paths' = RemoveAt(paths, i)
    /\ selected' = IF selected = i THEN 0 ELSE IF selected > i THEN selected - 1 ELSE selected
    /\ UNCHANGED preference

\* iroh asks for a selection.
Reselect == selected' \in Select(preference) /\ UNCHANGED <<paths, preference>>

\* set_path_preference stores the new value; nothing is selected anew here.
Prefer(want) == preference' = want /\ UNCHANGED <<paths, selected>>

PathsNext ==
    \/ \E address \in Addresses : Open(address)
    \/ \E i \in DOMAIN paths : Received(i) \/ Closes(i)
    \/ Reselect
    \/ \E want \in Range(Classes) \cup {"auto"} : Prefer(want)

PathsSpec == PathsInit /\ [][PathsNext]_pathVars

\* The types of the variables.
PathsTypeOK ==
    /\ Len(paths) <= MaxPaths /\ selected \in 0..Len(paths)
    /\ \A i \in DOMAIN paths :
           /\ [class |-> paths[i].class, in_subnet |-> paths[i].in_subnet] \in Addresses
           /\ paths[i].active \in BOOLEAN
    /\ preference \in Range(Classes) \cup {"auto"}

-----------------------------------------------------------------------------
Reported == choose_path_index(paths, selected)

\* Status names a path that works whenever there is one: while some path with a
\* believable address has received something, the one reported has too
\* (PATHBLEED-STATUS-002).
ReportedWorks ==
    (\E i \in DOMAIN paths : paths[i].in_subnet /\ paths[i].active)
        => Reported # 0 /\ paths[Reported].active

\* Status never names one of this daemon's own overlay addresses, and says
\* "unknown" only when no path has any other (PATHBLEED-STATUS-001, -003).
NeverBled ==
    /\ Reported # 0 => paths[Reported].in_subnet
    /\ Reported = 0 => \A i \in DOMAIN paths : ~paths[i].in_subnet

\* A preference that can be honoured shows: once iroh has asked again, while a
\* path of the preferred class has received something and nothing has come in
\* on an overlay address, status reports that class (PATHPREF-001: the selector
\* and the status agree on what an address is and on when a path is proven).
PreferenceShown ==
    [][selected' \in Select(preference) /\ UNCHANGED <<paths, preference>>
          /\ (\E i \in DOMAIN paths : paths[i].active /\ paths[i].class = preference)
          /\ (\A i \in DOMAIN paths : paths[i].active => paths[i].in_subnet)
       => paths[choose_path_index(paths, selected')].class = preference]_pathVars

\* The path status reports is one that works, is no address of the overlay, and is
\* of the preferred class where that can be had (gather_conn_info, select).
ReportHonest == []ReportedWorks /\ []NeverBled /\ PreferenceShown

\* "An in-subnet, active Direct candidate always wins by choose_path_index's own
\* tier 2 regardless of is_selected" (select.rs 352-354), so a winner that is
\* not direct means that no direct path has been validated.  An active relay
\* path that is selected wins by tier 1 and is explained as DirectUnvalidated.
DetailExplains ==
    Reported # 0 /\ paths[Reported].class # "Direct" /\ classify_via_detail(paths) = "DirectUnvalidated"
        => \A i \in DOMAIN paths : ~(paths[i].class = "Direct" /\ paths[i].in_subnet /\ paths[i].active)
=============================================================================
