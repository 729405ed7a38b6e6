------------------------------ MODULE Peering ------------------------------
(***************************************************************************)
(* How one daemon keeps its route to one peer of a network.                *)
(*                                                                         *)
(* The route table maps the peer's overlay addresses to the QUIC           *)
(* connection that carries them.  Connections come in from the peer or out *)
(* of this daemon's dial tasks, and every connection has a reader that     *)
(* reports its end to the clean-up loop, which takes the route away and    *)
(* starts a redial task.  Meanwhile roster changes cut the peer off or     *)
(* list it again.                                                          *)
(*                                                                         *)
(*   peers.rs            the route table                                   *)
(*   forward.rs          the reader of a connection and its last report    *)
(*   mesh/coordinator.rs clean-up and redial of a coordinator, kick        *)
(*   mesh/join.rs        clean-up and redial of a member                   *)
(*   mesh/accept.rs      inbound connections                               *)
(*   mesh/reconverge.rs  peers an applied roster no longer lists           *)
(***************************************************************************)
EXTENDS Naturals, Sequences, FiniteSets

CONSTANTS
    Conn,      \* connections
    Addr,      \* overlay IPv4 addresses the roster may give the peer
    Task,      \* dial tasks
    NoConn, NoAddr,
    MaxOps     \* bound on what the network and the roster do in a behaviour

ASSUME PeeringAssumption ==
    /\ NoConn \notin Conn \cup Task /\ NoAddr \notin Addr
    /\ MaxOps \in Nat /\ Task # {}

VARIABLES
    role,      \* "member" or "coordinator"
    roster,    \* address the live roster lists the peer under, or NoAddr
    conn,      \* every connection: its registration, its address, its end
    v4, v6,    \* PeerTable: the two maps, one entry per address of the peer
    pruned,    \* the peer's entry in pruned_peers
    claim,     \* its entry in dial_in_flight
    events,    \* disconnect events the clean-up loop has not taken
    cleaner,   \* the clean-up loop (spawn_reconnect_loop, spawn_peer_cleanup)
    task,      \* the dial tasks
    maint,     \* the roster change in progress
    budget,    \* operations of the network and of the roster left
    skipped    \* history: a redial was given up while the roster listed the peer

vars == <<role, roster, conn, v4, v6, pruned, claim, events, cleaner, task, maint,
          budget, skipped>>

Unused == [stage |-> "free", addr |-> NoAddr, end |-> "open", by |-> NoConn]
IdleTask == [pc |-> "idle", addr |-> NoAddr, once |-> FALSE]
NoEvent == [conn |-> NoConn, addr |-> NoAddr, left |-> FALSE]
IdleCleaner == [pc |-> "idle", event |-> NoEvent]
IdleMaint == [pc |-> "idle", how |-> "prune", at |-> NoAddr, todo |-> {}]

Event == [conn : Conn \cup {NoConn}, addr : Addr \cup {NoAddr}, left : BOOLEAN]

\* Every variable has its type.
TypeOK ==
    /\ role \in {"member", "coordinator"} /\ roster \in Addr \cup {NoAddr}
    /\ conn \in [Conn -> [stage : {"free", "opened", "half", "up", "reported"},
                          addr : Addr \cup {NoAddr}, end : {"open", "left", "other"},
                          by : Task \cup {NoConn}]]
    /\ v4 \in [Addr -> Conn \cup {NoConn}] /\ v6 \in Conn \cup {NoConn}
    /\ pruned \in BOOLEAN /\ claim \in BOOLEAN /\ events \in Seq(Event)
    /\ cleaner \in [pc : {"idle", "check", "rm4", "rm6", "edit", "decide"}, event : Event]
    /\ task \in [Task -> [pc : {"idle", "once", "sleep", "guard", "dial", "register"},
                          addr : Addr \cup {NoAddr}, once : BOOLEAN]]
    /\ maint \in [pc : {"idle", "await", "scan", "pick", "rm4", "rm6", "apply"},
                  how : {"prune", "kick", "poll"}, at : Addr \cup {NoAddr},
                  todo : SUBSET (Addr \X Conn)]
    /\ \A t \in Task : task[t].pc # "idle" => task[t].addr \in Addr
    /\ budget \in 0..MaxOps /\ skipped \in BOOLEAN

FirstTask == CHOOSE t \in Task : TRUE

\* A daemon that starts with the peer on its roster, about to dial it.
Init ==
    /\ role \in {"member", "coordinator"} /\ roster \in Addr
    /\ conn = [c \in Conn |-> Unused]
    /\ v4 = [a \in Addr |-> NoConn] /\ v6 = NoConn
    /\ pruned = FALSE /\ claim = FALSE /\ events = <<>> /\ cleaner = IdleCleaner
    /\ task = [t \in Task |-> IF t = FirstTask THEN [pc |-> "once", addr |-> roster, once |-> TRUE]
                              ELSE IdleTask]
    /\ maint = IdleMaint /\ budget = MaxOps /\ skipped = FALSE

-----------------------------------------------------------------------------
FreeConns == {c \in Conn : conn[c].stage = "free"}

\* Connections are interchangeable, and so are idle tasks: the next one is taken.
NextConn == CHOOSE c \in FreeConns : TRUE
IdleTasks == {t \in Task : task[t].pc = "idle"}
NextTask == CHOOSE t \in IdleTasks : TRUE

Spend == budget > 0 /\ budget' = budget - 1

\* A connection whose last report has been handled is forgotten, unless the
\* table still names it.
Forget(c, w4, w6) ==
    IF c \in Conn /\ c # w6 /\ \A a \in Addr : w4[a] # c
    THEN [conn EXCEPT ![c] = Unused] ELSE conn

-----------------------------------------------------------------------------
\* The peer connects and is on the roster; its address is read before anything
\* is registered.
AcceptKnown ==
    /\ roster # NoAddr /\ FreeConns # {} /\ Spend
    /\ conn' = [conn EXCEPT ![NextConn] = [stage |-> "opened", addr |-> roster,
                                           end |-> "open", by |-> NoConn]]
    /\ UNCHANGED <<role, roster, v4, v6, pruned, claim, events, cleaner, task, maint, skipped>>

\* handle_known_member_reconnect of a coordinator, handle_connection of a member.
CoordinatorAccepts == role = "coordinator" /\ AcceptKnown
MemberAccepts == role = "member" /\ AcceptKnown

\* PeerTable::add, first half: the entry of the IPv4 address is overwritten.
AddV4(c) ==
    /\ conn[c].stage = "opened"
    /\ conn' = [conn EXCEPT ![c].stage = "half"]
    /\ v4' = [v4 EXCEPT ![conn[c].addr] = c]
    /\ UNCHANGED <<role, roster, v6, pruned, claim, events, cleaner, task, maint, budget, skipped>>

\* PeerTable::add, second half; then spawn_peer_reader.  A dial task is done
\* and its DialInFlightGuard is dropped.
AddV6(c) ==
    /\ conn[c].stage = "half"
    /\ conn' = [conn EXCEPT ![c].stage = "up"]
    /\ v6' = c
    /\ IF conn[c].by \in Task
       THEN task' = [task EXCEPT ![conn[c].by] = IdleTask] /\ claim' = FALSE
       ELSE UNCHANGED <<task, claim>>
    /\ UNCHANGED <<role, roster, v4, pruned, events, cleaner, maint, budget, skipped>>

\* The far end leaves, or kicks us, or the link dies.
PeerCloses(c, end) ==
    /\ conn[c].stage \in {"opened", "half", "up"} /\ conn[c].end = "open" /\ Spend
    /\ conn' = [conn EXCEPT ![c].end = end]
    /\ UNCHANGED <<role, roster, v4, v6, pruned, claim, events, cleaner, task, maint, skipped>>

\* A reader that ends without its report, as when the channel is full.
ReportDropped(c) ==
    /\ conn[c].stage = "up" /\ conn[c].end # "open"
    /\ conn' = [conn EXCEPT ![c].stage = "reported"]
    /\ UNCHANGED <<role, roster, v4, v6, pruned, claim, events, cleaner, task, maint, budget, skipped>>

\* spawn_peer_reader: reading from a closed connection fails, and the reader
\* sends its DisconnectEvent and ends.
Report(c) ==
    /\ conn[c].stage = "up" /\ conn[c].end # "open"
    /\ conn' = [conn EXCEPT ![c].stage = "reported"]
    /\ events' = Append(events, [conn |-> c, addr |-> conn[c].addr, left |-> conn[c].end = "left"])
    /\ UNCHANGED <<role, roster, v4, v6, pruned, claim, cleaner, task, maint, budget, skipped>>

-----------------------------------------------------------------------------
\* The clean-up loop takes an event.  A synthetic one names no connection.
TakeEvent ==
    /\ cleaner.pc = "idle" /\ events # <<>>
    /\ cleaner' = [pc |-> IF Head(events).conn = NoConn THEN "rm4" ELSE "check",
                   event |-> Head(events)]
    /\ events' = Tail(events)
    /\ UNCHANGED <<role, roster, conn, v4, v6, pruned, claim, task, maint, budget, skipped>>

\* remove_peer_from_network_if compares the connection under the IPv4 address
\* only; an event of a superseded connection is ignored.
CheckStale ==
    LET ev == cleaner.event IN
    /\ cleaner.pc = "check"
    /\ IF v4[ev.addr] = ev.conn
       THEN cleaner' = [cleaner EXCEPT !.pc = "rm4"] /\ UNCHANGED conn
       ELSE cleaner' = IdleCleaner /\ conn' = Forget(ev.conn, v4, v6)
    /\ UNCHANGED <<role, roster, v4, v6, pruned, claim, events, task, maint, budget, skipped>>

RemoveV4 ==
    /\ cleaner.pc = "rm4"
    /\ v4' = [v4 EXCEPT ![cleaner.event.addr] = NoConn]
    /\ cleaner' = [cleaner EXCEPT !.pc = "rm6"]
    /\ UNCHANGED <<role, roster, conn, v6, pruned, claim, events, task, maint, budget, skipped>>

RemoveV6 ==
    /\ cleaner.pc = "rm6"
    /\ v6' = NoConn
    /\ cleaner' = [cleaner EXCEPT !.pc = IF role = "coordinator" THEN "edit" ELSE "decide"]
    /\ conn' = Forget(cleaner.event.conn, v4, NoConn)
    /\ UNCHANGED <<role, roster, v4, pruned, claim, events, task, maint, budget, skipped>>

\* A coordinator takes a peer that left off its roster, and publishes.
EditRoster ==
    /\ cleaner.pc = "edit"
    /\ roster' = IF cleaner.event.left THEN NoAddr ELSE roster
    /\ cleaner' = [cleaner EXCEPT !.pc = "decide"]
    /\ UNCHANGED <<role, conn, v4, v6, pruned, claim, events, task, maint, budget, skipped>>

\* reconnect_decision past the stale check: a peer that left and a peer we
\* pruned ourselves are not redialed.
Redials(left, wasPruned) == ~left /\ ~wasPruned

\* The end of a round: the suppression entry is consumed, by a member only when
\* the peer did not leave, and a redial task starts in its first sleep.
Decide ==
    LET ev == cleaner.event
        reads == role = "coordinator" \/ ~ev.left
        go == Redials(ev.left, pruned) IN
    /\ cleaner.pc = "decide" /\ (go => IdleTasks # {})
    /\ pruned' = (pruned /\ ~reads)
    /\ task' = IF go THEN [task EXCEPT ![NextTask] = [pc |-> "sleep", addr |-> ev.addr, once |-> FALSE]]
               ELSE task
    /\ skipped' = (skipped \/ (~go /\ ~ev.left /\ roster # NoAddr))
    /\ cleaner' = IdleCleaner
    /\ UNCHANGED <<role, roster, conn, v4, v6, claim, events, maint, budget>>

-----------------------------------------------------------------------------
\* dial_retry_decision, with the address of reconnect_route_ip.
KeepsDialing(listed, wasPruned) == listed /\ ~wasPruned

\* A retry that waits for a removed peer to be listed again.
RecheckForever(t) ==
    LET go == KeepsDialing(roster # NoAddr, pruned) IN
    /\ task[t].pc = "sleep"
    /\ pruned' = FALSE
    /\ task' = [task EXCEPT ![t] = IF go THEN [@ EXCEPT !.pc = "guard", !.addr = roster] ELSE @]
    /\ skipped' = (skipped \/ (~go /\ roster # NoAddr))
    /\ UNCHANGED <<role, roster, conn, v4, v6, claim, events, cleaner, maint, budget>>

\* After the sleep: the roster and the suppression entry are read again.
Recheck(t) ==
    LET go == KeepsDialing(roster # NoAddr, pruned) IN
    /\ task[t].pc = "sleep"
    /\ pruned' = FALSE
    /\ task' = [task EXCEPT ![t] = IF go THEN [@ EXCEPT !.pc = "guard", !.addr = roster]
                                   ELSE IdleTask]
    /\ skipped' = (skipped \/ (~go /\ roster # NoAddr))
    /\ UNCHANGED <<role, roster, conn, v4, v6, claim, events, cleaner, maint, budget>>

\* A redial that leaves the peer to the dial already in flight.
ClaimOrGiveUp(t) ==
    LET routed == \E a \in Addr : v4[a] # NoConn IN
    /\ task[t].pc = "guard"
    /\ task' = [task EXCEPT ![t] = IF routed \/ claim THEN IdleTask ELSE [@ EXCEPT !.pc = "dial"]]
    /\ claim' = (claim \/ ~routed)
    /\ UNCHANGED <<role, roster, conn, v4, v6, pruned, events, cleaner, maint, budget, skipped>>

\* A registered route ends the task; a dial in flight sends it back to sleep.
Claim(t) ==
    LET routed == \E a \in Addr : v4[a] # NoConn IN
    /\ task[t].pc = "guard"
    /\ task' = [task EXCEPT ![t] = IF routed THEN IdleTask
                                   ELSE [@ EXCEPT !.pc = IF claim THEN "sleep" ELSE "dial"]]
    /\ claim' = (claim \/ ~routed)
    /\ UNCHANGED <<role, roster, conn, v4, v6, pruned, events, cleaner, maint, budget, skipped>>

\* A first dial that does not look at dial_in_flight.
FirstDialUnclaimed(t) ==
    /\ task[t].pc = "once"
    /\ task' = [task EXCEPT ![t].pc = "dial"]
    /\ claim' = TRUE
    /\ UNCHANGED <<role, roster, conn, v4, v6, pruned, events, cleaner, maint, budget, skipped>>

\* The first dial after a start: it looks at the claim only.
FirstDial(t) ==
    /\ task[t].pc = "once"
    /\ task' = [task EXCEPT ![t] = IF claim THEN IdleTask ELSE [@ EXCEPT !.pc = "dial"]]
    /\ claim' = TRUE
    /\ UNCHANGED <<role, roster, conn, v4, v6, pruned, events, cleaner, maint, budget, skipped>>

\* connect, open_bi or the hello fails.  A redial sleeps again.  A failed first
\* dial is over; dial_all_members and dial_reconnect then seed the clean-up
\* loop with an event of no connection, spawn_roster_peer_dials does not.
DialFails(t) ==
    /\ task[t].pc = "dial"
    /\ claim' = FALSE
    /\ task' = [task EXCEPT ![t] = IF task[t].once THEN IdleTask ELSE [@ EXCEPT !.pc = "sleep"]]
    /\ \E seed \in IF role = "coordinator" THEN {TRUE} ELSE BOOLEAN :
           events' = IF task[t].once /\ seed
                     THEN Append(events, [NoEvent EXCEPT !.addr = task[t].addr]) ELSE events
    /\ UNCHANGED <<role, roster, conn, v4, v6, pruned, cleaner, maint, budget, skipped>>

\* The dial succeeds; the connection is registered under the address read
\* before it, without another look at the roster.
DialSucceeds(t) ==
    /\ task[t].pc = "dial" /\ FreeConns # {}
    /\ conn' = [conn EXCEPT ![NextConn] = [stage |-> "opened", addr |-> task[t].addr,
                                           end |-> "open", by |-> t]]
    /\ task' = [task EXCEPT ![t].pc = "register"]
    /\ UNCHANGED <<role, roster, v4, v6, pruned, claim, events, cleaner, maint, budget, skipped>>

-----------------------------------------------------------------------------
\* The roster lists the peer again, or under another address.
List(a) ==
    /\ maint.pc = "idle" /\ roster # a /\ Spend
    /\ roster' = a
    /\ UNCHANGED <<role, conn, v4, v6, pruned, claim, events, cleaner, task, maint, skipped>>

\* reconverge_and_apply replaces the roster and goes on to prune_departed_peers.
Reconverge ==
    /\ maint.pc = "idle" /\ roster # NoAddr /\ Spend
    /\ roster' = NoAddr
    /\ maint' = [IdleMaint EXCEPT !.pc = "scan"]
    /\ UNCHANGED <<role, conn, v4, v6, pruned, claim, events, cleaner, task, skipped>>

\* kick_member edits the roster; finalize_removal awaits the publication first.
Kick ==
    /\ role = "coordinator" /\ maint.pc = "idle" /\ roster # NoAddr /\ Spend
    /\ roster' = NoAddr
    /\ maint' = [IdleMaint EXCEPT !.pc = "await", !.how = "kick"]
    /\ UNCHANGED <<role, conn, v4, v6, pruned, claim, events, cleaner, task, skipped>>

Published ==
    /\ maint.pc = "await"
    /\ maint' = [maint EXCEPT !.pc = "scan"]
    /\ UNCHANGED <<role, roster, conn, v4, v6, pruned, claim, events, cleaner, task, budget, skipped>>

\* spawn_group_poller takes the route of a removed member away before it
\* replaces the roster; it closes nothing.
Poll ==
    /\ maint.pc = "idle" /\ roster # NoAddr /\ Spend
    /\ maint' = [IdleMaint EXCEPT !.pc = "rm4", !.how = "poll", !.at = roster]
    /\ UNCHANGED <<role, roster, conn, v4, v6, pruned, claim, events, cleaner, task, skipped>>

\* peers_for_network_with_conn: the IPv4 entries as they are now.
Scan ==
    /\ maint.pc = "scan"
    /\ maint' = [maint EXCEPT !.pc = "pick",
                              !.todo = {<<a, v4[a]>> : a \in {b \in Addr : v4[b] # NoConn}}]
    /\ UNCHANGED <<role, roster, conn, v4, v6, pruned, claim, events, cleaner, task, budget, skipped>>

\* One entry of the scan.  prune_departed_peers looks at the roster again and
\* notes the peer in pruned_peers before it closes; finalize_removal does not.
Sever ==
    /\ maint.pc = "pick" /\ maint.todo # {}
    /\ \E e \in maint.todo :
           LET spare == maint.how = "prune" /\ roster # NoAddr IN
           /\ maint' = [maint EXCEPT !.todo = @ \ {e}, !.at = e[1],
                                     !.pc = IF spare THEN "pick" ELSE "rm4"]
           /\ pruned' = (pruned \/ (~spare /\ maint.how = "prune"))
           /\ conn' = IF ~spare /\ conn[e[2]].end = "open"
                      THEN [conn EXCEPT ![e[2]].end = "other"] ELSE conn
    /\ UNCHANGED <<role, roster, v4, v6, claim, events, cleaner, task, budget, skipped>>

MaintRemoveV4 ==
    /\ maint.pc = "rm4"
    /\ v4' = [v4 EXCEPT ![maint.at] = NoConn]
    /\ maint' = [maint EXCEPT !.pc = "rm6"]
    /\ UNCHANGED <<role, roster, conn, v6, pruned, claim, events, cleaner, task, budget, skipped>>

MaintRemoveV6 ==
    /\ maint.pc = "rm6"
    /\ v6' = NoConn
    /\ maint' = [maint EXCEPT !.pc = IF maint.how = "poll" THEN "apply" ELSE "pick"]
    /\ UNCHANGED <<role, roster, conn, v4, pruned, claim, events, cleaner, task, budget, skipped>>

\* The poller replaces the roster, or a severing pass has no entry left.
MaintDone ==
    /\ \/ maint.pc = "apply" /\ roster' = NoAddr
       \/ maint.pc = "pick" /\ maint.todo = {} /\ UNCHANGED roster
    /\ maint' = IdleMaint
    /\ UNCHANGED <<role, conn, v4, v6, pruned, claim, events, cleaner, task, budget, skipped>>

-----------------------------------------------------------------------------
Cleanup == TakeEvent \/ CheckStale \/ RemoveV4 \/ RemoveV6 \/ EditRoster \/ Decide

\* The loop of a dial task.
Redial(t) == Recheck(t) \/ Claim(t) \/ DialFails(t) \/ DialSucceeds(t)

Maintain == Published \/ Scan \/ Sever \/ MaintRemoveV4 \/ MaintRemoveV6 \/ MaintDone

Next ==
    \/ CoordinatorAccepts \/ MemberAccepts
    \/ \E c \in Conn : \/ AddV4(c) \/ AddV6(c) \/ Report(c)
                       \/ \E end \in {"left", "other"} : PeerCloses(c, end)
    \/ Cleanup
    \/ \E t \in Task : FirstDial(t) \/ Redial(t)
    \/ \E a \in Addr : List(a)
    \/ Reconverge \/ Kick \/ Poll
    \/ Maintain

\* Tasks that can run do run; a dial ends; and a dial that is tried for ever
\* succeeds some time (the peer is reachable).
Fairness ==
    /\ WF_vars(Cleanup) /\ WF_vars(Maintain)
    /\ \A c \in Conn : WF_vars(AddV4(c) \/ AddV6(c)) /\ WF_vars(Report(c))
    /\ \A t \in Task : /\ WF_vars(Recheck(t)) /\ WF_vars(Claim(t)) /\ WF_vars(FirstDial(t))
                       /\ WF_vars(DialFails(t) \/ DialSucceeds(t))
                       /\ SF_vars(DialSucceeds(t))

Spec == Init /\ [][Next]_vars /\ Fairness

-----------------------------------------------------------------------------
Dialing == {t \in Task : task[t].pc \in {"dial", "register"}}

\* At most one outbound connection to the peer is being made, although the
\* first dial and any number of redial tasks run side by side: dial_in_flight
\* is claimed before every connect and released on every way out.
OneDialInFlight == Cardinality(Dialing) <= 1 /\ (claim <=> Dialing # {})

Announced(c) ==
    \/ \E i \in 1..Len(events) : events[i].conn = c
    \/ cleaner.pc \in {"check", "rm4"} /\ cleaner.event.conn = c

\* A route never outlives its connection unnoticed: as long as the IPv4 entry
\* names a connection, its reader is still there to report its end, or the
\* report is on its way to the clean-up loop.
NoDeadRoute ==
    \A a \in Addr : v4[a] # NoConn =>
        conn[v4[a]].stage \in {"half", "up"} \/ Announced(v4[a])

HasLink == \E a \in Addr : v4[a] # NoConn /\ conn[v4[a]].end = "open"

\* The peer's route is about to go because its connection died, not because it left.
LosesRoute == cleaner.pc = "rm4" /\ ~cleaner.event.left

\* A listed peer whose connection dies is linked again, whatever the other tasks
\* do: unless the roster drops it, or it leaves on another connection, or a
\* suppression entry of an earlier removal takes the redial for the removal's own.
Relinks ==
    (LosesRoute /\ roster # NoAddr) ~>
        (HasLink \/ roster = NoAddr \/ (\E c \in Conn : conn[c].end = "left") \/ skipped)

\* A removal stops the redials: once the peer is off the roster no dial task
\* stays, unless it is listed again.
RemovalStopsDials == (roster = NoAddr) ~> (\A t \in Task : task[t].pc = "idle") \/ roster # NoAddr

\* peers.rs: "a stale connection's delayed disconnect must not evict the fresh
\* connection that already replaced it in the table": the clean-up of a
\* connection takes away entries of that connection only.
CleanupSparesOthers ==
    [][(cleaner.event.conn # NoConn /\ cleaner.pc \in {"rm4", "rm6"})
         => /\ RemoveV4 => v4[cleaner.event.addr] \in {cleaner.event.conn, NoConn}
            /\ RemoveV6 => v6 \in {cleaner.event.conn, NoConn}]_vars

\* reconverge.rs: "Runs on every node after it applies a verified roster, so a
\* kicked (or departed) peer is severed mesh-wide": once the peer is off the
\* roster no open connection to it is read any more, unless it is listed again.
RemovedIsSevered ==
    (roster = NoAddr) ~>
        (roster # NoAddr \/ \A c \in Conn : conn[c].stage = "up" => conn[c].end # "open")
=============================================================================
