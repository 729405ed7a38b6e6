------------------------------ MODULE Networks ------------------------------
(***************************************************************************)
(* The networks of one daemon: how they are created, joined, restored at   *)
(* start, promoted, put on standby and left, by tasks that run at once.    *)
(*                                                                         *)
(*   mesh/create_join.rs  create_network_inner, join_network_inner         *)
(*   mesh/runtime.rs      restore, activate, deactivate, leave             *)
(*   mesh/bootstrap.rs    start-up, and the loop that takes promotions and *)
(*                        removals                                         *)
(*   mod.rs               NetworkHandle, accept handlers, ALPNs, TUN       *)
(*                                                                         *)
(* A step is what a task does between two awaits; the network table is a   *)
(* DashMap, whose shard locks block the thread and not just the task.      *)
(***************************************************************************)
EXTENDS Naturals, Sequences, FiniteSets

CONSTANTS
    Name,     \* local names of networks, one network key each
    Sess,     \* runtime incarnations: a NetworkState with its tasks
    None,
    Workers,  \* worker threads of the runtime
    Overlap,  \* may a name be joined anew while the daemon is still leaving it?
    MaxOps    \* bound on commands, roster changes, grants and restarts

ASSUME NetworksAssumption ==
    /\ None \notin Sess /\ None \notin Name
    /\ Workers \in Nat \ {0} /\ MaxOps \in Nat /\ Overlap \in BOOLEAN

VARIABLES
    networks,  \* MeshManager.networks: the handle of a name
    sess,      \* the incarnations: state, role, data plane, membership
    router,    \* ProtocolRouter: accept handler of a network's ALPN
    alpns,     \* the ALPNs the endpoint advertises
    config,    \* networks/<name>.toml: none, a member's, or with the network key
    default,   \* MeshManager.active: data plane of a network to come
    op,        \* the create, join, restore or leave in progress for a name
    act,       \* the resume in progress
    srv,       \* the serve_ipc loop
    promoteQ, leftQ,   \* its two channels
    shared,    \* do all names fall in one shard of the table?
    touched,   \* history: a resume or a standby since the daemon started
    budget

vars == <<networks, sess, router, alpns, config, default, op, act, srv, promoteQ, leftQ,
          shared, touched, budget>>

FreeSess == [stage |-> "free", name |-> None, joined |-> FALSE, hasKey |-> FALSE, role |-> "Member",
             active |-> FALSE, dev |-> "none", routes |-> FALSE, removed |-> FALSE, told |-> {}]
NoHandler == [sess |-> None, kind |-> "Member"]
NoOp == [kind |-> "none", pc |-> "idle", sess |-> None]
NoAct == [pc |-> "idle", todo |-> {}, at |-> None, boot |-> FALSE]
NoSrv == [pc |-> "idle", name |-> None, sess |-> None]

\* Every variable has its type, and no two names share a handle.
TypeOK ==
    /\ networks \in [Name -> Sess \cup {None}]
    /\ sess \in [Sess -> [stage : {"free", "live", "dead"}, name : Name \cup {None}, joined : BOOLEAN,
                          hasKey : BOOLEAN, role : {"Member", "Coordinator"}, active : BOOLEAN,
                          dev : {"none", "up", "down"}, routes : BOOLEAN, removed : BOOLEAN,
                          told : SUBSET {"poller", "worker"}]]
    /\ router \in [Name -> [sess : Sess \cup {None}, kind : {"Member", "Coordinator"}]]
    /\ alpns \subseteq Name /\ config \in [Name -> {"absent", "member", "coordinator"}]
    /\ op \in [Name -> [kind : {"none", "create", "join", "restore", "leave"},
                        pc : {"idle", "publish", "dial", "meshed", "insert", "tun", "remove", "stop"},
                        sess : Sess \cup {None}]]
    /\ act \in [pc : {"idle", "start", "loop", "route"}, todo : SUBSET Name,
                at : Name \cup {None}, boot : BOOLEAN]
    /\ srv \in [pc : {"idle", "remove", "stop"}, name : Name \cup {None}, sess : Sess \cup {None}]
    /\ promoteQ \in Seq(Name) /\ leftQ \in Seq(Name)
    /\ default \in BOOLEAN /\ shared \in BOOLEAN /\ touched \in BOOLEAN /\ budget \in 0..MaxOps
    /\ \A n \in Name : networks[n] # None =>
           sess[networks[n]].stage = "live" /\ sess[networks[n]].name = n

-----------------------------------------------------------------------------
\* connect_all_networks: a task per saved network, restored when its key is in
\* the config and joined again otherwise; and the activate that follows.
BootOp(n) ==
    IF config[n] = "absent" THEN NoOp
    ELSE IF config[n] = "coordinator" THEN [kind |-> "restore", pc |-> "publish", sess |-> None]
    ELSE [kind |-> "join", pc |-> "dial", sess |-> None]

\* initial_alpns: the saved networks' ALPNs are advertised before they are up.
Saved == {n \in Name : config[n] # "absent"}

BootAct == [pc |-> "start", todo |-> {}, at |-> None, boot |-> TRUE]

\* run_daemon with any saved networks, about to serve.
Init ==
    /\ config \in [Name -> {"absent", "member", "coordinator"}]
    /\ networks = [n \in Name |-> None] /\ sess = [s \in Sess |-> FreeSess]
    /\ router = [n \in Name |-> NoHandler] /\ alpns = Saved /\ default = FALSE
    /\ op = [n \in Name |-> BootOp(n)] /\ act = BootAct
    /\ srv = NoSrv /\ promoteQ = <<>> /\ leftQ = <<>> /\ touched = FALSE
    /\ shared \in BOOLEAN /\ budget = MaxOps

Booted == ~act.boot
Spend == budget > 0 /\ budget' = budget - 1
NewSess == CHOOSE s \in Sess : sess[s].stage = "free"

\* activate keeps its reference into the table over the await that installs
\* the routes: until then an insert or a remove in that shard blocks its thread.
Held(n) == act.pc = "route" /\ (n = act.at \/ shared)
Blocked == {n \in Name : op[n].pc \in {"insert", "remove"} /\ Held(n)}
Runs == Cardinality(Blocked) < Workers

Registered(r) == {n \in Name : r[n] # NoHandler}

-----------------------------------------------------------------------------
(* create_network_inner, join_network_inner, restore_coordinator_network.   *)

\* The daemon is leaving the name, or a message that it should is on its way.
Leaving(n) ==
    \/ srv.name = n \/ \E i \in DOMAIN leftQ : leftQ[i] = n
    \/ \E s \in Sess : sess[s].name = n /\ sess[s].removed /\ sess[s].joined /\ "worker" \notin sess[s].told

MayStart(n) == Booted /\ Runs /\ op[n] = NoOp /\ (Leaving(n) => Overlap)

StartCreate(n) ==
    /\ MayStart(n) /\ Spend /\ networks[n] = None
    /\ op' = [op EXCEPT ![n] = [kind |-> "create", pc |-> "publish", sess |-> None]]
    /\ UNCHANGED <<networks, sess, router, alpns, config, default, act, srv, promoteQ, leftQ, shared, touched>>


StartJoin(n) ==
    /\ MayStart(n) /\ Spend /\ networks[n] = None
    /\ op' = [op EXCEPT ![n] = [kind |-> "join", pc |-> "dial", sess |-> None]]
    /\ UNCHANGED <<networks, sess, router, alpns, config, default, act, srv, promoteQ, leftQ, shared, touched>>

\* No coordinator answers, the restored roster contradicts the subnet, or the
\* config of a created network cannot be saved.
Fails(n) ==
    /\ Runs /\ op[n].pc \in {"dial", "publish"}
    /\ op' = [op EXCEPT ![n] = NoOp]
    /\ UNCHANGED <<networks, sess, router, alpns, config, default, act, srv, promoteQ, leftQ, shared,
                   touched, budget>>

NewCoordinator(n) == [FreeSess EXCEPT !.stage = "live", !.name = n, !.hasKey = TRUE,
                                      !.role = "Coordinator"]

\* create_network_inner: the blob is published, the config is saved and the
\* tasks are spawned.
Save(n) ==
    LET s == NewSess IN
    /\ Runs /\ op[n].pc = "publish" /\ op[n].kind = "create"
    /\ config' = [config EXCEPT ![n] = "coordinator"]
    /\ sess' = [sess EXCEPT ![s] = NewCoordinator(n)]
    /\ op' = [op EXCEPT ![n].pc = "insert", ![n].sess = s]
    /\ UNCHANGED <<networks, router, alpns, default, act, srv, promoteQ, leftQ, shared, touched, budget>>

\* restore_coordinator_network saves the config again and registers its handler
\* before the handle is in the table.
RestoreCoordinator(n) ==
    LET s == NewSess IN
    /\ Runs /\ op[n].pc = "publish" /\ op[n].kind = "restore"
    /\ sess' = [sess EXCEPT ![s] = NewCoordinator(n)]
    /\ config' = [config EXCEPT ![n] = "coordinator"]
    /\ router' = [router EXCEPT ![n] = [sess |-> s, kind |-> "Coordinator"]]
    /\ op' = [op EXCEPT ![n].pc = "insert", ![n].sess = s]
    /\ UNCHANGED <<networks, alpns, default, act, srv, promoteQ, leftQ, shared, touched, budget>>

\* join_mesh_shared: welcomed; persist_join_config writes a config without a
\* key, and the reconverge worker and the control listener are spawned.
JoinMesh(n) ==
    LET s == NewSess IN
    /\ Runs /\ op[n].pc = "dial"
    /\ config' = [config EXCEPT ![n] = "member"]
    /\ sess' = [sess EXCEPT ![s] = [FreeSess EXCEPT !.stage = "live", !.name = n, !.joined = TRUE]]
    /\ op' = [op EXCEPT ![n].pc = "meshed", ![n].sess = s]
    /\ UNCHANGED <<networks, router, alpns, default, act, srv, promoteQ, leftQ, shared, touched, budget>>

\* finalize_join up to its await: the handler for the key held at this moment.
FinRegister(n) ==
    LET s == op[n].sess IN
    /\ Runs /\ op[n].pc = "meshed"
    /\ router' = [router EXCEPT ![n] = [sess |-> s,
                      kind |-> IF sess[s].hasKey THEN "Coordinator" ELSE "Member"]]
    /\ op' = [op EXCEPT ![n].pc = "insert"]
    /\ UNCHANGED <<networks, sess, alpns, config, default, act, srv, promoteQ, leftQ, shared, touched, budget>>


\* The handle goes into the table; refresh_alpns.
Insert(n) ==
    LET s == op[n].sess IN
    /\ op[n].pc = "insert" /\ ~Held(n)
    /\ networks' = [networks EXCEPT ![n] = s]
    /\ router' = IF op[n].kind = "create"
                 THEN [router EXCEPT ![n] = [sess |-> s, kind |-> "Coordinator"]] ELSE router
    /\ alpns' = Registered(router')
    /\ op' = [op EXCEPT ![n].pc = "tun"]
    /\ UNCHANGED <<sess, config, default, act, srv, promoteQ, leftQ, shared, touched, budget>>

\* create_and_attach_network_tun after tun::create, which may fail.  The device
\* is created with its link up; routes come with an active data plane.
TunReady(n) ==
    LET s == networks[n] IN
    /\ Runs /\ op[n].pc = "tun"
    /\ op' = [op EXCEPT ![n] = NoOp]
    /\ \/ UNCHANGED sess
       \/ /\ s # None
          /\ sess' = [sess EXCEPT ![s].dev = "up", ![s].active = @ \/ default, ![s].routes = default]
    /\ UNCHANGED <<networks, router, alpns, config, default, act, srv, promoteQ, leftQ, shared, touched, budget>>

-----------------------------------------------------------------------------
(* leave_network, by the user or by the loop for a membership that is gone. *)

\* teardown_network_runtime up to its await: out of the table, tasks cancelled.
RemoveHandle(n) ==
    LET s == networks[n] IN
    /\ networks' = [networks EXCEPT ![n] = None]
    /\ sess' = IF s = None THEN sess ELSE [sess EXCEPT ![s].stage = "dead"]

\* What is left of an incarnation that is torn down: nothing, or a reconverge
\* worker that has yet to see the removal.
Remains(r) ==
    IF r.removed /\ r.joined /\ "worker" \notin r.told
    THEN [FreeSess EXCEPT !.stage = "dead", !.name = r.name, !.joined = TRUE, !.removed = TRUE]
    ELSE FreeSess

\* The rest of it: data plane and device, handler and ALPNs; then the config.
StopRuntime(n, s) ==
    /\ sess' = IF s = None THEN sess ELSE [sess EXCEPT ![s] = Remains(@)]
    /\ router' = IF s = None THEN router ELSE [router EXCEPT ![n] = NoHandler]
    /\ alpns' = IF s = None THEN alpns ELSE Registered(router')
    /\ config' = [config EXCEPT ![n] = "absent"]

StartLeave(n) ==
    /\ Booted /\ Runs /\ op[n] = NoOp /\ Spend
    /\ networks[n] # None \/ config[n] # "absent"
    /\ op' = [op EXCEPT ![n] = [kind |-> "leave", pc |-> "remove", sess |-> None]]
    /\ UNCHANGED <<networks, sess, router, alpns, config, default, act, srv, promoteQ, leftQ, shared, touched>>

\* A sole coordinator that cannot promote every member stays, without --force.
Refuse(n) ==
    /\ Runs /\ op[n].pc = "remove" /\ networks[n] # None /\ sess[networks[n]].hasKey
    /\ op' = [op EXCEPT ![n] = NoOp]
    /\ UNCHANGED <<networks, sess, router, alpns, config, default, act, srv, promoteQ, leftQ, shared,
                   touched, budget>>

Remove(n) ==
    /\ op[n].pc = "remove" /\ ~Held(n)
    /\ RemoveHandle(n)
    /\ op' = [op EXCEPT ![n].pc = "stop", ![n].sess = networks[n]]
    /\ UNCHANGED <<router, alpns, config, default, act, srv, promoteQ, leftQ, shared, touched, budget>>

Stop(n) ==
    /\ Runs /\ op[n].pc = "stop"
    /\ StopRuntime(n, op[n].sess)
    /\ op' = [op EXCEPT ![n] = NoOp]
    /\ UNCHANGED <<networks, default, act, srv, promoteQ, leftQ, shared, touched, budget>>

-----------------------------------------------------------------------------
(* What happens to a running membership.                                    *)

\* AdminGrant: the key goes into the config, if there is one, and into the
\* state; the loop is told.
Grant(s) ==
    LET n == sess[s].name IN
    /\ Runs /\ Spend /\ sess[s].stage = "live" /\ sess[s].joined /\ ~sess[s].hasKey
    /\ sess' = [sess EXCEPT ![s].hasKey = TRUE]
    /\ config' = [config EXCEPT ![n] = IF @ = "absent" THEN @ ELSE "coordinator"]
    /\ promoteQ' = Append(promoteQ, n)
    /\ UNCHANGED <<networks, router, alpns, default, op, act, srv, leftQ, shared, touched>>

\* The signed roster no longer lists this node.
RosterDrops(s) ==
    /\ Spend /\ sess[s].stage = "live" /\ ~sess[s].removed
    /\ sess' = [sess EXCEPT ![s].removed = TRUE]
    /\ UNCHANGED <<networks, router, alpns, config, default, op, act, srv, promoteQ, leftQ, shared, touched>>

\* Slip: whoever comes second says nothing.
SeesRemovalOnce(s, who) ==
    /\ Runs /\ sess[s].removed /\ sess[s].told = {}
    /\ IF who = "poller" THEN networks[sess[s].name] = s ELSE sess[s].joined
    /\ sess' = [sess EXCEPT ![s].told = {who}]
    /\ leftQ' = Append(leftQ, sess[s].name)
    /\ UNCHANGED <<networks, router, alpns, config, default, op, act, srv, promoteQ, shared, touched, budget>>

\* The poller, which a network has once its handle is there, or the reconverge
\* worker of a joined one sees it.  The worker looks at its token only between
\* two rounds: it may see it after the network has been left.
SeesRemoval(s, who) ==
    /\ Runs /\ sess[s].removed /\ who \notin sess[s].told
    /\ IF who = "poller" THEN networks[sess[s].name] = s ELSE sess[s].joined
    /\ sess' = [sess EXCEPT ![s] = IF @.stage = "live" \/ srv.sess = s \/ op[@.name].sess = s
                                   THEN [@ EXCEPT !.told = @ \cup {who}] ELSE FreeSess]
    /\ leftQ' = Append(leftQ, sess[s].name)
    /\ UNCHANGED <<networks, router, alpns, config, default, op, act, srv, promoteQ, shared, touched, budget>>

-----------------------------------------------------------------------------
(* serve_ipc: one promotion or one removal at a time.                       *)

\* promote_to_coordinator
Promote ==
    LET n == Head(promoteQ)
        s == networks[n]
        swaps == s # None /\ sess[s].role = "Member" IN
    /\ Booted /\ srv = NoSrv /\ promoteQ # <<>>
    /\ promoteQ' = Tail(promoteQ)
    /\ router' = IF swaps THEN [router EXCEPT ![n] = [sess |-> s, kind |-> "Coordinator"]] ELSE router
    /\ sess' = IF swaps THEN [sess EXCEPT ![s].role = "Coordinator"] ELSE sess
    /\ alpns' = IF swaps THEN Registered(router') ELSE alpns
    /\ UNCHANGED <<networks, config, default, op, act, srv, leftQ, shared, touched, budget>>

\* handle_removed_from_network: leave_network with force.
TakeLeft ==
    LET n == Head(leftQ) IN
    /\ Booted /\ srv = NoSrv /\ leftQ # <<>>
    /\ leftQ' = Tail(leftQ)
    /\ srv' = IF networks[n] = None /\ config[n] = "absent" THEN NoSrv
              ELSE [pc |-> "remove", name |-> n, sess |-> None]
    /\ UNCHANGED <<networks, sess, router, alpns, config, default, op, act, promoteQ, shared, touched, budget>>

SrvRemove ==
    /\ srv.pc = "remove" /\ ~Held(srv.name)
    /\ RemoveHandle(srv.name)
    /\ srv' = [srv EXCEPT !.pc = "stop", !.sess = networks[srv.name]]
    /\ UNCHANGED <<router, alpns, config, default, op, act, promoteQ, leftQ, shared, touched, budget>>

SrvStop ==
    /\ srv.pc = "stop"
    /\ StopRuntime(srv.name, srv.sess)
    /\ srv' = NoSrv
    /\ UNCHANGED <<networks, default, op, act, promoteQ, leftQ, shared, touched, budget>>

-----------------------------------------------------------------------------
(* activate and deactivate, for all networks or for one.                    *)

StartResume(scope) ==
    /\ Booted /\ Runs /\ act = NoAct /\ Spend
    /\ scope = Name \/ \E n \in Name : scope = {n} /\ networks[n] # None
    /\ act' = [NoAct EXCEPT !.pc = IF scope = Name THEN "start" ELSE "loop",
                            !.todo = IF scope = Name THEN {} ELSE scope]
    /\ touched' = TRUE
    /\ UNCHANGED <<networks, sess, router, alpns, config, default, op, srv, promoteQ, leftQ, shared>>

\* The default is set before the table is read.
ActAll ==
    /\ act.pc = "start" /\ (act.boot \/ Runs)
    /\ default' = TRUE
    /\ act' = [act EXCEPT !.pc = "loop", !.todo = {n \in Name : networks[n] # None}]
    /\ UNCHANGED <<networks, sess, router, alpns, config, op, srv, promoteQ, leftQ, shared, touched, budget>>

\* One network, unless it is active already: its flag and its link.
ActOne(n) ==
    LET s == networks[n] IN
    /\ act.pc = "loop" /\ n \in act.todo /\ (act.boot \/ Runs)
    /\ IF s = None \/ sess[s].active
       THEN act' = [act EXCEPT !.todo = @ \ {n}] /\ UNCHANGED sess
       ELSE /\ act' = [act EXCEPT !.pc = "route", !.todo = @ \ {n}, !.at = n]
            /\ sess' = [sess EXCEPT ![s].active = TRUE,
                                    ![s].dev = IF @ = "none" THEN "none" ELSE "up"]
    /\ UNCHANGED <<networks, router, alpns, config, default, op, srv, promoteQ, leftQ, shared, touched, budget>>

\* The netlink task, which needs a thread, has installed the routes, or failed
\* because there was no device when activate looked.
ActRoute ==
    LET s == networks[act.at] IN
    /\ act.pc = "route" /\ Runs
    /\ sess' = [sess EXCEPT ![s].routes = (sess[s].dev = "up") \/ @]
    /\ act' = [act EXCEPT !.pc = "loop", !.at = None]
    /\ UNCHANGED <<networks, router, alpns, config, default, op, srv, promoteQ, leftQ, shared, touched, budget>>

ActDone ==
    /\ act.pc = "loop" /\ act.todo = {}
    /\ act' = NoAct
    /\ UNCHANGED <<networks, sess, router, alpns, config, default, op, srv, promoteQ, leftQ, shared,
                   touched, budget>>

\* deactivate has no await.
Standby(scope) ==
    LET down == {networks[n] : n \in scope} \ {None} IN
    /\ Booted /\ Runs /\ Spend
    /\ scope = Name \/ \E n \in Name : scope = {n} /\ networks[n] # None
    /\ default' = IF scope = Name THEN FALSE ELSE default
    /\ sess' = [s \in Sess |->
                   IF s \in down /\ sess[s].active
                   THEN [sess[s] EXCEPT !.active = FALSE, !.routes = FALSE,
                                        !.dev = IF @ = "none" THEN "none" ELSE "down"]
                   ELSE sess[s]]
    /\ touched' = TRUE
    /\ UNCHANGED <<networks, router, alpns, config, op, act, srv, promoteQ, leftQ, shared>>

\* The process dies and is started again: the config is all that is left.
Restart ==
    /\ Spend
    /\ networks' = [n \in Name |-> None] /\ sess' = [s \in Sess |-> FreeSess]
    /\ router' = [n \in Name |-> NoHandler] /\ alpns' = Saved /\ default' = FALSE
    /\ op' = [n \in Name |-> BootOp(n)] /\ act' = BootAct
    /\ srv' = NoSrv /\ promoteQ' = <<>> /\ leftQ' = <<>> /\ touched' = FALSE
    /\ UNCHANGED <<config, shared>>

-----------------------------------------------------------------------------
Scopes == {Name} \cup {{n} : n \in Name}

OpStep(n) ==
    \/ Fails(n) \/ Save(n) \/ RestoreCoordinator(n) \/ JoinMesh(n) \/ FinRegister(n)
    \/ Insert(n) \/ TunReady(n) \/ Refuse(n) \/ Remove(n) \/ Stop(n)

Resuming == ActAll \/ ActRoute \/ ActDone \/ \E n \in Name : ActOne(n)
Serving == Promote \/ TakeLeft \/ SrvRemove \/ SrvStop

Next ==
    \/ \E n \in Name : StartCreate(n) \/ StartJoin(n) \/ StartLeave(n) \/ OpStep(n)
    \/ \E s \in Sess : Grant(s) \/ RosterDrops(s) \/ \E who \in {"poller", "worker"} : SeesRemoval(s, who)
    \/ Serving \/ Resuming \/ Restart
    \/ \E scope \in Scopes : StartResume(scope) \/ Standby(scope)

\* Tasks that can run do; the poller comes round; the loop takes both channels.
Fairness ==
    /\ \A n \in Name : WF_vars(OpStep(n))
    /\ \A s \in Sess : WF_vars(SeesRemoval(s, "poller"))
    /\ WF_vars(Resuming) /\ WF_vars(SrvRemove) /\ WF_vars(SrvStop)
    /\ SF_vars(Promote) /\ SF_vars(TakeLeft)

Spec == Init /\ [][Next]_vars /\ Fairness

-----------------------------------------------------------------------------
\* Nothing is in progress for a name.
Settled(n) == op[n] = NoOp /\ srv.name # n


\* A network that is up is served: its own accept handler is registered under
\* its ALPN and the endpoint advertises it; and one that is not in the table has
\* no device left.
HandlerServed ==
    \A n \in Name : Settled(n) =>
        /\ networks[n] # None => router[n].sess = networks[n] /\ n \in alpns
        /\ networks[n] = None => \A s \in Sess : sess[s].name = n => sess[s].dev = "none"

\* A network that is up is in the config, so that a restart brings it back, and
\* the network key it has is in there too: the grant, the two saves of a join and
\* the delete of a leave do not undo one another.
SavedWhileUp ==
    \A n \in Name : Settled(n) /\ networks[n] # None /\ ~sess[networks[n]].removed =>
        config[n] = IF sess[networks[n]].hasKey THEN "coordinator" ELSE "member"

\* create_and_attach_network_tun says of the boot-time race with activate that
\* the default "is not a hard guarantee"; it is one: whichever of restore and
\* activate comes first, every device ends up active, up and routed.
BootBringsUp ==
    \A n \in Name :
        Settled(n) /\ act = NoAct /\ ~touched /\ networks[n] # None /\ sess[networks[n]].dev # "none" =>
            sess[networks[n]].active /\ sess[networks[n]].dev = "up" /\ sess[networks[n]].routes


\* A membership the signed roster has dropped is left, also when the worker's
\* message came before there was a handle, and in the middle of a leave.
RemovedLeaves == <>[](\A s \in Sess : sess[s].removed => sess[s].stage # "live")


\* AdminGrant: "Signal the daemon loop to swap this network's accept handler to
\* coordinator so it can admit fresh joiners".
PromotionHonoured ==
    <>[](\A n \in Name : networks[n] # None /\ sess[networks[n]].hasKey => router[n].kind = "Coordinator")

\* handle_removed_from_network leaves a network "after a network's poller or
\* reconverge worker (CONVERGE-003) determined the local node is no longer in the
\* authoritative roster".
OnlyRemovedAreLeft ==
    [][SrvRemove /\ networks[srv.name] # None => sess[networks[srv.name]].removed]_vars
=============================================================================
