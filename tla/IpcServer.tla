----------------------------- MODULE IpcServer -----------------------------
(***************************************************************************)
(* The daemon's command socket (daemon/mesh/bootstrap.rs, daemon/mod.rs)   *)
(* over the config tree: clients are admitted to a limited number of       *)
(* handlers, some of which are kept for root and the operator, their       *)
(* requests are authorised against the operator the config names, and the  *)
(* requests that change settings run the steps of ConfigStore.             *)
(***************************************************************************)
EXTENDS ConfigStore

CONSTANTS
    Client,       \* connections, each a thread of ConfigStore with one request
    Uid,          \* Uid[c]: the peer credentials of the connection
    MaxClients,   \* ipc.max-clients: handlers open to everyone
    Reserved,     \* ipc.reserved-clients: handlers kept for root and the operator
    MaxFaults     \* bound: how often accept fails or the daemon dies

ASSUME ClientsOK ==
    /\ Client \subseteq Thread
    /\ \A c \in Client : Job[c] \in {"set_operator", "activate", "status"}
    /\ \A t \in Thread \ Client : Job[t] = "config_set"
    /\ Uid \in [Client -> {"root", "operator", "other"}]
    /\ MaxClients \in Nat /\ Reserved \in Nat /\ MaxFaults \in Nat

VARIABLES
    client,   \* client[c]: where the connection is, and its slot
    paused,   \* accept_paused_until is set
    errors    \* accept failures so far

ipcVars == <<client, paused, errors>>
vars == <<storeVars, ipcVars>>

NoClient == [pc |-> "away", slot |-> "none"]
Ending(pc) == [pc |-> pc, slot |-> "none"]
Holders(kind) == {c \in Client : client[c].slot = kind}

Init ==
    /\ StoreInit
    /\ client = [c \in Client |-> NoClient]
    /\ paused = FALSE /\ errors = 0

-----------------------------------------------------------------------------
(* serve_ipc.                                                                 *)

\* The client connects; the kernel holds the connection until accept takes it.
Connect(c) ==
    /\ client[c].pc = "away"
    /\ client' = [client EXCEPT ![c].pc = "queued"]
    /\ UNCHANGED <<storeVars, paused, errors>>

\* is_privileged_uid, with the operator a load of the config gives.
Privileged(c) == Uid[c] = "root" \/ (Uid[c] = "operator" /\ "set_operator" \in LoadNow)

\* A slip for the mutants: whoever finds the general slots full gets a reserved one.
TryAdmitAnyone(c) ==
    IF Cardinality(Holders("general")) < MaxClients THEN "general"
    ELSE IF Cardinality(Holders("reserve")) < Reserved THEN "reserve"
    ELSE "none"

\* IpcSlots::try_admit: a general slot, or a reserved one for the privileged.
TryAdmit(c) ==
    IF Cardinality(Holders("general")) < MaxClients THEN "general"
    ELSE IF Privileged(c) /\ Cardinality(Holders("reserve")) < Reserved THEN "reserve"
    ELSE "none"

\* The accept branch: a handler is spawned with its permit, or the busy reply is
\* written and the connection closed.  The config is read only for a caller that
\* is not root and finds the general slots full.
Accept(c) ==
    /\ client[c].pc = "queued" /\ ~paused
    /\ client' = [client EXCEPT ![c] = IF TryAdmit(c) = "none" THEN Ending("busy")
                                       ELSE [pc |-> "accepted", slot |-> TryAdmit(c)]]
    /\ cache' = IF Cardinality(Holders("general")) = MaxClients /\ Uid[c] # "root"
                THEN CacheNow ELSE cache
    /\ UNCHANGED <<clock, disk, dirtime, tmp, lock, thread, crashes, overlap, slow,
                   paused, errors>>

\* accept fails: the branch is gated off until the backoff has passed.
AcceptFails ==
    /\ ~paused /\ errors + crashes < MaxFaults
    /\ paused' = TRUE /\ errors' = errors + 1
    /\ UNCHANGED <<storeVars, client>>

\* The sleep_until branch.
Resume ==
    /\ paused /\ paused' = FALSE
    /\ UNCHANGED <<storeVars, client, errors>>

-----------------------------------------------------------------------------
(* handle_ipc_client.                                                         *)

\* The handler's first act is to load the config, for its time limits.
ReadLimits(c) ==
    /\ client[c].pc = "accepted"
    /\ client' = [client EXCEPT ![c].pc = "request"]
    /\ cache' = CacheNow
    /\ UNCHANGED <<clock, disk, dirtime, tmp, lock, thread, crashes, overlap, slow,
                   paused, errors>>

\* A slip for the mutants: a client in a reserved slot is waited for without end.
RequestTimesOutGeneral(c) ==
    /\ client[c].pc = "request" /\ client[c].slot = "general"
    /\ client' = [client EXCEPT ![c] = Ending("gone")]
    /\ UNCHANGED <<storeVars, paused, errors>>

\* recv_request_bounded gives up: the client did not speak.
RequestTimesOut(c) ==
    /\ client[c].pc = "request"
    /\ client' = [client EXCEPT ![c] = Ending("gone")]
    /\ UNCHANGED <<storeVars, paused, errors>>

\* The request does not decode: the reason goes back.
BadRequest(c) ==
    /\ client[c].pc = "request"
    /\ client' = [client EXCEPT ![c].pc = "reply"]
    /\ UNCHANGED <<storeVars, paused, errors>>

\* A slip for the mutants: any local user may change settings.
Anyone(c) == Job[c] = "set_operator" => Uid[c] = "root"

\* check_authorized: reads are open, root may do anything, naming the operator
\* is root's, and the rest is the operator's.
CheckAuthorized(c) ==
    \/ Job[c] = "status"
    \/ Uid[c] = "root"
    \/ Job[c] # "set_operator" /\ Uid[c] = "operator" /\ "set_operator" \in LoadNow

\* The request arrives; handle_request authorises it and runs it, or answers that
\* it is refused.
Request(c) ==
    /\ client[c].pc = "request"
    /\ client' = [client EXCEPT ![c].pc = IF CheckAuthorized(c) THEN "run" ELSE "reply"]
    /\ cache' = IF Job[c] # "status" /\ Uid[c] # "root" /\ Job[c] # "set_operator"
                THEN CacheNow ELSE cache
    /\ UNCHANGED <<clock, disk, dirtime, tmp, lock, thread, crashes, overlap, slow,
                   paused, errors>>

\* The request at work on the config.
Run(c) ==
    /\ client[c].pc = "run"
    /\ SettingsStep(c) \/ SaveStep(c)
    /\ UNCHANGED ipcVars

\* send_reply_bounded, sent or timed out; the permit goes with the task.
Reply(c) ==
    /\ client[c].pc = "reply" \/ (client[c].pc = "run" /\ thread[c].pc = "done")
    /\ client' = [client EXCEPT ![c] = Ending("answered")]
    /\ UNCHANGED <<storeVars, paused, errors>>

-----------------------------------------------------------------------------
(* The command line and the world.                                            *)

\* tetron config set, a process of its own.
ConfigSet(t) == (SettingsStep(t) \/ SaveStep(t)) /\ UNCHANGED ipcVars

Time == Tick /\ UNCHANGED ipcVars

\* The daemon dies and starts again: its connections are closed.
Restart ==
    /\ errors + crashes < MaxFaults /\ Crash
    /\ client' = [c \in Client |->
                     IF client[c].pc \in {"queued", "accepted", "request", "run", "reply"} THEN Ending("gone")
                     ELSE client[c]]
    /\ paused' = FALSE /\ errors' = errors

Next ==
    \/ \E c \in Client : \/ Connect(c) \/ Accept(c) \/ ReadLimits(c)
                         \/ RequestTimesOut(c) \/ BadRequest(c)
                         \/ Request(c) \/ Run(c) \/ Reply(c)
    \/ AcceptFails \/ Resume
    \/ \E t \in Thread \ Client : ConfigSet(t)
    \/ Time \/ Restart

Spec == Init /\ [][Next]_vars

\* The loop goes on, the pause ends, both timeouts fire, and a request that has
\* begun goes on: it is plain file work.
Fairness ==
    /\ WF_vars(Resume)
    /\ \A c \in Client : /\ WF_vars(Accept(c)) /\ WF_vars(ReadLimits(c))
                         /\ WF_vars(RequestTimesOut(c))
                         /\ WF_vars(Run(c)) /\ WF_vars(Reply(c))
FairSpec == Spec /\ Fairness

-----------------------------------------------------------------------------
(* Properties.                                                                *)

\* The types of the variables; a permit is held from accept to reply, and the two
\* pools are never overdrawn (IpcSlots).
TypeOK ==
    /\ StoreTypeOK
    /\ paused \in BOOLEAN /\ errors \in 0..MaxFaults
    /\ \A c \in Client : client[c].slot # "none" <=>
           client[c].pc \in {"accepted", "request", "run", "reply"}
    /\ Cardinality(Holders("general")) <= MaxClients
    /\ Cardinality(Holders("reserve")) <= Reserved

\* IpcSlots: "a full general pool cannot lock the administrator out".  Root, or
\* the operator settings.toml names, is turned away only when others of them have
\* all the reserved handlers, also right after the operator has been named.
AdminGetsIn ==
    [][\A c \in Client :
          /\ client[c].pc = "queued" /\ client'[c].pc = "busy"
          /\ Uid[c] = "root" \/ (Uid[c] = "operator" /\ "set_operator" \in disk["settings"].has)
          => \/ slow
             \/ /\ Cardinality(Holders("reserve")) = Reserved
                /\ \A d \in Holders("reserve") : Uid[d] # "other"]_vars

\* check_authorized and set_operator: settings are changed for root, and for the
\* operator, who is the one settings.toml names unless overlapping saves have lost
\* the name; nobody else's request gets as far as the config.
OnlyAuthorised ==
    \A c \in Client :
        Writes(c) /\ thread[c].pc # "idle" =>
            \/ Uid[c] = "root"
            \/ /\ Uid[c] = "operator" /\ Job[c] # "set_operator"
               /\ "set_operator" \in disk["settings"].has \/ overlap["settings"] # {} \/ slow

\* serve_ipc and handle_ipc_client: every connection comes to an end, with an
\* answer, the busy reply or a timeout, however often accept fails and whether or
\* not clients speak or read.
EveryoneAnswered == <>[](\A c \in Client : client[c].pc \in {"away", "busy", "gone", "answered"})
=============================================================================
