---------------------------- MODULE VeilidClient ----------------------------
(***************************************************************************)
(* The client of the companion tetron-veilid daemon, and how the identity  *)
(* it learns there reaches the signed roster.                              *)
(*                                                                         *)
(* One actor owns the socket: it writes the requests of its callers, gives *)
(* each an id, hands every response to the caller that waits for that id,  *)
(* and dials again when the connection is lost.  Callers are the sends of  *)
(* QUIC datagrams and the loops that ask for this node's own identity, one *)
(* at start and one after every reconnect.                                 *)
(*                                                                         *)
(*   veilid-transport/src/client.rs  the actor, its callers, the poll loop *)
(*   transport.rs                    the cell the daemon reads             *)
(*   mesh/runtime.rs                 the passes that put it on the roster  *)
(*                                                                         *)
(* Left out: how long the actor waits between two dials (it dials for      *)
(* ever) and pushed datagrams, which no caller waits for.                  *)
(***************************************************************************)
EXTENDS Naturals, Sequences, FiniteSets, Functions

CONSTANTS
    Sender,        \* sends of datagrams
    MaxLink,       \* bound on connections to the companion daemon
    MaxEpoch,      \* bound on starts of the companion daemon
    PollAttempts,  \* IDENTITY_POLL_ATTEMPTS (600)
    MaxAdopt       \* bound on rosters adopted meanwhile

ASSUME VeilidAssumption ==
    /\ MaxLink \in Nat \ {0} /\ MaxEpoch \in Nat \ {0}
    /\ PollAttempts \in Nat \ {0} /\ MaxAdopt \in Nat
    /\ Sender \cap (1..MaxLink) = {}

VARIABLES
    companion,   \* tetron-veilid: its starts (each is an identity), up, attached
    link,        \* the actor: number of connections so far, in use, still alive
    rc,          \* ClientHandle::rc_id: the connection that issued the context
    queue,       \* cmd_rx: callers whose request the actor has not taken
    pending,     \* serve_one_connection's table: id -> caller
    nextId,      \* its next request id
    asked,       \* requests the companion daemon holds
    inbox,       \* response lines it wrote and the actor has not read
    half,        \* the first of them has been read in part
    call,        \* the callers
    node,        \* node_id_tx: the identity last resolved, 0 for none
    slot,        \* the cell MeshManager::veilid_node_id reads
    network,     \* a coordinated network: restored yet, its own roster entry
    adopts,      \* rosters adopted so far
    cut,         \* history: callers whose response line was torn
    stale        \* history: a context of an earlier connection was written, or
                 \* an older answer overwrote a newer one

companionVars == <<companion, asked>>
actorVars == <<link, rc, queue, pending, nextId, inbox, half>>
rosterVars == <<slot, network, adopts>>
veilidVars == <<companionVars, actorVars, call, node, rosterVars, cut, stale>>

None == 0
Poller == 1..MaxLink       \* the poll loop started with each connection
Caller == Sender \cup Poller

Idle == [pc |-> "idle", ctx |-> None, reply |-> "none", from |-> None, tries |-> None]
Looping == [Idle EXCEPT !.pc = "built", !.tries = PollAttempts]

Waiting == {"built", "queued", "sent"}

\* The types of the variables.
VeilidTypeOK ==
    /\ companion \in [epoch : 1..MaxEpoch, up : BOOLEAN, attached : BOOLEAN]
    /\ link \in [n : 1..MaxLink, open : BOOLEAN, alive : BOOLEAN]
    /\ rc \in 1..MaxLink /\ queue \in Seq(Caller)
    /\ DOMAIN pending \subseteq Nat /\ Range(pending) \subseteq Caller
    /\ nextId \in Nat /\ asked \subseteq (Nat \X Caller)
    /\ \A i \in 1..Len(inbox) : inbox[i].id \in Nat /\ inbox[i].caller \in Caller
    /\ half \in BOOLEAN /\ (half => inbox # <<>>)
    /\ \A c \in Caller : call[c].pc \in Waiting \cup {"idle", "ready", "done"}
    /\ node \in 0..MaxEpoch /\ slot \in 0..MaxEpoch
    /\ network \in [restored : BOOLEAN, entry : 0..MaxEpoch]
    /\ adopts \in 0..MaxAdopt /\ cut \subseteq Caller
    /\ stale \in [ctx : BOOLEAN, node : BOOLEAN]

\* VeilidTransportBuilder::build: the handshake is done, the actor and the
\* first poll loop run; no network has been restored yet.
VeilidInit ==
    /\ companion = [epoch |-> 1, up |-> TRUE, attached |-> FALSE]
    /\ link = [n |-> 1, open |-> TRUE, alive |-> TRUE] /\ rc = 1
    /\ queue = <<>> /\ pending = <<>> /\ nextId = 1
    /\ asked = {} /\ inbox = <<>> /\ half = FALSE
    /\ call = [c \in Caller |-> IF c = 1 THEN Looping ELSE Idle]
    /\ node = None /\ slot = None
    /\ network = [restored |-> FALSE, entry |-> None] /\ adopts = 0
    /\ cut = {} /\ stale = [ctx |-> FALSE, node |-> FALSE]

-----------------------------------------------------------------------------
(* The companion daemon.                                                    *)

\* It learns its own identity.
Attach ==
    /\ companion.up /\ ~companion.attached
    /\ companion' = [companion EXCEPT !.attached = TRUE]
    /\ UNCHANGED <<asked, actorVars, call, node, rosterVars, cut, stale>>

\* It dies, and with it every connection.
Die ==
    /\ companion.up /\ companion.epoch < MaxEpoch /\ link.n < MaxLink
    /\ companion' = [companion EXCEPT !.up = FALSE]
    /\ link' = [link EXCEPT !.alive = FALSE] /\ asked' = {}
    /\ UNCHANGED <<rc, queue, pending, nextId, inbox, half, call, node, rosterVars, cut, stale>>

\* A fresh process is a fresh identity.
Start ==
    /\ ~companion.up
    /\ companion' = [epoch |-> companion.epoch + 1, up |-> TRUE, attached |-> FALSE]
    /\ UNCHANGED <<asked, actorVars, call, node, rosterVars, cut, stale>>

\* It drops the connection and lives on.
Hangup ==
    /\ link.alive /\ link.n < MaxLink
    /\ link' = [link EXCEPT !.alive = FALSE] /\ asked' = {}
    /\ UNCHANGED <<companion, rc, queue, pending, nextId, inbox, half, call, node, rosterVars, cut, stale>>

\* What it may answer: GetState with its identity, with none yet, or with an
\* error; a datagram for a context it does not know with an error.
Replies(c) ==
    IF c \in Poller
    THEN {"error"} \cup (IF companion.attached THEN {"identity"} ELSE {"unresolved"})
    ELSE IF call[c].ctx = link.n THEN {"sent"} ELSE {"error"}

Answer(request) ==
    /\ link.alive /\ request \in asked
    /\ asked' = asked \ {request}
    /\ \E r \in Replies(request[2]) :
           inbox' = Append(inbox, [id |-> request[1], caller |-> request[2], reply |-> r,
                                   from |-> companion.epoch])
    /\ UNCHANGED <<companion, link, rc, queue, pending, nextId, half, call, node, rosterVars, cut, stale>>

-----------------------------------------------------------------------------
(* The callers.                                                             *)

\* poll_send: the context is read now, the request is queued by a task of its own.
PollSend(c) ==
    /\ c \in Sender /\ call[c].pc = "idle"
    /\ call' = [call EXCEPT ![c].pc = "built", ![c].ctx = rc]
    /\ UNCHANGED <<companionVars, actorVars, node, rosterVars, cut, stale>>

\* ClientHandle::call: the request goes into the channel.
Call(c) ==
    /\ call[c].pc = "built"
    /\ call' = [call EXCEPT ![c].pc = "queued"]
    /\ queue' = Append(queue, c)
    /\ UNCHANGED <<companionVars, link, rc, pending, nextId, inbox, half, node, rosterVars, cut, stale>>

\* The answer of a datagram is only logged.
SendEnds(c) ==
    /\ c \in Sender /\ call[c].pc = "ready"
    /\ call' = [call EXCEPT ![c] = [Idle EXCEPT !.pc = "done"]]
    /\ UNCHANGED <<companionVars, actorVars, node, rosterVars, cut, stale>>

\* identity_poll_loop with its answer: an identity is published and ends the
\* loop, an error ends it, and anything else is asked again.
PollStep(c) ==
    /\ c \in Poller /\ call[c].pc = "ready"
    /\ LET r == call[c] IN
       /\ node' = IF r.reply = "identity" THEN r.from ELSE node
       /\ stale' = [stale EXCEPT !.node = @ \/ (r.reply = "identity" /\ r.from < node)]
       /\ call' = [call EXCEPT ![c] =
                      IF r.reply = "unresolved" /\ r.tries > 1
                      THEN [Looping EXCEPT !.tries = r.tries - 1]
                      ELSE [Idle EXCEPT !.pc = "done", !.reply = r.reply]]
    /\ UNCHANGED <<companionVars, actorVars, rosterVars, cut>>

-----------------------------------------------------------------------------
(* The actor.  tokio's read_line, in the other branch of the same select!,  *)
(* is not cancel safe: a line read in part when a command wins is lost.      *)

\* A caller gets its answer.
Given(calls, c, reply, from) ==
    [calls EXCEPT ![c].pc = "ready", ![c].reply = reply, ![c].from = from]

\* A line arrives in two pieces and the first is read.
ReadPart ==
    /\ link.open /\ inbox # <<>> /\ ~half
    /\ half' = TRUE
    /\ UNCHANGED <<companionVars, link, rc, queue, pending, nextId, inbox, call, node, rosterVars, cut, stale>>

\* The context a request is written with: the one its caller read.
Context(c) == call[c].ctx

\* Slip: one id for every request.
SameId(n) == n

\* Request ids count up from the first of the connection.
NextId(n) == n + 1

\* serve_one_connection takes a command and writes it.  On a dead connection
\* the write may still go into the socket's buffer.
ServeCommand ==
    /\ link.open /\ queue # <<>>
    /\ LET c == Head(queue) IN
       /\ queue' = Tail(queue) /\ nextId' = NextId(nextId)
       /\ pending' = [i \in DOMAIN pending \cup {nextId} |->
                         IF i = nextId THEN c ELSE pending[i]]
       /\ call' = [call EXCEPT ![c].pc = "sent"]
       /\ asked' = IF link.alive THEN asked \cup {<<nextId, c>>} ELSE asked
       /\ stale' = [stale EXCEPT !.ctx = @ \/ (c \in Sender /\ Context(c) # link.n)]
    /\ inbox' = IF half THEN Tail(inbox) ELSE inbox
    /\ cut' = IF half THEN cut \cup {Head(inbox).caller} ELSE cut
    /\ half' = FALSE
    /\ UNCHANGED <<companion, link, rc, node, rosterVars>>

\* handle_incoming_line: the response goes to the caller waiting for its id.
ReadLine ==
    /\ link.open /\ inbox # <<>>
    /\ LET r == Head(inbox) IN
       IF r.id \in DOMAIN pending
       THEN /\ pending' = [i \in DOMAIN pending \ {r.id} |-> pending[i]]
            /\ call' = Given(call, pending[r.id], r.reply, r.from)
       ELSE UNCHANGED <<pending, call>>
    /\ inbox' = Tail(inbox) /\ half' = FALSE
    /\ UNCHANGED <<companionVars, link, rc, queue, nextId, node, rosterVars, cut, stale>>

\* Slip: the callers of a lost connection are left waiting.
NotDrained(calls) == calls

\* The drain at the end of serve_one_connection: everyone waiting for a
\* response gets an error.
Drained(calls) ==
    [c \in Caller |-> IF c \in Range(pending)
                      THEN [calls[c] EXCEPT !.pc = "ready", !.reply = "error"] ELSE calls[c]]

\* The end of the stream, or an error reading it.
ReadEnds ==
    /\ link.open /\ ~link.alive /\ inbox = <<>>
    /\ link' = [link EXCEPT !.open = FALSE]
    /\ call' = Drained(call) /\ pending' = <<>>
    /\ UNCHANGED <<companionVars, rc, queue, nextId, inbox, half, node, rosterVars, cut, stale>>

\* A write fails: its caller gets the error, and so does everyone waiting.
WriteFails ==
    /\ link.open /\ ~link.alive /\ queue # <<>>
    /\ link' = [link EXCEPT !.open = FALSE]
    /\ call' = [Drained(call) EXCEPT ![Head(queue)].pc = "ready", ![Head(queue)].reply = "error"]
    /\ queue' = Tail(queue) /\ pending' = <<>> /\ inbox' = <<>> /\ half' = FALSE
    /\ UNCHANGED <<companionVars, rc, nextId, node, rosterVars, cut, stale>>

\* A poll loop is spawned for the new connection.
AskedAgain(calls, n) == [calls EXCEPT ![n] = Looping]

\* actor_loop: a dial and a handshake succeed.  The context is the new
\* connection's, ids start again, and the identity is asked for again.
Reconnect ==
    /\ ~link.open /\ companion.up /\ link.n < MaxLink
    /\ link' = [n |-> link.n + 1, open |-> TRUE, alive |-> TRUE]
    /\ rc' = link.n + 1 /\ nextId' = 1
    /\ inbox' = <<>> /\ half' = FALSE
    /\ call' = AskedAgain(call, link.n + 1)
    /\ UNCHANGED <<companionVars, queue, pending, node, rosterVars, cut, stale>>

-----------------------------------------------------------------------------
(* From the client to the roster.                                           *)

\* bind_endpoint's task: wait_for_own_node_id returns once.
FillSlot ==
    /\ node # None /\ slot = None
    /\ slot' = node
    /\ UNCHANGED <<companionVars, actorVars, call, node, network, adopts, cut, stale>>

\* connect_all_networks restores a coordinated network in a task of its own.
RestoreNetwork ==
    /\ ~network.restored
    /\ network' = [network EXCEPT !.restored = TRUE]
    /\ UNCHANGED <<companionVars, actorVars, call, node, slot, adopts, cut, stale>>

\* Slip: one pass, once there is a network to write to.
RepublishOnce(n) == slot # None /\ n.restored /\ n.entry # slot /\ adopts = 0

\* republish_own_veilid_identity skips an entry that already matches.
RepublishDue(n) == slot # None /\ n.restored /\ n.entry # slot

\* The pass spawn_veilid_identity_watcher repeats every five seconds.
Republish ==
    /\ RepublishDue(network)
    /\ network' = [network EXCEPT !.entry = slot]
    /\ UNCHANGED <<companionVars, actorVars, call, node, slot, adopts, cut, stale>>

\* A signed roster of another coordinator is adopted, without the entry.
AdoptRoster ==
    /\ network.restored /\ network.entry # None /\ adopts < MaxAdopt
    /\ adopts' = adopts + 1
    /\ network' = [network EXCEPT !.entry = None]
    /\ UNCHANGED <<companionVars, actorVars, call, node, slot, cut, stale>>

VeilidNext ==
    \/ Attach \/ Die \/ Start \/ Hangup
    \/ \E q \in asked : Answer(q)
    \/ \E c \in Caller : PollSend(c) \/ Call(c) \/ SendEnds(c) \/ PollStep(c)
    \/ ReadPart \/ ServeCommand \/ ReadLine \/ ReadEnds \/ WriteFails \/ Reconnect
    \/ FillSlot \/ RestoreNetwork \/ Republish \/ AdoptRoster

\* Tasks that are ready run, the companion daemon is started again, answers
\* and learns its identity.
VeilidFairness ==
    /\ WF_veilidVars(Attach) /\ WF_veilidVars(Start)
    /\ WF_veilidVars(\E q \in asked : Answer(q))
    /\ \A c \in Caller : WF_veilidVars(Call(c)) /\ WF_veilidVars(SendEnds(c) \/ PollStep(c))
    /\ WF_veilidVars(ServeCommand \/ WriteFails)
    /\ WF_veilidVars(ReadLine) /\ WF_veilidVars(ReadEnds) /\ WF_veilidVars(Reconnect)
    /\ WF_veilidVars(FillSlot) /\ WF_veilidVars(RestoreNetwork) /\ WF_veilidVars(Republish)

VeilidSpec == VeilidInit /\ [][VeilidNext]_veilidVars /\ VeilidFairness

-----------------------------------------------------------------------------
\* A caller is handed the response to its own request: ids start again with
\* every connection, and what an earlier one left waiting is not there to be
\* taken for the new one's (serve_one_connection, handle_incoming_line).
OwnAnswer ==
    /\ \A i \in 1..Len(inbox) :
           inbox[i].id \in DOMAIN pending => pending[inbox[i].id] = inbox[i].caller
    /\ \A q \in asked : q[1] \in DOMAIN pending => pending[q[1]] = q[2]

\* No caller waits for ever, whatever happens to the companion daemon: its
\* request is answered, or fails with the connection.  The exception is a
\* caller whose response line was torn by a command taken in the middle of
\* it: it waits until the connection is lost (client.rs 359-395).
CallsEnd == <>[](\A c \in Caller : call[c].pc \in Waiting => c \in cut)

\* The poll loop of the connection in use.
LastLoop == call[link.n]

\* The identity the transport publishes comes to be the one of the companion
\* daemon that runs, unless the loop that asked it gave up, its answer was
\* torn, or the answer of an earlier loop was written after it
\* (actor_loop, identity_poll_loop).
IdentitySettles ==
    <>[](\/ node = companion.epoch \/ stale.node \/ link.n \in cut
         \/ LastLoop.pc = "done" /\ LastLoop.reply # "identity")

\* The roster comes to name the identity the daemon knows, however late the
\* network was restored and whatever roster was adopted in between
\* (spawn_veilid_identity_watcher).
RosterSettles == <>[](network.entry = slot)

\* The identity of the companion daemon goes all the way, from its answer to the
\* transport and from the daemon's cell to the signed roster.
IdentityArrives == IdentitySettles /\ RosterSettles

\* transport.rs 310-312: the cell is one "the background task below keeps
\* updated for as long as it takes".
LiveCell == <>[](node # None => slot = node)

\* client.rs 164-167: a request "built with a just-stale id still gets
\* corrected in transit".
ContextCorrected == ~stale.ctx
=============================================================================
