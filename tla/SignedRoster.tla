---------------------------- MODULE SignedRoster ----------------------------
(***************************************************************************)
(* What tetron promises about the roster of a network, without tasks,      *)
(* locks, relays, polls and restarts: one signed record that only moves    *)
(* forward, that lists nobody who was not let in, and nodes that give the  *)
(* network up unasked only when a record has left them out.                *)
(***************************************************************************)
EXTENDS Integers

CONSTANTS
    Node,      \* endpoint identities
    Founding   \* the blob the network starts from

VARIABLES
    record,    \* the blob the current record signs
    log,       \* every blob a record has signed
    known,     \* founders, and the nodes a coordinator has admitted
    running,   \* nodes that run the network
    removed,   \* nodes told to tear it down
    asks       \* what users may still ask for, and relays and peers still fail

roster == <<record, log, known, running, removed>>
vars == <<roster, asks>>

Init ==
    /\ record = Founding
    /\ log = {Founding}
    /\ known = Founding.members
    /\ running = Founding.members
    /\ removed = {}
    /\ asks \in Nat

\* A user's request, or a failure, that changes none of this.
Ask ==
    /\ asks' < asks
    /\ UNCHANGED roster

\* The key holder replaces the record.
Sign ==
    /\ record'.generation > record.generation
    /\ record'.members \subseteq known
    /\ log' = log \cup {record'}
    /\ UNCHANGED <<known, running, removed, asks>>

\* A coordinator lets a node in.
Admit(n) ==
    /\ known' = known \cup {n}
    /\ UNCHANGED <<record, log, running, removed, asks>>

\* A node that was let in comes up.
Start(n) ==
    /\ n \in known
    /\ running' = running \cup {n}
    /\ UNCHANGED <<record, log, known, removed, asks>>

\* A node learns that a record has left it out.
Remove(n) ==
    /\ \E b \in log : n \notin b.members
    /\ removed' = removed \cup {n}
    /\ UNCHANGED <<record, log, known, running, asks>>

\* A node tears the network down because it was removed ...
StopRemoved(n) ==
    /\ n \in removed
    /\ running' = running \ {n}
    /\ removed' \in {removed, removed \ {n}}
    /\ UNCHANGED <<record, log, known, asks>>

\* ... or because its user asked it to.
StopAsked(n) ==
    /\ asks' < asks
    /\ running' = running \ {n}
    /\ UNCHANGED <<record, log, known, removed>>

\* A node is restarted before it has acted on its removal.
Restart(n) ==
    /\ asks' < asks
    /\ removed' = removed \ {n}
    /\ UNCHANGED <<record, log, known, running>>

Next ==
    \/ Ask \/ Sign
    \/ \E n \in Node : \/ Admit(n) \/ Start(n) \/ Remove(n)
                       \/ StopRemoved(n) \/ StopAsked(n) \/ Restart(n)

Spec == Init /\ [][Next]_vars
=============================================================================
