--------------------------- MODULE PeeringProofs ---------------------------
(***************************************************************************)
(* The routes and the dials of Peering, for every number of connections,   *)
(* addresses, dial tasks and roster changes.                               *)
(***************************************************************************)
EXTENDS Peering, FiniteSetTheorems, TLAPS

-----------------------------------------------------------------------------
(* Types, with the addresses that are there when they are used.            *)

Link == [stage : {"free", "opened", "half", "up", "reported"}, addr : Addr \cup {NoAddr},
         end : {"open", "left", "other"}, by : Task \cup {NoConn}]

DialTask == [pc : {"idle", "once", "sleep", "guard", "dial", "register"},
             addr : Addr \cup {NoAddr}, once : BOOLEAN]

Loop == [pc : {"idle", "check", "rm4", "rm6", "edit", "decide"}, event : Event]

Change == [pc : {"idle", "await", "scan", "pick", "rm4", "rm6", "apply"},
           how : {"prune", "kick", "poll"}, at : Addr \cup {NoAddr}, todo : SUBSET (Addr \X Conn)]

Types ==
    /\ role \in {"member", "coordinator"} /\ roster \in Addr \cup {NoAddr}
    /\ conn \in [Conn -> Link] /\ v4 \in [Addr -> Conn \cup {NoConn}] /\ v6 \in Conn \cup {NoConn}
    /\ pruned \in BOOLEAN /\ claim \in BOOLEAN /\ skipped \in BOOLEAN
    /\ events \in Seq(Event) /\ cleaner \in Loop /\ task \in [Task -> DialTask]
    /\ maint \in Change /\ budget \in 0..MaxOps

Placed ==
    /\ \A t \in Task : task[t].pc # "idle" => task[t].addr \in Addr
    /\ \A c \in Conn : conn[c].stage # "free" => conn[c].addr \in Addr
    /\ \A i \in 1..Len(events) : events[i].addr \in Addr
    /\ cleaner.pc # "idle" => cleaner.event.addr \in Addr

-----------------------------------------------------------------------------
(* Dials.  The task that made a connection waits for its registration, and *)
(* waits for one only.                                                     *)

Pending(c, t) == conn[c].stage \in {"opened", "half"} /\ conn[c].by = t

DialInv ==
    /\ \A c \in Conn, t \in Task : Pending(c, t) => task[t].pc = "register"
    /\ \A c, d \in Conn, t \in Task : Pending(c, t) /\ Pending(d, t) => c = d
    /\ \A t, u \in Dialing : t = u
    /\ claim <=> Dialing # {}

-----------------------------------------------------------------------------
(* Routes.  A connection is named under its own address only, and its last *)
(* report is in one place: in the queue once, or with the clean-up loop.   *)

Handles(c) == cleaner.pc \in {"check", "rm4", "rm6"} /\ cleaner.event.conn = c

Named ==
    \A a \in Addr : v4[a] # NoConn =>
        conn[v4[a]].addr = a /\ conn[v4[a]].stage \in {"half", "up", "reported"}

Noticed == \A a \in Addr : v4[a] # NoConn /\ conn[v4[a]].stage = "reported" => Announced(v4[a])

Queued ==
    \A i \in 1..Len(events) : events[i].conn # NoConn =>
        /\ conn[events[i].conn].stage = "reported" /\ conn[events[i].conn].addr = events[i].addr
        /\ ~Handles(events[i].conn)
        /\ \A j \in 1..Len(events) : events[j].conn = events[i].conn => i = j

Handled ==
    \A c \in Conn : Handles(c) => conn[c].stage = "reported" /\ conn[c].addr = cleaner.event.addr

RouteInv == Named /\ Noticed /\ Queued /\ Handled

PeeringInv == Types /\ Placed /\ DialInv /\ RouteInv

-----------------------------------------------------------------------------
LEMMA Literals ==
    /\ Unused \in Link /\ Unused.stage = "free" /\ Unused.by = NoConn
    /\ IdleTask \in DialTask /\ IdleTask.pc = "idle"
    /\ NoEvent \in Event /\ NoEvent.conn = NoConn
    /\ IdleCleaner \in Loop /\ IdleCleaner.pc = "idle"
    /\ IdleMaint \in Change
BY DEF Unused, Link, IdleTask, DialTask, NoEvent, Event, IdleCleaner, Loop, IdleMaint, Change

\* Forget clears one connection at most, and none that the table names.
LEMMA ForgetFacts ==
    ASSUME conn \in [Conn -> Link], NEW c, NEW w4, NEW w6, NEW f, f = Forget(c, w4, w6)
    PROVE  /\ f \in [Conn -> Link]
           /\ \A d \in Conn : f[d] = conn[d] \/ (f[d] = Unused /\ d = c /\ \A a \in Addr : w4[a] # d)
<1>1. CASE c \in Conn /\ c # w6 /\ \A a \in Addr : w4[a] # c
  <2>1. f = [conn EXCEPT ![c] = Unused] BY <1>1 DEF Forget
  <2>2. f \in [Conn -> Link] BY <2>1, Literals
  <2>3. \A d \in Conn : d # c => f[d] = conn[d] BY <2>1
  <2>4. f[c] = Unused BY <1>1, <2>1
  <2> QED BY Zenon, <1>1, <2>2, <2>3, <2>4
<1>2. CASE ~(c \in Conn /\ c # w6 /\ \A a \in Addr : w4[a] # c)
  <2>1. f = conn BY Zenon, <1>2 DEF Forget
  <2> QED BY Zenon, <2>1
<1> QED BY <1>1, <1>2

LEMMA AppendFacts ==
    ASSUME NEW s \in Seq(Event), NEW e \in Event
    PROVE  /\ Append(s, e) \in Seq(Event) /\ Len(Append(s, e)) = Len(s) + 1 /\ Len(s) \in Nat
           /\ \A i \in 1..Len(s) : Append(s, e)[i] = s[i] /\ s[i] \in Event
           /\ Append(s, e)[Len(s) + 1] = e
OBVIOUS

LEMMA TailFacts ==
    ASSUME NEW s \in Seq(Event), s # <<>>
    PROVE  /\ Tail(s) \in Seq(Event) /\ Len(s) \in Nat /\ Len(s) > 0 /\ Len(Tail(s)) = Len(s) - 1
           /\ \A i \in 1..Len(Tail(s)) : Tail(s)[i] = s[i + 1] /\ i + 1 \in 1..Len(s)
           /\ Head(s) = s[1] /\ Head(s) \in Event /\ 1 \in 1..Len(s)
OBVIOUS

LEMMA EventFacts ==
    ASSUME Types, NEW i \in 1..Len(events)
    PROVE  events[i].conn \in Conn \cup {NoConn}
<1>1. events \in Seq(Event) BY DEF Types
<1>2. events[i] \in Event BY <1>1
<1> QED BY <1>2 DEF Event

LEMMA TypesInit == Init => Types /\ Placed
<1> SUFFICES ASSUME Init PROVE Types /\ Placed OBVIOUS
<1> USE PeeringAssumption
<1>1. task \in [Task -> DialTask] /\ \A t \in Task : task[t].pc # "idle" => task[t].addr \in Addr
  BY Literals DEF Init, DialTask
<1>2. events \in Seq(Event) /\ Len(events) = 0 BY DEF Init
<1>3. conn \in [Conn -> Link] /\ \A c \in Conn : conn[c].stage = "free"
  BY Literals DEF Init
<1>4. Types
  <2>1. pruned \in BOOLEAN /\ claim \in BOOLEAN /\ skipped \in BOOLEAN BY Zenon DEF Init
  <2>2. v4 \in [Addr -> Conn \cup {NoConn}] /\ v6 \in Conn \cup {NoConn} /\ budget \in 0..MaxOps
    BY DEF Init
  <2>3. cleaner \in Loop /\ maint \in Change BY Literals DEF Init
  <2> QED BY Zenon, <1>1, <1>2, <1>3, <2>1, <2>2, <2>3 DEF Init, Types
<1>5. cleaner.pc = "idle" BY Literals DEF Init
<1>6. \A i \in 1..Len(events) : FALSE BY <1>2
<1> QED BY Zenon, <1>1, <1>3, <1>4, <1>5, <1>6 DEF Placed

LEMMA TypesNext == ASSUME Types, Placed, [Next]_vars PROVE Types' /\ Placed'
<1> USE PeeringAssumption
<1>1. CASE UNCHANGED vars BY <1>1 DEF vars, Types, Placed
<1>2. CASE AcceptKnown
  <2>1. NextConn \in Conn BY <1>2 DEF AcceptKnown, NextConn, FreeConns
  <2>2. conn' \in [Conn -> Link] /\ \A c \in Conn : conn'[c].stage # "free" => conn'[c].addr \in Addr
    BY <1>2, <2>1 DEF AcceptKnown, Types, Placed, Link
  <2> QED BY <1>2, <2>2 DEF AcceptKnown, Types, Placed, Spend
<1>3. ASSUME NEW c \in Conn, AddV4(c) PROVE Types' /\ Placed'
  <2>1. conn' \in [Conn -> Link] /\ \A d \in Conn : conn'[d].stage # "free" => conn'[d].addr \in Addr
    BY <1>3 DEF AddV4, Types, Placed, Link
  <2> QED BY Zenon, <1>3, <2>1 DEF AddV4, Types, Placed
<1>4. ASSUME NEW c \in Conn, AddV6(c) PROVE Types' /\ Placed'
  <2>1. conn' \in [Conn -> Link] /\ \A d \in Conn : conn'[d].stage # "free" => conn'[d].addr \in Addr
    <3>1. conn' = [conn EXCEPT ![c].stage = "up"] /\ conn[c].stage = "half" BY <1>4 DEF AddV6
    <3> QED BY <3>1 DEF Types, Placed, Link
  <2>2. task' \in [Task -> DialTask] /\ claim' \in BOOLEAN
        /\ \A t \in Task : task'[t].pc # "idle" => task'[t].addr \in Addr
    BY <1>4, Literals DEF AddV6, Types, Placed
  <2> QED BY Zenon, <1>4, <2>1, <2>2 DEF AddV6, Types, Placed
<1>5. ASSUME NEW c \in Conn, NEW end \in {"left", "other"}, PeerCloses(c, end) PROVE Types' /\ Placed'
  <2>1. conn' \in [Conn -> Link] /\ \A d \in Conn : conn'[d].stage # "free" => conn'[d].addr \in Addr
    BY <1>5 DEF PeerCloses, Types, Placed, Link
  <2> QED BY <1>5, <2>1 DEF PeerCloses, Types, Placed, Spend
<1>6. ASSUME NEW c \in Conn, Report(c) PROVE Types' /\ Placed'
  <2> DEFINE e == [conn |-> c, addr |-> conn[c].addr, left |-> conn[c].end = "left"]
  <2>1. conn' \in [Conn -> Link] /\ \A d \in Conn : conn'[d].stage # "free" => conn'[d].addr \in Addr
    BY <1>6 DEF Report, Types, Placed, Link
  <2>2. e \in Event /\ e.addr \in Addr
    <3>1. conn[c].addr \in Addr BY <1>6 DEF Report, Placed
    <3>2. (conn[c].end = "left") \in BOOLEAN OBVIOUS
    <3> QED BY Zenon, <3>1, <3>2 DEF Event
  <2>3. events' = Append(events, e) BY <1>6 DEF Report
  <2> HIDE DEF e
  <2>4. events' \in Seq(Event) /\ \A i \in 1..Len(events') : events'[i].addr \in Addr
    BY <2>2, <2>3, AppendFacts DEF Types, Placed
  <2> QED BY Zenon, <1>6, <2>1, <2>4 DEF Report, Types, Placed
<1>7. CASE TakeEvent
  <2>1. events \in Seq(Event) /\ events # <<>> /\ events' = Tail(events)
        /\ cleaner' = [pc |-> IF Head(events).conn = NoConn THEN "rm4" ELSE "check", event |-> Head(events)]
    BY <1>7 DEF TakeEvent, Types
  <2>2. events' \in Seq(Event) /\ \A i \in 1..Len(events') : events'[i].addr \in Addr
    BY <2>1, TailFacts DEF Placed
  <2>3. cleaner' \in Loop /\ cleaner'.event.addr \in Addr
    <3>1. Head(events) \in Event /\ Head(events).addr \in Addr BY <2>1, TailFacts DEF Placed
    <3> QED BY <2>1, <3>1 DEF Loop
  <2> QED BY Zenon, <1>7, <2>2, <2>3 DEF TakeEvent, Types, Placed
<1>8. CASE CheckStale \/ RemoveV4 \/ RemoveV6 \/ EditRoster
  <2>1. cleaner.pc # "idle" /\ UNCHANGED <<role, pruned, claim, skipped, events, task, maint, budget>>
    BY <1>8 DEF CheckStale, RemoveV4, RemoveV6, EditRoster
  <2>2. cleaner' \in Loop /\ (cleaner'.pc # "idle" => cleaner'.event.addr \in Addr)
    BY <1>8, <2>1, Literals DEF CheckStale, RemoveV4, RemoveV6, EditRoster, Types, Placed, Loop
  <2>3. v4' \in [Addr -> Conn \cup {NoConn}] /\ v6' \in Conn \cup {NoConn} /\ roster' \in Addr \cup {NoAddr}
    BY <1>8 DEF CheckStale, RemoveV4, RemoveV6, EditRoster, Types
  <2>4. conn' \in [Conn -> Link] /\ \A c \in Conn : conn'[c] = conn[c] \/ conn'[c] = Unused
    <3>1. conn' = conn \/ \E c, w4, w6 : conn' = Forget(c, w4, w6)
      BY <1>8, Zenon DEF CheckStale, RemoveV4, RemoveV6, EditRoster
    <3>2. conn \in [Conn -> Link] BY DEF Types
    <3>3. ASSUME NEW c, NEW w4, NEW w6, conn' = Forget(c, w4, w6)
          PROVE  conn' \in [Conn -> Link] /\ \A d \in Conn : conn'[d] = conn[d] \/ conn'[d] = Unused
      <4>1. \A d \in Conn : \/ conn'[d] = conn[d]
                            \/ conn'[d] = Unused /\ d = c /\ \A a \in Addr : w4[a] # d
        BY <3>2, <3>3, ForgetFacts
      <4> QED BY <3>2, <3>3, <4>1, ForgetFacts
    <3> QED BY Zenon, <3>1, <3>2, <3>3
  <2>5. \A c \in Conn : conn'[c].stage # "free" => conn'[c].addr \in Addr
    BY Zenon, <2>4, Literals DEF Placed
  <2> QED BY Zenon, <2>1, <2>2, <2>3, <2>4, <2>5 DEF Types, Placed
<1>9. CASE Decide
  <2> DEFINE ev == cleaner.event
             g == [pc |-> "sleep", addr |-> ev.addr, once |-> FALSE]
  <2>1. UNCHANGED <<role, roster, conn, v4, v6, claim, events, maint, budget>> /\ cleaner' = IdleCleaner
        /\ pruned' \in BOOLEAN /\ skipped' \in BOOLEAN /\ ev.addr \in Addr
    BY <1>9 DEF Decide, Placed
  <2>2. task' = task \/ (NextTask \in Task /\ task' = [task EXCEPT ![NextTask] = g])
    BY <1>9 DEF Decide, NextTask, IdleTasks
  <2>3. g \in DialTask /\ g.addr \in Addr BY <2>1 DEF DialTask
  <2> HIDE DEF g
  <2>4. task' \in [Task -> DialTask] /\ \A t \in Task : task'[t].pc # "idle" => task'[t].addr \in Addr
    BY <2>2, <2>3 DEF Types, Placed
  <2> QED BY <2>1, <2>4, Literals DEF Types, Placed
<1>10. ASSUME NEW t \in Task, Recheck(t) \/ Claim(t) \/ FirstDial(t) PROVE Types' /\ Placed'
  <2>1. UNCHANGED <<role, roster, conn, v4, v6, events, cleaner, maint, budget>>
        /\ pruned' \in BOOLEAN /\ claim' \in BOOLEAN /\ skipped' \in BOOLEAN
    BY <1>10 DEF Recheck, Claim, FirstDial, Types
  <2>2. \E pc \in {"sleep", "guard", "dial"}, a \in {roster, task[t].addr} :
           \/ task' = [task EXCEPT ![t] = IdleTask]
           \/ a \in Addr /\ task' = [task EXCEPT ![t] = [task[t] EXCEPT !.pc = pc, !.addr = a]]
    BY <1>10 DEF Recheck, Claim, FirstDial, Types, Placed, KeepsDialing, DialTask
  <2>3. task' \in [Task -> DialTask] /\ \A u \in Task : task'[u].pc # "idle" => task'[u].addr \in Addr
    <3>1. CASE task' = [task EXCEPT ![t] = IdleTask] BY <3>1, Literals DEF Types, Placed
    <3>2. ASSUME NEW pc \in {"sleep", "guard", "dial"}, NEW a \in Addr,
                 task' = [task EXCEPT ![t] = [task[t] EXCEPT !.pc = pc, !.addr = a]]
          PROVE  task' \in [Task -> DialTask] /\ \A u \in Task : task'[u].pc # "idle" => task'[u].addr \in Addr
      <4>1. task[t] \in DialTask BY DEF Types
      <4>2. [task[t] EXCEPT !.pc = pc, !.addr = a] \in DialTask
            /\ [task[t] EXCEPT !.pc = pc, !.addr = a].addr \in Addr
        BY <4>1 DEF DialTask
      <4> QED BY <3>2, <4>2 DEF Types, Placed
    <3> QED BY <2>2, <3>1, <3>2
  <2> QED BY Zenon, <2>1, <2>3 DEF Types, Placed
<1>11. ASSUME NEW t \in Task, DialFails(t) PROVE Types' /\ Placed'
  <2> DEFINE e == [NoEvent EXCEPT !.addr = task[t].addr]
  <2>1. UNCHANGED <<role, roster, conn, v4, v6, pruned, cleaner, maint, budget, skipped>>
        /\ claim' \in BOOLEAN /\ task[t].addr \in Addr
    BY <1>11 DEF DialFails, Placed
  <2>2. e \in Event /\ e.addr \in Addr BY <2>1 DEF NoEvent, Event
  <2>3. events' = events \/ events' = Append(events, e) BY <1>11 DEF DialFails
  <2> HIDE DEF e
  <2>4. events' \in Seq(Event) /\ \A i \in 1..Len(events') : events'[i].addr \in Addr
    <3>1. CASE events' = events BY <3>1 DEF Types, Placed
    <3>2. CASE events' = Append(events, e) BY <2>2, <3>2, AppendFacts DEF Types, Placed
    <3> QED BY <2>3, <3>1, <3>2
  <2>5. task' \in [Task -> DialTask] /\ \A u \in Task : task'[u].pc # "idle" => task'[u].addr \in Addr
    <3>1. IdleTask \in DialTask /\ task[t] \in DialTask BY Literals DEF Types
    <3>2. [task[t] EXCEPT !.pc = "sleep"] \in DialTask
          /\ [task[t] EXCEPT !.pc = "sleep"].addr = task[t].addr
      BY <3>1 DEF DialTask
    <3>3. PICK g \in {IdleTask, [task[t] EXCEPT !.pc = "sleep"]} : task' = [task EXCEPT ![t] = g]
      BY <1>11 DEF DialFails
    <3>4. g \in DialTask /\ (g.pc # "idle" => g.addr \in Addr) BY Zenon, <2>1, <3>1, <3>2, Literals
    <3> QED BY <3>3, <3>4 DEF Types, Placed
  <2> QED BY Zenon, <2>1, <2>4, <2>5 DEF Types, Placed
<1>12. ASSUME NEW t \in Task, DialSucceeds(t) PROVE Types' /\ Placed'
  <2>1. UNCHANGED <<role, roster, v4, v6, pruned, claim, events, cleaner, maint, budget, skipped>>
        /\ task[t].addr \in Addr /\ NextConn \in Conn
    BY <1>12 DEF DialSucceeds, Placed, NextConn, FreeConns
  <2>2. conn' \in [Conn -> Link] /\ \A c \in Conn : conn'[c].stage # "free" => conn'[c].addr \in Addr
    BY <1>12, <2>1 DEF DialSucceeds, Types, Placed, Link
  <2>3. task' \in [Task -> DialTask] /\ \A u \in Task : task'[u].pc # "idle" => task'[u].addr \in Addr
    BY <1>12, <2>1 DEF DialSucceeds, Types, Placed, DialTask
  <2> QED BY Zenon, <2>1, <2>2, <2>3 DEF Types, Placed
<1>13. CASE (\E a \in Addr : List(a)) \/ Reconverge \/ Kick \/ Poll
  <2>1. UNCHANGED <<role, conn, v4, v6, pruned, claim, events, cleaner, task, skipped>>
        /\ roster' \in Addr \cup {NoAddr} /\ budget' \in 0..MaxOps
    BY <1>13 DEF List, Reconverge, Kick, Poll, Spend, Types
  <2>2. maint' \in Change
    BY <1>13, Literals DEF List, Reconverge, Kick, Poll, Types, Change
  <2> QED BY Zenon, <2>1, <2>2 DEF Types, Placed
<1>14. CASE Published \/ MaintRemoveV4 \/ MaintRemoveV6 \/ MaintDone
  <2>1. UNCHANGED <<role, conn, pruned, claim, events, cleaner, task, budget, skipped>>
        /\ roster' \in Addr \cup {NoAddr}
    BY <1>14 DEF Published, MaintRemoveV4, MaintRemoveV6, MaintDone, Types
  <2>2. v4' \in [Addr -> Conn \cup {NoConn}] /\ v6' \in Conn \cup {NoConn}
    BY <1>14 DEF Published, MaintRemoveV4, MaintRemoveV6, MaintDone, Types
  <2>3. maint' \in Change
    BY <1>14, Literals DEF Published, MaintRemoveV4, MaintRemoveV6, MaintDone, Types, Change
  <2> QED BY Zenon, <2>1, <2>2, <2>3 DEF Types, Placed
<1>15. CASE Scan
  <2> DEFINE named == {<<a, v4[a]>> : a \in {b \in Addr : v4[b] # NoConn}}
  <2>1. named \in SUBSET (Addr \X Conn) BY DEF Types
  <2>2. maint' = [maint EXCEPT !.pc = "pick", !.todo = named] BY <1>15 DEF Scan
  <2> HIDE DEF named
  <2>3. maint' \in Change BY <2>1, <2>2 DEF Types, Change
  <2> QED BY Zenon, <1>15, <2>3 DEF Scan, Types, Placed
<1>16. CASE Sever
  <2>1. PICK e \in maint.todo :
          LET spare == maint.how = "prune" /\ roster # NoAddr IN
          /\ maint' = [maint EXCEPT !.todo = maint.todo \ {e}, !.at = e[1],
                                    !.pc = IF spare THEN "pick" ELSE "rm4"]
          /\ pruned' = (pruned \/ (~spare /\ maint.how = "prune"))
          /\ conn' = IF ~spare /\ conn[e[2]].end = "open"
                     THEN [conn EXCEPT ![e[2]].end = "other"] ELSE conn
    BY <1>16 DEF Sever
  <2>2. e \in Addr \X Conn /\ maint \in Change BY DEF Types, Change
  <2>3. maint' \in Change
    <3>1. e[1] \in Addr /\ maint.todo \ {e} \in SUBSET (Addr \X Conn) BY <2>2 DEF Change
    <3>2. PICK pc \in {"pick", "rm4"} :
             maint' = [maint EXCEPT !.todo = maint.todo \ {e}, !.at = e[1], !.pc = pc]
      BY <2>1
    <3> QED BY <2>2, <3>1, <3>2 DEF Change
  <2>4. conn' \in [Conn -> Link] /\ \A c \in Conn : conn'[c].stage # "free" => conn'[c].addr \in Addr
    <3>1. conn[e[2]] \in Link /\ e[2] \in Conn BY <2>2 DEF Types
    <3>2. [conn[e[2]] EXCEPT !.end = "other"] \in Link
          /\ [conn[e[2]] EXCEPT !.end = "other"].stage = conn[e[2]].stage
          /\ [conn[e[2]] EXCEPT !.end = "other"].addr = conn[e[2]].addr
      BY <3>1 DEF Link
    <3>3. conn' = conn \/ conn' = [conn EXCEPT ![e[2]] = [conn[e[2]] EXCEPT !.end = "other"]]
      BY Zenon, <2>1
    <3> QED BY <3>1, <3>2, <3>3 DEF Types, Placed
  <2>5. pruned' \in BOOLEAN BY Zenon, <2>1
  <2>6. UNCHANGED <<role, roster, v4, v6, claim, events, cleaner, task, budget, skipped>>
    BY <1>16 DEF Sever
  <2> QED BY Zenon, <2>3, <2>4, <2>5, <2>6 DEF Types, Placed
<1> QED
  BY <1>1, <1>2, <1>3, <1>4, <1>5, <1>6, <1>7, <1>8, <1>9, <1>10, <1>11, <1>12, <1>13, <1>14, <1>15, <1>16
  DEF Next, CoordinatorAccepts, MemberAccepts, Cleanup, Redial, Maintain

-----------------------------------------------------------------------------
LEMMA DialInit == Init => DialInv
<1> SUFFICES ASSUME Init PROVE DialInv OBVIOUS
<1>1. \A c \in Conn : conn[c].stage = "free" BY Literals DEF Init
<1>2. \A t \in Task : task[t].pc \in {"idle", "once"} BY Literals DEF Init
<1>3. Dialing = {} BY <1>2 DEF Dialing
<1> QED BY <1>1, <1>3 DEF Init, DialInv, Pending

\* What neither dials nor opens a connection of a dial.
LEMMA DialQuiet ==
    ASSUME DialInv, UNCHANGED <<task, claim>>,
           \A c \in Conn, t \in Task : Pending(c, t)' => Pending(c, t)
    PROVE  DialInv'
<1>1. Dialing' = Dialing BY DEF Dialing
<1> QED BY Zenon, <1>1 DEF DialInv

LEMMA DialNext == ASSUME Types, Types', DialInv, [Next]_vars PROVE DialInv'
<1> USE PeeringAssumption
<1>1. CASE UNCHANGED vars BY <1>1, DialQuiet DEF vars, Pending
<1>2. CASE AcceptKnown
  <2>1. NextConn \in Conn BY <1>2 DEF AcceptKnown, NextConn, FreeConns
  <2>2. \A c \in Conn, t \in Task : Pending(c, t)' => Pending(c, t)
    BY <1>2, <2>1 DEF AcceptKnown, Pending, Types
  <2> QED BY <1>2, <2>2, DialQuiet DEF AcceptKnown
<1>3. ASSUME NEW c \in Conn,
             AddV4(c) \/ Report(c) \/ (\E end \in {"left", "other"} : PeerCloses(c, end))
      PROVE  DialInv'
  <2>1. \A d \in Conn, t \in Task : Pending(d, t)' => Pending(d, t)
    BY <1>3 DEF AddV4, Report, PeerCloses, Pending, Types, Link
  <2> QED BY <1>3, <2>1, DialQuiet DEF AddV4, Report, PeerCloses
<1>4. ASSUME NEW c \in Conn, AddV6(c) PROVE DialInv'
  <2>1. conn' = [conn EXCEPT ![c].stage = "up"] /\ conn[c].stage = "half" BY <1>4 DEF AddV6
  <2>2. \A d \in Conn, t \in Task : Pending(d, t)' => Pending(d, t) /\ d # c
    BY <2>1 DEF Pending, Types, Link
  <2>3. CASE conn[c].by \notin Task BY <1>4, <2>2, <2>3, DialQuiet DEF AddV6
  <2>4. CASE conn[c].by \in Task
    <3> DEFINE u == conn[c].by
    <3>1. task' = [task EXCEPT ![u] = IdleTask] /\ claim' = FALSE BY <1>4, <2>4 DEF AddV6
    <3>2. Pending(c, u) /\ u \in Dialing BY <2>1, <2>4 DEF Pending, DialInv, Dialing
    <3>3. Dialing' = {} BY <2>4, <3>1, <3>2, Literals DEF DialInv, Dialing, Types
    <3>4. \A d \in Conn, t \in Task : ~Pending(d, t)'
      <4> SUFFICES ASSUME NEW d \in Conn, NEW t \in Task, Pending(d, t)' PROVE FALSE OBVIOUS
      <4>1. Pending(d, t) /\ d # c BY <2>2
      <4>2. t \in Dialing BY <4>1 DEF DialInv, Dialing
      <4>3. t = u BY <3>2, <4>2 DEF DialInv
      <4> QED BY Zenon, <2>4, <3>2, <4>1, <4>3 DEF DialInv
    <3> QED BY Zenon, <3>1, <3>3, <3>4 DEF DialInv
  <2> QED BY <2>3, <2>4
<1>5. CASE TakeEvent \/ CheckStale \/ RemoveV4 \/ RemoveV6 \/ EditRoster
  <2>1. UNCHANGED <<task, claim>> /\ (conn' = conn \/ \E c, w4, w6 : conn' = Forget(c, w4, w6))
    BY <1>5, Zenon DEF TakeEvent, CheckStale, RemoveV4, RemoveV6, EditRoster
  <2>2. \A d \in Conn : conn'[d] = conn[d] \/ conn'[d] = Unused
    <3>1. ASSUME NEW c, NEW w4, NEW w6, conn' = Forget(c, w4, w6)
          PROVE  \A d \in Conn : conn'[d] = conn[d] \/ conn'[d] = Unused
      BY <3>1, ForgetFacts DEF Types
    <3> QED BY <2>1, <3>1
  <2>3. \A d \in Conn, t \in Task : Pending(d, t)' => Pending(d, t) BY <2>2, Literals DEF Pending
  <2> QED BY Zenon, <2>1, <2>3, DialQuiet
<1>6. CASE Decide
  <2>1. conn' = conn /\ claim' = claim BY <1>6 DEF Decide
  <2>2. \A t \in Task : task'[t] = task[t] \/ (task[t].pc = "idle" /\ task'[t].pc = "sleep")
    BY <1>6 DEF Decide, NextTask, IdleTasks, Types
  <2>3. Dialing' = Dialing BY <2>2 DEF Dialing
  <2> QED BY <2>1, <2>2, <2>3 DEF DialInv, Pending
<1>7. ASSUME NEW t \in Task, Recheck(t) \/ Claim(t) \/ FirstDial(t) PROVE DialInv'
  <2>1. /\ conn' = conn /\ task[t].pc \in {"sleep", "guard", "once"}
        /\ \A u \in Task : u # t => task'[u] = task[u]
    BY <1>7 DEF Recheck, Claim, FirstDial, Types
  <2>2. \/ task'[t].pc \notin {"dial", "register"} /\ (claim' <=> claim)
        \/ task'[t].pc = "dial" /\ ~claim /\ claim'
    <3>1. CASE Recheck(t)
      <4>1. task'[t].pc \in {"guard", "idle"} /\ UNCHANGED claim
        BY <3>1, Literals DEF Recheck, Types, DialTask
      <4> QED BY Zenon, <4>1
    <3>2. CASE Claim(t)
      <4> DEFINE routed == \E a \in Addr : v4[a] # NoConn
      <4>1. CASE routed
        <5>1. task'[t] = IdleTask /\ (claim' <=> claim) BY <3>2, <4>1 DEF Claim, Types
        <5> QED BY <5>1, Literals
      <4>2. CASE ~routed
        <5>1. claim' BY Zenon, <3>2, <4>2 DEF Claim
        <5>2. task' = [task EXCEPT ![t] = [task[t] EXCEPT !.pc = IF claim THEN "sleep" ELSE "dial"]]
          BY Zenon, <3>2, <4>2 DEF Claim
        <5>3. task'[t].pc = IF claim THEN "sleep" ELSE "dial" BY <5>2 DEF Types, DialTask
        <5> QED BY Zenon, <5>1, <5>3
      <4> QED BY Zenon, <4>1, <4>2
    <3>3. CASE FirstDial(t)
      <4>1. CASE claim
        <5>1. task'[t] = IdleTask /\ claim' = TRUE BY <3>3, <4>1 DEF FirstDial, Types
        <5> QED BY <4>1, <5>1, Literals
      <4>2. CASE ~claim
        <5>1. task'[t].pc = "dial" /\ claim' = TRUE BY <3>3, <4>2 DEF FirstDial, Types, DialTask
        <5> QED BY Zenon, <4>2, <5>1
      <4> QED BY Zenon, <4>1, <4>2
    <3> QED BY <1>7, <3>1, <3>2, <3>3
  <2>3. t \notin Dialing BY <2>1 DEF Dialing
  <2>4. Dialing' = IF task'[t].pc = "dial" THEN Dialing \cup {t} ELSE Dialing
    BY <2>1, <2>2, <2>3 DEF Dialing
  <2>5. \A u, w \in Dialing' : u = w BY <2>2, <2>4 DEF DialInv
  <2>6. claim' <=> Dialing' # {} BY <2>2, <2>4 DEF DialInv
  <2>7. \A c \in Conn, u \in Task : Pending(c, u)' => task'[u].pc = "register" BY <2>1 DEF DialInv, Pending
  <2> QED BY <2>1, <2>5, <2>6, <2>7 DEF DialInv, Pending
<1>8. ASSUME NEW t \in Task, DialFails(t) PROVE DialInv'
  <2>1. /\ conn' = conn /\ task[t].pc = "dial" /\ claim' = FALSE
        /\ \A u \in Task : u # t => task'[u] = task[u]
    BY <1>8 DEF DialFails, Types
  <2>2. task'[t].pc \notin {"dial", "register"} BY <1>8, Literals DEF DialFails, Types, DialTask
  <2>3. Dialing' = {} BY <2>1, <2>2 DEF DialInv, Dialing
  <2> QED BY <2>1, <2>3 DEF DialInv, Pending
<1>9. ASSUME NEW t \in Task, DialSucceeds(t) PROVE DialInv'
  <2>1. /\ task[t].pc = "dial" /\ claim' = claim /\ NextConn \in Conn
        /\ conn' = [conn EXCEPT ![NextConn] = [stage |-> "opened", addr |-> task[t].addr,
                                               end |-> "open", by |-> t]]
        /\ task'[t].pc = "register" /\ \A u \in Task : u # t => task'[u] = task[u]
    BY <1>9 DEF DialSucceeds, NextConn, FreeConns, Types
  <2>2. Dialing' = Dialing BY <2>1 DEF Dialing
  <2>3. \A c \in Conn, u \in Task : Pending(c, u)' => (c = NextConn /\ u = t) \/ (Pending(c, u) /\ u # t)
    BY <2>1 DEF Pending, Types, DialInv
  <2>4. \A c \in Conn, u \in Task : Pending(c, u)' => task'[u].pc = "register"
    BY Zenon, <2>1, <2>3 DEF DialInv
  <2>5. \A c, d \in Conn, u \in Task : Pending(c, u)' /\ Pending(d, u)' => c = d
    BY Zenon, <2>3 DEF DialInv
  <2> QED BY Zenon, <2>1, <2>2, <2>4, <2>5 DEF DialInv
<1>10. CASE (\E a \in Addr : List(a)) \/ Reconverge \/ Kick \/ Poll \/ Published \/ Scan
            \/ MaintRemoveV4 \/ MaintRemoveV6 \/ MaintDone
  <2>1. UNCHANGED <<conn, task, claim>>
    BY <1>10 DEF List, Reconverge, Kick, Poll, Published, Scan, MaintRemoveV4, MaintRemoveV6, MaintDone
  <2> QED BY <2>1, DialQuiet DEF Pending
<1>11. CASE Sever
  <2>1. UNCHANGED <<task, claim>> /\ (conn' = conn \/ \E c : conn' = [conn EXCEPT ![c].end = "other"])
    BY <1>11 DEF Sever
  <2>2. \A d \in Conn, t \in Task : Pending(d, t)' => Pending(d, t)
    BY <2>1 DEF Pending, Types, Link
  <2> QED BY Zenon, <2>1, <2>2, DialQuiet
<1> QED
  BY <1>1, <1>2, <1>3, <1>4, <1>5, <1>6, <1>7, <1>8, <1>9, <1>10, <1>11
  DEF Next, CoordinatorAccepts, MemberAccepts, Cleanup, Redial, Maintain

-----------------------------------------------------------------------------
LEMMA RouteInit == Init => RouteInv
<1> SUFFICES ASSUME Init PROVE RouteInv OBVIOUS
<1>1. \A a \in Addr : v4[a] = NoConn BY DEF Init
<1>2. \A i \in 1..Len(events) : FALSE BY DEF Init
<1>3. \A c \in Conn : ~Handles(c) BY Literals DEF Init, Handles
<1> QED BY Zenon, <1>1, <1>2, <1>3 DEF RouteInv, Named, Noticed, Queued, Handled

\* What reports nothing and names no connection.
LEMMA RouteQuiet ==
    ASSUME Types, Types', RouteInv, UNCHANGED <<events, cleaner>>,
           \A a \in Addr : v4'[a] \in {v4[a], NoConn},
           \A c \in Conn :
               \/ conn[c].stage = "free" /\ conn'[c].stage = "opened"
               \/ /\ conn'[c].addr = conn[c].addr
                  /\ \/ conn'[c].stage = conn[c].stage
                     \/ conn[c].stage = "half" /\ conn'[c].stage = "up"
    PROVE  RouteInv'
<1>1. \A a \in Addr : v4'[a] # NoConn => v4'[a] = v4[a] /\ v4[a] \in Conn BY DEF Types
<1>2. Named' BY <1>1 DEF RouteInv, Named
<1>3. \A c \in Conn : Announced(c)' <=> Announced(c) BY DEF Announced
<1>4. Noticed' BY <1>1, <1>3 DEF RouteInv, Named, Noticed
<1>5. \A i \in 1..Len(events) : events[i].conn # NoConn => events[i].conn \in Conn
  BY Zenon, EventFacts
<1>6. Queued' BY <1>5 DEF RouteInv, Queued, Handles
<1>7. Handled' BY DEF RouteInv, Handled, Handles
<1> QED BY <1>2, <1>4, <1>6, <1>7 DEF RouteInv

\* A step of the clean-up loop: it forgets a connection, if any, that it has in
\* hand, and drops a report once nothing names the connection.
LEMMA RouteCleaned ==
    ASSUME Types, Types', RouteInv, UNCHANGED events,
           \A a \in Addr : v4'[a] \in {v4[a], NoConn},
           \A c \in Conn : Handles(c)' => Handles(c) /\ cleaner'.event = cleaner.event,
           \A c \in Conn : Announced(c) => Announced(c)' \/ \A a \in Addr : v4'[a] # c,
           \A c \in Conn : \/ conn'[c] = conn[c]
                           \/ Handles(c) /\ ~Handles(c)' /\ \A a \in Addr : v4'[a] # c
    PROVE  RouteInv'
<1>1. \A a \in Addr : v4'[a] # NoConn => v4'[a] = v4[a] /\ v4[a] \in Conn /\ conn'[v4[a]] = conn[v4[a]]
  BY DEF Types
<1>2. Named' BY <1>1 DEF RouteInv, Named
<1>3. Noticed' BY <1>1 DEF RouteInv, Noticed
<1>4. \A i \in 1..Len(events) : events[i].conn # NoConn => events[i].conn \in Conn
  BY Zenon, EventFacts
<1>5. Queued' BY <1>4 DEF RouteInv, Queued
<1>6. Handled' BY DEF RouteInv, Handled
<1> QED BY <1>2, <1>3, <1>5, <1>6 DEF RouteInv

LEMMA RouteNext == ASSUME Types, Placed, Types', RouteInv, [Next]_vars PROVE RouteInv'
<1> USE PeeringAssumption
<1>1. CASE UNCHANGED vars BY <1>1, RouteQuiet DEF vars
<1>2. CASE AcceptKnown \/ (\E t \in Task : DialSucceeds(t))
  <2>1. /\ UNCHANGED <<v4, events, cleaner>> /\ NextConn \in Conn /\ conn[NextConn].stage = "free"
        /\ conn'[NextConn].stage = "opened" /\ \A c \in Conn : c # NextConn => conn'[c] = conn[c]
    <3>1. UNCHANGED <<v4, events, cleaner>> /\ FreeConns # {} BY <1>2 DEF AcceptKnown, DialSucceeds
    <3>2. NextConn \in Conn /\ conn[NextConn].stage = "free" BY <3>1 DEF NextConn, FreeConns
    <3>3. PICK a, t : conn' = [conn EXCEPT ![NextConn] = [stage |-> "opened", addr |-> a,
                                                         end |-> "open", by |-> t]]
      BY Zenon, <1>2 DEF AcceptKnown, DialSucceeds
    <3> QED BY <3>1, <3>2, <3>3 DEF Types
  <2> QED BY Zenon, <2>1, RouteQuiet
<1>3. ASSUME NEW c \in Conn, AddV4(c) PROVE RouteInv'
  <2>1. /\ conn[c].stage = "opened" /\ conn'[c].stage = "half" /\ conn'[c].addr = conn[c].addr
        /\ \A d \in Conn : d # c => conn'[d] = conn[d]
        /\ conn[c].addr \in Addr /\ v4'[conn[c].addr] = c
        /\ \A a \in Addr : a # conn[c].addr => v4'[a] = v4[a]
        /\ UNCHANGED <<events, cleaner>>
    BY <1>3 DEF AddV4, Types, Placed, Link
  <2>2. \A a \in Addr : v4[a] # c BY <2>1 DEF RouteInv, Named
  <2>3. Named' BY <2>1, <2>2 DEF RouteInv, Named, Types
  <2>4. Noticed' BY <2>1, <2>2 DEF RouteInv, Noticed, Types, Announced
  <2>5. \A i \in 1..Len(events) : events[i].conn # NoConn => events[i].conn \in Conn \ {c}
    BY <2>1, EventFacts DEF RouteInv, Queued
  <2>6. Queued' BY <2>1, <2>5 DEF RouteInv, Queued, Handles
  <2>7. Handled' BY <2>1 DEF RouteInv, Handled, Handles
  <2> QED BY Zenon, <2>3, <2>4, <2>6, <2>7 DEF RouteInv
<1>4. ASSUME NEW c \in Conn, AddV6(c) \/ (\E end \in {"left", "other"} : PeerCloses(c, end)) PROVE RouteInv'
  <2>1. UNCHANGED <<v4, events, cleaner>> /\ \A d \in Conn : d # c => conn'[d] = conn[d]
    BY <1>4 DEF AddV6, PeerCloses, Types
  <2>2. /\ conn'[c].addr = conn[c].addr
        /\ conn'[c].stage = conn[c].stage \/ (conn[c].stage = "half" /\ conn'[c].stage = "up")
    BY <1>4 DEF AddV6, PeerCloses, Types, Link
  <2> QED BY Zenon, <2>1, <2>2, RouteQuiet
<1>5. ASSUME NEW c \in Conn, Report(c) PROVE RouteInv'
  <2> DEFINE e == [conn |-> c, addr |-> conn[c].addr, left |-> conn[c].end = "left"]
             n == Len(events) + 1
  <2>1. /\ conn[c].stage = "up" /\ conn'[c].stage = "reported" /\ conn'[c].addr = conn[c].addr
        /\ \A d \in Conn : d # c => conn'[d] = conn[d]
        /\ UNCHANGED <<v4, cleaner>>
    BY <1>5 DEF Report, Types, Link
  <2>2. e \in Event /\ e.conn = c /\ e.addr = conn[c].addr
    <3>1. (conn[c].end = "left") \in BOOLEAN OBVIOUS
    <3>2. conn[c].addr \in Addr BY <2>1 DEF Placed
    <3> QED BY Zenon, <3>1, <3>2 DEF Event
  <2>3. events' = Append(events, e) BY <1>5 DEF Report
  <2> HIDE DEF e
  <2>4. /\ Len(events') = n /\ n \in Nat /\ n > 0 /\ events'[n].conn = c /\ events'[n].addr = conn[c].addr
        /\ \A i \in 1..n : i # n => i \in 1..Len(events) /\ events'[i] = events[i]
        /\ \A i \in 1..Len(events) : i \in 1..n /\ i # n /\ events'[i] = events[i]
    BY <2>2, <2>3, AppendFacts DEF Types
  <2>5. \A i \in 1..Len(events) : events[i].conn # NoConn => events[i].conn \in Conn \ {c}
    BY <2>1, EventFacts DEF RouteInv, Queued
  <2>6. ~Handles(c) BY <2>1 DEF RouteInv, Handled
  <2> HIDE DEF n
  <2>7. Named' BY <2>1 DEF RouteInv, Named, Types
  <2>8. n \in 1..Len(events') BY <2>4
  <2>9. \A d \in Conn : d = c \/ Announced(d) => Announced(d)'
    BY <2>1, <2>4, <2>8 DEF Announced
  <2>10. Noticed' BY <2>1, <2>9 DEF RouteInv, Noticed, Types
  <2>11. Handled' BY <2>1, <2>6 DEF RouteInv, Handled, Handles
  <2>12. Queued'
    <3> SUFFICES ASSUME NEW i \in 1..n, events'[i].conn # NoConn
                 PROVE  /\ conn'[events'[i].conn].stage = "reported"
                        /\ conn'[events'[i].conn].addr = events'[i].addr
                        /\ ~Handles(events'[i].conn)
                        /\ \A j \in 1..n : events'[j].conn = events'[i].conn => i = j
      BY <2>1, <2>4 DEF Queued, Handles
    <3>1. CASE i = n
      <4>1. \A j \in 1..n : j # n => events'[j].conn # c BY <2>4, <2>5
      <4> QED BY <2>1, <2>4, <2>6, <3>1, <4>1
    <3>2. CASE i # n
      <4>1. i \in 1..Len(events) /\ events'[i] = events[i] /\ events[i].conn \in Conn \ {c}
        BY <2>4, <2>5, <3>2
      <4>2. /\ conn[events[i].conn].stage = "reported" /\ conn[events[i].conn].addr = events[i].addr
            /\ ~Handles(events[i].conn)
            /\ \A j \in 1..Len(events) : events[j].conn = events[i].conn => i = j
        BY <4>1 DEF RouteInv, Queued
      <4>3. \A j \in 1..n : events'[j].conn = events[i].conn => i = j BY Zenon, <2>4, <4>1, <4>2
      <4> QED BY Zenon, <2>1, <4>1, <4>2, <4>3
    <3> QED BY Zenon, <3>1, <3>2
  <2> QED BY Zenon, <2>7, <2>10, <2>11, <2>12 DEF RouteInv
<1>6. CASE TakeEvent
  <2>1. /\ cleaner.pc = "idle" /\ events \in Seq(Event) /\ events # <<>> /\ events' = Tail(events)
        /\ cleaner' = [pc |-> IF Head(events).conn = NoConn THEN "rm4" ELSE "check", event |-> Head(events)]
        /\ UNCHANGED <<conn, v4>>
    BY <1>6 DEF TakeEvent, Types
  <2>2. /\ Len(events) \in Nat /\ 1 \in 1..Len(events) /\ Len(events') = Len(events) - 1
        /\ cleaner'.event = events[1] /\ cleaner'.pc \in {"check", "rm4"}
        /\ \A i \in 1..Len(events') : events'[i] = events[i + 1] /\ i + 1 \in 1..Len(events) /\ i + 1 # 1
    BY <2>1, TailFacts
  <2>3. Named' BY <2>1 DEF RouteInv, Named
  <2>4. \A c \in Conn : Announced(c) => Announced(c)'
    <3> SUFFICES ASSUME NEW c \in Conn, Announced(c) PROVE Announced(c)' OBVIOUS
    <3>1. PICK i \in 1..Len(events) : events[i].conn = c BY <2>1 DEF Announced
    <3>2. CASE i = 1 BY <2>2, <3>1, <3>2 DEF Announced
    <3>3. CASE i # 1
      <4>1. i - 1 \in 1..Len(events') /\ events'[i - 1] = events[i] BY <2>2, <3>3
      <4> QED BY <3>1, <4>1 DEF Announced
    <3> QED BY Zenon, <3>2, <3>3
  <2>5. Noticed' BY <2>1, <2>4 DEF RouteInv, Noticed, Types
  <2>6. Handled' BY <2>1, <2>2 DEF RouteInv, Queued, Handled, Handles
  <2>7. Queued'
    <3> SUFFICES ASSUME NEW i \in 1..Len(events'), events'[i].conn # NoConn
                 PROVE  /\ conn[events'[i].conn].stage = "reported"
                        /\ conn[events'[i].conn].addr = events'[i].addr
                        /\ events'[i].conn # events[1].conn
                        /\ \A j \in 1..Len(events') : events'[j].conn = events'[i].conn => i = j
      BY <2>1, <2>2 DEF Queued, Handles
    <3>1. events'[i] = events[i + 1] /\ i + 1 \in 1..Len(events) /\ i + 1 # 1 BY <2>2
    <3>2. /\ conn[events[i + 1].conn].stage = "reported"
          /\ conn[events[i + 1].conn].addr = events[i + 1].addr
          /\ \A k \in 1..Len(events) : events[k].conn = events[i + 1].conn => i + 1 = k
      BY Zenon, <3>1 DEF RouteInv, Queued
    <3>3. events[i + 1].conn # events[1].conn BY <2>2, <3>1, <3>2
    <3>4. ASSUME NEW j \in 1..Len(events'), events'[j].conn = events'[i].conn PROVE i = j
      <4>1. events[j + 1].conn = events[i + 1].conn /\ j + 1 \in 1..Len(events)
        BY Zenon, <2>2, <3>1, <3>4
      <4>2. i + 1 = j + 1 BY <3>2, <4>1
      <4> QED BY <4>2
    <3> QED BY Zenon, <3>1, <3>2, <3>3, <3>4
  <2> QED BY Zenon, <2>3, <2>5, <2>6, <2>7 DEF RouteInv
<1>7. cleaner.pc \in {"check", "rm4", "rm6"} =>
         \A a \in Addr, c \in Conn : cleaner.event.conn = c /\ v4[a] = c => a = cleaner.event.addr
  BY DEF RouteInv, Named, Handled, Handles
<1>8. CASE CheckStale
  <2>1. cleaner.pc = "check" /\ UNCHANGED <<v4, events>> BY <1>8 DEF CheckStale
  <2>2. CASE v4[cleaner.event.addr] = cleaner.event.conn
    <3>1. conn' = conn /\ cleaner'.pc = "rm4" /\ cleaner'.event = cleaner.event
      BY <1>8, <2>2 DEF CheckStale, Types, Loop
    <3>2. \A c \in Conn : (Handles(c)' => Handles(c)) /\ (Announced(c) => Announced(c)')
      BY <2>1, <3>1 DEF Handles, Announced
    <3> QED BY Zenon, <2>1, <3>1, <3>2, RouteCleaned
  <2>3. CASE v4[cleaner.event.addr] # cleaner.event.conn
    <3>1. conn' = Forget(cleaner.event.conn, v4, v6) /\ cleaner'.pc = "idle"
      BY <1>8, <2>3, Literals DEF CheckStale
    <3>2. \A c \in Conn : ~Handles(c)' BY <3>1 DEF Handles
    <3>3. \A c \in Conn : Handles(c) => \A a \in Addr : v4'[a] # c
      BY <1>7, <2>1, <2>3 DEF Handles
    <3>4. \A c \in Conn : Announced(c) => Announced(c)' \/ \A a \in Addr : v4'[a] # c
      BY <2>1, <3>3 DEF Announced, Handles
    <3>5. \A c \in Conn : conn'[c] = conn[c] \/ c = cleaner.event.conn
      BY <3>1, ForgetFacts DEF Types
    <3>6. \A c \in Conn : \/ conn'[c] = conn[c]
                          \/ Handles(c) /\ ~Handles(c)' /\ \A a \in Addr : v4'[a] # c
      BY <2>1, <3>2, <3>3, <3>5 DEF Handles
    <3> QED BY Zenon, <2>1, <3>2, <3>4, <3>6, RouteCleaned
  <2> QED BY <2>2, <2>3
<1>9. CASE RemoveV4
  <2>1. /\ cleaner.pc = "rm4" /\ cleaner'.pc = "rm6" /\ cleaner'.event = cleaner.event
        /\ UNCHANGED <<conn, events>> /\ cleaner.event.addr \in Addr
    BY <1>9 DEF RemoveV4, Types, Loop, Placed
  <2>2. \A a \in Addr : v4'[a] = IF a = cleaner.event.addr THEN NoConn ELSE v4[a]
    BY <1>9, <2>1 DEF RemoveV4, Types
  <2>3. \A c \in Conn : Handles(c)' => Handles(c) BY <2>1 DEF Handles
  <2>4. \A c \in Conn : cleaner.event.conn = c => \A a \in Addr : v4'[a] # c BY <1>7, <2>1, <2>2
  <2>5. \A c \in Conn : Announced(c) => Announced(c)' \/ \A a \in Addr : v4'[a] # c
    BY <2>1, <2>4 DEF Announced
  <2>6. \A a \in Addr : v4'[a] \in {v4[a], NoConn} BY Zenon, <2>2
  <2> QED BY Zenon, <2>1, <2>3, <2>5, <2>6, RouteCleaned
<1>10. CASE RemoveV6
  <2>1. /\ cleaner.pc = "rm6" /\ cleaner'.pc \in {"edit", "decide"} /\ UNCHANGED <<v4, events>>
        /\ conn' = Forget(cleaner.event.conn, v4, NoConn)
    BY <1>10 DEF RemoveV6, Types, Loop
  <2>2. \A c \in Conn : ~Handles(c)' /\ (Announced(c) => Announced(c)') BY <2>1 DEF Handles, Announced
  <2>3. \A c \in Conn : \/ conn'[c] = conn[c]
                        \/ conn'[c] = Unused /\ c = cleaner.event.conn /\ \A a \in Addr : v4[a] # c
    BY <2>1, ForgetFacts DEF Types
  <2>4. \A c \in Conn : \/ conn'[c] = conn[c]
                        \/ Handles(c) /\ ~Handles(c)' /\ \A a \in Addr : v4'[a] # c
    BY <2>1, <2>2, <2>3 DEF Handles
  <2> QED BY Zenon, <2>1, <2>2, <2>4, RouteCleaned
<1>11. CASE EditRoster \/ Decide
  <2>1. /\ cleaner.pc \in {"edit", "decide"} /\ cleaner'.pc \in {"decide", "idle"}
        /\ UNCHANGED <<conn, v4, events>>
    BY <1>11, Literals DEF EditRoster, Decide, Types, Loop
  <2>2. \A c \in Conn : ~Handles(c)' /\ (Announced(c) => Announced(c)') BY <2>1 DEF Handles, Announced
  <2> QED BY Zenon, <2>1, <2>2, RouteCleaned
<1>12. ASSUME NEW t \in Task, DialFails(t) PROVE RouteInv'
  <2> DEFINE e == [NoEvent EXCEPT !.addr = task[t].addr]
             n == Len(events) + 1
  <2>1. UNCHANGED <<conn, v4, cleaner>> /\ (events' = events \/ events' = Append(events, e))
    BY <1>12 DEF DialFails
  <2>2. CASE events' = events BY <2>1, <2>2, RouteQuiet
  <2>3. CASE events' = Append(events, e)
    <3>1. e \in Event /\ e.conn = NoConn BY <1>12 DEF DialFails, Placed, NoEvent, Event
    <3> HIDE DEF e
    <3>2. /\ Len(events') = n /\ n \in Nat /\ events'[n].conn = NoConn
          /\ \A i \in 1..n : i # n => i \in 1..Len(events) /\ events'[i] = events[i]
          /\ \A i \in 1..Len(events) : i \in 1..n /\ events'[i] = events[i]
      BY <2>3, <3>1, AppendFacts DEF Types
    <3> HIDE DEF n
    <3>3. Named' /\ Handled' BY <2>1 DEF RouteInv, Named, Handled, Handles
    <3>4. \A c \in Conn : Announced(c) => Announced(c)' BY <2>1, <3>2 DEF Announced
    <3>5. Noticed' BY <2>1, <3>4 DEF RouteInv, Noticed, Types
    <3>6. Queued' BY <2>1, <3>2 DEF RouteInv, Queued, Handles
    <3> QED BY <3>3, <3>5, <3>6 DEF RouteInv
  <2> QED BY <2>1, <2>2, <2>3
<1>13. CASE \/ \E t \in Task : Recheck(t) \/ Claim(t) \/ FirstDial(t)
            \/ \E a \in Addr : List(a)
            \/ Reconverge \/ Kick \/ Poll \/ Published \/ Scan \/ MaintRemoveV6 \/ MaintDone
  <2>1. UNCHANGED <<conn, v4, events, cleaner>>
    BY <1>13 DEF Recheck, Claim, FirstDial, List, Reconverge, Kick, Poll, Published, Scan, MaintRemoveV6,
                 MaintDone
  <2> QED BY Zenon, <2>1, RouteQuiet
<1>14. CASE MaintRemoveV4
  <2>1. UNCHANGED <<conn, events, cleaner>> /\ \A a \in Addr : v4'[a] \in {v4[a], NoConn}
    BY <1>14 DEF MaintRemoveV4, Types
  <2> QED BY Zenon, <2>1, RouteQuiet
<1>15. CASE Sever
  <2>1. /\ UNCHANGED <<v4, events, cleaner>>
        /\ conn' = conn \/ \E c : conn' = [conn EXCEPT ![c].end = "other"]
    BY <1>15 DEF Sever
  <2>2. \A c \in Conn : conn'[c].addr = conn[c].addr /\ conn'[c].stage = conn[c].stage
    BY <2>1 DEF Types, Link
  <2> QED BY Zenon, <2>1, <2>2, RouteQuiet
<1> QED
  BY <1>1, <1>2, <1>3, <1>4, <1>5, <1>6, <1>8, <1>9, <1>10, <1>11, <1>12, <1>13, <1>14, <1>15
  DEF Next, CoordinatorAccepts, MemberAccepts, Cleanup, Redial, Maintain

-----------------------------------------------------------------------------
\* The first dial after a start and the redial tasks of join.rs and coordinator.rs
\* never connect to the peer at the same time, however many of them there are.
THEOREM DialsAreSingle == Spec => []OneDialInFlight
<1>1. Types /\ Placed /\ DialInv => OneDialInFlight
  <2> SUFFICES ASSUME DialInv PROVE OneDialInFlight OBVIOUS
  <2>1. CASE Dialing = {} BY <2>1, FS_EmptySet DEF DialInv, OneDialInFlight
  <2>2. ASSUME NEW t \in Dialing PROVE OneDialInFlight
    <3>1. Dialing = {t} BY <2>2 DEF DialInv
    <3>2. Cardinality(Dialing) = 1 BY <3>1, FS_Singleton
    <3> QED BY <3>1, <3>2 DEF DialInv, OneDialInFlight
  <2> QED BY <2>1, <2>2
<1> QED BY <1>1, TypesInit, TypesNext, DialInit, DialNext, PTL DEF Spec

\* No route of the peer table is left on a connection whose end nobody will
\* handle, whatever the order of reports, clean-ups, dials and roster changes.
THEOREM RoutesAreWatched == Spec => []NoDeadRoute
<1>1. Types /\ Placed /\ RouteInv => NoDeadRoute
  BY DEF RouteInv, Named, Noticed, NoDeadRoute
<1> QED BY <1>1, TypesInit, TypesNext, RouteInit, RouteNext, PTL DEF Spec
=============================================================================
