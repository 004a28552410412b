---------------------------- MODULE ServiceTable ----------------------------
(***************************************************************************)
(* What nfproxy promises the node: a table that says, for every service    *)
(* port, whether it is exposed, which backends it has and whether clients  *)
(* stay with theirs, and that changes in one step for one operation.       *)
(*                                                                         *)
(* Connections are sent to the backends of an exposed service port and to  *)
(* nothing else.  Service ports and backends come in any order: what is    *)
(* known of a backend is kept while its service port is not exposed.  The  *)
(* table outlives the process, and the next one starts with an empty one.  *)
(* Only a change of stickiness, which is one of several service ports, may *)
(* be cut short by the end of the process.                                 *)
(***************************************************************************)
CONSTANTS ServicePort, Backend

VARIABLES
    table,  \* what the node does for each service port
    up      \* the process that keeps the table runs

(***************************************************************************)
(* An entry of the table: connections are sent to the backends (routes) of *)
(* an exposed service port; a sticky one remembers the clients of each of  *)
(* them (pinned).                                                          *)
(***************************************************************************)
Entry(exposed, sticky, backends) ==
    [exposed  |-> exposed,
     sticky   |-> sticky,
     backends |-> backends,
     routes   |-> IF exposed THEN backends ELSE {},
     pinned   |-> IF sticky THEN backends ELSE {}]

NoEntry == Entry(FALSE, FALSE, {})

Init ==
    /\ table = [p \in ServicePort |-> NoEntry]
    /\ up = TRUE

Put(p, e) ==
    /\ up
    /\ table' = [table EXCEPT ![p] = e]
    /\ UNCHANGED up

Expose(p, sticky) ==
    /\ ~table[p].exposed
    /\ Put(p, Entry(TRUE, sticky, table[p].backends))

Withdraw(p) ==
    /\ table[p].exposed
    /\ Put(p, Entry(FALSE, FALSE, table[p].backends))

AddBackend(p, b) ==
    /\ b \notin table[p].backends
    /\ Put(p, Entry(table[p].exposed, table[p].sticky, table[p].backends \cup {b}))

RemoveBackend(p, b) ==
    /\ b \in table[p].backends
    /\ Put(p, Entry(table[p].exposed, table[p].sticky, table[p].backends \ {b}))

Restick(ports, sticky) ==
    /\ up
    /\ \A p \in ports : table[p].exposed /\ table[p].sticky # sticky
    /\ table' = [p \in ServicePort |->
                   IF p \in ports THEN Entry(TRUE, sticky, table[p].backends) ELSE table[p]]

\* The service ports of a service become sticky, or cease to be, together.
SetSticky(ports, sticky) ==
    /\ Restick(ports, sticky)
    /\ UNCHANGED up

\* The process ends on the way: only some of them have changed.
CrashOnTheWay(ports, sticky) ==
    /\ Restick(ports, sticky)
    /\ up' = FALSE

\* The process ends; connections are still served.
Crash ==
    /\ up
    /\ up' = FALSE
    /\ UNCHANGED table

Restart ==
    /\ ~up
    /\ up' = TRUE
    /\ table' = [p \in ServicePort |-> NoEntry]

Next ==
    \/ \E p \in ServicePort : \/ \E sticky \in BOOLEAN : Expose(p, sticky)
                              \/ Withdraw(p)
                              \/ \E b \in Backend : AddBackend(p, b) \/ RemoveBackend(p, b)
    \/ \E ports \in SUBSET ServicePort, sticky \in BOOLEAN :
          SetSticky(ports, sticky) \/ CrashOnTheWay(ports, sticky)
    \/ Crash
    \/ Restart

Spec == Init /\ [][Next]_<<table, up>>
=============================================================================
