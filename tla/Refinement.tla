----------------------------- MODULE Refinement -----------------------------
(***************************************************************************)
(* The proxy and the kernel it programs implement ServiceTable.  The table *)
(* is read off the kernel, not off the maps of the proxy: what counts is   *)
(* what happens to connections.                                            *)
(***************************************************************************)
EXTENDS Proxy

\* The addresses the rules of a kind in the service chains of spn jump to.
JumpTargets(spn, kind) ==
    {a \in Addr : \E id \in SvcKey : svcChain[spn][id] # Nil /\
        \E i \in DOMAIN svcChain[spn][id] :
            svcChain[spn][id][i].kind = kind /\ \E t \in svcChain[spn][id][i].to : t[2] = a}

\* The addresses whose chain has a rule of a kind.
ChainsWith(spn, kind) ==
    {a \in Addr : epChain[spn][a] # Nil /\
        \E i \in DOMAIN epChain[spn][a] : epChain[spn][a][i].kind = kind}

KernelEntry(spn) ==
    [exposed  |-> \E id \in SvcKey : svcChain[spn][id] # Nil,
     sticky   |-> \E id \in SvcKey : affinityMap[spn][id] # Nil,
     backends |-> {a \in Addr : epChain[spn][a] # Nil},
     routes   |-> JumpTargets(spn, "lb") \cap ChainsWith(spn, "dnat"),
     pinned   |-> ChainsWith(spn, "update")]

KernelTable == [spn \in ServicePortName |-> KernelEntry(spn)]

Table == INSTANCE ServiceTable
    WITH ServicePort <- ServicePortName, Backend <- Addr,
         table <- KernelTable, up <- proc = "running"

\* Whatever the two informers do in whatever order, the chains and maps of
\* the kernel change as the table does: one critical section, one operation,
\* for one service port (for all of a service's when its affinity changes),
\* complete; a kill between critical sections changes nothing, a panic within
\* a change of affinity leaves the ports it got to changed and no other, a
\* restart starts from nothing.
ServesAsTable == Table!Spec
=============================================================================
