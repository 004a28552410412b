------------------------------- MODULE Packets -------------------------------
(***************************************************************************)
(* What the kernel does with the first packet of a connection, by the      *)
(* static chains of pkg/nftables/common.go and the sets, service chains    *)
(* and endpoint chains the proxy programs: the function the whole proxy    *)
(* is there for.                                                           *)
(*                                                                         *)
(* A packet is [proto, dst, port, src, hook].  dst = Nil is an address of  *)
(* the node itself (fib daddr type local); src is "outside" the cluster    *)
(* CIDR, a "pod" behind no endpoint of interest, or an endpoint; hook is   *)
(* the filter hook the packet passes when its destination is not changed.  *)
(* The nat chains run first: in prerouting, or in output.                  *)
(*                                                                         *)
(* Left out: later packets, which conntrack translates like the first; the *)
(* drop mark 0x8000, which no rule sets; addresses of endpoints that are   *)
(* service addresses as well.                                              *)
(***************************************************************************)
EXTENDS Proxy

Packet ==
    [proto : Protocol, dst : IP \cup {Nil}, port : Port,
     src : Addr \cup {"outside", "pod"}, hook : {"input", "forward", "output"}]

Key(p) == <<p.proto, p.dst, p.port>>

Matches(set, p) == {x \in sets : x.set = set /\ x.key = Key(p)}

(***************************************************************************)
(* The nat chains.                                                         *)
(***************************************************************************)
\* An endpoint chain ends in the DNAT to its address; a chain without the rule
\* returns (Nil).
EndpointVerdict(spn, a) ==
    IF epChain[spn][a] # Nil /\ \E i \in DOMAIN epChain[spn][a] : epChain[spn][a][i].kind = "dnat"
    THEN a ELSE Nil

\* The MatchAct rule jumps to the chain of the index the affinity map has for
\* the source, the load balancing rule to any; a chain without them returns.
ServiceVerdicts(ref) ==
    LET c == svcChain[ref[1]][ref[2]]
        jumps == UNION {c[i].to : i \in {i \in DOMAIN c : c[i].kind \in {"matchact", "lb"}}}
    IN  IF c = Nil \/ ~\E i \in DOMAIN c : c[i].kind = "lb" THEN {Nil}
        ELSE {EndpointVerdict(ref[1], t[2]) : t \in jumps}

\* K8sNATServices looks the destination up in one set after the other, the
\* node ports last and only for an address of the node.
NatSets(p) ==
    <<"cluster", "external", "loadbalancer">> \o (IF p.dst = Nil THEN <<"nodeport">> ELSE <<>>)

\* The service chains a verdict map sends the packet to.
ChainsFor(set, p) == {x.to : x \in {x \in Matches(set, p) : x.to # Nil}}

\* A set lets the packet through to the next one when its chain returns.
Hits(set, p) == UNION {ServiceVerdicts(ref) \ {Nil} : ref \in ChainsFor(set, p)}
Passes(set, p) == \A ref \in ChainsFor(set, p) : Nil \in ServiceVerdicts(ref)

Reached(p) == {i \in DOMAIN NatSets(p) : \A j \in 1..(i - 1) : Passes(NatSets(p)[j], p)}
PassesAll(p) == \A i \in DOMAIN NatSets(p) : Passes(NatSets(p)[i], p)

\* The endpoints the packet may be sent to, Nil for none.
NatVerdicts(p) ==
    (UNION {Hits(NatSets(p)[i], p) : i \in Reached(p)}) \cup {v \in {Nil} : PassesAll(p)}

\* K8sNATMarkMasq: packets from outside to an address of the masquerade set
\* get the mark 0x4000, before any lookup.
MarkedOutside(p) == p.src = "outside" /\ Matches("markmasq", p) # {}

\* AddEndpointRules: in front of the DNAT, a packet from the endpoint itself
\* gets the mark 0x4000.
MarkedHairpin(spn, p, a) ==
    /\ p.src = a
    /\ \E i, j \in DOMAIN epChain[spn][a] :
          i < j /\ epChain[spn][a][i].kind = "masq" /\ epChain[spn][a][j].kind = "dnat"

\* K8sNATPostrouting: everything from outside, and every marked packet.
Masqueraded(spn, p, a) == p.src = "outside" \/ MarkedHairpin(spn, p, a)

(***************************************************************************)
(* The filter chains, for a packet no service chain has translated.        *)
(***************************************************************************)
\* Mutant of FilterVerdict: the packets to the node are not looked up.
FilterVerdictNotInput(p) ==
    IF p.hook = "forward" /\ MarkedOutside(p) THEN "accept"
    ELSE IF p.hook # "input" /\ Matches("noendpoints", p) # {} THEN "reject"
    ELSE "accept"

\* In forward, K8sFilterForward comes first and accepts marked packets; then,
\* as in input and output, K8sFilterServices rejects the addresses of the
\* no-endpoints set.  The policy of the base chains is to accept.
FilterVerdict(p) ==
    IF p.hook = "forward" /\ MarkedOutside(p) THEN "accept"
    ELSE IF Matches("noendpoints", p) # {} THEN "reject"
    ELSE "accept"

(***************************************************************************)
(* Correctness.                                                            *)
(***************************************************************************)
AddressesOfEndpoints(spn) == {endpointsMap[spn][i].addr : i \in DOMAIN endpointsMap[spn]}

\* The service ports the packet's destination is an address of.
OwnersOf(p) == {ref[1] : ref \in UNION {ChainsFor(set, p) : set \in Range(NatSets(p))}}

BackendsOf(p) == UNION {AddressesOfEndpoints(spn) : spn \in OwnersOf(p)}

\* In every state between two critical sections a connection to an address
\* of a service is sent to one of the service's current endpoints: never to
\* one that was deleted, and never past them while there is one.
ConnectionsServed ==
    \A p \in Packet : /\ NatVerdicts(p) \ {Nil} \subseteq BackendsOf(p)
                      /\ BackendsOf(p) # {} => Nil \notin NatVerdicts(p)

\* A connection to a cluster, external or load balancer address of a service
\* port without endpoints is rejected, not left to time out, unless it is
\* forwarded for a client outside the cluster.
RefusedWithoutEndpoints ==
    \A p \in Packet, spn \in ServicePortName :
        (/\ serviceMap[spn] # Nil /\ AddressesOfEndpoints(spn) = {} /\ BackendsOf(p) = {}
         /\ p.proto = spn.proto /\ p.port = serviceMap[spn].port
         /\ p.dst \in {serviceMap[spn].ip} \cup Range(serviceMap[spn].ext) \cup Range(serviceMap[spn].lb)
         /\ ~(p.hook = "forward" /\ p.src = "outside"))
        => FilterVerdict(p) = "reject"

\* "kubernetes reject for services without endpoints": nobody's connection
\* to an address in the no-endpoints set is accepted.
RefusedToEveryone ==
    \A p \in Packet : Matches("noendpoints", p) # {} /\ NatVerdicts(p) = {Nil} =>
        FilterVerdict(p) = "reject"

\* An endpoint that reaches itself through a service, and every client from
\* outside, is masqueraded, so that the answer comes back through the node,
\* with or without session affinity.
AnswersComeBack ==
    \A p \in Packet : \A spn \in OwnersOf(p) : \A a \in AddressesOfEndpoints(spn) :
        p.src \in {a, "outside"} => Masqueraded(spn, p, a)
=============================================================================
