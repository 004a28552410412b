-------------------------------- MODULE Proxy --------------------------------
(***************************************************************************)
(* The proxy of pkg/proxy: the service and endpoint maps, the nftables     *)
(* chains, affinity maps and sets they stand for, and the critical         *)
(* sections (p.mu held) that keep the two in step.                         *)
(*                                                                         *)
(* The service informer and the endpoints informer each run their handlers *)
(* one after the other, concurrently with the other informer; a handler is *)
(* a sequence of the critical sections below, so Next lets them follow one *)
(* another in any order, for any service port.  Each one is an operator on *)
(* the state of one service port (a record w, see Local) that follows the  *)
(* code call by call, error returns and panics included.  The guards of    *)
(* the actions are the contract of the callers: what they must respect for *)
(* the two sides to stay in step (NFProxy models the callers).             *)
(*                                                                         *)
(* A panic kills the process: informer goroutines re-panic.  The pod is    *)
(* restarted and InitNFTables deletes and recreates the tables.            *)
(***************************************************************************)
EXTENDS Nftables

CONSTANTS
    Service, PortName, Protocol,    \* the parts of a service port name
    IPLists,    \* the lists of external or load balancer addresses in use
    UpdatedSets \* the sets whose elements a Service update changes one by one

ASSUME ProxyAssumption ==
    /\ IPLists \subseteq Seq(IP)
    /\ UpdatedSets \subseteq SetNames \ {"noendpoints"}

VARIABLES
    serviceMap,     \* p.serviceMap: service port -> its record, or Nil
    endpointsMap,   \* p.endpointsMap: service port -> sequence of endpoints
    svcChain,       \* kernel: chains k8s-nfproxy-svc-{svcID} of a service port
    epChain,        \* kernel: chains k8s-nfproxy-sep-{...} of a service port
    affinityMap,    \* kernel: maps k8s-affinity-{svcID}, by their timeout
    sets,           \* kernel: elements of the six common sets
    proc            \* "running", "panicked" or "killed"

vars == <<serviceMap, endpointsMap, svcChain, epChain, affinityMap, sets, proc>>

(***************************************************************************)
(* Types.                                                                  *)
(***************************************************************************)
ServicePortName == [svc : Service, port : PortName, proto : Protocol]

\* BaseServiceInfo with its svcnft; ext and lb in the order of the object.
ServiceInfo ==
    [ip : IP, port : Port, nodePort : Port \cup {0}, ext : IPLists, lb : IPLists,
     withEP : BOOLEAN, withAff : BOOLEAN, maxAge : Timeout \cup {0}, ruleID : Seq(Handles)]

\* endpointsInfo with its EPRule.
EndpointInfo ==
    [addr : Addr, local : BOOLEAN, index : Nat, withAff : BOOLEAN, ruleID : Seq(Handles)]

\* What a Service object says of one of its ports; aff is Nil or a timeout.
PortSpec ==
    [ip : IP, port : Port, nodePort : Port \cup {0}, ext : IPLists, lb : IPLists,
     aff : Timeout \cup {Nil}]

\* The addresses of the last known Service object, read from the cache.
Stored == [ip : IP \cup {Nil}, ext : IPLists, lb : IPLists, nodePorts : SUBSET Port]

Chain == Seq(RuleType) \cup {Nil}

SvcRef == {<<spn, id>> : spn \in ServicePortName, id \in SvcKey}

SetElement ==
    [set : SetNames, key : Protocol \X (IP \cup {Nil}) \X Port, to : SvcRef \cup {Nil}]

\* Nil stands apart from every object it may be mistaken for.
ASSUME NilAssumption ==
    Nil \notin ServiceInfo /\ Nil \notin Seq(RuleType) /\ Nil \notin SvcKey /\ Nil \notin SvcRef

\* Every variable has the type of the Go or kernel object it stands for.
TypeOK ==
    /\ serviceMap \in [ServicePortName -> ServiceInfo \cup {Nil}]
    /\ endpointsMap \in [ServicePortName -> Seq(EndpointInfo)]
    /\ svcChain \in [ServicePortName -> [SvcKey -> Chain]]
    /\ epChain \in [ServicePortName -> [Addr -> Chain]]
    /\ affinityMap \in [ServicePortName -> [SvcKey -> Timeout \cup {0, Nil}]]
    /\ sets \subseteq SetElement
    /\ proc \in {"running", "panicked", "killed"}

(***************************************************************************)
(* Helpers.                                                                *)
(***************************************************************************)
\* The elements of the sequence s at the positions P, in their order.
Picked(s, P) == [k \in 1..Cardinality(P) |-> s[CHOOSE i \in P : Cardinality({j \in P : j <= i}) = k]]

\* The part of the state a critical section on spn reads and writes; res is
\* "ok", "error" (the code logged or returned an error) or "panic".
Local(spn) ==
    [svc |-> serviceMap[spn], eps |-> endpointsMap[spn], sc |-> svcChain[spn],
     ec |-> epChain[spn], am |-> affinityMap[spn], sets |-> sets, res |-> "ok"]

SvcID(svc) == <<svc.ip, svc.port>>

Element(set, spn, ip, port, to) ==
    [set |-> set, key |-> <<spn.proto, ip, port>>, to |-> to]

\* The AddToSet pair for each external or load balancer address, in order.
AddressElements(spn, svc, set, ips) ==
    [j \in 1..(2 * Len(ips)) |->
        IF j % 2 = 1
        THEN Element(set, spn, ips[(j + 1) \div 2], svc.port, <<spn, SvcID(svc)>>)
        ELSE Element("markmasq", spn, ips[j \div 2], svc.port, Nil)]

\* addServicePortToSets.
ServicePortElements(spn, svc) ==
    << Element("cluster", spn, svc.ip, svc.port, <<spn, SvcID(svc)>>),
       Element("markmasq", spn, svc.ip, svc.port, Nil) >>
    \o AddressElements(spn, svc, "external", svc.ext)
    \o AddressElements(spn, svc, "loadbalancer", svc.lb)
    \o IF svc.nodePort = 0 THEN <<>>
       ELSE <<Element("nodeport", spn, Nil, svc.nodePort, <<spn, SvcID(svc)>>)>>

\* Mutant of StoredElements: the cluster IP is forgotten.
StoredElementsNoCluster(spn, svc, stored) ==
    IF stored = Nil THEN {}
    ELSE {Element("nodeport", spn, Nil, np, Nil) : np \in stored.nodePorts}
         \cup {Element(pair[1], spn, pair[2], svc.port, Nil) :
                 pair \in ({"external", "markmasq"} \X Range(stored.ext))
                          \cup ({"loadbalancer", "markmasq"} \X Range(stored.lb))}

\* removeServicePortFromSets: the addresses are those of the last known
\* Service object, and the node ports those of all of its ports.
StoredElements(spn, svc, stored) ==
    IF stored = Nil THEN {}
    ELSE {Element("nodeport", spn, Nil, np, Nil) : np \in stored.nodePorts}
         \cup {Element(pair[1], spn, pair[2], svc.port, Nil) :
                 pair \in ({"cluster", "markmasq"} \X ({stored.ip} \ {Nil}))
                          \cup ({"external", "markmasq"} \X Range(stored.ext))
                          \cup ({"loadbalancer", "markmasq"} \X Range(stored.lb))}

\* addToNoEndpointsList, removeFromNoEndpointsList: the addresses the service
\* port had when it was added.
NoEndpointsElements(spn, svc) ==
    {Element("noendpoints", spn, ip, svc.port, Nil) :
        ip \in {svc.ip} \cup Range(svc.ext) \cup Range(svc.lb)}

\* The load balancer picks one of the endpoint chains at random.
Targets(eps) == {<<i, eps[i].addr>> : i \in DOMAIN eps}

\* The verdict map of a MatchAct rule: act[EpIndex] = chain, the last one wins.
ActElement(eps) ==
    {<<eps[i].index, eps[i].addr>> :
        i \in {i \in DOMAIN eps : \A j \in DOMAIN eps : j > i => eps[j].index # eps[i].index}}

CounterRule(h) == Rule(h, "counter", {}, Nil)
MatchActRule(h, id, eps) == Rule(h, "matchact", ActElement(eps), id)
LoadBalanceRule(h, eps) == Rule(h, "lb", Targets(eps), Nil)
\* The Update rule writes the endpoint's index into the affinity map.
UpdateRule(h, id, ep) == Rule(h, "update", {<<ep.index, ep.addr>>}, id)

\* A rule that jumps to a chain that does not exist is refused.
TargetsExist(w) == \A i \in DOMAIN w.eps : w.ec[w.eps[i].addr] # Nil

\* A map some rule refers to, a chain some rule or element jumps to: EBUSY.
\* An Update rule names its own endpoint but does not jump.
RefersTo(c, id) == c # Nil /\ \E i \in DOMAIN c : c[i].map = id
MapBusy(w, id) == (\E k \in SvcKey : RefersTo(w.sc[k], id)) \/ (\E a \in Addr : RefersTo(w.ec[a], id))
JumpsTo(c, addr) ==
    c # Nil /\ \E i \in DOMAIN c : c[i].kind # "update" /\ \E t \in c[i].to : t[2] = addr
EpChainBusy(w, addr) == \E k \in SvcKey : JumpsTo(w.sc[k], addr)
SvcChainBusy(w, ref) == \E x \in w.sets : x.to = ref

(***************************************************************************)
(* pkg/nftables/nftables.go: ProgramServiceEndpoints.                      *)
(***************************************************************************)
UsedHandles(c, ids) == HandlesOf(c) \cup Range(ids)

\* Mutant of WithRules: the new rule identifiers are not stored.
WithRulesForgotten(w, c, ids) == [w EXCEPT !.sc[SvcID(w.svc)] = c]

\* The service chain has the rules c, and ids are the handles remembered.
WithRules(w, c, ids) == [w EXCEPT !.sc[SvcID(w.svc)] = c, !.svc.ruleID = ids]

\* The service chain is programmed for the first time.
ProgramFirst(w) ==
    LET id   == SvcID(w.svc)
        c    == w.sc[id]
        used == HandlesOf(c)
        h1   == NewHandle(used)
        h2   == NewHandle(used \cup {h1})
        h3   == NewHandle(used \cup {h1, h2})
    IN  IF ~TargetsExist(w)
        THEN [w EXCEPT !.sc[id] = Append(c, CounterRule(h1)), !.res = "error"]
        ELSE IF w.svc.withAff
        THEN WithRules(w, c \o <<CounterRule(h1), MatchActRule(h2, id, w.eps),
                                 LoadBalanceRule(h3, w.eps)>>, <<h1, h2, h3>>)
        ELSE WithRules(w, c \o <<CounterRule(h1), LoadBalanceRule(h2, w.eps)>>, <<h1, h2>>)

\* The existing rule of this kind, remembered at position n, gives way to a
\* new one.
ReplaceRemembered(w, n, kind) ==
    LET id == SvcID(w.svc)
        c  == w.sc[id]
        h  == NewHandle(UsedHandles(c, w.svc.ruleID))
        r  == IF kind = "matchact" THEN MatchActRule(h, id, w.eps) ELSE LoadBalanceRule(h, w.eps)
    IN  IF Len(w.svc.ruleID) < n THEN [w EXCEPT !.res = "panic"]
        ELSE IF ~HasRule(c, w.svc.ruleID[n]) \/ ~TargetsExist(w)
        THEN [w EXCEPT !.res = "error"]
        ELSE WithRules(w, ReplaceRule(c, w.svc.ruleID[n], r), ReplaceAt(w.svc.ruleID, n, h))

ProgramServiceEndpoints(w) ==
    LET id == SvcID(w.svc)
        w1 == ReplaceRemembered(w, 2, "matchact")
    IN  IF w.sc[id] = Nil \/ (w.svc.withAff /\ w.am[id] = Nil)
        THEN [w EXCEPT !.res = "error"]
        ELSE IF w.svc.ruleID = <<>> THEN ProgramFirst(w)
        ELSE IF ~w.svc.withAff THEN ReplaceRemembered(w, 2, "lb")
        ELSE IF w1.res # "ok" THEN w1
        ELSE ReplaceRemembered(w1, 3, "lb")

(***************************************************************************)
(* pkg/proxy/proxy.go.                                                     *)
(***************************************************************************)
\* Mutant of RememberUpdateRule: the identifier goes to the end of RuleID.
RememberUpdateRuleLast(ep, h) == [ep EXCEPT !.withAff = TRUE, !.ruleID = Append(@, h)]

\* The Update rule is the first rule of the endpoint's RuleID.
RememberUpdateRule(ep, h) == [ep EXCEPT !.withAff = TRUE, !.ruleID = <<h>> \o @]

\* addAffinityEndpoint: an Update rule is inserted in front of every endpoint
\* chain.  The affinity map is looked up first.
addAffinityEndpoint(w) ==
    LET id == SvcID(w.svc)
        h(i) == NewHandle(UsedHandles(CreateChain(w.ec[w.eps[i].addr]), w.eps[i].ruleID))
        owner(a) == CHOOSE i \in DOMAIN w.eps : w.eps[i].addr = a
    IN  IF w.am[id] = Nil THEN [w EXCEPT !.res = "error"]
        ELSE [w EXCEPT
               !.ec = [a \in Addr |->
                        IF \E i \in DOMAIN w.eps : w.eps[i].addr = a
                        THEN <<UpdateRule(h(owner(a)), id, w.eps[owner(a)])>> \o CreateChain(w.ec[a])
                        ELSE w.ec[a]],
               !.eps = [i \in DOMAIN w.eps |-> RememberUpdateRule(w.eps[i], h(i))]]

\* deleteAffinityEndpoint: the first remembered rule of every endpoint is
\* deleted, up to the first endpoint whose rule is not there (an error) or that
\* remembers none (a panic).
deleteAffinityEndpoint(w) ==
    LET panics(i) == w.eps[i].ruleID = <<>>
        fails(i) == panics(i) \/ ~HasRule(w.ec[w.eps[i].addr], Head(w.eps[i].ruleID))
        done(i) == \A j \in 1..i : ~fails(j)
        owner(a) == CHOOSE i \in DOMAIN w.eps : w.eps[i].addr = a
    IN  [w EXCEPT
          !.ec = [a \in Addr |->
                   IF \E i \in DOMAIN w.eps : w.eps[i].addr = a /\ done(i)
                   THEN DeleteRule(w.ec[a], Head(w.eps[owner(a)].ruleID))
                   ELSE w.ec[a]],
          !.eps = [i \in DOMAIN w.eps |->
                    IF done(i) THEN [w.eps[i] EXCEPT !.withAff = FALSE, !.ruleID = Tail(@)]
                    ELSE w.eps[i]],
          !.res = IF \A i \in DOMAIN w.eps : ~fails(i) THEN "ok"
                  ELSE IF \E i \in DOMAIN w.eps : panics(i) /\ \A j \in 1..(i - 1) : ~fails(j) THEN "panic"
                  ELSE "error"]

\* Mutant of MarkEndpoints: the no-endpoints set is not kept up to date.
MarkEndpointsOnly(spn, w) == [w EXCEPT !.svc.withEP = w.eps # <<>>]

\* updateServiceChain: WithEndpoints and the no-endpoints set follow the
\* endpoints of the port, then the service chain is programmed or emptied.
MarkEndpoints(spn, w) ==
    IF w.eps = <<>>
    THEN [w EXCEPT !.sets = IF w.svc.withEP THEN @ \cup NoEndpointsElements(spn, w.svc) ELSE @,
                   !.svc.withEP = FALSE]
    ELSE [w EXCEPT !.sets = IF w.svc.withEP THEN @ ELSE RemoveFromSets(@, NoEndpointsElements(spn, w.svc)),
                   !.svc.withEP = TRUE]

updateServiceChain(spn, w) ==
    LET w1 == MarkEndpoints(spn, w)
        id == SvcID(w.svc)
        c  == w.sc[id]
        ok == DeleteChainRulesOK(c, w.svc.ruleID)
    IN  IF w.svc = Nil THEN w
        ELSE IF w.eps # <<>> THEN ProgramServiceEndpoints(w1)
        ELSE IF ok THEN WithRules(w1, DeleteChainRules(c, w.svc.ruleID), <<>>)
        ELSE [w1 EXCEPT !.sc[id] = DeleteChainRules(c, w.svc.ruleID), !.res = "error"]

(***************************************************************************)
(* pkg/proxy/proxy_service.go: the critical sections.                      *)
(***************************************************************************)
\* Mutant of NewServiceInfo: no timeout is taken for a timeout.
NewServiceInfoNoDefault(spec, hasEndpoints) ==
    [ip |-> spec.ip, port |-> spec.port, nodePort |-> spec.nodePort,
     ext |-> spec.ext, lb |-> spec.lb, withEP |-> hasEndpoints,
     withAff |-> spec.aff # Nil, maxAge |-> spec.aff, ruleID |-> <<>>]

\* newBaseServiceInfo, GetSvcChain and the affinity part of addServicePort.
NewServiceInfo(spec, hasEndpoints) ==
    [ip |-> spec.ip, port |-> spec.port, nodePort |-> spec.nodePort,
     ext |-> spec.ext, lb |-> spec.lb, withEP |-> hasEndpoints,
     withAff |-> spec.aff # Nil, maxAge |-> IF spec.aff = Nil THEN 0 ELSE spec.aff,
     ruleID |-> <<>>]

\* AddServiceAffinityMap: an existing map keeps its timeout.
AddServiceAffinityMap(w, id, timeout) ==
    [w EXCEPT !.am[id] = IF @ = Nil THEN timeout ELSE @]

\* addServicePort.  The service port enters serviceMap only once its chain,
\* its affinity map and its set elements are in place.
addServicePort(spn, spec, w) ==
    LET svc == NewServiceInfo(spec, w.eps # <<>>)
        id  == SvcID(svc)
        es  == ServicePortElements(spn, svc)
        w1  == [w EXCEPT !.svc = svc,
                         !.sc[id] = CreateChain(@),
                         !.sets = IF svc.withEP THEN @ ELSE @ \cup NoEndpointsElements(spn, svc)]
        w2  == AddServiceAffinityMap(w1, id, svc.maxAge)
        w3  == IF ~svc.withAff THEN w1 ELSE IF ~svc.withEP THEN w2 ELSE addAffinityEndpoint(w2)
        w4  == [w3 EXCEPT !.sets = AddAllToSets(@, es)]
    IN  IF w.svc # Nil THEN w
        ELSE IF ~AddAllToSetsOK(w3.sets, es) THEN [w4 EXCEPT !.svc = Nil, !.res = "error"]
        ELSE updateServiceChain(spn, w4)

\* Mutant of DeleteServiceAffinityMap: the map is not deleted.
KeepServiceAffinityMap(w, id) == w

\* DeleteServiceAffinityMap.
DeleteServiceAffinityMap(w, id) ==
    IF w.am[id] = Nil \/ MapBusy(w, id) THEN [w EXCEPT !.res = "error"]
    ELSE [w EXCEPT !.am[id] = Nil]

\* deleteServicePort.  A service port whose affinity rules or map cannot be
\* deleted stays in serviceMap; a busy chain is only logged.
deleteServicePort(spn, stored, w) ==
    LET id == SvcID(w.svc)
        w1 == [w EXCEPT
                !.sets = RemoveFromSets(@, StoredElements(spn, w.svc, stored)
                                           \cup IF w.svc.withEP THEN {}
                                                ELSE NoEndpointsElements(spn, w.svc)),
                !.sc[id] = DeleteChainRules(@, w.svc.ruleID)]
        w2 == IF w.svc.withEP THEN deleteAffinityEndpoint(w1) ELSE w1
        w3 == IF ~w.svc.withAff THEN w1
              ELSE IF w2.res # "ok" THEN w2
              ELSE DeleteServiceAffinityMap(w2, id)
    IN  IF w.svc = Nil THEN w
        ELSE IF w3.res # "ok" THEN w3
        ELSE [w3 EXCEPT !.svc = Nil,
                        !.sc[id] = IF SvcChainBusy(w3, <<spn, id>>) THEN @ ELSE Nil]

\* processAffinityChange, session affinity added, for one service port.
addAffinity(w) ==
    LET id == SvcID(w.svc)
        w1 == AddServiceAffinityMap(w, id, w.svc.maxAge)
        c  == w.sc[id]
        h  == NewHandle(UsedHandles(c, w.svc.ruleID))
        w2 == WithRules(w1, InsertBefore(c, w.svc.ruleID[2], MatchActRule(h, id, w.eps)),
                        InsertAt(w.svc.ruleID, 2, h))
        w3 == addAffinityEndpoint(w2)
    IN  IF w.svc = Nil THEN [w EXCEPT !.res = "panic"]
        ELSE IF Len(w.svc.ruleID) < 2 THEN [w1 EXCEPT !.res = "panic"]
        ELSE IF ~HasRule(c, w.svc.ruleID[2]) \/ ~TargetsExist(w) THEN [w1 EXCEPT !.res = "error"]
        ELSE IF ~w.svc.withEP THEN w2
        ELSE [w3 EXCEPT !.svc.withAff = TRUE]

\* processAffinityChange, session affinity removed, for one service port.
removeAffinity(w) ==
    LET id == SvcID(w.svc)
        ids == w.svc.ruleID
        w1 == [w EXCEPT !.sc[id] = DeleteRule(@, ids[2])]
        w2 == deleteAffinityEndpoint(w1)
        w3 == IF w.svc.withEP THEN [w2 EXCEPT !.svc.ruleID = RemoveAt(@, 2)] ELSE w
        w4 == DeleteServiceAffinityMap(w3, id)
    IN  IF w.svc = Nil THEN [w EXCEPT !.res = "panic"]
        ELSE IF w.svc.withEP /\ (Len(ids) < 2 \/ ~HasRule(w.sc[id], ids[2]))
        THEN [w EXCEPT !.res = "error"]
        ELSE IF w.svc.withEP /\ w2.res # "ok" THEN w2
        ELSE IF w4.res # "ok" THEN w4
        ELSE [w4 EXCEPT !.svc.withAff = FALSE]

(***************************************************************************)
(* pkg/proxy/proxy_endpoints.go: the critical sections.                    *)
(***************************************************************************)
\* Mutant of EndpointRules: the mark is set behind the DNAT, where no packet
\* comes.
EndpointRulesDnatFirst(h1, h2, h3) ==
    <<Rule(h1, "counter", {}, Nil), Rule(h2, "dnat", {}, Nil), Rule(h3, "masq", {}, Nil)>>

\* AddEndpointRules appends a counter, a masquerade and a DNAT rule.
EndpointRules(h1, h2, h3) ==
    <<Rule(h1, "counter", {}, Nil), Rule(h2, "masq", {}, Nil), Rule(h3, "dnat", {}, Nil)>>

\* addEndpoint.  The index is the number of endpoints the port has.
addEndpoint(spn, addr, local, w) ==
    LET withAff == w.svc # Nil /\ w.svc.withAff
        ep0  == [addr |-> addr, local |-> local, index |-> Len(w.eps),
                 withAff |-> withAff, ruleID |-> <<>>]
        id   == SvcID(w.svc)
        c    == CreateChain(w.ec[addr])
        used == HandlesOf(c)
        h1   == NewHandle(used)
        h2   == NewHandle(used \cup {h1})
        h3   == NewHandle(used \cup {h1, h2})
        h4   == NewHandle(used \cup {h1, h2, h3})
        plain  == [w EXCEPT !.ec[addr] = c \o EndpointRules(h1, h2, h3),
                            !.eps = Append(@, [ep0 EXCEPT !.ruleID = <<h1, h2, h3>>])]
        sticky == [w EXCEPT !.ec[addr] = <<UpdateRule(h4, id, ep0)>> \o c \o EndpointRules(h1, h2, h3),
                            !.eps = Append(@, [ep0 EXCEPT !.ruleID = <<h4, h1, h2, h3>>])]
    IN  IF ~withAff THEN updateServiceChain(spn, plain)
        ELSE IF w.am[id] = Nil THEN [w EXCEPT !.res = "error"]
        ELSE updateServiceChain(spn, sticky)

\* Mutant of WithoutEndpoint: the endpoints that stay are numbered anew.
WithoutEndpointRenumbered(eps, n) ==
    [i \in 1..(Len(eps) - 1) |-> [RemoveAt(eps, n)[i] EXCEPT !.index = i - 1]]

\* The endpoints that stay keep their index.
WithoutEndpoint(eps, n) == RemoveAt(eps, n)

\* deleteEndpoint: the endpoint with this address and locality, if any, leaves
\* the map, then the service chain, and its own rules and chain go last.
deleteEndpoint(spn, addr, local, w) ==
    LET matches == {i \in DOMAIN w.eps : w.eps[i].addr = addr /\ w.eps[i].local = local}
        n   == CHOOSE i \in matches : \A j \in matches : i <= j
        w1  == updateServiceChain(spn, [w EXCEPT !.eps = WithoutEndpoint(@, n)])
        ids == w.eps[n].ruleID
        ok  == DeleteChainRulesOK(w.ec[addr], ids)
        c   == DeleteChainRules(w.ec[addr], ids)
    IN  IF matches = {} THEN w
        ELSE IF w1.res # "ok" THEN w1
        ELSE IF ~ok THEN [w1 EXCEPT !.ec[addr] = c, !.res = "error"]
        ELSE IF EpChainBusy(w1, addr) THEN [w1 EXCEPT !.ec[addr] = c, !.res = "error"]
        ELSE [w1 EXCEPT !.ec[addr] = Nil]

(***************************************************************************)
(* Initial state and actions.                                              *)
(***************************************************************************)
\* NewProxy after InitNFTables: no service, no endpoint, empty sets.
Init ==
    /\ serviceMap = [spn \in ServicePortName |-> Nil]
    /\ endpointsMap = [spn \in ServicePortName |-> <<>>]
    /\ svcChain = [spn \in ServicePortName |-> [id \in SvcKey |-> Nil]]
    /\ epChain = [spn \in ServicePortName |-> [a \in Addr |-> Nil]]
    /\ affinityMap = [spn \in ServicePortName |-> [id \in SvcKey |-> Nil]]
    /\ sets = {}
    /\ proc = "running"

\* The process ends and leaves the kernel as it is until the restart.
Stop(how) ==
    /\ proc' = how
    /\ UNCHANGED <<serviceMap, endpointsMap, svcChain, epChain, affinityMap, sets>>

\* A critical section on spn ends in the state w, or panics there: what it
\* has written to the kernel stays.
Commit(spn, w) ==
    /\ serviceMap' = [serviceMap EXCEPT ![spn] = w.svc]
    /\ endpointsMap' = [endpointsMap EXCEPT ![spn] = w.eps]
    /\ svcChain' = [svcChain EXCEPT ![spn] = w.sc]
    /\ epChain' = [epChain EXCEPT ![spn] = w.ec]
    /\ affinityMap' = [affinityMap EXCEPT ![spn] = w.am]
    /\ sets' = w.sets
    /\ proc' = IF w.res = "panic" THEN "panicked" ELSE proc

\* Contract: no other service port owns an address the new port wants.
AddServicePort(spn, spec) ==
    /\ proc = "running"
    /\ AddAllToSetsOK(sets, ServicePortElements(spn, NewServiceInfo(spec, endpointsMap[spn] # <<>>)))
    /\ Commit(spn, addServicePort(spn, spec, Local(spn)))

\* Contract: the cached Service object knows every element of the port.
DeleteServicePort(spn, stored) ==
    /\ proc = "running"
    /\ serviceMap[spn] # Nil =>
         \A x \in RemoveFromSets(sets, StoredElements(spn, serviceMap[spn], stored)) :
            x.to # <<spn, SvcID(serviceMap[spn])>>
    /\ Commit(spn, deleteServicePort(spn, stored, Local(spn)))

\* Contract: an address is added once.
AddEndpoint(spn, addr, local) ==
    /\ proc = "running"
    /\ \A i \in DOMAIN endpointsMap[spn] : endpointsMap[spn][i].addr # addr
    /\ Commit(spn, addEndpoint(spn, addr, local, Local(spn)))

DeleteEndpoint(spn, addr, local) ==
    /\ proc = "running"
    /\ Commit(spn, deleteEndpoint(spn, addr, local, Local(spn)))

\* The ports processAffinityChange gets to: its loop ends with one that panics.
PortsReached(ports, after) ==
    {ports[i] : i \in {i \in DOMAIN ports : \A j \in 1..(i - 1) : after[ports[j]].res # "panic"}}

\* processAffinityChange holds the mutex over all the ports of the service.
\* The ports share no state, so what it does is done to each of those it gets
\* to: after[spn] is the state of the port spn in the end.
AffinityChange(ports, after) ==
    /\ proc = "running"
    /\ serviceMap' = [spn \in ServicePortName |->
         IF spn \in ports THEN after[spn].svc ELSE serviceMap[spn]]
    /\ endpointsMap' = [spn \in ServicePortName |->
         IF spn \in ports THEN after[spn].eps ELSE endpointsMap[spn]]
    /\ svcChain' = [spn \in ServicePortName |->
         IF spn \in ports THEN after[spn].sc ELSE svcChain[spn]]
    /\ epChain' = [spn \in ServicePortName |->
         IF spn \in ports THEN after[spn].ec ELSE epChain[spn]]
    /\ affinityMap' = [spn \in ServicePortName |->
         IF spn \in ports THEN after[spn].am ELSE affinityMap[spn]]
    /\ proc' = IF \E spn \in ports : after[spn].res = "panic" THEN "panicked" ELSE proc
    /\ UNCHANGED sets

\* Contract: the ports are in serviceMap, without affinity, with endpoints.
AddAffinity(ports) ==
    /\ \A spn \in ports : /\ serviceMap[spn] # Nil
                          /\ ~serviceMap[spn].withAff
                          /\ endpointsMap[spn] # <<>>
    /\ AffinityChange(ports, [spn \in ports |-> addAffinity(Local(spn))])

\* Contract: the ports are in serviceMap, with affinity.
RemoveAffinity(ports) ==
    /\ \A spn \in ports : serviceMap[spn] # Nil /\ serviceMap[spn].withAff
    /\ AffinityChange(ports, [spn \in ports |-> removeAffinity(Local(spn))])

\* Mutant of AddSetElement: the chain is taken to be that of the new address.
AddSetElementAnew(spn, set, ip, port) ==
    /\ proc = "running"
    /\ serviceMap[spn] # Nil
    /\ sets' = AddToSet(sets, Element(set, spn, ip, port,
                 IF set = "markmasq" THEN Nil ELSE <<spn, <<ip, port>>>>))
    /\ UNCHANGED <<serviceMap, endpointsMap, svcChain, epChain, affinityMap, proc>>

\* One AddToSet call of processServicePortChanges (node ports) or of the
\* ClusterIP, ExternalIP and LoadBalancer updates; its error is not looked at.
AddSetElement(spn, set, ip, port) ==
    /\ proc = "running"
    /\ serviceMap[spn] # Nil
    /\ sets' = AddToSet(sets, Element(set, spn, ip, port,
                 IF set = "markmasq" THEN Nil ELSE <<spn, SvcID(serviceMap[spn])>>))
    /\ UNCHANGED <<serviceMap, endpointsMap, svcChain, epChain, affinityMap, proc>>

\* One RemoveFromSet call of the same handlers.
RemoveSetElement(spn, set, ip, port) ==
    /\ proc = "running"
    /\ serviceMap[spn] # Nil
    /\ sets' = RemoveFromSets(sets, {Element(set, spn, ip, port, Nil)})
    /\ UNCHANGED <<serviceMap, endpointsMap, svcChain, epChain, affinityMap, proc>>

Kill == proc = "running" /\ Stop("killed")

\* The restarted process wipes the tables and starts from nothing.
Restart ==
    /\ proc # "running"
    /\ serviceMap' = [spn \in ServicePortName |-> Nil]
    /\ endpointsMap' = [spn \in ServicePortName |-> <<>>]
    /\ svcChain' = [spn \in ServicePortName |-> [id \in SvcKey |-> Nil]]
    /\ epChain' = [spn \in ServicePortName |-> [a \in Addr |-> Nil]]
    /\ affinityMap' = [spn \in ServicePortName |-> [id \in SvcKey |-> Nil]]
    /\ sets' = {}
    /\ proc' = "running"

\* Only the elements of the node port set have no address.
AddressesOf(set) == IF set = "nodeport" THEN {Nil} ELSE IP

Next ==
    \/ \E spn \in ServicePortName, spec \in PortSpec : AddServicePort(spn, spec)
    \/ \E spn \in ServicePortName, stored \in Stored \cup {Nil} : DeleteServicePort(spn, stored)
    \/ \E spn \in ServicePortName, addr \in Addr, local \in BOOLEAN :
          AddEndpoint(spn, addr, local) \/ DeleteEndpoint(spn, addr, local)
    \/ \E ports \in SUBSET ServicePortName : AddAffinity(ports) \/ RemoveAffinity(ports)
    \/ \E spn \in ServicePortName, set \in UpdatedSets, port \in Port : \E ip \in AddressesOf(set) :
          AddSetElement(spn, set, ip, port) \/ RemoveSetElement(spn, set, ip, port)
    \/ Kill
    \/ Restart

Spec == Init /\ [][Next]_vars

(***************************************************************************)
(* Correctness: what the two maps say is what the kernel does.             *)
(***************************************************************************)
\* The rules a service chain must have, in order, and nothing else.
ExpectedServiceChain(svc, eps) ==
    IF eps = <<>> THEN <<>>
    ELSE IF svc.withAff
    THEN <<CounterRule(svc.ruleID[1]), MatchActRule(svc.ruleID[2], SvcID(svc), eps),
           LoadBalanceRule(svc.ruleID[3], eps)>>
    ELSE <<CounterRule(svc.ruleID[1]), LoadBalanceRule(svc.ruleID[2], eps)>>

ExpectedRuleCount(svc, eps) == IF eps = <<>> THEN 0 ELSE IF svc.withAff THEN 3 ELSE 2

\* The rules an endpoint chain must have: the Update rule first, if the
\* service port has affinity, and it refreshes this endpoint's own index.
ExpectedEndpointChain(svc, ep) ==
    IF svc # Nil /\ svc.withAff
    THEN <<UpdateRule(ep.ruleID[1], SvcID(svc), ep)>>
         \o EndpointRules(ep.ruleID[2], ep.ruleID[3], ep.ruleID[4])
    ELSE EndpointRules(ep.ruleID[1], ep.ruleID[2], ep.ruleID[3])

\* No interleaving of the critical sections drives an index out of range or
\* a lookup into a missing service port (the RuleID[1], RuleID[2] and
\* serviceMap[...].(*serviceInfo) expressions of the code).
NeverPanics == proc # "panicked"

\* The chain of every service port in serviceMap balances over exactly the
\* endpoints of the port, prefers the affinity map exactly when the port has
\* affinity, and RuleID remembers the handle of each rule at the position
\* where ProgramServiceEndpoints and processAffinityChange expect it.
ServiceRulesCurrent ==
    \A spn \in ServicePortName : serviceMap[spn] # Nil =>
        LET svc == serviceMap[spn]
            eps == endpointsMap[spn]
        IN  /\ svcChain[spn][SvcID(svc)] = ExpectedServiceChain(svc, eps)
            /\ Len(svc.ruleID) = ExpectedRuleCount(svc, eps)
            /\ IsInjective(svc.ruleID)
            /\ svc.withEP <=> eps # <<>>

\* The chain of every endpoint ends in its DNAT rule and starts with an
\* Update rule exactly when its service port exists and has affinity, with
\* whichever of service and endpoint came first; RuleID matches.
EndpointRulesCurrent ==
    \A spn \in ServicePortName : \A i \in DOMAIN endpointsMap[spn] :
        LET svc == serviceMap[spn]
            ep  == endpointsMap[spn][i]
        IN  /\ epChain[spn][ep.addr] = ExpectedEndpointChain(svc, ep)
            /\ Len(ep.ruleID) = IF svc # Nil /\ svc.withAff THEN 4 ELSE 3
            /\ IsInjective(ep.ruleID)
            /\ ep.withAff <=> svc # Nil /\ svc.withAff
            /\ \A j \in DOMAIN endpointsMap[spn] : endpointsMap[spn][j].addr = ep.addr => i = j

\* A deleted service port or endpoint leaves no chain and no affinity map
\* behind: whatever exists belongs to an entry of one of the two maps.
NothingLeftBehind ==
    \A spn \in ServicePortName :
        /\ \A id \in SvcKey : svcChain[spn][id] # Nil =>
              serviceMap[spn] # Nil /\ SvcID(serviceMap[spn]) = id
        /\ \A id \in SvcKey : affinityMap[spn][id] # Nil <=>
              serviceMap[spn] # Nil /\ SvcID(serviceMap[spn]) = id /\ serviceMap[spn].withAff
        /\ \A a \in Addr : epChain[spn][a] # Nil =>
              \E i \in DOMAIN endpointsMap[spn] : endpointsMap[spn][i].addr = a

\* No element of a set sends packets to the chain of a service port that is
\* no longer there.
VerdictsLead ==
    \A x \in sets : x.to # Nil =>
        serviceMap[x.to[1]] # Nil /\ x.to[2] = SvcID(serviceMap[x.to[1]])

\* Adding or deleting one endpoint, or another service port, does not touch
\* the rules or the index of an endpoint that stays, while its service port
\* keeps its affinity: the chain, its counters and what its Update rule writes
\* into the affinity map are as before.  Whether the MatchAct rule of the
\* service port leads there is StickyToOwner.
EndpointsUndisturbed ==
    [][\A spn \in ServicePortName :
         (/\ serviceMap[spn] # Nil /\ serviceMap'[spn] # Nil
          /\ serviceMap[spn].withAff = serviceMap'[spn].withAff) =>
         \A i \in DOMAIN endpointsMap[spn], j \in DOMAIN endpointsMap'[spn] :
            endpointsMap[spn][i].addr = endpointsMap'[spn][j].addr =>
               /\ endpointsMap[spn][i] = endpointsMap'[spn][j]
               /\ epChain[spn][endpointsMap[spn][i].addr] = epChain'[spn][endpointsMap[spn][i].addr]]_vars

\* The index an endpoint's Update rule writes into the affinity map leads the
\* MatchAct rule of the service chain back to that endpoint, and no other:
\* "each and point has a unique index" (EPRule.EpIndex).
StickyToOwner ==
    \A spn \in ServicePortName : serviceMap[spn] # Nil /\ serviceMap[spn].withAff =>
        \A i, j \in DOMAIN endpointsMap[spn] :
            endpointsMap[spn][i].index = endpointsMap[spn][j].index => i = j
=============================================================================
