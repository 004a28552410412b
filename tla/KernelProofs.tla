---------------------------- MODULE KernelProofs ----------------------------
(***************************************************************************)
(* What the kernel does follows from what its chains hold.                 *)
(*                                                                         *)
(* Packets: connections are served by the endpoints of their service, and  *)
(* answers come back, for any number of service ports, endpoints and       *)
(* addresses.  Both follow from PortInv (the chains are those the maps ask *)
(* for) and VerdictsLead (the sets lead to the chains of the maps),        *)
(* without an induction of their own.  That a connection to a service port *)
(* without endpoints is refused needs one: RefusalInv, the no-endpoints    *)
(* set has the addresses of every service port that is not marked as       *)
(* having endpoints.  RejectsFounded is the other half: every element of   *)
(* that set is one of a known service port without endpoints.              *)
(*                                                                         *)
(* The table: Proxy implements ServiceTable.  PortInv makes the table that *)
(* is read off the kernel the table of the two maps (EntryInv).  What a    *)
(* critical section does to its entry of the maps (Effect, proved with the *)
(* invariant in ProxyProofs) is one operation of the table.                *)
(***************************************************************************)
EXTENDS Packets, Refinement, ProxyProofs

\* The chain of a current endpoint exists and has its masquerade rule in
\* front of its DNAT rule, with or without an Update rule.
LEMMA EndpointChainShape ==
    ASSUME NEW aff \in BOOLEAN, NEW id, NEW ep, NEW c, EndpointOK(aff, id, ep, c)
    PROVE  /\ c # Nil
           /\ \E i, j \in DOMAIN c : i < j /\ c[i].kind = "masq" /\ c[j].kind = "dnat"
<1>1. c \in Seq(RuleType) /\ c # Nil /\ DOMAIN c = 1..Len(c)
  BY RememberedIDs, NilAssumption, LenProperties DEF EndpointOK
<1>2. \A h, kind : PlainRule(h, kind).kind = kind
  BY DEF PlainRule, Rule
<1>3. CASE aff
  <2>1. Len(c) = 4 /\ c[3].kind = "masq" /\ c[4].kind = "dnat"
    BY <1>2, <1>3 DEF EndpointOK
  <2> QED BY <1>1, <2>1
<1>4. CASE ~aff
  <2>1. Len(c) = 3 /\ c[2].kind = "masq" /\ c[3].kind = "dnat"
    BY <1>2, <1>4 DEF EndpointOK
  <2> QED BY <1>1, <2>1
<1> QED BY <1>3, <1>4

\* So for every endpoint of every service port, in every reachable state.
LEMMA EndpointChainsLead ==
    ASSUME PortInv, NEW spn \in ServicePortName, NEW i \in DOMAIN endpointsMap[spn]
    PROVE  /\ EndpointVerdict(spn, endpointsMap[spn][i].addr) = endpointsMap[spn][i].addr
           /\ \E k, j \in DOMAIN epChain[spn][endpointsMap[spn][i].addr] :
                 /\ k < j /\ epChain[spn][endpointsMap[spn][i].addr][k].kind = "masq"
                 /\ epChain[spn][endpointsMap[spn][i].addr][j].kind = "dnat"
<1> DEFINE w == Local(spn)
           ep == endpointsMap[spn][i]
           c == epChain[spn][ep.addr]
<1>1. /\ w.svc = serviceMap[spn] /\ w.eps = endpointsMap[spn] /\ w.ec = epChain[spn] /\ PortOK(w)
  BY LocalFields DEF PortInv
<1> HIDE DEF w
<1>2. EndpointOK(HasAff(w.svc), SvcID(w.svc), ep, c)
  BY <1>1 DEF PortOK, EndpointsOK
<1>3. HasAff(w.svc) \in BOOLEAN
  BY <1>1, SvcIDType DEF PortOK, Typed, HasAff
<1> HIDE DEF ep, c
<1>4. c # Nil /\ \E k, j \in DOMAIN c : k < j /\ c[k].kind = "masq" /\ c[j].kind = "dnat"
  BY <1>2, <1>3, EndpointChainShape
<1> QED BY <1>4 DEF EndpointVerdict, ep, c

\* A service chain that is up to date jumps to the chains of its endpoints and
\* to no other, and it has a load balancing rule when there is an endpoint.
LEMMA ServiceChainShape ==
    ASSUME NEW svc \in ServiceInfo, NEW eps \in Seq(EndpointInfo), NEW c, ChainOK(svc, eps, c)
    PROVE  /\ c # Nil
           /\ (\E k \in DOMAIN c : c[k].kind = "lb") <=> eps # <<>>
           /\ \A k \in DOMAIN c : \A t \in c[k].to : \E i \in DOMAIN eps : t[2] = eps[i].addr
<1>1. c \in Seq(RuleType) /\ c # Nil /\ DOMAIN c = 1..Len(c)
  BY RememberedIDs, NilAssumption, LenProperties DEF ChainOK
<1>2. /\ \A h : CounterRule(h).kind = "counter" /\ CounterRule(h).to = {}
      /\ \A h, id : MatchActRule(h, id, eps).kind = "matchact" /\ MatchActRule(h, id, eps).to = ActElement(eps)
      /\ \A h : LoadBalanceRule(h, eps).kind = "lb" /\ LoadBalanceRule(h, eps).to = Targets(eps)
  BY DEF CounterRule, MatchActRule, LoadBalanceRule, Rule
<1>3. \A t \in ActElement(eps) \cup Targets(eps) : \E i \in DOMAIN eps : t[2] = eps[i].addr
  BY DEF ActElement, Targets
<1>4. CASE eps = <<>>
  <2>1. Len(c) = 0
    BY <1>4 DEF ChainOK
  <2> QED BY <1>1, <1>4, <2>1
<1>5. CASE eps # <<>> /\ svc.withAff
  <2>1. /\ DOMAIN c = {1, 2, 3} /\ c[1].to = {}
        /\ c[2].to = ActElement(eps) /\ c[3].kind = "lb" /\ c[3].to = Targets(eps)
    BY <1>1, <1>2, <1>5 DEF ChainOK
  <2> QED BY <1>1, <1>3, <1>5, <2>1
<1>6. CASE eps # <<>> /\ ~svc.withAff
  <2>1. DOMAIN c = {1, 2} /\ c[1].to = {} /\ c[2].kind = "lb" /\ c[2].to = Targets(eps)
    BY <1>1, <1>2, <1>6 DEF ChainOK
  <2> QED BY <1>1, <1>3, <1>6, <2>1
<1> QED BY <1>4, <1>5, <1>6

\* The chain of a service port sends a packet to the endpoints of the port, and
\* lets it pass only when there is none.
LEMMA ServiceChainsLead ==
    ASSUME PortInv, NEW spn \in ServicePortName, serviceMap[spn] # Nil
    PROVE  /\ ServiceVerdicts(<<spn, SvcID(serviceMap[spn])>>) \ {Nil} \subseteq AddressesOfEndpoints(spn)
           /\ AddressesOfEndpoints(spn) # {} =>
                 Nil \notin ServiceVerdicts(<<spn, SvcID(serviceMap[spn])>>)
<1> DEFINE w == Local(spn)
           svc == serviceMap[spn]
           eps == endpointsMap[spn]
           ref == <<spn, SvcID(svc)>>
           c == svcChain[spn][SvcID(svc)]
           jumps == UNION {c[k].to : k \in {k \in DOMAIN c : c[k].kind \in {"matchact", "lb"}}}
<1>1. /\ w.svc = svc /\ w.eps = eps /\ w.sc = svcChain[spn] /\ PortOK(w)
  BY LocalFields DEF PortInv
<1> HIDE DEF w
<1>2. ChainOK(svc, eps, c) /\ svc \in ServiceInfo /\ eps \in Seq(EndpointInfo)
  BY <1>1 DEF PortOK, Typed
<1>3. ServiceVerdicts(ref) = IF c = Nil \/ ~\E k \in DOMAIN c : c[k].kind = "lb" THEN {Nil}
                             ELSE {EndpointVerdict(spn, t[2]) : t \in jumps}
  BY DEF ServiceVerdicts
<1>4. \A i \in DOMAIN eps : EndpointVerdict(spn, eps[i].addr) = eps[i].addr /\ eps[i].addr \in Addr
  BY <1>2, EndpointChainsLead, EndpointsType
<1> HIDE DEF svc, eps, c
<1>5. /\ c # Nil
      /\ (\E k \in DOMAIN c : c[k].kind = "lb") <=> eps # <<>>
      /\ \A k \in DOMAIN c : \A t \in c[k].to : \E i \in DOMAIN eps : t[2] = eps[i].addr
  BY <1>2, ServiceChainShape
<1>6. AddressesOfEndpoints(spn) = {eps[i].addr : i \in DOMAIN eps}
  BY DEF AddressesOfEndpoints, eps
<1>7. CASE eps = <<>>
  <2>1. ServiceVerdicts(ref) = {Nil} /\ AddressesOfEndpoints(spn) = {}
    BY <1>3, <1>5, <1>6, <1>7
  <2> QED BY <2>1 DEF svc
<1>8. CASE eps # <<>>
  <2>1. ServiceVerdicts(ref) = {EndpointVerdict(spn, t[2]) : t \in jumps}
    BY <1>3, <1>5, <1>8
  <2>2. \A t \in jumps : \E i \in DOMAIN eps : EndpointVerdict(spn, t[2]) = eps[i].addr /\ eps[i].addr \in Addr
    BY <1>4, <1>5
  <2>3. \A v \in ServiceVerdicts(ref) : v \in AddressesOfEndpoints(spn) /\ v \in Addr
    BY <1>6, <2>1, <2>2
  <2> QED BY <2>3, NftAssumption DEF svc
<1> QED BY <1>7, <1>8

\* The chain a set sends a packet to is that of a service port.
LEMMA SetsLead ==
    ASSUME TypeOK, VerdictsLead, NEW set, NEW p, NEW ref \in ChainsFor(set, p)
    PROVE  /\ ref[1] \in ServicePortName /\ serviceMap[ref[1]] # Nil
           /\ ref = <<ref[1], SvcID(serviceMap[ref[1]])>>
<1>1. PICK x \in sets : x.to = ref /\ x.to # Nil
  BY DEF ChainsFor, Matches
<1>2. x.to \in SvcRef
  BY <1>1 DEF TypeOK, SetElement
<1>3. PICK spn \in ServicePortName, id \in SvcKey : x.to = <<spn, id>>
  BY <1>2 DEF SvcRef
<1>4. serviceMap[x.to[1]] # Nil /\ x.to[2] = SvcID(serviceMap[x.to[1]])
  BY <1>1 DEF VerdictsLead
<1> QED BY <1>1, <1>3, <1>4

\* A verdict comes from one of the sets, or all of them let the packet pass.
LEMMA VerdictFrom ==
    ASSUME NEW p, NEW a \in NatVerdicts(p)
    PROVE  \/ \E i \in DOMAIN NatSets(p) : a \in Hits(NatSets(p)[i], p)
           \/ a = Nil /\ \A i \in DOMAIN NatSets(p) : Passes(NatSets(p)[i], p)
<1> DEFINE hits == UNION {Hits(NatSets(p)[i], p) : i \in Reached(p)}
           past == {v \in {Nil} : PassesAll(p)}
<1>0. NatVerdicts(p) = hits \cup past
  BY DEF NatVerdicts
<1>1. CASE a \in hits
  BY <1>1 DEF Reached
<1>2. CASE a \in past
  BY <1>2 DEF PassesAll
<1> HIDE DEF hits, past
<1> QED BY <1>0, <1>1, <1>2

\* In every reachable state a connection to an address of a service is sent to
\* a current endpoint of the service, and not let past while there is one.
THEOREM ConnectionsAlwaysServed == Spec => []ConnectionsServed
<1>1. ASSUME PortInv, VerdictsLead, NEW p \in Packet
      PROVE  /\ NatVerdicts(p) \ {Nil} \subseteq BackendsOf(p)
             /\ BackendsOf(p) # {} => Nil \notin NatVerdicts(p)
  <2> DEFINE order == NatSets(p)
  <2>0. TypeOK
    BY <1>1 DEF PortInv
  <2>1. ASSUME NEW i \in DOMAIN order, NEW ref \in ChainsFor(order[i], p)
        PROVE  /\ ref[1] \in OwnersOf(p)
               /\ ServiceVerdicts(ref) \ {Nil} \subseteq AddressesOfEndpoints(ref[1])
               /\ AddressesOfEndpoints(ref[1]) # {} => Nil \notin ServiceVerdicts(ref)
    <3>1. order[i] \in Range(order)
      BY DEF Range
    <3>2. ref[1] \in OwnersOf(p)
      BY <3>1 DEF OwnersOf
    <3>3. /\ ref[1] \in ServicePortName /\ serviceMap[ref[1]] # Nil
          /\ ref = <<ref[1], SvcID(serviceMap[ref[1]])>>
      BY <1>1, <2>0, SetsLead
    <3> DEFINE spn == ref[1]
    <3>4. /\ ServiceVerdicts(<<spn, SvcID(serviceMap[spn])>>) \ {Nil} \subseteq AddressesOfEndpoints(spn)
          /\ AddressesOfEndpoints(spn) # {} => Nil \notin ServiceVerdicts(<<spn, SvcID(serviceMap[spn])>>)
      BY <1>1, <3>3, ServiceChainsLead
    <3> QED BY <3>2, <3>3, <3>4
  <2>2. ASSUME NEW i \in DOMAIN order
        PROVE  Hits(order[i], p) \subseteq BackendsOf(p) \ {Nil}
    BY <2>1 DEF Hits, BackendsOf
  <2>3. NatVerdicts(p) \ {Nil} \subseteq BackendsOf(p)
    <3>1. ASSUME NEW a \in NatVerdicts(p), a # Nil
          PROVE  \E i \in DOMAIN order : a \in Hits(order[i], p)
      BY <3>1, VerdictFrom
    <3> QED BY <2>2, <3>1
  <2>4. ASSUME BackendsOf(p) # {}
        PROVE  \E i \in DOMAIN order : ~Passes(order[i], p)
    <3>1. PICK spn \in OwnersOf(p) : AddressesOfEndpoints(spn) # {}
      BY <2>4 DEF BackendsOf
    <3>2. PICK set \in Range(order) : \E ref \in ChainsFor(set, p) : ref[1] = spn
      BY <3>1 DEF OwnersOf
    <3>3. PICK i \in DOMAIN order : set = order[i]
      BY <3>2 DEF Range
    <3>4. PICK ref \in ChainsFor(order[i], p) : ref[1] = spn
      BY <3>2, <3>3
    <3>5. Nil \notin ServiceVerdicts(ref)
      BY <2>1, <3>1, <3>4
    <3> QED BY <3>4, <3>5 DEF Passes
  <2>5. BackendsOf(p) # {} => Nil \notin NatVerdicts(p)
    BY <2>2, <2>4, VerdictFrom
  <2> QED BY <2>3, <2>5
<1>2. PortInv /\ VerdictsLead => ConnectionsServed
  BY <1>1 DEF ConnectionsServed
<1> QED BY <1>2, PortInvariant, VerdictsAlwaysLead, PTL

\* In every reachable state a packet from outside, or from the endpoint it is
\* sent to, is masqueraded.
THEOREM AnswersAlwaysComeBack == Spec => []AnswersComeBack
<1>1. ASSUME PortInv, VerdictsLead, NEW p \in Packet, NEW spn \in OwnersOf(p),
             NEW a \in AddressesOfEndpoints(spn), p.src \in {a, "outside"}
      PROVE  Masqueraded(spn, p, a)
  <2>1. spn \in ServicePortName
    <3>1. PICK set \in Range(NatSets(p)) : \E ref \in ChainsFor(set, p) : ref[1] = spn
      BY DEF OwnersOf
    <3> QED BY <1>1, <3>1, SetsLead DEF PortInv
  <2>2. PICK i \in DOMAIN endpointsMap[spn] : a = endpointsMap[spn][i].addr
    BY DEF AddressesOfEndpoints
  <2>3. \E k, j \in DOMAIN epChain[spn][a] :
           k < j /\ epChain[spn][a][k].kind = "masq" /\ epChain[spn][a][j].kind = "dnat"
    BY <1>1, <2>1, <2>2, EndpointChainsLead
  <2> QED BY <1>1, <2>3 DEF Masqueraded, MarkedHairpin
<1>2. PortInv /\ VerdictsLead => AnswersComeBack
  BY <1>1 DEF AnswersComeBack
<1> QED BY <1>2, PortInvariant, VerdictsAlwaysLead, PTL

(***************************************************************************)
(* Connections to a service port without endpoints.                        *)
(***************************************************************************)
\* A service port without endpoints has its addresses in the no-endpoints set.
Refuses(spn, svc, all) ==
    svc # Nil /\ ~svc.withEP => NoEndpointsElements(spn, svc) \subseteq all

\* So it is for every service port of serviceMap.
RefusalInv == \A spn \in ServicePortName : Refuses(spn, serviceMap[spn], sets)

\* The element x is that of an address of the service port.
IsAddressOf(spn, svc, x) == svc # Nil /\ \E e \in NoEndpointsElements(spn, svc) : x.key = e.key

\* From w to u the service port goes on refusing connections while it has no
\* endpoints, and the no-endpoints set loses addresses of this port only.
RefusesOn(spn, w, u) ==
    /\ Refuses(spn, w.svc, w.sets) => Refuses(spn, u.svc, u.sets)
    /\ \A x \in w.sets \ u.sets : x.set = "noendpoints" =>
          IsAddressOf(spn, w.svc, x) \/ IsAddressOf(spn, u.svc, x)

\* No two service ports have an address, port and protocol in common, as the
\* API server sees to for cluster IPs and the user for the other addresses.
AddressesApart ==
    \A s, t \in ServicePortName : s # t /\ serviceMap[s] # Nil /\ serviceMap[t] # Nil =>
        NoEndpointsElements(s, serviceMap[s]) \cap NoEndpointsElements(t, serviceMap[t]) = {}

\* The addresses in the no-endpoints set are those of the record.
LEMMA SameRefusals ==
    ASSUME NEW spn, NEW svc, NEW other,
           other.ip = svc.ip, other.port = svc.port, other.ext = svc.ext, other.lb = svc.lb
    PROVE  NoEndpointsElements(spn, other) = NoEndpointsElements(spn, svc)
BY DEF NoEndpointsElements

\* MarkEndpoints keeps the no-endpoints set in step with the WithEndpoints flag.
LEMMA MarkEndpointsRefuses ==
    ASSUME NEW spn, NEW w, Known(w), NEW u, u = MarkEndpoints(spn, w)
    PROVE  /\ Known(u) /\ NoEndpointsElements(spn, u.svc) = NoEndpointsElements(spn, w.svc)
           /\ RefusesOn(spn, w, u)
<1> DEFINE none == NoEndpointsElements(spn, w.svc)
<1>1. Known(u)
  BY MarkEndpointsKeeps DEF Keeps
<1>2. /\ u.svc.ip = w.svc.ip /\ u.svc.port = w.svc.port /\ u.svc.ext = w.svc.ext /\ u.svc.lb = w.svc.lb
      /\ u.svc.withEP <=> w.eps # <<>>
  BY DEF MarkEndpoints, Known, ServiceInfo, Fields
<1>3. NoEndpointsElements(spn, u.svc) = none
  BY <1>2, SameRefusals
<1>4. u.sets = IF w.eps = <<>>
               THEN IF w.svc.withEP THEN w.sets \cup none ELSE w.sets
               ELSE IF w.svc.withEP THEN w.sets ELSE RemoveFromSets(w.sets, none)
  BY DEF MarkEndpoints, Known, Fields
<1>5. u.svc # Nil /\ w.svc # Nil
  BY <1>1, NilAssumption DEF Known
<1> HIDE DEF none
<1>6. Refuses(spn, w.svc, w.sets) => Refuses(spn, u.svc, u.sets)
  BY <1>2, <1>3, <1>4, <1>5 DEF Refuses, none
<1>7. \A x \in w.sets \ u.sets : \E e \in none : x.key = e.key
  BY <1>4 DEF RemoveFromSets
<1>8. \A x \in w.sets \ u.sets : IsAddressOf(spn, w.svc, x)
  BY <1>5, <1>7 DEF IsAddressOf, none
<1> QED BY <1>1, <1>3, <1>6, <1>8 DEF RefusesOn, none

\* So does updateServiceChain, which programs the rules after it.
LEMMA UpdateServiceChainRefuses ==
    ASSUME NEW spn, NEW w, Known(w), NEW u, u = updateServiceChain(spn, w)
    PROVE  /\ Known(u) /\ NoEndpointsElements(spn, u.svc) = NoEndpointsElements(spn, w.svc)
           /\ RefusesOn(spn, w, u)
<1> DEFINE v == MarkEndpoints(spn, w)
<1>1. /\ Known(v) /\ NoEndpointsElements(spn, v.svc) = NoEndpointsElements(spn, w.svc)
      /\ RefusesOn(spn, w, v)
  BY MarkEndpointsRefuses
<1>2. Leaves(v, u)
  BY UpdateServiceChainLeaves
<1> HIDE DEF v
<1>3. /\ Known(u) /\ u.sets = v.sets /\ u.svc.withEP = v.svc.withEP
      /\ NoEndpointsElements(spn, u.svc) = NoEndpointsElements(spn, v.svc)
  BY <1>2, SameRefusals DEF Leaves
<1>4. u.svc # Nil /\ v.svc # Nil
  BY <1>1, <1>3, NilAssumption DEF Known
<1>5. Refuses(spn, v.svc, v.sets) <=> Refuses(spn, u.svc, u.sets)
  BY <1>3, <1>4 DEF Refuses
<1>6. \A x : IsAddressOf(spn, v.svc, x) <=> IsAddressOf(spn, u.svc, x)
  BY <1>3, <1>4 DEF IsAddressOf
<1> QED BY <1>1, <1>3, <1>5, <1>6 DEF RefusesOn

\* Nothing changes that the no-endpoints set depends on.
LEMMA RefusesSame ==
    ASSUME NEW spn, NEW w, NEW u, u.svc = w.svc, u.sets = w.sets
    PROVE  RefusesOn(spn, w, u)
BY DEF RefusesOn

\* An endpoint comes or goes, the first or the last of its port included.
LEMMA EndpointSectionsRefuse ==
    ASSUME NEW spn, NEW addr, NEW local, NEW w, DOMAIN w = Fields, w.svc \in ServiceInfo \cup {Nil},
           NEW u \in {addEndpoint(spn, addr, local, w), deleteEndpoint(spn, addr, local, w)}
    PROVE  RefusesOn(spn, w, u)
<1>1. EndpointSection(spn, w, u)
  BY EndpointSections
<1>2. PICK v : /\ DOMAIN v = Fields /\ v.svc = w.svc /\ v.sets = w.sets
               /\ \/ u = v
                  \/ u = updateServiceChain(spn, v)
                  \/ \E a, c, r : u = [updateServiceChain(spn, v) EXCEPT !.ec[a] = c, !.res = r]
                  \/ \E a, c : u = [updateServiceChain(spn, v) EXCEPT !.ec[a] = c]
  BY <1>1 DEF EndpointSection
<1> DEFINE v1 == updateServiceChain(spn, v)
<1>3. u = v \/ (DOMAIN v1 = Fields => u.svc = v1.svc /\ u.sets = v1.sets)
  BY <1>2 DEF Fields
<1>4. CASE w.svc = Nil
  <2>1. v1 = v
    BY <1>2, <1>4, UpdateServiceChainNil
  <2> HIDE DEF v1
  <2>2. u.svc = w.svc /\ u.sets = w.sets
    BY <1>2, <1>3, <2>1
  <2> QED BY <2>2, RefusesSame
<1>5. CASE w.svc \in ServiceInfo
  <2>1. Known(v)
    BY <1>2, <1>5 DEF Known
  <2>2. Known(v1) /\ RefusesOn(spn, v, v1)
    BY <2>1, UpdateServiceChainRefuses
  <2> HIDE DEF v1
  <2>3. RefusesOn(spn, w, v1)
    BY <1>2, <2>2 DEF RefusesOn
  <2>4. CASE u = v
    BY <1>2, <2>4, RefusesSame
  <2>5. CASE u.svc = v1.svc /\ u.sets = v1.sets
    BY <2>3, <2>5 DEF RefusesOn
  <2> QED BY <1>3, <2>2, <2>4, <2>5 DEF Known
<1> QED BY <1>4, <1>5

\* A service port is added: without endpoints, its addresses go into the
\* no-endpoints set first, whether or not its other elements are refused.
LEMMA AddServicePortRefuses ==
    ASSUME NEW spn \in ServicePortName, NEW spec \in PortSpec, NEW w,
           DOMAIN w = Fields, w.svc \in ServiceInfo \cup {Nil},
           NEW u, u = addServicePort(spn, spec, w)
    PROVE  RefusesOn(spn, w, u)
<1>1. CASE w.svc # Nil
  <2>1. u = w
    BY <1>1 DEF addServicePort
  <2> QED BY <2>1, RefusesSame
<1>2. CASE w.svc = Nil
  <2> DEFINE svc == NewServiceInfo(spec, w.eps # <<>>)
             id  == SvcID(svc)
             es  == ServicePortElements(spn, svc)
             none == NoEndpointsElements(spn, svc)
             w1  == [w EXCEPT !.svc = svc,
                              !.sc[id] = CreateChain(@),
                              !.sets = IF svc.withEP THEN @ ELSE @ \cup none]
             w2  == AddServiceAffinityMap(w1, id, svc.maxAge)
             w3  == IF ~svc.withAff THEN w1 ELSE IF ~svc.withEP THEN w2 ELSE addAffinityEndpoint(w2)
             w4  == [w3 EXCEPT !.sets = AddAllToSets(@, es)]
             failed == [w4 EXCEPT !.svc = Nil, !.res = "error"]
             done == updateServiceChain(spn, w4)
  <2>1. svc \in ServiceInfo
    BY NftAssumption DEF NewServiceInfo, ServiceInfo, PortSpec
  <2>2. u \in {failed, done}
    BY <1>2 DEF addServicePort
  <2> HIDE DEF svc, es
  <2>3. /\ DOMAIN w1 = Fields /\ w1.svc = svc
        /\ w1.sets = IF svc.withEP THEN w.sets ELSE w.sets \cup none
    BY DEF Fields
  <2> HIDE DEF w1
  <2>4. DOMAIN w2 = Fields /\ w2.svc = svc /\ w2.sets = w1.sets
    BY <2>3 DEF AddServiceAffinityMap, Fields
  <2> HIDE DEF w2
  <2>5. DOMAIN w3 = Fields /\ w3.svc = svc /\ w3.sets = w1.sets
    BY <2>3, <2>4, AffinityKeeps
  <2> HIDE DEF w3
  <2>6. DOMAIN w4 = Fields /\ w4.svc = svc /\ w3.sets \subseteq w4.sets
    BY <2>5 DEF Fields, AddAllToSets
  <2> HIDE DEF w4
  <2>7. w.sets \subseteq w4.sets /\ Refuses(spn, w4.svc, w4.sets)
    BY <2>3, <2>5, <2>6 DEF Refuses, none
  <2>8. CASE u = failed
    <3>1. u.svc = Nil /\ u.sets = w4.sets
      BY <2>6, <2>8 DEF Fields
    <3> QED BY <2>7, <3>1 DEF RefusesOn, Refuses
  <2>9. CASE u = done
    <3>1. Known(w4)
      BY <2>1, <2>6 DEF Known
    <3>2. /\ Known(u) /\ NoEndpointsElements(spn, u.svc) = NoEndpointsElements(spn, w4.svc)
          /\ RefusesOn(spn, w4, u)
      BY <2>9, <3>1, UpdateServiceChainRefuses
    <3>3. u.svc # Nil
      BY <3>2, NilAssumption DEF Known
    <3>4. \A x : IsAddressOf(spn, w4.svc, x) => IsAddressOf(spn, u.svc, x)
      BY <3>2, <3>3 DEF IsAddressOf
    <3>5. /\ Refuses(spn, u.svc, u.sets)
          /\ \A x \in w.sets \ u.sets : x.set = "noendpoints" => IsAddressOf(spn, u.svc, x)
      BY <2>7, <3>2, <3>4 DEF RefusesOn
    <3> QED BY <3>5 DEF RefusesOn
  <2> QED BY <2>2, <2>8, <2>9
<1> QED BY <1>1, <1>2

\* The elements the cached Service object knows are not in that set.
LEMMA StoredNotRefused ==
    ASSUME NEW spn, NEW svc, NEW stored, NEW e \in StoredElements(spn, svc, stored)
    PROVE  e.set # "noendpoints"
BY DEF StoredElements, Element

\* A service port is deleted, and nothing of it is left in serviceMap.
LEMMA DeleteServicePortRefuses ==
    ASSUME NEW spn, NEW stored, NEW w, Known(w), NEW u, u = deleteServicePort(spn, stored, w), u.svc = Nil
    PROVE  RefusesOn(spn, w, u)
<1> DEFINE gone == RemovedElements(spn, stored, w.svc)
<1>1. u.sets = RemoveFromSets(w.sets, gone) /\ w.svc # Nil
  BY DeleteServicePortSets, NilAssumption DEF Known
<1>2. \A e \in gone : e.set = "noendpoints" => e \in NoEndpointsElements(spn, w.svc)
  BY StoredNotRefused DEF RemovedElements
<1> HIDE DEF gone
<1>3. \A x \in w.sets \ u.sets : x.set = "noendpoints" => IsAddressOf(spn, w.svc, x)
  BY <1>1, <1>2 DEF RemoveFromSets, IsAddressOf
<1> QED BY <1>3 DEF RefusesOn, Refuses


(***************************************************************************)
(* What is rejected belongs to a service port without endpoints.           *)
(***************************************************************************)
\* The element x is there because the service port has no endpoints.
Rejects(spn, svc, x) == svc # Nil /\ ~svc.withEP /\ x \in NoEndpointsElements(spn, svc)

\* No element of the no-endpoints set has lost its service port, and none is
\* that of a service port with endpoints.
RejectsFounded ==
    \A x \in sets : x.set = "noendpoints" => \E spn \in ServicePortName : Rejects(spn, serviceMap[spn], x)

\* From w to u the elements of the no-endpoints set are those of the service
\* port in the end, or were there and are not those of the port.
FoundedOn(spn, w, u) ==
    \A x \in u.sets : x.set = "noendpoints" =>
        Rejects(spn, u.svc, x) \/ (x \in w.sets /\ ~Rejects(spn, w.svc, x))

\* Two stretches of a critical section.
LEMMA FoundedTwice ==
    ASSUME NEW spn, NEW w, NEW v, NEW u, FoundedOn(spn, w, v), FoundedOn(spn, v, u)
    PROVE  FoundedOn(spn, w, u)
BY DEF FoundedOn

\* Nothing changes that the no-endpoints set depends on.
LEMMA FoundedSame ==
    ASSUME NEW spn, NEW w, NEW u, u.svc = w.svc, u.sets = w.sets
    PROVE  FoundedOn(spn, w, u)
BY DEF FoundedOn

\* MarkEndpoints puts the addresses of the port into the set with its last
\* endpoint and takes all of them out with its first.
LEMMA MarkEndpointsFounded ==
    ASSUME NEW spn, NEW w, Known(w), NEW u, u = MarkEndpoints(spn, w)
    PROVE  FoundedOn(spn, w, u)
<1> DEFINE none == NoEndpointsElements(spn, w.svc)
<1>1. /\ u.svc.ip = w.svc.ip /\ u.svc.port = w.svc.port /\ u.svc.ext = w.svc.ext /\ u.svc.lb = w.svc.lb
      /\ u.svc.withEP <=> w.eps # <<>>
  BY DEF MarkEndpoints, Known, ServiceInfo, Fields
<1>2. NoEndpointsElements(spn, u.svc) = none
  BY <1>1, SameRefusals
<1>3. u.sets = IF w.eps = <<>>
               THEN IF w.svc.withEP THEN w.sets \cup none ELSE w.sets
               ELSE IF w.svc.withEP THEN w.sets ELSE RemoveFromSets(w.sets, none)
  BY DEF MarkEndpoints, Known, Fields
<1>4. u.svc # Nil /\ w.svc # Nil
  BY MarkEndpointsKeeps, NilAssumption DEF Known, Keeps
<1> HIDE DEF none
<1>5. \A x \in RemoveFromSets(w.sets, none) : x \in w.sets /\ x \notin none
  BY DEF RemoveFromSets
<1> QED BY <1>1, <1>2, <1>3, <1>4, <1>5 DEF FoundedOn, Rejects, none

\* What leaves the record and the sets alone.
LEMMA LeavesFounded ==
    ASSUME NEW spn, NEW w, Known(w), NEW u, Leaves(w, u)
    PROVE  FoundedOn(spn, w, u)
<1>1. NoEndpointsElements(spn, u.svc) = NoEndpointsElements(spn, w.svc)
  BY SameRefusals DEF Leaves
<1>2. u.svc # Nil /\ w.svc # Nil /\ u.sets = w.sets /\ u.svc.withEP = w.svc.withEP
  BY NilAssumption DEF Known, Leaves
<1> QED BY <1>1, <1>2 DEF FoundedOn, Rejects

\* updateServiceChain programs the rules after MarkEndpoints.
LEMMA UpdateServiceChainFounded ==
    ASSUME NEW spn, NEW w, Known(w), NEW u, u = updateServiceChain(spn, w)
    PROVE  FoundedOn(spn, w, u)
<1> DEFINE v == MarkEndpoints(spn, w)
<1>1. FoundedOn(spn, w, v) /\ Known(v)
  BY MarkEndpointsFounded, MarkEndpointsKeeps DEF Keeps
<1>2. Leaves(v, u)
  BY UpdateServiceChainLeaves
<1> HIDE DEF v
<1> QED BY <1>1, <1>2, LeavesFounded, FoundedTwice

\* An endpoint comes or goes.
LEMMA EndpointSectionsFounded ==
    ASSUME NEW spn, NEW addr, NEW local, NEW w, DOMAIN w = Fields, w.svc \in ServiceInfo \cup {Nil},
           NEW u \in {addEndpoint(spn, addr, local, w), deleteEndpoint(spn, addr, local, w)}
    PROVE  FoundedOn(spn, w, u)
<1>1. EndpointSection(spn, w, u)
  BY EndpointSections
<1>2. PICK v : /\ DOMAIN v = Fields /\ v.svc = w.svc /\ v.sets = w.sets
               /\ \/ u = v
                  \/ u = updateServiceChain(spn, v)
                  \/ \E a, c, r : u = [updateServiceChain(spn, v) EXCEPT !.ec[a] = c, !.res = r]
                  \/ \E a, c : u = [updateServiceChain(spn, v) EXCEPT !.ec[a] = c]
  BY <1>1 DEF EndpointSection
<1> DEFINE v1 == updateServiceChain(spn, v)
<1>3. u = v \/ (DOMAIN v1 = Fields => u.svc = v1.svc /\ u.sets = v1.sets)
  BY <1>2 DEF Fields
<1>4. CASE w.svc = Nil
  <2>1. v1 = v
    BY <1>2, <1>4, UpdateServiceChainNil
  <2> HIDE DEF v1
  <2>2. u.svc = w.svc /\ u.sets = w.sets
    BY <1>2, <1>3, <2>1
  <2> QED BY <2>2, FoundedSame
<1>5. CASE w.svc \in ServiceInfo
  <2>1. Known(v)
    BY <1>2, <1>5 DEF Known
  <2>2. FoundedOn(spn, v, v1) /\ Known(v1)
    BY <2>1, UpdateServiceChainFounded, UpdateServiceChainRefuses
  <2> HIDE DEF v1
  <2>3. FoundedOn(spn, w, v1)
    BY <1>2, <2>2 DEF FoundedOn
  <2>4. CASE u = v
    BY <1>2, <2>4, FoundedSame
  <2>5. CASE u.svc = v1.svc /\ u.sets = v1.sets
    BY <2>3, <2>5 DEF FoundedOn
  <2> QED BY <1>3, <2>2, <2>4, <2>5 DEF Known
<1> QED BY <1>4, <1>5

\* A service port is added without an error.
LEMMA AddServicePortFounded ==
    ASSUME NEW spn \in ServicePortName, NEW spec \in PortSpec, NEW w,
           DOMAIN w = Fields, w.svc \in ServiceInfo \cup {Nil},
           NEW u, u = addServicePort(spn, spec, w), u.res = "ok"
    PROVE  FoundedOn(spn, w, u)
<1>1. CASE w.svc # Nil
  <2>1. u = w
    BY <1>1 DEF addServicePort
  <2> QED BY <2>1, FoundedSame
<1>2. CASE w.svc = Nil
  <2> DEFINE svc == NewServiceInfo(spec, w.eps # <<>>)
             id  == SvcID(svc)
             es  == ServicePortElements(spn, svc)
             none == NoEndpointsElements(spn, svc)
             w1  == [w EXCEPT !.svc = svc,
                              !.sc[id] = CreateChain(@),
                              !.sets = IF svc.withEP THEN @ ELSE @ \cup none]
             w2  == AddServiceAffinityMap(w1, id, svc.maxAge)
             w3  == IF ~svc.withAff THEN w1 ELSE IF ~svc.withEP THEN w2 ELSE addAffinityEndpoint(w2)
             w4  == [w3 EXCEPT !.sets = AddAllToSets(@, es)]
             failed == [w4 EXCEPT !.svc = Nil, !.res = "error"]
             done == updateServiceChain(spn, w4)
  <2>1. svc \in ServiceInfo
    BY NftAssumption DEF NewServiceInfo, ServiceInfo, PortSpec
  <2>2. es \in Seq(Owned(spn, svc))
    BY <2>1, ServicePortElementsOwned
  <2>3. u \in {failed, done}
    BY <1>2 DEF addServicePort
  <2> HIDE DEF svc, es
  <2>4. /\ DOMAIN w1 = Fields /\ w1.svc = svc
        /\ w1.sets = IF svc.withEP THEN w.sets ELSE w.sets \cup none
    BY DEF Fields
  <2> HIDE DEF w1
  <2>5. DOMAIN w2 = Fields /\ w2.svc = svc /\ w2.sets = w1.sets
    BY <2>4 DEF AddServiceAffinityMap, Fields
  <2> HIDE DEF w2
  <2>6. DOMAIN w3 = Fields /\ w3.svc = svc /\ w3.sets = w1.sets
    BY <2>4, <2>5, AffinityKeeps
  <2> HIDE DEF w3
  <2>7. \A j \in DOMAIN es : es[j].set # "noendpoints"
    <3>1. \A j \in DOMAIN es : es[j] \in Owned(spn, svc)
      BY <2>2, LenProperties, ElementOfSeq
    <3> QED BY <3>1 DEF Owned
  <2>8. DOMAIN w4 = Fields /\ w4.svc = svc /\ w4.sets = AddAllToSets(w3.sets, es)
    BY <2>6 DEF Fields
  <2>9. u # failed
    BY <2>8 DEF Fields
  <2> HIDE DEF w4, failed
  <2>10. \A x \in w4.sets : x.set = "noendpoints" => x \in w1.sets
    BY <2>6, <2>7, <2>8 DEF AddAllToSets
  <2>11. svc # Nil /\ Known(w4)
    BY <2>1, <2>8, NilAssumption DEF Known
  <2>12. FoundedOn(spn, w, w4)
    BY <1>2, <2>4, <2>8, <2>10, <2>11 DEF FoundedOn, Rejects, none
  <2>13. FoundedOn(spn, w4, done)
    BY <2>11, UpdateServiceChainFounded
  <2> HIDE DEF done
  <2> QED BY <2>3, <2>9, <2>12, <2>13, FoundedTwice
<1> QED BY <1>1, <1>2

\* A service port is deleted and takes its addresses out of the set.
LEMMA DeleteServicePortFounded ==
    ASSUME NEW spn, NEW stored, NEW w, Known(w), NEW u, u = deleteServicePort(spn, stored, w), u.svc = Nil
    PROVE  FoundedOn(spn, w, u)
<1> DEFINE none == NoEndpointsElements(spn, w.svc)
           gone == RemovedElements(spn, stored, w.svc)
<1>1. u.sets = RemoveFromSets(w.sets, gone) /\ (~w.svc.withEP => none \subseteq gone)
  BY DeleteServicePortSets DEF RemovedElements
<1> HIDE DEF gone, none
<1>2. \A x \in u.sets : x \in w.sets /\ (~w.svc.withEP => x \notin none)
  BY <1>1 DEF RemoveFromSets
<1> QED BY <1>2 DEF FoundedOn, Rejects, none

(***************************************************************************)
(* The steps.                                                              *)
(***************************************************************************)
\* The service ports other than spn keep their addresses in the set.
LEMMA OthersRefuse ==
    ASSUME AddressesApart, AddressesApart', RefusalInv, NEW spn \in ServicePortName,
           NEW s \in ServicePortName, s # spn, serviceMap'[s] = serviceMap[s],
           \A x \in sets \ sets' : x.set = "noendpoints" =>
              IsAddressOf(spn, serviceMap[spn], x) \/ IsAddressOf(spn, serviceMap'[spn], x)
    PROVE  Refuses(s, serviceMap'[s], sets')
<1> DEFINE svc == serviceMap[s]
<1> SUFFICES ASSUME svc # Nil, ~svc.withEP, NEW x \in NoEndpointsElements(s, svc), x \notin sets'
             PROVE  FALSE
  BY DEF Refuses
<1>1. x \in sets /\ x.set = "noendpoints" /\ x.to = Nil
  BY NoEndpointsLeadNowhere DEF RefusalInv, Refuses
<1>2. ASSUME NEW t, NEW e \in NoEndpointsElements(spn, t), x.key = e.key
      PROVE  x = e
  BY <1>2 DEF NoEndpointsElements, Element
<1>3. CASE IsAddressOf(spn, serviceMap[spn], x)
  <2>1. x \in NoEndpointsElements(spn, serviceMap[spn]) /\ serviceMap[spn] # Nil
    BY <1>2, <1>3 DEF IsAddressOf
  <2> QED BY <2>1 DEF AddressesApart
<1>4. CASE IsAddressOf(spn, serviceMap'[spn], x)
  <2>1. x \in NoEndpointsElements(spn, serviceMap'[spn]) /\ serviceMap'[spn] # Nil
    BY <1>2, <1>4 DEF IsAddressOf
  <2>2. NoEndpointsElements(s, serviceMap'[s]) \cap NoEndpointsElements(spn, serviceMap'[spn]) = {}
    BY <2>1 DEF AddressesApart, NoEndpointsElements, Element
  <2> QED BY <2>1, <2>2
<1> QED BY <1>1, <1>3, <1>4

\* A critical section of the service port spn.
LEMMA CommitRefuses ==
    ASSUME PortInv, AddressesApart, AddressesApart', RefusalInv, NEW spn \in ServicePortName, NEW u,
           u.res = "ok", Commit(spn, u), RefusesOn(spn, Local(spn), u)
    PROVE  RefusalInv'
<1>1. serviceMap' = [serviceMap EXCEPT ![spn] = u.svc] /\ sets' = u.sets
  BY DEF Commit
<1>2. /\ serviceMap'[spn] = u.svc
      /\ \A s \in ServicePortName : s # spn => serviceMap'[s] = serviceMap[s]
  BY <1>1 DEF PortInv, TypeOK
<1>3. /\ Refuses(spn, serviceMap[spn], sets) => Refuses(spn, serviceMap'[spn], sets')
      /\ \A x \in sets \ sets' : x.set = "noendpoints" =>
            IsAddressOf(spn, serviceMap[spn], x) \/ IsAddressOf(spn, serviceMap'[spn], x)
  BY <1>1, <1>2, LocalFields DEF RefusesOn
<1>4. Refuses(spn, serviceMap'[spn], sets')
  BY <1>3 DEF RefusalInv
<1>5. \A s \in ServicePortName : Refuses(s, serviceMap'[s], sets')
  BY <1>2, <1>3, <1>4, OthersRefuse
<1> QED BY <1>5 DEF RefusalInv, Refuses, NoEndpointsElements, Element

\* processAffinityChange changes neither the addresses nor the flag.
LEMMA AffinityChangeRefuses ==
    ASSUME PortInv, RefusalInv, NEW ports \in SUBSET ServicePortName, NEW after,
           AffinityChange(ports, after),
           \A s \in ports : /\ after[s].res = "ok" /\ Leaves(Local(s), after[s])
                            /\ serviceMap[s] # Nil
    PROVE  RefusalInv'
<1>1. /\ serviceMap' = [s \in ServicePortName |-> IF s \in ports THEN after[s].svc ELSE serviceMap[s]]
      /\ sets' = sets
  BY DEF AffinityChange
<1>2. ASSUME NEW s \in ServicePortName
      PROVE  Refuses(s, serviceMap'[s], sets')
  <2>1. Refuses(s, serviceMap[s], sets)
    BY DEF RefusalInv
  <2>2. CASE s \notin ports
    BY <1>1, <2>1, <2>2
  <2>3. CASE s \in ports
    <3>1. Leaves(Local(s), after[s]) /\ serviceMap'[s] = after[s].svc /\ Local(s).svc = serviceMap[s]
      BY <1>1, <2>3, LocalFields
    <3>2. NoEndpointsElements(s, serviceMap'[s]) = NoEndpointsElements(s, serviceMap[s])
      BY <3>1, SameRefusals DEF Leaves
    <3>3. serviceMap'[s].withEP = serviceMap[s].withEP
      BY <3>1 DEF Leaves
    <3> QED BY <1>1, <2>1, <3>2, <3>3 DEF Refuses
  <2> QED BY <2>2, <2>3
<1> QED BY <1>2 DEF RefusalInv, Refuses, NoEndpointsElements, Element

\* The elements of the no-endpoints set.
Rejected(all) == {x \in all : x.set = "noendpoints"}

\* What a step does to the no-endpoints set: a critical section of the service
\* port spn ends in the state u; the affinity of several ports changes, but not
\* their addresses and flags; or the set and the service ports stay as they are.
OnPort(spn, u) ==
    /\ u.res = "ok" /\ Commit(spn, u)
    /\ RefusesOn(spn, Local(spn), u) /\ FoundedOn(spn, Local(spn), u)
OnAffinity(ports, after) ==
    /\ AffinityChange(ports, after)
    /\ \A s \in ports : /\ after[s].res = "ok" /\ Leaves(Local(s), after[s])
                        /\ Known(Local(s)) /\ serviceMap[s] # Nil
OneOfThese ==
    \/ \E spn \in ServicePortName : \E u : OnPort(spn, u)
    \/ \E ports \in SUBSET ServicePortName : \E after : OnAffinity(ports, after)
    \/ serviceMap' = serviceMap /\ Rejected(sets') = Rejected(sets)

\* Every step is one of these, or a restart.
LEMMA StepKinds ==
    ASSUME PortInv, [Next]_vars
    PROVE  OneOfThese \/ Restart
<1>0. ASSUME NEW spn \in ServicePortName
      PROVE  /\ PortOK(Local(spn)) /\ Local(spn).res = "ok" /\ DOMAIN Local(spn) = Fields
             /\ Local(spn).svc \in ServiceInfo \cup {Nil} /\ Local(spn).svc = serviceMap[spn]
  BY LocalFields, PortTypes DEF PortInv
<1>1. ASSUME NEW spn \in ServicePortName, NEW spec \in PortSpec, AddServicePort(spn, spec)
      PROVE  OneOfThese
  <2> DEFINE w == Local(spn)
             u == addServicePort(spn, spec, w)
  <2>1. AddAllToSetsOK(w.sets, ServicePortElements(spn, NewServiceInfo(spec, w.eps # <<>>)))
    BY <1>1, LocalFields DEF AddServicePort
  <2>2. Commit(spn, u)
    BY <1>1 DEF AddServicePort
  <2>3. PortOK(w) /\ w.res = "ok" /\ DOMAIN w = Fields /\ w.svc \in ServiceInfo \cup {Nil}
    BY <1>0
  <2> HIDE DEF w
  <2>4. u.res = "ok"
    BY <2>1, <2>3, AddServicePortOK
  <2>5. RefusesOn(spn, w, u) /\ FoundedOn(spn, w, u)
    BY <2>3, <2>4, AddServicePortRefuses, AddServicePortFounded
  <2> HIDE DEF u
  <2> QED BY <2>2, <2>4, <2>5 DEF w, OneOfThese, OnPort
<1>2. ASSUME NEW spn \in ServicePortName, NEW stored, DeleteServicePort(spn, stored)
      PROVE  OneOfThese
  <2> DEFINE w == Local(spn)
             u == deleteServicePort(spn, stored, w)
  <2>1. w.svc # Nil => \A x \in RemoveFromSets(w.sets, StoredElements(spn, w.svc, stored)) :
                          x.to # <<spn, SvcID(w.svc)>>
    BY <1>2, LocalFields DEF DeleteServicePort
  <2>2. Commit(spn, u)
    BY <1>2 DEF DeleteServicePort
  <2>3. PortOK(w) /\ w.res = "ok" /\ DOMAIN w = Fields /\ w.svc \in ServiceInfo \cup {Nil}
    BY <1>0
  <2> HIDE DEF w
  <2>4. u.res = "ok" /\ IF w.svc = Nil THEN u = w ELSE Effect(u, FALSE, FALSE, AddrsOf(w.eps))
    BY <2>1, <2>3, DeleteServicePortOK
  <2>5. RefusesOn(spn, w, u) /\ FoundedOn(spn, w, u)
    <3>1. CASE w.svc = Nil
      <4>1. u.svc = w.svc /\ u.sets = w.sets
        BY <2>4, <3>1
      <4> HIDE DEF u
      <4> QED BY <4>1, RefusesSame, FoundedSame
    <3>2. CASE w.svc # Nil
      <4>1. Known(w) /\ u.svc = Nil
        BY <2>3, <2>4, <3>2 DEF Known, Effect
      <4> QED BY <4>1, DeleteServicePortRefuses, DeleteServicePortFounded
    <3> QED BY <3>1, <3>2
  <2> HIDE DEF u
  <2> QED BY <2>2, <2>4, <2>5 DEF w, OneOfThese, OnPort
<1>3. ASSUME NEW spn \in ServicePortName, NEW addr \in Addr, NEW local \in BOOLEAN,
             AddEndpoint(spn, addr, local)
      PROVE  OneOfThese
  <2> DEFINE w == Local(spn)
             u == addEndpoint(spn, addr, local, w)
  <2>1. \A i \in DOMAIN w.eps : w.eps[i].addr # addr
    BY <1>3, LocalFields DEF AddEndpoint
  <2>2. Commit(spn, u)
    BY <1>3 DEF AddEndpoint
  <2>3. PortOK(w) /\ w.res = "ok" /\ DOMAIN w = Fields /\ w.svc \in ServiceInfo \cup {Nil}
    BY <1>0
  <2> HIDE DEF w
  <2>4. u.res = "ok"
    BY <2>1, <2>3, AddEndpointOK
  <2>5. RefusesOn(spn, w, u) /\ FoundedOn(spn, w, u)
    BY <2>3, EndpointSectionsRefuse, EndpointSectionsFounded
  <2> HIDE DEF u
  <2> QED BY <2>2, <2>4, <2>5 DEF w, OneOfThese, OnPort
<1>4. ASSUME NEW spn \in ServicePortName, NEW addr \in Addr, NEW local \in BOOLEAN,
             DeleteEndpoint(spn, addr, local)
      PROVE  OneOfThese
  <2> DEFINE w == Local(spn)
             u == deleteEndpoint(spn, addr, local, w)
  <2>1. Commit(spn, u)
    BY <1>4 DEF DeleteEndpoint
  <2>2. PortOK(w) /\ w.res = "ok" /\ DOMAIN w = Fields /\ w.svc \in ServiceInfo \cup {Nil}
    BY <1>0
  <2> HIDE DEF w
  <2>3. u.res = "ok"
    BY <2>2, DeleteEndpointOK
  <2>4. RefusesOn(spn, w, u) /\ FoundedOn(spn, w, u)
    BY <2>2, EndpointSectionsRefuse, EndpointSectionsFounded
  <2> HIDE DEF u
  <2> QED BY <2>1, <2>3, <2>4 DEF w, OneOfThese, OnPort
<1>5. ASSUME NEW ports \in SUBSET ServicePortName, AddAffinity(ports)
      PROVE  OneOfThese
  <2> DEFINE after == [s \in ports |-> addAffinity(Local(s))]
  <2>1. ASSUME NEW s \in ports
        PROVE  after[s].res = "ok" /\ Leaves(Local(s), after[s]) /\ Known(Local(s)) /\ serviceMap[s] # Nil
    <3> DEFINE w == Local(s)
    <3>1. /\ PortOK(w) /\ w.res = "ok" /\ Known(w) /\ w.svc # Nil /\ ~w.svc.withAff /\ w.eps # <<>>
          /\ serviceMap[s] # Nil
      BY <1>0, <1>5, LocalFields DEF AddAffinity, Known
    <3> HIDE DEF w
    <3>2. addAffinity(w).res = "ok"
      BY <3>1, AddAffinityOK
    <3>3. Leaves(w, addAffinity(w))
      BY <3>1, AddAffinityLeaves
    <3> QED BY <3>1, <3>2, <3>3 DEF w
  <2>2. AffinityChange(ports, after)
    BY <1>5 DEF AddAffinity
  <2> HIDE DEF after
  <2> QED BY <2>1, <2>2 DEF OneOfThese, OnAffinity
<1>6. ASSUME NEW ports \in SUBSET ServicePortName, RemoveAffinity(ports)
      PROVE  OneOfThese
  <2> DEFINE after == [s \in ports |-> removeAffinity(Local(s))]
  <2>1. ASSUME NEW s \in ports
        PROVE  after[s].res = "ok" /\ Leaves(Local(s), after[s]) /\ Known(Local(s)) /\ serviceMap[s] # Nil
    <3> DEFINE w == Local(s)
    <3>1. /\ PortOK(w) /\ w.res = "ok" /\ Known(w) /\ w.svc # Nil /\ w.svc.withAff
          /\ serviceMap[s] # Nil
      BY <1>0, <1>6, LocalFields DEF RemoveAffinity, Known
    <3> HIDE DEF w
    <3>2. removeAffinity(w).res = "ok"
      BY <3>1, RemoveAffinityOK
    <3>3. Leaves(w, removeAffinity(w))
      BY <3>1, RemoveAffinityLeaves
    <3> QED BY <3>1, <3>2, <3>3 DEF w
  <2>2. AffinityChange(ports, after)
    BY <1>6 DEF RemoveAffinity
  <2> HIDE DEF after
  <2> QED BY <2>1, <2>2 DEF OneOfThese, OnAffinity
<1>7. ASSUME NEW spn \in ServicePortName, NEW set \in UpdatedSets, NEW port \in Port,
             NEW ip \in AddressesOf(set),
             AddSetElement(spn, set, ip, port) \/ RemoveSetElement(spn, set, ip, port)
      PROVE  OneOfThese
  <2>1. set # "noendpoints" /\ serviceMap' = serviceMap
    BY <1>7, ProxyAssumption DEF AddSetElement, RemoveSetElement
  <2>2. Rejected(sets') = Rejected(sets)
    BY <1>7, <2>1 DEF AddSetElement, RemoveSetElement, AddToSet, RemoveFromSets, Element, Rejected
  <2> QED BY <2>1, <2>2 DEF OneOfThese
<1>8. CASE Kill \/ UNCHANGED vars
  BY <1>8 DEF Kill, Stop, vars, OneOfThese
<1> QED BY <1>1, <1>2, <1>3, <1>4, <1>5, <1>6, <1>7, <1>8 DEF Next

\* Every step keeps the addresses of the ports without endpoints in the set.
LEMMA StepRefuses ==
    ASSUME PortInv, AddressesApart, AddressesApart', RefusalInv, [Next]_vars
    PROVE  RefusalInv'
<1>1. ASSUME NEW spn \in ServicePortName, NEW u, OnPort(spn, u)
      PROVE  RefusalInv'
  BY <1>1, CommitRefuses DEF OnPort
<1>2. ASSUME NEW ports \in SUBSET ServicePortName, NEW after, OnAffinity(ports, after)
      PROVE  RefusalInv'
  BY <1>2, AffinityChangeRefuses DEF OnAffinity
<1>3. ASSUME serviceMap' = serviceMap, Rejected(sets') = Rejected(sets)
      PROVE  RefusalInv'
  <2>1. \A s \in ServicePortName : \A x \in NoEndpointsElements(s, serviceMap[s]) : x.set = "noendpoints"
    BY NoEndpointsLeadNowhere
  <2>2. \A x \in sets : x.set = "noendpoints" => x \in sets'
    BY <1>3 DEF Rejected
  <2>3. \A s \in ServicePortName : Refuses(s, serviceMap[s], sets')
    BY <2>1, <2>2 DEF RefusalInv, Refuses
  <2> QED BY <1>3, <2>3 DEF RefusalInv, Refuses, NoEndpointsElements, Element
<1>4. CASE Restart
  BY <1>4 DEF Restart, RefusalInv, Refuses
<1> QED BY <1>1, <1>2, <1>3, <1>4, StepKinds DEF OneOfThese

\* Every step keeps the set to such addresses.
LEMMA StepFounded ==
    ASSUME PortInv, RejectsFounded, [Next]_vars
    PROVE  RejectsFounded'
<1> DEFINE Founded(m, all) ==
        \A x \in all : x.set = "noendpoints" => \E spn \in ServicePortName : Rejects(spn, m[spn], x)
<1>0. RejectsFounded = Founded(serviceMap, sets) /\ RejectsFounded' = Founded(serviceMap', sets')
  BY DEF RejectsFounded, Rejects, NoEndpointsElements, Element
<1>1. ASSUME NEW spn \in ServicePortName, NEW u, OnPort(spn, u)
      PROVE  Founded(serviceMap', sets')
  <2>1. serviceMap' = [serviceMap EXCEPT ![spn] = u.svc] /\ sets' = u.sets
    BY <1>1 DEF OnPort, Commit
  <2>2. /\ serviceMap'[spn] = u.svc
        /\ \A s \in ServicePortName : s # spn => serviceMap'[s] = serviceMap[s]
    BY <2>1 DEF PortInv, TypeOK
  <2>3. \A x \in sets' : x.set = "noendpoints" =>
            Rejects(spn, serviceMap'[spn], x) \/ (x \in sets /\ ~Rejects(spn, serviceMap[spn], x))
    BY <1>1, <2>1, <2>2, LocalFields DEF OnPort, FoundedOn
  <2> QED BY <1>0, <2>2, <2>3
<1>2. ASSUME NEW ports \in SUBSET ServicePortName, NEW after, OnAffinity(ports, after)
      PROVE  Founded(serviceMap', sets')
  <2>1. /\ serviceMap' = [s \in ServicePortName |-> IF s \in ports THEN after[s].svc ELSE serviceMap[s]]
        /\ sets' = sets
    BY <1>2 DEF OnAffinity, AffinityChange
  <2>2. ASSUME NEW s \in ServicePortName, NEW x, Rejects(s, serviceMap[s], x)
        PROVE  Rejects(s, serviceMap'[s], x)
    <3>1. CASE s \notin ports
      BY <2>1, <2>2, <3>1
    <3>2. CASE s \in ports
      <4>1. Leaves(Local(s), after[s]) /\ serviceMap'[s] = after[s].svc /\ Local(s).svc = serviceMap[s]
        BY <1>2, <2>1, <3>2, LocalFields DEF OnAffinity
      <4>2. NoEndpointsElements(s, serviceMap'[s]) = NoEndpointsElements(s, serviceMap[s])
        BY <4>1, SameRefusals DEF Leaves
      <4>3. serviceMap'[s].withEP = serviceMap[s].withEP /\ serviceMap'[s] # Nil
        BY <4>1, NilAssumption DEF Leaves, Known
      <4> QED BY <2>2, <4>2, <4>3 DEF Rejects
    <3> QED BY <3>1, <3>2
  <2> HIDE DEF Founded
  <2>3. Founded(serviceMap, sets)
    BY <1>0
  <2> QED BY <2>1, <2>2, <2>3 DEF Founded
<1>3. ASSUME serviceMap' = serviceMap, Rejected(sets') = Rejected(sets)
      PROVE  Founded(serviceMap', sets')
  <2>1. \A x \in sets' : x.set = "noendpoints" => x \in sets
    BY <1>3 DEF Rejected
  <2> QED BY <1>0, <1>3, <2>1
<1>4. CASE Restart
  BY <1>4 DEF Restart, RejectsFounded
<1> QED BY <1>0, <1>1, <1>2, <1>3, <1>4, StepKinds DEF OneOfThese

\* A packet to an address in the no-endpoints set is rejected, unless it is
\* forwarded for a client outside the cluster.
LEMMA RefusedInSet ==
    ASSUME PortInv, RefusalInv
    PROVE  RefusedWithoutEndpoints
<1> SUFFICES ASSUME NEW p \in Packet, NEW spn \in ServicePortName,
                    serviceMap[spn] # Nil, AddressesOfEndpoints(spn) = {},
                    p.proto = spn.proto, p.port = serviceMap[spn].port,
                    p.dst \in {serviceMap[spn].ip} \cup Range(serviceMap[spn].ext)
                                \cup Range(serviceMap[spn].lb),
                    ~(p.hook = "forward" /\ p.src = "outside")
             PROVE  FilterVerdict(p) = "reject"
  BY DEF RefusedWithoutEndpoints
<1> DEFINE w == Local(spn)
           x == Element("noendpoints", spn, p.dst, p.port, Nil)
<1>1. ~serviceMap[spn].withEP
  <2>1. PortOK(w) /\ w.svc = serviceMap[spn] /\ w.eps = endpointsMap[spn]
    BY LocalFields DEF PortInv
  <2>2. endpointsMap[spn] \in Seq(EndpointInfo)
    BY DEF PortInv, TypeOK
  <2>3. endpointsMap[spn] = <<>>
    <3> DEFINE eps == endpointsMap[spn]
    <3>0. DOMAIN eps = {}
      BY DEF AddressesOfEndpoints
    <3>1. DOMAIN eps = 1..Len(eps)
      BY <2>2, LenProperties
    <3>2. ASSUME eps # <<>> PROVE FALSE
      <4>1. Len(eps) \in Nat \ {0}
        BY <2>2, <3>2, EmptySeq
      <4>2. 1 \in 1..Len(eps)
        BY <4>1
      <4> QED BY <3>0, <3>1, <4>2
    <3> QED BY <3>2
  <2> HIDE DEF w
  <2> QED BY <2>1, <2>3 DEF PortOK
<1>2. x \in NoEndpointsElements(spn, serviceMap[spn])
  BY DEF NoEndpointsElements
<1>3. x \in sets
  BY <1>1, <1>2 DEF RefusalInv, Refuses
<1>4. x.set = "noendpoints" /\ x.key = Key(p)
  BY DEF Element, Key
<1>5. Matches("noendpoints", p) # {}
  <2> HIDE DEF x
  <2> QED BY <1>3, <1>4 DEF Matches
<1>6. ~(p.hook = "forward" /\ MarkedOutside(p))
  BY DEF MarkedOutside
<1> QED BY <1>5, <1>6 DEF FilterVerdict

\* Every element of the no-endpoints set is that of a service port of serviceMap
\* that has no endpoints: nothing is rejected on behalf of a service that is
\* gone, or of one whose endpoints are there.
THEOREM RejectsAlwaysFounded == Spec => []RejectsFounded
<1>1. Init => RejectsFounded
  BY DEF Init, RejectsFounded
<1>2. PortInv /\ RejectsFounded /\ [Next]_vars => RejectsFounded'
  BY StepFounded
<1> QED BY <1>1, <1>2, PortInvariant, PTL DEF Spec

\* The addresses of every service port without endpoints are in the set.
THEOREM RefusalInvariant == Spec /\ []AddressesApart => []RefusalInv
<1>1. Init => RefusalInv
  BY DEF Init, RefusalInv, Refuses
<1>2. PortInv /\ AddressesApart /\ AddressesApart' /\ RefusalInv /\ [Next]_vars => RefusalInv'
  BY StepRefuses
<1> QED BY <1>1, <1>2, PortInvariant, PTL DEF Spec

\* RefusedWithoutEndpoints: as long as no two service ports share an address,
\* port and protocol, a connection to a service port without endpoints is
\* rejected in every reachable state: after its last endpoint is gone, before
\* its first one comes, and while its addresses come and go.
THEOREM AlwaysRefusedWithoutEndpoints == Spec /\ []AddressesApart => []RefusedWithoutEndpoints
<1>1. PortInv /\ RefusalInv => RefusedWithoutEndpoints
  BY RefusedInSet
<1> QED BY <1>1, RefusalInvariant, PortInvariant, PTL

(***************************************************************************)
(* The table of the kernel is the table of the maps.                       *)
(***************************************************************************)
\* The entry the maps have for a service port.
MapEntry(spn) ==
    Table!Entry(serviceMap[spn] # Nil, HasAff(serviceMap[spn]), AddrsOf(endpointsMap[spn]))

EntryInv == \A spn \in ServicePortName : KernelEntry(spn) = MapEntry(spn)

\* The addresses that have a chain are those of the endpoints, and each of
\* their chains has a DNAT rule, and an Update rule with affinity.
LEMMA EndpointChainKinds ==
    ASSUME NEW aff \in BOOLEAN, NEW id, NEW ep, NEW c, EndpointOK(aff, id, ep, c)
    PROVE  /\ c # Nil
           /\ \E i \in DOMAIN c : c[i].kind = "dnat"
           /\ (\E i \in DOMAIN c : c[i].kind = "update") <=> aff
<1>1. c \in Seq(RuleType) /\ c # Nil /\ DOMAIN c = 1..Len(c)
  BY RememberedIDs, NilAssumption, LenProperties DEF EndpointOK
<1>2. /\ \A h, kind : PlainRule(h, kind).kind = kind
      /\ \A h : UpdateRule(h, id, ep).kind = "update"
  BY DEF PlainRule, UpdateRule, Rule
<1>3. CASE aff
  <2>1. Len(c) = 4 /\ c[1].kind = "update" /\ c[4].kind = "dnat"
    BY <1>2, <1>3 DEF EndpointOK
  <2> QED BY <1>1, <1>3, <2>1
<1>4. CASE ~aff
  <2>1. /\ DOMAIN c = {1, 2, 3}
        /\ c[1].kind = "counter" /\ c[2].kind = "masq" /\ c[3].kind = "dnat"
    BY <1>1, <1>2, <1>4 DEF EndpointOK
  <2> QED BY <1>1, <1>4, <2>1
<1> QED BY <1>3, <1>4

\* The load balancing rule of a chain that is up to date jumps to the chains of
\* all the endpoints.
LEMMA ServiceChainRoutes ==
    ASSUME NEW svc \in ServiceInfo, NEW eps \in Seq(EndpointInfo), NEW c, ChainOK(svc, eps, c), NEW a
    PROVE  /\ c # Nil
           /\ (\E k \in DOMAIN c : c[k].kind = "lb" /\ \E t \in c[k].to : t[2] = a) <=> a \in AddrsOf(eps)
<1>1. c \in Seq(RuleType) /\ c # Nil /\ DOMAIN c = 1..Len(c)
  BY RememberedIDs, NilAssumption, LenProperties DEF ChainOK
<1>2. /\ \A h : CounterRule(h).kind = "counter"
      /\ \A h, id : MatchActRule(h, id, eps).kind = "matchact"
      /\ \A h : LoadBalanceRule(h, eps).kind = "lb" /\ LoadBalanceRule(h, eps).to = Targets(eps)
  BY DEF CounterRule, MatchActRule, LoadBalanceRule, Rule
<1>3. (\E t \in Targets(eps) : t[2] = a) <=> a \in AddrsOf(eps)
  <2>1. ASSUME NEW t \in Targets(eps), t[2] = a
        PROVE  a \in AddrsOf(eps)
    <3>1. PICK i \in DOMAIN eps : t = <<i, eps[i].addr>>
      BY DEF Targets
    <3>2. a = eps[i].addr
      BY <2>1, <3>1
    <3> QED BY <3>2 DEF AddrsOf
  <2>2. ASSUME a \in AddrsOf(eps)
        PROVE  \E t \in Targets(eps) : t[2] = a
    <3>1. PICK i \in DOMAIN eps : a = eps[i].addr
      BY <2>2 DEF AddrsOf
    <3>2. <<i, eps[i].addr>> \in Targets(eps) /\ <<i, eps[i].addr>>[2] = a
      BY <3>1 DEF Targets
    <3> QED BY <3>2
  <2> QED BY <2>1, <2>2
<1>4. CASE eps = <<>>
  <2>1. Len(c) = 0 /\ AddrsOf(eps) = {}
    BY <1>4 DEF ChainOK, AddrsOf
  <2> QED BY <1>1, <2>1
<1>5. CASE eps # <<>> /\ svc.withAff
  <2>1. /\ DOMAIN c = {1, 2, 3} /\ c[1].kind = "counter"
        /\ c[2].kind = "matchact" /\ c[3].kind = "lb" /\ c[3].to = Targets(eps)
    BY <1>1, <1>2, <1>5 DEF ChainOK
  <2> QED BY <1>1, <1>3, <2>1
<1>6. CASE eps # <<>> /\ ~svc.withAff
  <2>1. DOMAIN c = {1, 2} /\ c[1].kind = "counter" /\ c[2].kind = "lb" /\ c[2].to = Targets(eps)
    BY <1>1, <1>2, <1>6 DEF ChainOK
  <2> QED BY <1>1, <1>3, <2>1
<1> QED BY <1>4, <1>5, <1>6

\* What the kernel does for a service port that is in step is what the maps say.
LEMMA KernelAsMaps ==
    ASSUME PortInv, NEW spn \in ServicePortName
    PROVE  KernelEntry(spn) = MapEntry(spn)
<1> DEFINE w == Local(spn)
           svc == serviceMap[spn]
           eps == endpointsMap[spn]
           ec == epChain[spn]
           sc == svcChain[spn]
           id == SvcID(svc)
           aff == HasAff(svc)
           all == AddrsOf(eps)
<1>1. /\ w.svc = svc /\ w.eps = eps /\ w.sc = sc /\ w.ec = ec /\ w.am = affinityMap[spn] /\ PortOK(w)
  BY LocalFields DEF PortInv
<1> HIDE DEF w
<1>2. /\ svc \in ServiceInfo \cup {Nil} /\ eps \in Seq(EndpointInfo)
      /\ EndpointsOK(aff, id, eps, ec)
      /\ svc # Nil => svc \in ServiceInfo /\ id \in SvcKey /\ ChainOK(svc, eps, sc[id])
      /\ \A k \in SvcKey : sc[k] # Nil => svc # Nil /\ id = k
      /\ \A k \in SvcKey : affinityMap[spn][k] # Nil <=> svc # Nil /\ id = k /\ svc.withAff
  BY <1>1, SvcIDType DEF PortOK, Typed
<1>3. aff \in BOOLEAN /\ (aff <=> svc # Nil /\ svc.withAff) /\ (aff => svc # Nil /\ id \in SvcKey)
  BY <1>2, SvcIDType DEF HasAff
<1> HIDE DEF svc, eps, ec, sc, id, aff
<1>4. ASSUME NEW a
      PROVE  /\ a \in all => /\ a \in Addr /\ ec[a] # Nil
                             /\ \E i \in DOMAIN ec[a] : ec[a][i].kind = "dnat"
                             /\ (\E i \in DOMAIN ec[a] : ec[a][i].kind = "update") <=> aff
             /\ a \in Addr /\ ec[a] # Nil => a \in all
  <2>1. ASSUME NEW i \in DOMAIN eps
        PROVE  /\ eps[i].addr \in Addr /\ ec[eps[i].addr] # Nil
               /\ \E k \in DOMAIN ec[eps[i].addr] : ec[eps[i].addr][k].kind = "dnat"
               /\ (\E k \in DOMAIN ec[eps[i].addr] : ec[eps[i].addr][k].kind = "update") <=> aff
    <3> DEFINE c == ec[eps[i].addr]
               ep == eps[i]
    <3>1. EndpointOK(aff, id, ep, c)
      BY <1>2 DEF EndpointsOK
    <3> HIDE DEF c, ep
    <3>2. c # Nil /\ (\E k \in DOMAIN c : c[k].kind = "dnat") /\ ((\E k \in DOMAIN c : c[k].kind = "update") <=> aff)
      BY <1>3, <3>1, EndpointChainKinds
    <3> QED BY <1>2, <3>2, EndpointsType DEF c
  <2>2. a \in Addr /\ ec[a] # Nil => a \in all
    BY <1>2 DEF EndpointsOK, AddrsOf
  <2> QED BY <2>1, <2>2 DEF AddrsOf
<1>5. ASSUME NEW a
      PROVE  (\E k \in SvcKey : sc[k] # Nil /\ \E i \in DOMAIN sc[k] :
                 sc[k][i].kind = "lb" /\ \E t \in sc[k][i].to : t[2] = a) <=> svc # Nil /\ a \in all
  <2>1. CASE svc = Nil
    BY <1>2, <2>1
  <2>2. CASE svc # Nil
    <3> DEFINE c == sc[id]
    <3>1. /\ c # Nil
          /\ (\E i \in DOMAIN c : c[i].kind = "lb" /\ \E t \in c[i].to : t[2] = a) <=> a \in all
      BY <1>2, <2>2, ServiceChainRoutes
    <3> HIDE DEF all
    <3> QED BY <1>2, <2>2, <3>1
  <2> QED BY <2>1, <2>2
<1>6. (\E k \in SvcKey : sc[k] # Nil) <=> svc # Nil
  <2>1. svc # Nil => sc[id] # Nil
    BY <1>2, ServiceChainRoutes
  <2> QED BY <1>2, <2>1
<1>7. (\E k \in SvcKey : affinityMap[spn][k] # Nil) <=> aff
  BY <1>2, <1>3
<1>8. {a \in Addr : ec[a] # Nil} = all
  BY <1>4
<1>9. JumpTargets(spn, "lb") \cap ChainsWith(spn, "dnat") = IF svc # Nil THEN all ELSE {}
  <2>1. JumpTargets(spn, "lb") = {a \in Addr : svc # Nil /\ a \in all}
    BY <1>5 DEF JumpTargets, sc
  <2>2. ChainsWith(spn, "dnat") = all
    BY <1>4 DEF ChainsWith, ec
  <2> HIDE DEF all
  <2>3. all \subseteq Addr
    BY <1>4
  <2> QED BY <2>1, <2>2, <2>3
<1>10. ChainsWith(spn, "update") = IF aff THEN all ELSE {}
  <2>1. ChainsWith(spn, "update") = {a \in Addr : a \in all /\ aff}
    BY <1>4 DEF ChainsWith, ec
  <2>3. all \subseteq Addr
    BY <1>4
  <2> HIDE DEF all
  <2> QED BY <1>3, <2>1, <2>3
<1> DEFINE yes == \E k \in SvcKey : sc[k] # Nil
           pin == \E k \in SvcKey : affinityMap[spn][k] # Nil
<1>11. KernelEntry(spn) = Table!Entry(yes, pin, all)
  <2>1. yes = (svc # Nil) /\ pin = aff
    BY <1>3, <1>6, <1>7
  <2> HIDE DEF yes, pin, all
  <2>2. KernelEntry(spn) = [exposed |-> yes, sticky |-> pin, backends |-> all,
                            routes |-> IF yes THEN all ELSE {}, pinned |-> IF pin THEN all ELSE {}]
    BY <1>8, <1>9, <1>10, <2>1 DEF KernelEntry, yes, pin, ec, sc
  <2> QED BY <2>2 DEF Table!Entry
<1>12. Table!Entry(yes, pin, all) = Table!Entry(svc # Nil, aff, all)
  <2>1. yes = (svc # Nil) /\ pin = aff
    BY <1>3, <1>6, <1>7
  <2> HIDE DEF yes, pin, all
  <2> QED BY <2>1
<1> QED BY <1>11, <1>12 DEF MapEntry, svc, aff, eps

(***************************************************************************)
(* Steps.                                                                  *)
(***************************************************************************)
\* One entry changes: the table is put right.
LEMMA TablePut ==
    ASSUME EntryInv, EntryInv', NEW spn \in ServicePortName, NEW e, MapEntry(spn)' = e,
           \A s \in ServicePortName : s # spn => MapEntry(s)' = MapEntry(s),
           proc = "running", proc' = "running"
    PROVE  Table!Put(spn, e)
<1>1. /\ \A s \in ServicePortName : KernelEntry(s) = MapEntry(s)
      /\ \A s \in ServicePortName : KernelEntry(s)' = MapEntry(s)'
  BY DEF EntryInv
<1>2. KernelTable' = [s \in ServicePortName |-> KernelEntry(s)']
  BY DEF KernelTable
<1>3. \A s \in ServicePortName : KernelEntry(s)' = IF s = spn THEN e ELSE KernelEntry(s)
  BY <1>1
<1>4. KernelTable' = [KernelTable EXCEPT ![spn] = e]
  BY <1>2, <1>3 DEF KernelTable
<1> QED BY <1>4 DEF Table!Put

\* The entries after a critical section on spn.
LEMMA CommitEntries ==
    ASSUME TypeOK, NEW spn \in ServicePortName, NEW u, u.res = "ok", Commit(spn, u)
    PROVE  /\ MapEntry(spn)' = Table!Entry(u.svc # Nil, HasAff(u.svc), AddrsOf(u.eps))
           /\ \A s \in ServicePortName : s # spn => MapEntry(s)' = MapEntry(s)
           /\ proc' = proc
<1>1. /\ serviceMap' = [serviceMap EXCEPT ![spn] = u.svc]
      /\ endpointsMap' = [endpointsMap EXCEPT ![spn] = u.eps] /\ proc' = proc
  BY DEF Commit
<1>2. /\ serviceMap'[spn] = u.svc /\ endpointsMap'[spn] = u.eps
      /\ \A s \in ServicePortName : s # spn =>
            serviceMap'[s] = serviceMap[s] /\ endpointsMap'[s] = endpointsMap[s]
  BY <1>1 DEF TypeOK
<1> QED BY <1>1, <1>2 DEF MapEntry

\* What an entry of the table says of a service port.
LEMMA EntrySays ==
    ASSUME PortInv, EntryInv, NEW spn \in ServicePortName
    PROVE  /\ KernelTable[spn] = MapEntry(spn)
           /\ KernelTable[spn].exposed = (serviceMap[spn] # Nil)
           /\ KernelTable[spn].sticky = HasAff(serviceMap[spn])
           /\ KernelTable[spn].backends = AddrsOf(endpointsMap[spn])
           /\ HasAff(serviceMap[spn]) \in BOOLEAN
<1>1. KernelTable[spn] = MapEntry(spn)
  BY DEF KernelTable, EntryInv
<1>2. HasAff(serviceMap[spn]) \in BOOLEAN
  BY SvcIDType DEF PortInv, TypeOK, HasAff
<1> QED BY <1>1, <1>2 DEF MapEntry, Table!Entry

\* A critical section that achieves an effect puts the entry that says so.
LEMMA EffectPut ==
    ASSUME PortInv, EntryInv, EntryInv', NEW spn \in ServicePortName, proc = "running",
           NEW u, u.res = "ok", PortOK(u), Commit(spn, u),
           NEW known \in BOOLEAN, NEW aff \in BOOLEAN, NEW addrs, Effect(u, known, aff, addrs)
    PROVE  Table!Put(spn, Table!Entry(known, aff, addrs))
<1> DEFINE e == Table!Entry(u.svc # Nil, HasAff(u.svc), AddrsOf(u.eps))
<1>0. TypeOK
  BY DEF PortInv
<1>1. /\ MapEntry(spn)' = e
      /\ \A s \in ServicePortName : s # spn => MapEntry(s)' = MapEntry(s)
      /\ proc' = "running"
  BY <1>0, CommitEntries
<1>2. HasAff(u.svc) \in BOOLEAN
  BY SvcIDType DEF PortOK, Typed, HasAff
<1>3. (u.svc # Nil) = known /\ HasAff(u.svc) = aff /\ AddrsOf(u.eps) = addrs
  BY <1>2 DEF Effect
<1>4. e = Table!Entry(known, aff, addrs)
  BY <1>3
<1> HIDE DEF e
<1>5. Table!Put(spn, e)
  BY <1>1, TablePut
<1> QED BY <1>4, <1>5

\* A critical section that leaves its service port alone changes no entry.
LEMMA NothingPut ==
    ASSUME PortInv, EntryInv, EntryInv', NEW spn \in ServicePortName, Commit(spn, Local(spn))
    PROVE  KernelTable' = KernelTable /\ (proc = "running")' = (proc = "running")
<1> DEFINE u == Local(spn)
<1>0. TypeOK /\ u.res = "ok" /\ u.svc = serviceMap[spn] /\ u.eps = endpointsMap[spn]
  BY LocalFields DEF PortInv
<1> HIDE DEF u
<1>1. /\ MapEntry(spn)' = Table!Entry(u.svc # Nil, HasAff(u.svc), AddrsOf(u.eps))
      /\ \A s \in ServicePortName : s # spn => MapEntry(s)' = MapEntry(s)
      /\ proc' = proc
  <2>1. Commit(spn, u)
    BY DEF u
  <2> QED BY <1>0, <2>1, CommitEntries
<1>2. \A s \in ServicePortName : MapEntry(s)' = MapEntry(s)
  BY <1>0, <1>1 DEF MapEntry
<1>3. \A s \in ServicePortName : KernelEntry(s)' = KernelEntry(s)
  BY <1>2 DEF EntryInv
<1> QED BY <1>1, <1>3 DEF KernelTable

\* A step of the table, or none.
TableStep == Table!Next \/ (KernelTable' = KernelTable /\ (proc = "running")' = (proc = "running"))

\* addServicePort exposes a service port that is not known.
LEMMA ExposeStep ==
    ASSUME PortInv, EntryInv, EntryInv', NEW spn \in ServicePortName, NEW spec \in PortSpec,
           AddServicePort(spn, spec)
    PROVE  TableStep
<1> DEFINE w == Local(spn)
           u == addServicePort(spn, spec, w)
<1>1. AddAllToSetsOK(w.sets, ServicePortElements(spn, NewServiceInfo(spec, w.eps # <<>>)))
  BY LocalFields DEF AddServicePort
<1>2. Commit(spn, u) /\ proc = "running"
  BY DEF AddServicePort
<1>3. PortOK(w) /\ w.res = "ok" /\ w.svc = serviceMap[spn] /\ w.eps = endpointsMap[spn]
  BY LocalFields DEF PortInv
<1>4. u = w => TableStep
  BY <1>2, NothingPut DEF TableStep
<1> HIDE DEF w
<1>5. PortOK(u) /\ u.res = "ok" /\ IF w.svc # Nil THEN u = w ELSE Effect(u, TRUE, spec.aff # Nil, AddrsOf(w.eps))
  BY <1>1, <1>3, AddServicePortOK
<1> HIDE DEF u
<1>6. CASE w.svc # Nil
  BY <1>4, <1>5, <1>6
<1>7. CASE w.svc = Nil
  <2> DEFINE sticky == spec.aff # Nil
  <2>1. Effect(u, TRUE, sticky, AddrsOf(endpointsMap[spn])) /\ sticky \in BOOLEAN
    BY <1>3, <1>5, <1>7
  <2> HIDE DEF sticky
  <2>2. Table!Put(spn, Table!Entry(TRUE, sticky, AddrsOf(endpointsMap[spn])))
    BY <1>2, <1>5, <2>1, EffectPut
  <2>3. ~KernelTable[spn].exposed /\ KernelTable[spn].backends = AddrsOf(endpointsMap[spn])
    BY <1>3, <1>7, EntrySays
  <2>4. Table!Expose(spn, sticky)
    BY <2>2, <2>3 DEF Table!Expose
  <2> QED BY <2>1, <2>4 DEF TableStep, Table!Next
<1> QED BY <1>6, <1>7

\* deleteServicePort withdraws one that is.
LEMMA WithdrawStep ==
    ASSUME PortInv, EntryInv, EntryInv', NEW spn \in ServicePortName, NEW stored,
           DeleteServicePort(spn, stored)
    PROVE  TableStep
<1> DEFINE w == Local(spn)
           u == deleteServicePort(spn, stored, w)
<1>1. w.svc # Nil => \A x \in RemoveFromSets(w.sets, StoredElements(spn, w.svc, stored)) :
                        x.to # <<spn, SvcID(w.svc)>>
  BY LocalFields DEF DeleteServicePort
<1>2. Commit(spn, u) /\ proc = "running"
  BY DEF DeleteServicePort
<1>3. PortOK(w) /\ w.res = "ok" /\ w.svc = serviceMap[spn] /\ w.eps = endpointsMap[spn]
  BY LocalFields DEF PortInv
<1>4. u = w => TableStep
  BY <1>2, NothingPut DEF TableStep
<1> HIDE DEF w
<1>5. PortOK(u) /\ u.res = "ok" /\ IF w.svc = Nil THEN u = w ELSE Effect(u, FALSE, FALSE, AddrsOf(w.eps))
  BY <1>1, <1>3, DeleteServicePortOK
<1> HIDE DEF u
<1>6. CASE w.svc = Nil
  BY <1>4, <1>5, <1>6
<1>7. CASE w.svc # Nil
  <2>1. Effect(u, FALSE, FALSE, AddrsOf(endpointsMap[spn]))
    BY <1>3, <1>5, <1>7
  <2>2. Table!Put(spn, Table!Entry(FALSE, FALSE, AddrsOf(endpointsMap[spn])))
    BY <1>2, <1>5, <2>1, EffectPut
  <2>3. KernelTable[spn].exposed /\ KernelTable[spn].backends = AddrsOf(endpointsMap[spn])
    BY <1>3, <1>7, EntrySays
  <2>4. Table!Withdraw(spn)
    BY <2>2, <2>3 DEF Table!Withdraw
  <2> QED BY <2>4 DEF TableStep, Table!Next
<1> QED BY <1>6, <1>7

\* addEndpoint adds a backend.
LEMMA AddBackendStep ==
    ASSUME PortInv, EntryInv, EntryInv', NEW spn \in ServicePortName, NEW addr \in Addr,
           NEW local \in BOOLEAN, AddEndpoint(spn, addr, local)
    PROVE  TableStep
<1> DEFINE w == Local(spn)
           u == addEndpoint(spn, addr, local, w)
<1>1. \A i \in DOMAIN w.eps : w.eps[i].addr # addr
  BY LocalFields DEF AddEndpoint
<1>2. Commit(spn, u) /\ proc = "running"
  BY DEF AddEndpoint
<1>3. PortOK(w) /\ w.res = "ok" /\ w.svc = serviceMap[spn] /\ w.eps = endpointsMap[spn]
  BY LocalFields DEF PortInv
<1> HIDE DEF w
<1>4. PortOK(u) /\ u.res = "ok" /\ Effect(u, w.svc # Nil, HasAff(w.svc), AddrsOf(w.eps) \cup {addr})
  BY <1>1, <1>3, AddEndpointOK
<1> HIDE DEF u
<1> DEFINE known == KernelTable[spn].exposed
           sticky == KernelTable[spn].sticky
           old == KernelTable[spn].backends
           all == old \cup {addr}
<1>5. known = (w.svc # Nil) /\ sticky = HasAff(w.svc) /\ old = AddrsOf(w.eps) /\ sticky \in BOOLEAN
  BY <1>3, EntrySays
<1>6. known \in BOOLEAN /\ Effect(u, known, sticky, all)
  BY <1>4, <1>5
<1>7. addr \notin old
  BY <1>1, <1>5 DEF AddrsOf
<1> HIDE DEF known, sticky, all
<1>8. Table!Put(spn, Table!Entry(known, sticky, all))
  BY <1>2, <1>4, <1>5, <1>6, EffectPut
<1>9. Table!AddBackend(spn, addr)
  BY <1>7, <1>8 DEF Table!AddBackend, known, sticky, all
<1> QED BY <1>9 DEF TableStep, Table!Next

\* deleteEndpoint removes one, or finds none.
LEMMA RemoveBackendStep ==
    ASSUME PortInv, EntryInv, EntryInv', NEW spn \in ServicePortName, NEW addr \in Addr,
           NEW local \in BOOLEAN, DeleteEndpoint(spn, addr, local)
    PROVE  TableStep
<1> DEFINE w == Local(spn)
           u == deleteEndpoint(spn, addr, local, w)
<1>2. Commit(spn, u) /\ proc = "running"
  BY DEF DeleteEndpoint
<1>3. PortOK(w) /\ w.res = "ok" /\ w.svc = serviceMap[spn] /\ w.eps = endpointsMap[spn]
  BY LocalFields DEF PortInv
<1>4. u = w => TableStep
  BY <1>2, NothingPut DEF TableStep
<1> HIDE DEF w
<1>5. PortOK(u) /\ u.res = "ok" /\ (u = w \/ Effect(u, w.svc # Nil, HasAff(w.svc), AddrsOf(w.eps) \ {addr}))
  BY <1>3, DeleteEndpointOK
<1> HIDE DEF u
<1>6. CASE u = w
  BY <1>4, <1>6
<1>7. CASE Effect(u, w.svc # Nil, HasAff(w.svc), AddrsOf(w.eps) \ {addr})
  <2> DEFINE known == KernelTable[spn].exposed
             sticky == KernelTable[spn].sticky
             old == KernelTable[spn].backends
             rest == old \ {addr}
  <2>1. known = (w.svc # Nil) /\ sticky = HasAff(w.svc) /\ old = AddrsOf(w.eps) /\ sticky \in BOOLEAN
    BY <1>3, EntrySays
  <2>2. known \in BOOLEAN /\ Effect(u, known, sticky, rest)
    BY <1>7, <2>1
  <2> HIDE DEF known, sticky, rest
  <2>3. Table!Put(spn, Table!Entry(known, sticky, rest))
    BY <1>2, <1>5, <2>1, <2>2, EffectPut
  <2>4. CASE addr \in old
    <3>1. Table!RemoveBackend(spn, addr)
      BY <2>3, <2>4 DEF Table!RemoveBackend, known, sticky, rest
    <3> QED BY <3>1 DEF TableStep, Table!Next
  <2>5. CASE addr \notin old
    <3>1. rest = old
      BY <2>5 DEF rest
    <3>2. KernelTable[spn] = Table!Entry(known, sticky, rest)
      <4>1. KernelTable[spn] = Table!Entry(serviceMap[spn] # Nil, HasAff(serviceMap[spn]), AddrsOf(endpointsMap[spn]))
        BY EntrySays DEF MapEntry
      <4>2. known = (serviceMap[spn] # Nil) /\ sticky = HasAff(serviceMap[spn]) /\ rest = AddrsOf(endpointsMap[spn])
        BY <1>3, <2>1, <3>1
      <4> QED BY <4>1, <4>2
    <3>3. /\ KernelTable' = [KernelTable EXCEPT ![spn] = KernelTable[spn]]
          /\ (proc = "running")' = (proc = "running")
      BY <2>3, <3>2 DEF Table!Put
    <3>4. KernelTable = [s \in ServicePortName |-> KernelEntry(s)]
      BY DEF KernelTable
    <3>5. KernelTable' = KernelTable
      BY <3>3, <3>4
    <3> QED BY <3>3, <3>5 DEF TableStep
  <2> QED BY <2>4, <2>5
<1> QED BY <1>5, <1>6, <1>7

\* processAffinityChange changes the entries of all the ports of the service.
LEMMA StickyPut ==
    ASSUME PortInv, EntryInv, EntryInv', NEW ports \in SUBSET ServicePortName, NEW after,
           NEW sticky \in BOOLEAN, AffinityChange(ports, after),
           \A s \in ports : /\ PortOK(after[s]) /\ after[s].res = "ok"
                            /\ serviceMap[s] # Nil /\ HasAff(serviceMap[s]) = ~sticky
                            /\ Effect(after[s], TRUE, sticky, AddrsOf(endpointsMap[s]))
    PROVE  Table!SetSticky(ports, sticky)
<1>1. /\ serviceMap' = [s \in ServicePortName |-> IF s \in ports THEN after[s].svc ELSE serviceMap[s]]
      /\ endpointsMap' = [s \in ServicePortName |-> IF s \in ports THEN after[s].eps ELSE endpointsMap[s]]
      /\ proc' = proc /\ proc = "running"
  BY DEF AffinityChange
<1>2. ASSUME NEW s \in ports
      PROVE  /\ KernelTable[s].exposed /\ KernelTable[s].sticky # sticky
             /\ MapEntry(s)' = Table!Entry(TRUE, sticky, KernelTable[s].backends)
  <2> DEFINE u == after[s]
             back == KernelTable[s].backends
  <2>1. KernelTable[s].exposed /\ KernelTable[s].sticky = ~sticky /\ back = AddrsOf(endpointsMap[s])
    BY EntrySays
  <2>2. /\ serviceMap'[s] = u.svc /\ endpointsMap'[s] = u.eps
        /\ PortOK(u) /\ Effect(u, TRUE, sticky, AddrsOf(endpointsMap[s]))
    BY <1>1
  <2> HIDE DEF u, back
  <2>3. HasAff(u.svc) \in BOOLEAN
    BY <2>2, SvcIDType DEF PortOK, Typed, HasAff
  <2>4. (u.svc # Nil) = TRUE /\ HasAff(u.svc) = sticky /\ AddrsOf(u.eps) = back
    BY <2>1, <2>2, <2>3 DEF Effect
  <2>5. MapEntry(s)' = Table!Entry(u.svc # Nil, HasAff(u.svc), AddrsOf(u.eps))
    BY <2>2 DEF MapEntry
  <2>6. MapEntry(s)' = Table!Entry(TRUE, sticky, back)
    BY <2>4, <2>5
  <2> QED BY <2>1, <2>6 DEF back
<1>3. ASSUME NEW s \in ServicePortName, s \notin ports
      PROVE  MapEntry(s)' = KernelTable[s]
  <2>1. serviceMap'[s] = serviceMap[s] /\ endpointsMap'[s] = endpointsMap[s]
    BY <1>1, <1>3
  <2>2. KernelTable[s] = MapEntry(s)
    BY EntrySays
  <2> QED BY <2>1, <2>2 DEF MapEntry
<1>4. KernelTable' = [s \in ServicePortName |-> MapEntry(s)']
  <2>1. KernelTable' = [s \in ServicePortName |-> KernelEntry(s)']
    BY DEF KernelTable
  <2>2. \A s \in ServicePortName : KernelEntry(s)' = MapEntry(s)'
    BY DEF EntryInv
  <2> QED BY <2>1, <2>2
<1>5. KernelTable' = [s \in ServicePortName |->
                        IF s \in ports THEN Table!Entry(TRUE, sticky, KernelTable[s].backends) ELSE KernelTable[s]]
  BY <1>2, <1>3, <1>4
<1> QED BY <1>1, <1>2, <1>5 DEF Table!SetSticky, Table!Restick

\* Affinity is turned on, or off.
LEMMA StickyStep ==
    ASSUME PortInv, EntryInv, EntryInv', NEW ports \in SUBSET ServicePortName,
           AddAffinity(ports) \/ RemoveAffinity(ports)
    PROVE  TableStep
<1>0. ASSUME NEW s \in ports
      PROVE  /\ PortOK(Local(s)) /\ Local(s).res = "ok"
             /\ Local(s).svc = serviceMap[s] /\ Local(s).eps = endpointsMap[s]
  BY LocalFields DEF PortInv
<1>1. CASE AddAffinity(ports)
  <2> DEFINE after == [s \in ports |-> addAffinity(Local(s))]
  <2>1. ASSUME NEW s \in ports
        PROVE  /\ PortOK(after[s]) /\ after[s].res = "ok"
               /\ serviceMap[s] # Nil /\ HasAff(serviceMap[s]) = ~TRUE
               /\ Effect(after[s], TRUE, TRUE, AddrsOf(endpointsMap[s]))
    <3> DEFINE w == Local(s)
    <3>1. w.svc = serviceMap[s] /\ w.eps = endpointsMap[s] /\ PortOK(w) /\ w.res = "ok"
      BY <1>0
    <3>2. serviceMap[s] # Nil /\ ~serviceMap[s].withAff /\ endpointsMap[s] # <<>>
      BY <1>1 DEF AddAffinity
    <3> HIDE DEF w
    <3>3. /\ PortOK(addAffinity(w)) /\ addAffinity(w).res = "ok"
          /\ Effect(addAffinity(w), TRUE, TRUE, AddrsOf(w.eps))
      BY <3>1, <3>2, AddAffinityOK
    <3>4. after[s] = addAffinity(w)
      BY <2>1 DEF w
    <3>5. HasAff(serviceMap[s]) = ~TRUE
      BY <3>2, SvcIDType DEF PortInv, TypeOK, HasAff
    <3> HIDE DEF after
    <3> QED BY <3>1, <3>2, <3>3, <3>4, <3>5
  <2>2. AffinityChange(ports, after)
    BY <1>1 DEF AddAffinity
  <2> HIDE DEF after
  <2>3. Table!SetSticky(ports, TRUE)
    BY <2>1, <2>2, StickyPut
  <2> QED BY <2>3 DEF TableStep, Table!Next
<1>2. CASE RemoveAffinity(ports)
  <2> DEFINE after == [s \in ports |-> removeAffinity(Local(s))]
  <2>1. ASSUME NEW s \in ports
        PROVE  /\ PortOK(after[s]) /\ after[s].res = "ok"
               /\ serviceMap[s] # Nil /\ HasAff(serviceMap[s]) = ~FALSE
               /\ Effect(after[s], TRUE, FALSE, AddrsOf(endpointsMap[s]))
    <3> DEFINE w == Local(s)
    <3>1. w.svc = serviceMap[s] /\ w.eps = endpointsMap[s] /\ PortOK(w) /\ w.res = "ok"
      BY <1>0
    <3>2. serviceMap[s] # Nil /\ serviceMap[s].withAff
      BY <1>2 DEF RemoveAffinity
    <3> HIDE DEF w
    <3>3. /\ PortOK(removeAffinity(w)) /\ removeAffinity(w).res = "ok"
          /\ Effect(removeAffinity(w), TRUE, FALSE, AddrsOf(w.eps))
      BY <3>1, <3>2, RemoveAffinityOK
    <3>4. after[s] = removeAffinity(w)
      BY <2>1 DEF w
    <3>5. HasAff(serviceMap[s]) = ~FALSE
      BY <3>2, SvcIDType DEF PortInv, TypeOK, HasAff
    <3> HIDE DEF after
    <3> QED BY <3>1, <3>2, <3>3, <3>4, <3>5
  <2>2. AffinityChange(ports, after)
    BY <1>2 DEF RemoveAffinity
  <2> HIDE DEF after
  <2>3. Table!SetSticky(ports, FALSE)
    BY <2>1, <2>2, StickyPut
  <2> QED BY <2>3 DEF TableStep, Table!Next
<1> QED BY <1>1, <1>2

\* The sets and the process are no part of an entry.
LEMMA EntriesUnchanged ==
    ASSUME UNCHANGED <<svcChain, epChain, affinityMap>>
    PROVE  KernelTable' = KernelTable
BY DEF KernelTable, KernelEntry, JumpTargets, ChainsWith

\* With no chains and no maps the table is empty.
LEMMA StartEmpty ==
    ASSUME Init
    PROVE  KernelTable = [spn \in ServicePortName |-> Table!NoEntry]
<1>1. ASSUME NEW spn \in ServicePortName
      PROVE  KernelEntry(spn) = Table!NoEntry
  <2>1. /\ \A id \in SvcKey : svcChain[spn][id] = Nil /\ affinityMap[spn][id] = Nil
        /\ \A a \in Addr : epChain[spn][a] = Nil
    BY DEF Init
  <2>2. /\ JumpTargets(spn, "lb") = {} /\ ChainsWith(spn, "dnat") = {} /\ ChainsWith(spn, "update") = {}
        /\ {a \in Addr : epChain[spn][a] # Nil} = {}
    BY <2>1 DEF JumpTargets, ChainsWith
  <2>3. /\ (\E id \in SvcKey : svcChain[spn][id] # Nil) = FALSE
        /\ (\E id \in SvcKey : affinityMap[spn][id] # Nil) = FALSE
    BY <2>1
  <2>4. KernelEntry(spn) = [exposed |-> FALSE, sticky |-> FALSE, backends |-> {}, routes |-> {}, pinned |-> {}]
    BY <2>2, <2>3 DEF KernelEntry
  <2> QED BY <2>4 DEF Table!NoEntry, Table!Entry
<1> QED BY <1>1 DEF KernelTable

\* The restarted process finds it empty again.
LEMMA RestartEmpty == Restart => KernelTable' = [spn \in ServicePortName |-> Table!NoEntry]
<1>1. Init => KernelTable = [spn \in ServicePortName |-> Table!NoEntry]
  BY StartEmpty
<1>2. (Init => KernelTable = [spn \in ServicePortName |-> Table!NoEntry])'
  BY <1>1, PTL
<1>3. Restart => Init'
  BY DEF Restart, Init
<1> QED BY <1>2, <1>3

\* Every critical section is an operation of the table or none.
LEMMA StepsAreTableSteps ==
    ASSUME PortInv, EntryInv, EntryInv', [Next]_vars
    PROVE  TableStep
<1>1. ASSUME NEW spn \in ServicePortName, NEW set, NEW ip, NEW port,
             AddSetElement(spn, set, ip, port) \/ RemoveSetElement(spn, set, ip, port)
      PROVE  TableStep
  <2>1. UNCHANGED <<svcChain, epChain, affinityMap>> /\ UNCHANGED proc
    BY <1>1 DEF AddSetElement, RemoveSetElement
  <2> QED BY <2>1, EntriesUnchanged DEF TableStep
<1>2. CASE Kill
  <2>1. UNCHANGED <<svcChain, epChain, affinityMap>> /\ proc = "running" /\ proc' # "running"
    BY <1>2 DEF Kill, Stop
  <2>2. Table!Crash
    BY <2>1, EntriesUnchanged DEF Table!Crash
  <2> QED BY <2>2 DEF TableStep, Table!Next
<1>3. CASE Restart
  <2>1. proc # "running" /\ proc' = "running"
    BY <1>3 DEF Restart
  <2>2. Table!Restart
    BY <1>3, <2>1, RestartEmpty DEF Table!Restart
  <2> QED BY <2>2 DEF TableStep, Table!Next
<1>4. CASE UNCHANGED vars
  <2>1. UNCHANGED <<svcChain, epChain, affinityMap>> /\ UNCHANGED proc
    BY <1>4 DEF vars
  <2> QED BY <2>1, EntriesUnchanged DEF TableStep
<1> QED BY <1>1, <1>2, <1>3, <1>4, ExposeStep, WithdrawStep, AddBackendStep, RemoveBackendStep, StickyStep DEF Next

\* The chains and maps of the kernel are at all times those of a table of
\* service ports that changes one operation at a time, whatever the constants
\* and however the two informers, crashes and restarts interleave.
THEOREM ProxyServesAsTable == Spec => ServesAsTable
<1>1. Init => Table!Init
  BY StartEmpty DEF Table!Init, Init
<1>2. PortInv => EntryInv
  BY KernelAsMaps DEF EntryInv
<1>3. PortInv /\ EntryInv /\ EntryInv' /\ [Next]_vars => [Table!Next]_<<KernelTable, proc = "running">>
  BY StepsAreTableSteps DEF TableStep
<1> QED BY <1>1, <1>2, <1>3, PortInvariant, PTL DEF Spec, ServesAsTable, Table!Spec
=============================================================================
