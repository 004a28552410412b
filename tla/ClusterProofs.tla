--------------------------- MODULE ClusterProofs ----------------------------
(***************************************************************************)
(* The theorems about the whole proxy, its two informers, its handlers,    *)
(* crashes and restarts: for any number of services, ports, endpoints and  *)
(* addresses, and any sequence of changes in the cluster.                  *)
(*                                                                         *)
(* SvcInv and AffInv (ServiceProofs) and EpInv (NFProxyProofs) are         *)
(* inductive together: the first two give the contract of the service      *)
(* handlers, the other that no endpoints handler meets an error.  Once all *)
(* events are handled, the proxy does what the cluster asks for.  While    *)
(* handlers are at work, what is proved of Proxy carries over as long as   *)
(* no event is fatal, since every step is one of Proxy (ImplementsProxy).  *)
(***************************************************************************)
EXTENDS ServiceProofs, KernelProofs

(***************************************************************************)
(* The whole proxy.                                                        *)
(***************************************************************************)
\* The hypotheses under which the whole proxy is followed.
Orderly ==
    /\ EntriesApart /\ ServicesApart /\ Bootstrap = Nil /\ (EndpointSlice => ~Tombstones)
    /\ UpdatedSets = SetNames \ {"noendpoints"}

\* A step of a service handler is taken while the process runs.
LEMMA HandlerRuns ==
    ASSUME EpInv, SvcHandler
    PROVE  InStep /\ proc = "running" /\ svcTodo # <<>>
<1>1. proc = "running" /\ svcTodo # <<>>
  BY DEF SvcHandler, SvcStep, StepAddPort, StepDeletePort, StepChangePort, StepAddElement,
     StepRemoveElement, StepAffinity, StepStore, StepPanic
<1> QED BY <1>1 DEF EpInv

\* The service handlers call the critical sections as Proxy allows, or panic in
\* processAffinityChange.
LEMMA ServiceCallsKept ==
    ASSUME Orderly, EpInv, SvcInv, AffInv
    PROVE  ServiceCallsSurvived /\ (StepAffinity \/ ServiceCallsAllowed)
<1>0. ServicesApart /\ UpdatedSets = SetNames \ {"noendpoints"}
  BY DEF Orderly
<1>1. CASE SvcHandler
  BY <1>0, <1>1, HandlerRuns, ServiceHandlerStep
<1>2. CASE ~SvcHandler
  BY <1>2 DEF ServiceCallsSurvived, ServiceCallsAllowed, SvcHandler
<1> QED BY <1>1, <1>2

\* Every step keeps the invariant of the service side.
LEMMA SvcInvStep ==
    ASSUME Orderly, EpInv, SvcInv, AffInv, NFNext
    PROVE  SvcInv' /\ AffInv'
<1>0. /\ EntriesApart /\ ServicesApart /\ Bootstrap = Nil /\ UpdatedSets = SetNames \ {"noendpoints"}
      /\ boot = <<>> /\ SvcTyped(apiSvc)
  BY DEF Orderly, EpInv, SvcInv
<1>1. ASSUME NEW s \in Service, ChangeService(s)
      PROVE  SvcInv' /\ AffInv'
  <2>1. PICK obj \in SvcVersions[s] : apiSvc' = [apiSvc EXCEPT ![s] = obj]
    BY <1>1 DEF ChangeService
  <2>2. UNCHANGED <<vars, seenSvc, svcCache, svcTodo>>
    BY <1>1 DEF ChangeService
  <2>3. obj \in Versions(s) \cup {Nil}
    BY DEF Versions
  <2> DEFINE next == [apiSvc EXCEPT ![s] = obj]
  <2>4. SvcTyped(next)
    BY <1>0, <2>3, SvcTypedExcept
  <2> HIDE DEF next
  <2>5. SvcTyped(apiSvc')
    BY <2>1, <2>4 DEF next
  <2>6. UNCHANGED <<serviceMap, sets, seenSvc, svcCache, svcTodo>> /\ proc' = proc
    BY <2>2 DEF vars
  <2> QED BY <2>5, <2>6, ServicesUndisturbed, AffinityStays
<1>2. ASSUME NEW s \in Service, ServiceEvent(s)
      PROVE  SvcInv' /\ AffInv'
  <2>1. CASE DeliverService(s)
    BY <1>0, <2>1, DeliverServiceStep, DeliverServiceAffinity
  <2>2. CASE DeliverServiceTombstone(s)
    <3>1. Stop("panicked") /\ UNCHANGED svcVars
      BY <2>2 DEF DeliverServiceTombstone
    <3>2. UNCHANGED <<serviceMap, sets, seenSvc, svcCache, svcTodo>> /\ proc' = "panicked" /\ apiSvc' = apiSvc
      BY <3>1 DEF Stop, svcVars
    <3> QED BY <1>0, <3>2, ServicesUndisturbed, AffinityStays
  <2> QED BY <1>2, <2>1, <2>2 DEF ServiceEvent
<1>3. ASSUME NEW o \in EpObject, ChangeEndpoints(o) \/ EndpointsEvent(o)
      PROVE  SvcInv' /\ AffInv'
  <2>1. UNCHANGED svcVars /\ (UNCHANGED vars \/ Stop("panicked"))
    BY <1>3 DEF ChangeEndpoints, EndpointsEvent, DeliverEndpoints, DeliverEndpointsTombstone
  <2>2. /\ UNCHANGED <<serviceMap, sets, seenSvc, svcCache, svcTodo>> /\ apiSvc' = apiSvc
        /\ proc' = proc \/ proc' = "panicked"
    BY <2>1 DEF Stop, svcVars, vars
  <2> QED BY <1>0, <2>2, ServicesUndisturbed, AffinityStays
<1>4. CASE ServiceStep
  BY <1>0, <1>4, HandlerRuns, ServiceHandlerStep DEF ServiceStep
<1>5. CASE EndpointsStep
  BY <1>0, <1>5, EndpointHandlerStep DEF EndpointsStep
<1>6. CASE StepBootstrap
  BY <1>0, <1>6 DEF StepBootstrap
<1>7. CASE KillProcess
  <2>1. UNCHANGED <<serviceMap, sets, seenSvc, svcCache, svcTodo>> /\ proc' = "killed" /\ apiSvc' = apiSvc
    BY <1>7 DEF KillProcess, Kill, Stop, svcVars
  <2> QED BY <1>0, <2>1, ServicesUndisturbed, AffinityStays
<1>8. CASE RestartProcess
  BY <1>0, <1>8, SvcAfterRestart
<1>9. CASE Done
  <2>1. UNCHANGED <<serviceMap, sets, seenSvc, svcCache, svcTodo>> /\ proc' = proc /\ apiSvc' = apiSvc
    BY <1>9 DEF Done, nfVars, svcVars, vars
  <2> QED BY <1>0, <2>1, ServicesUndisturbed, AffinityStays
<1> QED BY <1>1, <1>2, <1>3, <1>4, <1>5, <1>6, <1>7, <1>8, <1>9 DEF NFNext

\* Nothing happens.
LEMMA SvcInvStutters ==
    ASSUME SvcInv, AffInv, UNCHANGED nfVars
    PROVE  SvcInv' /\ AffInv'
<1>1. /\ UNCHANGED <<serviceMap, sets, seenSvc, svcCache, svcTodo>> /\ proc' = proc /\ apiSvc' = apiSvc
  BY DEF nfVars, svcVars, vars
<1> QED BY <1>1, ServicesUndisturbed, AffinityStays DEF SvcInv

\* The two sides of the proxy together.
NFInv == EpInv /\ SvcInv /\ AffInv

\* The invariant holds in every reachable state, and every step that does not
\* end in a panic is one the critical sections of Proxy allow.
THEOREM ClusterInvariant ==
    ASSUME Orderly
    PROVE  NFSpec => [](EpInv /\ SvcInv /\ AffInv) /\ [][ServiceCallsSurvived]_nfVars
<1>0. EntriesApart /\ Bootstrap = Nil /\ (EndpointSlice => ~Tombstones)
  BY DEF Orderly
<1>1. NFInit => NFInv
  BY <1>0, EpInitially, SvcInitially DEF NFInv
<1>2. NFInv => ServiceCallsSurvived
  BY ServiceCallsKept DEF NFInv
<1>3. NFInv /\ [NFNext]_nfVars => NFInv'
  <2>1. ASSUME NFInv, NFNext PROVE NFInv'
    <3>1. EpInv'
      BY <1>0, <1>2, <2>1, EpInvStep DEF NFInv
    <3>2. SvcInv' /\ AffInv'
      BY <2>1, SvcInvStep DEF NFInv
    <3> QED BY <3>1, <3>2 DEF NFInv
  <2>2. ASSUME NFInv, UNCHANGED nfVars PROVE NFInv'
    BY <2>2, EpInvStutters, SvcInvStutters DEF NFInv
  <2> QED BY <2>1, <2>2
<1>4. NFInv => [ServiceCallsSurvived]_nfVars
  BY <1>2
<1>5. NFSpec => []NFInv
  BY <1>1, <1>3, PTL DEF NFSpec
<1>6. NFSpec => [][ServiceCallsSurvived]_nfVars
  BY <1>4, <1>5, PTL
<1>7. NFInv => EpInv /\ SvcInv /\ AffInv
  BY DEF NFInv
<1> QED BY <1>5, <1>6, <1>7, PTL

(***************************************************************************)
(* When everything is handled.                                             *)
(***************************************************************************)
\* What is asked for is asked for by an object, at the place of the service port.
IsAsked(spn, spec) ==
    LET obj == apiSvc[spn.svc] IN
    obj \in Versions(spn.svc) /\ \E i \in At(obj, spn) : spec = SpecOf(obj, obj.ports[i])
LEMMA AskedPortIs ==
    ASSUME ServicesApart, SvcTyped(apiSvc), NEW a \in AskedPorts
    PROVE  a = <<a[1], a[2]>> /\ a[1] \in ServicePortName /\ IsAsked(a[1], a[2])
<1>1. PICK s \in Service : /\ apiSvc[s] # Nil
                           /\ \E i \in DOMAIN apiSvc[s].ports :
                                a = <<getSvcPortName(s, apiSvc[s].ports[i]), SpecOf(apiSvc[s], apiSvc[s].ports[i])>>
  BY DEF AskedPorts
<1> DEFINE obj == apiSvc[s]
<1>2. PICK i \in DOMAIN obj.ports : a = <<getSvcPortName(s, obj.ports[i]), SpecOf(obj, obj.ports[i])>>
  BY <1>1
<1>3. obj \in Versions(s)
  BY <1>1 DEF SvcTyped
<1>4. a[1] = getSvcPortName(s, obj.ports[i]) /\ a[2] = SpecOf(obj, obj.ports[i]) /\ a = <<a[1], a[2]>>
  BY <1>2
<1> HIDE DEF obj
<1>5. a[1] \in ServicePortName /\ i \in At(obj, a[1]) /\ a[1].svc = s
  BY <1>3, <1>4, PortFields
<1> QED BY <1>3, <1>4, <1>5 DEF IsAsked, obj

\* And the other way around.
LEMMA IsAskedFor ==
    ASSUME ServicesApart, NEW spn \in ServicePortName, NEW spec, IsAsked(spn, spec)
    PROVE  <<spn, spec>> \in AskedPorts
<1> DEFINE s == spn.svc
           obj == apiSvc[s]
<1>1. s \in Service /\ obj \in Versions(s)
  BY DEF IsAsked, ServicePortName
<1>2. PICK i \in At(obj, spn) : spec = SpecOf(obj, obj.ports[i])
  BY DEF IsAsked
<1>3. obj # Nil /\ obj.ip # Nil
  BY <1>1 DEF ServicesApart, ServiceKept, Versions
<1>4. spn = getSvcPortName(s, obj.ports[i]) /\ i \in DOMAIN obj.ports
  BY <1>1, NameAt
<1> QED BY <1>1, <1>2, <1>3, <1>4 DEF AskedPorts

\* What is known when everything is handled.
LEMMA QuietKnows ==
    ASSUME ServicesApart, SvcInv, Quiet
    PROVE  /\ SvcTyped(apiSvc) /\ Recorded
           /\ \A spn \in ServicePortName : spn \in KnownPorts <=> HasPort(apiSvc[spn.svc], spn)
           /\ \A spn \in KnownPorts : \A t \in SlotsOf(apiSvc[spn.svc], spn) : ElementAt(spn, t) \in Elements
           /\ \A e \in Elements : \E spn \in KnownPorts : \E t \in Claims(spn) :
                 e = ElementAt(spn, t) /\ t \in SlotsOf(apiSvc[spn.svc], spn)
<1>1. /\ SvcTyped(apiSvc) /\ Recorded /\ Working(<<>>, apiSvc, svcCache, KnownPorts, Elements)
  BY DEF SvcInv, Quiet
<1>2. KnownPorts \in SUBSET ServicePortName
  BY DEF KnownPorts
<1> QED BY <1>1, <1>2, AtRest

\* A known port is asked for, and what is asked for is known.
LEMMA KnownIsAsked ==
    ASSUME ServicesApart, SvcInv, Quiet, NEW spn \in ServicePortName
    PROVE  /\ \A spec : IsAsked(spn, spec) => spn \in KnownPorts /\ SvcID(spec) = PortID(spn)
           /\ spn \in KnownPorts => \E spec : IsAsked(spn, spec)
           /\ spn \in KnownPorts => SvcID(serviceMap[spn]) = PortID(spn)
<1> DEFINE obj == apiSvc[spn.svc]
<1>1. /\ SvcTyped(apiSvc) /\ Recorded /\ (spn \in KnownPorts <=> HasPort(obj, spn))
  BY QuietKnows
<1>2. ASSUME NEW spec, IsAsked(spn, spec)
      PROVE  spn \in KnownPorts /\ SvcID(spec) = PortID(spn)
  <2>1. PICK i \in At(obj, spn) : spec = SpecOf(obj, obj.ports[i])
    BY <1>2 DEF IsAsked
  <2>2. obj \in Versions(spn.svc)
    BY <1>2 DEF IsAsked
  <2> HIDE DEF obj
  <2>3. HasPort(obj, spn) /\ PortID(spn) = <<obj.ip, obj.ports[i].port>>
    BY <2>2, PortIDOf
  <2> QED BY <1>1, <2>1, <2>3 DEF SpecOf, SvcID
<1>3. ASSUME spn \in KnownPorts
      PROVE  \E spec : IsAsked(spn, spec)
  <2>1. HasPort(obj, spn)
    BY <1>1, <1>3
  <2>2. obj \in Versions(spn.svc) /\ \E i : i \in At(obj, spn)
    BY <1>1, <2>1 DEF SvcTyped, HasPort, ServicePortName
  <2> QED BY <2>2 DEF IsAsked
<1>4. spn \in KnownPorts => SvcID(serviceMap[spn]) = PortID(spn)
  BY <1>1 DEF Recorded, RecordedAs
<1> QED BY <1>2, <1>3, <1>4

\* The known ports are the ports of the objects.
LEMMA PortsAtRest ==
    ASSUME ServicesApart, SvcInv
    PROVE  ServicePortsAsAsked
<1> SUFFICES ASSUME Quiet
             PROVE  {<<spn, SvcID(serviceMap[spn])>> : spn \in KnownPorts} = {<<a[1], SvcID(a[2])>> : a \in AskedPorts}
  BY DEF ServicePortsAsAsked, KnownPorts
<1>0. SvcTyped(apiSvc) /\ KnownPorts \subseteq ServicePortName
  BY DEF SvcInv, KnownPorts
<1>1. ASSUME NEW spn \in KnownPorts
      PROVE  \E a \in AskedPorts : <<spn, SvcID(serviceMap[spn])>> = <<a[1], SvcID(a[2])>>
  <2>1. spn \in ServicePortName
    BY <1>0
  <2>2. PICK spec : IsAsked(spn, spec)
    BY <2>1, KnownIsAsked
  <2>3. SvcID(serviceMap[spn]) = SvcID(spec)
    BY <2>1, <2>2, KnownIsAsked
  <2> DEFINE a == <<spn, spec>>
  <2>4. a \in AskedPorts /\ a[1] = spn /\ a[2] = spec
    BY <2>1, <2>2, IsAskedFor
  <2> HIDE DEF a
  <2> QED BY <2>3, <2>4
<1>2. ASSUME NEW a \in AskedPorts
      PROVE  \E spn \in KnownPorts : <<spn, SvcID(serviceMap[spn])>> = <<a[1], SvcID(a[2])>>
  <2>1. a[1] \in ServicePortName /\ IsAsked(a[1], a[2])
    BY <1>0, AskedPortIs
  <2>2. a[1] \in KnownPorts /\ SvcID(serviceMap[a[1]]) = SvcID(a[2])
    BY <2>1, KnownIsAsked
  <2> QED BY <2>2
<1> QED BY <1>1, <1>2

\* The elements of the sets are those the objects ask for.
LEMMA SetsAtRest ==
    ASSUME ServicesApart, EpInv, SvcInv
    PROVE  SetsAsAsked
<1> DEFINE Want(a) == Range(ServicePortElements(a[1], NewServiceInfo(a[2], FALSE)))
<1> SUFFICES ASSUME Quiet
             PROVE  ElementsIn(SetNames \ {"noendpoints"}) = UNION {Want(a) : a \in AskedPorts}
  BY DEF SetsAsAsked
<1>0. /\ SvcTyped(apiSvc) /\ KnownPorts \subseteq ServicePortName
      /\ \A spn \in KnownPorts : \A t \in SlotsOf(apiSvc[spn.svc], spn) : ElementAt(spn, t) \in Elements
      /\ \A e \in Elements : \E spn \in KnownPorts : \E t \in Claims(spn) :
            e = ElementAt(spn, t) /\ t \in SlotsOf(apiSvc[spn.svc], spn)
  BY QuietKnows DEF KnownPorts
<1>1. ASSUME NEW spn \in ServicePortName, NEW spec, IsAsked(spn, spec)
      PROVE  Range(ServicePortElements(spn, NewServiceInfo(spec, FALSE))) = ElementsOf(apiSvc[spn.svc], spn)
  <2> DEFINE obj == apiSvc[spn.svc]
  <2>1. obj \in Versions(spn.svc) /\ \E i \in At(obj, spn) : spec = SpecOf(obj, obj.ports[i])
    BY <1>1 DEF IsAsked
  <2> HIDE DEF obj
  <2>2. PICK i \in At(obj, spn) : spec = SpecOf(obj, obj.ports[i])
    BY <2>1
  <2>3. Range(ServicePortElements(spn, NewServiceInfo(SpecOf(obj, obj.ports[i]), FALSE))) = ElementsOf(obj, spn)
    BY <2>1, ElementsWanted
  <2> QED BY <2>2, <2>3 DEF obj
<1>2. ElementsIn(SetNames \ {"noendpoints"}) = Elements
  <2>1. \A x \in sets : x.set \in SetNames
    BY DEF EpInv, Quiet, InStep, TypeOK, SetElement
  <2> QED BY <2>1 DEF ElementsIn, Elements, Others
<1>3. ASSUME NEW e \in Elements
      PROVE  \E a \in AskedPorts : e \in Want(a)
  <2>1. PICK spn \in KnownPorts : \E t \in SlotsOf(apiSvc[spn.svc], spn) : e = ElementAt(spn, t)
    BY <1>0
  <2>2. spn \in ServicePortName
    BY <1>0
  <2>3. PICK spec : IsAsked(spn, spec)
    BY <2>2, KnownIsAsked
  <2>4. e \in ElementsOf(apiSvc[spn.svc], spn)
    BY <2>1 DEF ElementsOf
  <2> DEFINE a == <<spn, spec>>
  <2>5. a \in AskedPorts /\ a[1] = spn /\ a[2] = spec
    BY <2>2, <2>3, IsAskedFor
  <2>6. e \in Range(ServicePortElements(spn, NewServiceInfo(spec, FALSE)))
    BY <1>1, <2>2, <2>3, <2>4
  <2> HIDE DEF a
  <2> QED BY <2>5, <2>6
<1>4. ASSUME NEW a \in AskedPorts, NEW e \in Want(a)
      PROVE  e \in Elements
  <2>1. a[1] \in ServicePortName /\ IsAsked(a[1], a[2])
    BY <1>0, AskedPortIs
  <2>2. e \in ElementsOf(apiSvc[a[1].svc], a[1]) /\ a[1] \in KnownPorts
    BY <1>1, <1>4, <2>1, KnownIsAsked
  <2> QED BY <1>0, <2>2 DEF ElementsOf
<1> HIDE DEF Want
<1>5. Elements \subseteq UNION {Want(a) : a \in AskedPorts}
  BY <1>3
<1>6. UNION {Want(a) : a \in AskedPorts} \subseteq Elements
  BY <1>4
<1> QED BY <1>2, <1>5, <1>6

\* The ports have affinity as their objects say.
LEMMA AffinityAtRest ==
    ASSUME ServicesApart, EpInv, SvcInv, AffInv
    PROVE  AffinityAsAsked
<1> SUFFICES ASSUME Quiet, NEW a \in AskedPorts
             PROVE  serviceMap[a[1]] # Nil /\ (serviceMap[a[1]].withAff <=> a[2].aff # Nil)
  BY DEF AffinityAsAsked
<1> DEFINE spn == a[1]
           obj == apiSvc[spn.svc]
<1>1. SvcTyped(apiSvc) /\ Recorded
  BY QuietKnows
<1>2. spn \in ServicePortName /\ IsAsked(spn, a[2])
  BY <1>1, AskedPortIs
<1>3. spn \in KnownPorts /\ spn.svc \in Service
  BY <1>2, KnownIsAsked DEF ServicePortName
<1>4. obj \in Versions(spn.svc) /\ a[2].aff = obj.aff
  BY <1>2 DEF IsAsked, SpecOf
<1>5. proc = "running" /\ svcTodo = <<>> /\ seenSvc = apiSvc
  BY DEF Quiet
<1>6. HasPort(obj, spn)
  BY <1>2, <1>3, QuietKnows
<1>7. HasAff(serviceMap[spn]) <=> obj.aff # Nil
  <2>1. StickyAs(spn, serviceMap[spn], Range(svcTodo), apiSvc, svcCache)
    BY <1>3, <1>5 DEF AffInv
  <2>2. ~AffinityDue(spn, Range(svcTodo))
    BY <1>5 DEF AffinityDue, Range
  <2> QED BY <1>6, <2>1, <2>2 DEF StickyAs
<1>8. serviceMap[spn] # Nil
  BY <1>3 DEF KnownPorts
<1>9. HasAff(serviceMap[spn]) <=> serviceMap[spn].withAff
  <2> DEFINE w == Local(spn)
  <2>1. PortOK(w) /\ w.svc = serviceMap[spn]
    BY <1>2, <1>5, LocalFields DEF EpInv, InStep
  <2> HIDE DEF w, spn
  <2> QED BY <1>8, <2>1, AffinityOnOrOff
<1>10. serviceMap[spn].withAff <=> a[2].aff # Nil
  <2> HIDE DEF spn, obj
  <2> QED BY <1>4, <1>7, <1>9
<1> QED BY <1>8, <1>10

\* The caches are those of the last events handled.
LEMMA CachesAtRest ==
    ASSUME ServicesApart, EpInv, SvcInv
    PROVE  CacheInStep
<1> SUFFICES ASSUME proc = "running"
             PROVE  /\ svcTodo = <<>> => svcCache = seenSvc
                    /\ epTodo = <<>> => epCache = seenEp
  BY DEF CacheInStep
<1>1. ASSUME svcTodo = <<>>
      PROVE  svcCache = seenSvc
  <2>1. Working(<<>>, seenSvc, svcCache, KnownPorts, Elements) /\ SvcTyped(seenSvc) /\ SvcTyped(svcCache)
    BY <1>1 DEF SvcInv
  <2>2. KnownPorts \in SUBSET ServicePortName
    BY DEF KnownPorts
  <2>3. \A s \in Service : svcCache[s] = seenSvc[s]
    BY <2>1, <2>2, AtRest
  <2> QED BY <2>1, <2>3 DEF SvcTyped
<1>2. ASSUME epTodo = <<>>
      PROVE  epCache = seenEp
  <2>1. InHand(<<>>, seenEp, epCache) /\ EpTyped(seenEp) /\ EpTyped(epCache)
    BY <1>2 DEF EpInv
  <2>2. \A o \in EpObject : epCache[o] = seenEp[o]
    BY <2>1 DEF InHand, StoresLast
  <2> QED BY <2>1, <2>2 DEF EpTyped
<1> QED BY <1>1, <1>2

\* Once all events are handled, the service ports known to the proxy are those
\* of the Service objects of the cluster, after any sequence of adds, updates,
\* deletes, crashes and restarts and however the endpoints handlers interleave.
THEOREM PortsAlwaysAsAsked ==
    ASSUME Orderly
    PROVE  NFSpec => []ServicePortsAsAsked
<1>1. EpInv /\ SvcInv => ServicePortsAsAsked
  BY PortsAtRest DEF Orderly
<1> QED BY <1>1, ClusterInvariant, PTL

\* And the sets hold the addresses of the Service objects, each leading to the
\* chain of its service port, and nothing else.
THEOREM SetsAlwaysAsAsked ==
    ASSUME Orderly
    PROVE  NFSpec => []SetsAsAsked
<1>1. EpInv /\ SvcInv => SetsAsAsked
  BY SetsAtRest DEF Orderly
<1> QED BY <1>1, ClusterInvariant, PTL

\* And exactly the ports of the services with session affinity have it, after
\* any updates that add it to a service, remove it or leave it alone, as long as
\* the ports of the service are the same with and without it: whether the
\* endpoints were there, came or went meanwhile, and through the panics of
\* processAffinityChange, other crashes and the restarts after them.
THEOREM AffinityAlwaysAsAsked ==
    ASSUME Orderly
    PROVE  NFSpec => []AffinityAsAsked
<1>1. EpInv /\ SvcInv /\ AffInv => AffinityAsAsked
  BY AffinityAtRest DEF Orderly
<1> QED BY <1>1, ClusterInvariant, PTL

\* Between two events of an informer its cache holds the objects that were
\* handled last.
THEOREM CachesAlwaysInStep ==
    ASSUME Orderly
    PROVE  NFSpec => []CacheInStep
<1>1. EpInv /\ SvcInv => CacheInStep
  BY CachesAtRest DEF Orderly
<1> QED BY <1>1, ClusterInvariant, PTL

\* A service has session affinity all its life or never: an update that adds it
\* makes processAffinityChange panic while a port has no endpoints.
AffinityKept == \A s \in Service : \A obj, other \in Versions(s) : (obj.aff = Nil) = (other.aff = Nil)

\* Then processAffinityChange has no port to change.
LEMMA ServiceCallsAllKept ==
    ASSUME Orderly, AffinityKept, EpInv, SvcInv, AffInv
    PROVE  ServiceCallsAllowed
<1>1. ServiceCallsSurvived /\ (StepAffinity \/ ServiceCallsAllowed)
  BY ServiceCallsKept
<1>2. CASE StepAffinity
  <2> DEFINE o == Head(svcTodo)
             after == [spn \in Range(o.ports) |->
                         IF o.aff = Nil THEN removeAffinity(Local(spn)) ELSE addAffinity(Local(spn))]
             ports == PortsReached(o.ports, after)
  <2>1. proc = "running" /\ svcTodo # <<>> /\ o.op = "affinity" /\ AffinityChange(ports, after)
    BY <1>2 DEF StepAffinity, SvcStep
  <2>2. /\ Working(svcTodo, seenSvc, svcCache, KnownPorts, Elements)
        /\ SvcTyped(seenSvc) /\ SvcTyped(svcCache)
    BY <2>1 DEF SvcInv
  <2>3. Fits(o, seenSvc, svcCache, KnownPorts)
    BY <2>1, <2>2, WorkParts
  <2>4. ASSUME NEW spn \in Range(o.ports)
        PROVE  FALSE
    <3>1. /\ spn \in KnownPorts /\ seenSvc[spn.svc] # Nil /\ svcCache[spn.svc] # Nil
          /\ (seenSvc[spn.svc].aff = Nil) # (svcCache[spn.svc].aff = Nil)
      BY <2>1, <2>3, <2>4 DEF Fits, HasPort
    <3>2. spn.svc \in Service
      BY <3>1 DEF KnownPorts, ServicePortName
    <3>3. seenSvc[spn.svc] \in Versions(spn.svc) /\ svcCache[spn.svc] \in Versions(spn.svc)
      BY <2>2, <3>1, <3>2 DEF SvcTyped
    <3> QED BY <3>1, <3>2, <3>3 DEF AffinityKept
  <2>5. ports = {}
    <3> HIDE DEF o, after
    <3> QED BY <2>4 DEF PortsReached, Range
  <2>6. proc' = "running"
    <3> HIDE DEF o, after, ports
    <3> QED BY <2>1, <2>5 DEF AffinityChange
  <2> QED BY <1>1, <2>6 DEF ServiceCallsSurvived
<1> QED BY <1>1, <1>2

\* The handlers of both informers call the critical sections only as Proxy
\* allows, whatever events they handle and however they interleave.
THEOREM ContractAlwaysKept ==
    ASSUME Orderly, AffinityKept
    PROVE  NFSpec => KeepsContract
<1>1. EntriesApart /\ Bootstrap = Nil /\ (EndpointSlice => ~Tombstones)
  BY DEF Orderly
<1>2. NFSpec /\ [][ServiceCallsAllowed]_nfVars => KeepsContract
  BY <1>1, ContractKept
<1>3. EpInv /\ SvcInv /\ AffInv => [ServiceCallsAllowed]_nfVars
  BY ServiceCallsAllKept
<1> QED BY <1>2, <1>3, ClusterInvariant, PTL

\* Once all events are handled, the proxy knows exactly the endpoint addresses
\* the cluster asks for, and a connection to a service port the cluster asks for
\* is sent to these addresses and to no other.
THEOREM ClusterServed ==
    ASSUME Orderly
    PROVE  NFSpec => [](EndpointsAsAsked /\ ServedAsAsked)
<1>1. EntriesApart /\ Bootstrap = Nil /\ (EndpointSlice => ~Tombstones)
  BY DEF Orderly
<1>2. NFSpec /\ [][ServiceCallsSurvived]_nfVars => []EndpointsAsAsked
  BY <1>1, EndpointsAlwaysAsAsked
<1>3. NFSpec /\ [][ServiceCallsSurvived]_nfVars /\ []ServicePortsAsAsked => []ServedAsAsked
  BY <1>1, AlwaysServedAsAsked
<1> QED BY <1>2, <1>3, ClusterInvariant, PortsAlwaysAsAsked, PTL

\* An update of an Endpoints object never leaves a service port without any
\* endpoint on the way: UpdateEndpoints adds before it deletes.
THEOREM ClusterNeverEmptied ==
    ASSUME Orderly, ~EndpointSlice
    PROVE  NFSpec => NeverEmptied
<1>1. EntriesApart /\ Bootstrap = Nil
  BY DEF Orderly
<1>2. NFSpec /\ [][ServiceCallsSurvived]_nfVars => NeverEmptied
  BY <1>1, EndpointsNeverEmptied
<1> QED BY <1>2, ClusterInvariant, PTL

(***************************************************************************)
(* The whole proxy implements the specification of its critical sections.  *)
(***************************************************************************)
\* No informer misses a delete, the endpoints of slices have their Ready
\* condition, and no service gets session affinity later: the three events a
\* handler may not survive.
NoFatalEvents ==
    ~Tombstones /\ AffinityKept /\ \A o \in EpObject : \A obj \in EpVersions[o] : Conditioned(obj)

\* The endpoints handler is not about to panic.
NoPanicAhead == epTodo \in Seq(EndpointOp)

\* The work of an event without a panic.
LEMMA DeliverNoPanic ==
    ASSUME EntriesApart, NoFatalEvents, EpInv, NEW o \in EpObject, DeliverEndpoints(o)
    PROVE  NoPanicAhead'
<1> DEFINE old == seenEp[o]
           new == apiEp[o]
<1>1. proc = "running" /\ epTodo = <<>> /\ old # new
  BY DEF DeliverEndpoints
<1>2. InHand(<<>>, seenEp, epCache) /\ EpTyped(seenEp) /\ EpTyped(apiEp)
  BY <1>1 DEF EpInv
<1>3. epCache[o] = old /\ Conditioned(old)
  BY <1>2 DEF InHand, StoresLast
<1>4. epTodo' = IF old = Nil THEN AddOps(new) ELSE IF new = Nil THEN DeleteOps(o, old) ELSE UpdateOps(o, new, old)
  BY <1>3 DEF DeliverEndpoints
<1>5. old \in EpVersions[o] \cup {Nil} /\ new \in EpVersions[o] \cup {Nil}
  BY <1>2 DEF EpTyped
<1>6. Conditioned(new)
  BY <1>5 DEF NoFatalEvents, Conditioned
<1>7. Turns(epTodo', o, old, new)
  BY <1>1, <1>3, <1>4, <1>5, <1>6, EventTurns
<1> QED BY <1>7 DEF Turns, NoPanicAhead

\* No step brings a panic into the work.
LEMMA NoPanicStep ==
    ASSUME EntriesApart, NoFatalEvents, EpInv, NoPanicAhead, [NFNext]_nfVars
    PROVE  NoPanicAhead'
<1>1. ASSUME epTodo' = epTodo PROVE NoPanicAhead'
  BY <1>1 DEF NoPanicAhead
<1>2. CASE EndpointsStep
  <2>1. epTodo # <<>> /\ epTodo' \in {Tail(epTodo), <<>>, epTodo}
    BY <1>2 DEF EndpointsStep, EpHandler, EpStep, StepAddEndpoint, StepDeleteEndpoint, StepStoreEndpoints,
       StepPanicEndpoints
  <2>2. Tail(epTodo) \in Seq(EndpointOp)
    BY <2>1, HeadTailProperties DEF NoPanicAhead
  <2>3. <<>> \in Seq(EndpointOp)
    OBVIOUS
  <2>4. epTodo' \in Seq(EndpointOp)
    BY <2>1, <2>2, <2>3 DEF NoPanicAhead
  <2> QED BY <2>4 DEF NoPanicAhead
<1>3. ASSUME NEW o \in EpObject, EndpointsEvent(o) PROVE NoPanicAhead'
  <2>1. DeliverEndpoints(o)
    BY <1>3 DEF EndpointsEvent, NoFatalEvents
  <2> QED BY <2>1, DeliverNoPanic
<1>4. CASE RestartProcess
  BY <1>4 DEF RestartProcess, NoPanicAhead
<1>5. CASE StepBootstrap \/ KillProcess \/ ServiceStep \/ Done \/ UNCHANGED nfVars
  <2>1. epTodo' = epTodo
    BY <1>5 DEF StepBootstrap, KillProcess, ServiceStep, Done, nfVars, epVars
  <2> QED BY <1>1, <2>1
<1>6. ASSUME NEW s \in Service, ChangeService(s) \/ ServiceEvent(s) PROVE NoPanicAhead'
  BY <1>1, <1>6 DEF ChangeService, ServiceEvent, epVars
<1>7. ASSUME NEW o \in EpObject, ChangeEndpoints(o) PROVE NoPanicAhead'
  BY <1>1, <1>7 DEF ChangeEndpoints
<1> QED BY <1>2, <1>3, <1>4, <1>5, <1>6, <1>7 DEF NFNext

\* The stored object of a service, as deleteServicePort reads it.
LEMMA LastKnownTyped ==
    ASSUME SvcTyped(svcCache), NEW s \in Service
    PROVE  LastKnown(s) \in Stored \cup {Nil}
<1> DEFINE obj == svcCache[s]
<1>1. CASE obj = Nil
  BY <1>1 DEF LastKnown
<1>2. CASE obj # Nil
  <2>1. obj \in Versions(s)
    BY <1>2 DEF SvcTyped
  <2>2. LastKnown(s) = [ip |-> obj.ip, ext |-> obj.ext, lb |-> obj.lb, nodePorts |-> NodePorts(obj)]
    BY <1>2 DEF LastKnown, NodePorts
  <2> HIDE DEF obj
  <2>3. NodePorts(obj) \subseteq Port
    BY <2>1, PortFields DEF NodePorts
  <2>4. obj.ip \in IP \cup {Nil} /\ obj.ext \in IPLists /\ obj.lb \in IPLists
    BY <2>1, ObjectFields
  <2> QED BY <2>2, <2>3, <2>4 DEF Stored
<1> QED BY <1>1, <1>2

\* A step of a service handler is a step of Proxy, or changes nothing there.
LEMMA ServiceStepIs ==
    ASSUME Orderly, NoFatalEvents, EpInv, SvcInv, AffInv, SvcHandler
    PROVE  [Next]_vars
<1> DEFINE o == Head(svcTodo)
<1>0. /\ ServicesApart /\ UpdatedSets = SetNames \ {"noendpoints"} /\ ServiceCallsAllowed
  BY ServiceCallsAllKept DEF Orderly, NoFatalEvents
<1>1. proc = "running" /\ svcTodo # <<>>
  BY DEF SvcHandler, SvcStep, StepAddPort, StepDeletePort, StepChangePort, StepAddElement,
     StepRemoveElement, StepAffinity, StepStore, StepPanic
<1>2. /\ Working(svcTodo, seenSvc, svcCache, KnownPorts, Elements) /\ Recorded
      /\ SvcTyped(seenSvc) /\ SvcTyped(svcCache)
  BY <1>1 DEF SvcInv
<1>3. o \in ServiceOp
  BY <1>1, <1>2, WorkParts
<1>4. CASE StepAddPort
  BY <1>0, <1>4 DEF ServiceCallsAllowed, Next
<1>5. CASE StepDeletePort
  <2>1. o.spn \in ServicePortName /\ DeleteServicePort(o.spn, LastKnown(o.spn.svc))
    BY <1>0, <1>5 DEF ServiceCallsAllowed
  <2>2. o.spn.svc \in Service
    BY <2>1 DEF ServicePortName
  <2>3. LastKnown(o.spn.svc) \in Stored \cup {Nil}
    BY <1>2, <2>2, LastKnownTyped
  <2> HIDE DEF o
  <2> QED BY <2>1, <2>3 DEF Next
<1>6. CASE StepChangePort \/ StepStore
  BY <1>6 DEF StepChangePort, StepStore
<1>7. CASE StepAddElement \/ StepRemoveElement
  <2>1. o.op \in {"addElement", "removeElement"}
    BY <1>7 DEF StepAddElement, StepRemoveElement, SvcStep
  <2>2. o.spn \in KnownPorts /\ o.spn \in ServicePortName /\ OpSlot(o) \in Claims(o.spn)
    <3>1. IsElement(o) /\ KnownPorts \in SUBSET ServicePortName
      BY <2>1 DEF IsElement, KnownPorts
    <3>2. ASSUME NEW x, x = Head(svcTodo), IsElement(x)
          PROVE  x.spn \in KnownPorts /\ x.spn \in ServicePortName /\ OpSlot(x) \in Claims(x.spn)
      BY ONLY <1>0, <1>1, <1>2, <3>1, <3>2, ElementPortKnown
    <3> QED BY <3>1, <3>2
  <2> DEFINE t == OpSlot(o)
             spn == o.spn
  <2>3. t[1] = o.set /\ t[2] = o.ip /\ t[3] = o.port
    BY DEF OpSlot
  <2>4. t \in Slot /\ t[2] \in AddressesOf(t[1])
    <3> HIDE DEF t, spn
    <3>1. t \in Slot
      BY <2>2 DEF Claims, t, spn
    <3>2. t \in Claims(spn) /\ spn \in ServicePortName
      BY <2>2 DEF t, spn
    <3> QED BY <1>0, <3>1, <3>2, ClaimAddress
  <2>5. o.set \in UpdatedSets /\ o.ip \in AddressesOf(o.set) /\ o.port \in Port /\ o.port # 0
    <3> HIDE DEF t
    <3> QED BY <1>0, <2>3, <2>4, SlotFields, NftAssumption
  <2>6. serviceMap[o.spn] # Nil
    BY <2>2 DEF KnownPorts
  <2>7. AddSetElement(o.spn, o.set, o.ip, o.port) \/ RemoveSetElement(o.spn, o.set, o.ip, o.port)
    BY <1>7, <2>5, <2>6 DEF StepAddElement, StepRemoveElement
  <2> HIDE DEF o
  <2> QED BY <2>2, <2>5, <2>7 DEF Next
<1>8. CASE StepAffinity
  <2> DEFINE ports == Range(o.ports)
  <2>1. ports \in SUBSET ServicePortName /\ (AddAffinity(ports) \/ RemoveAffinity(ports))
    BY <1>0, <1>8 DEF ServiceCallsAllowed
  <2> HIDE DEF ports
  <2> QED BY <2>1 DEF Next
<1>9. CASE StepPanic
  <2>1. o.op = "panic"
    BY <1>9 DEF StepPanic, SvcStep
  <2> HIDE DEF o
  <2> QED BY <1>3, <2>1, ServiceOpFields
<1> QED BY <1>4, <1>5, <1>6, <1>7, <1>8, <1>9 DEF SvcHandler

\* A step of an endpoints handler is a step of Proxy, or changes nothing there.
LEMMA EndpointStepIs ==
    ASSUME EntriesApart, EpInv, NoPanicAhead, EpHandler
    PROVE  [Next]_vars
<1> DEFINE o == Head(epTodo)
<1>1. proc = "running" /\ epTodo # <<>> /\ o.op \in {"add", "delete", "store", "panic"}
      /\ (StepAddEndpoint \/ StepDeleteEndpoint => o.op \in {"add", "delete"})
      /\ (StepPanicEndpoints => o.op = "panic")
  BY DEF EpHandler, EpStep, StepAddEndpoint, StepDeleteEndpoint, StepStoreEndpoints, StepPanicEndpoints
<1>2. o \in EndpointOp
  BY <1>1, HeadTailProperties DEF NoPanicAhead
<1>3. CASE StepPanicEndpoints
  <2> HIDE DEF o
  <2> QED BY <1>1, <1>2, <1>3, EndpointOpFields
<1>4. CASE StepStoreEndpoints
  BY <1>4 DEF StepStoreEndpoints
<1>5. CASE StepAddEndpoint \/ StepDeleteEndpoint
  <2>1. epTodo # <<PanicEpOp>>
    BY <1>1, <1>5 DEF PanicEpOp
  <2>2. InStep /\ InHand(epTodo, seenEp, epCache) /\ AllBalanced(endpointsMap, epTodo, seenEp)
    BY <1>1, <2>1 DEF EpInv
  <2>3. EndpointCallsAllowed
    BY <1>5, <2>2, CallStepsKeep
  <2>4. AddEndpoint(o.spn, o.addr, o.local) \/ DeleteEndpoint(o.spn, o.addr, o.local)
    BY <1>5, <2>3 DEF EndpointCallsAllowed
  <2> HIDE DEF o
  <2>5. o.spn \in ServicePortName /\ o.addr \in Addr /\ o.local \in BOOLEAN
    BY <1>1, <1>2, <1>5, EndpointOpFields DEF IsCall
  <2> QED BY <2>4, <2>5 DEF Next
<1> QED BY <1>3, <1>4, <1>5 DEF EpHandler

\* Every step of the whole proxy is a step of Proxy, or changes nothing there.
LEMMA StepIsProxyStep ==
    ASSUME Orderly, NoFatalEvents, EpInv, SvcInv, AffInv, NoPanicAhead, [NFNext]_nfVars
    PROVE  [Next]_vars
<1>0. EntriesApart /\ boot = <<>>
  BY DEF Orderly, EpInv
<1>1. CASE ServiceStep
  BY <1>1, ServiceStepIs DEF ServiceStep
<1>2. CASE EndpointsStep
  BY <1>0, <1>2, EndpointStepIs DEF EndpointsStep
<1>3. CASE StepBootstrap
  BY <1>0, <1>3 DEF StepBootstrap
<1>4. CASE KillProcess
  BY <1>4 DEF KillProcess, Next
<1>5. CASE RestartProcess
  BY <1>5 DEF RestartProcess, Next
<1>6. CASE Done \/ UNCHANGED nfVars
  BY <1>6 DEF Done, nfVars
<1>7. ASSUME NEW s \in Service, ChangeService(s) \/ ServiceEvent(s) PROVE [Next]_vars
  BY <1>7 DEF ChangeService, ServiceEvent, DeliverService, NoFatalEvents
<1>8. ASSUME NEW o \in EpObject, ChangeEndpoints(o) \/ EndpointsEvent(o) PROVE [Next]_vars
  BY <1>8 DEF ChangeEndpoints, EndpointsEvent, DeliverEndpoints, NoFatalEvents
<1> QED BY <1>1, <1>2, <1>3, <1>4, <1>5, <1>6, <1>7, <1>8 DEF NFNext

\* The whole proxy, its two informers, handlers, crashes and restarts, implements
\* the specification of the critical sections: every property of Proxy is one of
\* the whole proxy.
THEOREM ImplementsProxy ==
    ASSUME Orderly, NoFatalEvents
    PROVE  NFSpec => Spec
<1>0. EntriesApart
  BY DEF Orderly
<1>1. NFInit => Init /\ NoPanicAhead
  BY DEF NFInit, NoPanicAhead
<1>2. EpInv /\ NoPanicAhead /\ [NFNext]_nfVars => NoPanicAhead'
  BY <1>0, NoPanicStep
<1>3. (EpInv /\ SvcInv /\ AffInv) /\ NoPanicAhead /\ [NFNext]_nfVars => [Next]_vars
  BY StepIsProxyStep
<1> QED BY <1>1, <1>2, <1>3, ClusterInvariant, PTL DEF NFSpec, Spec

(***************************************************************************)
(* In every reachable state, handlers at work or not.                      *)
(***************************************************************************)
\* The no-endpoints elements of a known port are at addresses it may claim.
LEMMA RejectsClaimed ==
    ASSUME ServicesApart, NEW spn \in ServicePortName, NEW svc, RecordedAs(spn, svc),
           NEW e \in NoEndpointsElements(spn, svc)
    PROVE  \E t \in Claims(spn) : t[1] = "markmasq" /\ e.key = <<spn.proto, t[2], t[3]>>
<1>1. PICK obj \in Versions(spn.svc) : HasPort(obj, spn) /\ svc.ext = obj.ext /\ svc.lb = obj.lb
  BY DEF RecordedAs
<1>2. PICK i : i \in At(obj, spn)
  BY <1>1 DEF HasPort
<1>3. PortID(spn) = <<obj.ip, obj.ports[i].port>> /\ SlotsOf(obj, spn) = Slots(obj, obj.ports[i])
  BY <1>2, PortIDOf
<1>4. svc.ip = obj.ip /\ svc.port = obj.ports[i].port
  BY <1>3 DEF RecordedAs, SvcID
<1>5. PICK ip \in {obj.ip} \cup Range(obj.ext) \cup Range(obj.lb) : e = Element("noendpoints", spn, ip, svc.port, Nil)
  BY <1>1, <1>4 DEF NoEndpointsElements
<1> DEFINE t == <<"markmasq", ip, svc.port>>
<1>6. t \in Slots(obj, obj.ports[i])
  BY <1>4, <1>5 DEF Slots
<1>7. t \in Claims(spn)
  BY <1>3, <1>6, SlotsClaimed
<1>8. t[1] = "markmasq" /\ e.key = <<spn.proto, t[2], t[3]>>
  BY <1>5 DEF Element
<1> HIDE DEF t
<1> QED BY <1>7, <1>8

\* No two known service ports have an address, port and protocol in common.
LEMMA KnownApart ==
    ASSUME ServicesApart, \A spn \in KnownPorts : RecordedAs(spn, serviceMap[spn])
    PROVE  AddressesApart
<1> SUFFICES ASSUME NEW s \in ServicePortName, NEW r \in ServicePortName, s # r,
                    serviceMap[s] # Nil, serviceMap[r] # Nil,
                    NEW e \in NoEndpointsElements(s, serviceMap[s]) \cap NoEndpointsElements(r, serviceMap[r])
             PROVE  FALSE
  BY DEF AddressesApart
<1>1. RecordedAs(s, serviceMap[s]) /\ RecordedAs(r, serviceMap[r])
  BY DEF KnownPorts
<1>2. PICK t \in Claims(s) : t[1] = "markmasq" /\ e.key = <<s.proto, t[2], t[3]>>
  BY <1>1, RejectsClaimed
<1>3. PICK u \in Claims(r) : u[1] = "markmasq" /\ e.key = <<r.proto, u[2], u[3]>>
  BY <1>1, RejectsClaimed
<1>4. t[1] = u[1] /\ <<s.proto, t[2], t[3]>> = <<r.proto, u[2], u[3]>>
  BY <1>2, <1>3
<1> QED BY <1>4, ClaimsApart

\* A kill leaves the service ports alone.
LEMMA KilledKeepsPorts ==
    ASSUME [Next]_vars, proc' = "killed"
    PROVE  serviceMap' = serviceMap
<1>1. ASSUME NEW spn \in ServicePortName, NEW w, proc = "running", Commit(spn, w)
      PROVE  FALSE
  BY <1>1 DEF Commit
<1>2. ASSUME NEW ports, NEW after, AffinityChange(ports, after)
      PROVE  FALSE
  BY <1>2 DEF AffinityChange
<1>3. ASSUME NEW spn \in ServicePortName, NEW spec \in PortSpec, AddServicePort(spn, spec)
      PROVE  FALSE
  BY <1>1, <1>3 DEF AddServicePort
<1>4. ASSUME NEW spn \in ServicePortName, NEW stored \in Stored \cup {Nil}, DeleteServicePort(spn, stored)
      PROVE  FALSE
  BY <1>1, <1>4 DEF DeleteServicePort
<1>5. ASSUME NEW spn \in ServicePortName, NEW addr \in Addr, NEW local \in BOOLEAN,
             AddEndpoint(spn, addr, local) \/ DeleteEndpoint(spn, addr, local)
      PROVE  FALSE
  BY <1>1, <1>5 DEF AddEndpoint, DeleteEndpoint
<1>6. ASSUME NEW ports \in SUBSET ServicePortName, AddAffinity(ports) \/ RemoveAffinity(ports)
      PROVE  FALSE
  BY <1>2, <1>6 DEF AddAffinity, RemoveAffinity
<1>7. ASSUME NEW spn, NEW set, NEW ip, NEW port,
             AddSetElement(spn, set, ip, port) \/ RemoveSetElement(spn, set, ip, port)
      PROVE  serviceMap' = serviceMap
  BY <1>7 DEF AddSetElement, RemoveSetElement
<1>8. CASE Kill
  BY <1>8 DEF Kill, Stop
<1>9. CASE Restart \/ UNCHANGED vars
  BY <1>9 DEF Restart, vars
<1> QED BY <1>3, <1>4, <1>5, <1>6, <1>7, <1>8, <1>9 DEF Next

\* In every reachable state of the whole proxy the addresses of the service
\* ports it knows are apart: what the Service objects guarantee carries over to
\* serviceMap although an object changes while its handler is at work.
THEOREM PortsStayApart ==
    ASSUME Orderly, NoFatalEvents
    PROVE  NFSpec => []AddressesApart
<1> DEFINE Running == proc = "running"
           Killed == proc = "killed"
<1>0. ServicesApart
  BY DEF Orderly
<1>1. SvcInv /\ Running => AddressesApart
  BY <1>0, KnownApart DEF SvcInv, Recorded
<1>2. AddressesApart /\ [Next]_vars /\ Killed' => AddressesApart'
  BY KilledKeepsPorts DEF AddressesApart
<1>3. NFInit => Running
  BY DEF NFInit, Init
<1>4. PortInv => Running \/ Killed
  BY DEF PortInv, TypeOK
<1> HIDE DEF Running, Killed
<1> QED BY <1>1, <1>2, <1>3, <1>4, ClusterInvariant, ImplementsProxy, PortInvariant, PTL DEF NFSpec, Spec

\* Connections to a service port without endpoints are rejected in every
\* reachable state of the whole proxy, while handlers are at work too.
THEOREM ClusterRefuses ==
    ASSUME Orderly, NoFatalEvents
    PROVE  NFSpec => []RefusedWithoutEndpoints
BY PortsStayApart, ImplementsProxy, AlwaysRefusedWithoutEndpoints, PTL

\* In every reachable state of the whole proxy the rules are those of the two
\* maps, no verdict leads nowhere and nothing is left behind, and no step
\* panics or disturbs an endpoint that stays.
THEOREM ClusterInStep ==
    ASSUME Orderly, NoFatalEvents
    PROVE  NFSpec => /\ [](ServiceRulesCurrent /\ EndpointRulesCurrent /\ NothingLeftBehind)
                     /\ [](VerdictsLead /\ NeverPanics)
                     /\ EndpointsUndisturbed
<1>1. Spec => []VerdictsLead
  BY VerdictsAlwaysLead
<1>2. Spec => EndpointsUndisturbed
  BY EndpointsNeverDisturbed
<1> QED BY <1>1, <1>2, ImplementsProxy, ServiceRulesAlwaysCurrent, EndpointRulesAlwaysCurrent,
           NothingEverLeftBehind, PanicsNever, PTL

\* In every reachable state of the whole proxy a connection to a service port
\* with endpoints reaches one of them and its answers come back.
THEOREM ClusterConnects ==
    ASSUME Orderly, NoFatalEvents
    PROVE  NFSpec => [](ConnectionsServed /\ AnswersComeBack)
BY ImplementsProxy, ConnectionsAlwaysServed, AnswersAlwaysComeBack, PTL

\* The whole proxy implements the abstract table of service ports.
THEOREM ClusterServesAsTable ==
    ASSUME Orderly, NoFatalEvents
    PROVE  NFSpec => ServesAsTable
BY ImplementsProxy, ProxyServesAsTable, PTL

(***************************************************************************)
(* What is rejected when everything is handled.                            *)
(***************************************************************************)
\* A service keeps its external and load balancer addresses: the record of a
\* service port holds those it had when the port was added.
AddressesStay ==
    \A s \in Service : \A obj, other \in Versions(s) :
        Range(obj.ext) \cup Range(obj.lb) = Range(other.ext) \cup Range(other.lb)

\* The elements a service port without endpoints is to have in the set.
LEMMA RecordedAddresses ==
    ASSUME ServicesApart, AddressesStay, NEW spn \in ServicePortName, NEW svc, RecordedAs(spn, svc),
           NEW spec, IsAsked(spn, spec), SvcID(spec) = PortID(spn)
    PROVE  NoEndpointsElements(spn, NewServiceInfo(spec, FALSE)) = NoEndpointsElements(spn, svc)
<1> DEFINE new == NewServiceInfo(spec, FALSE)
           now == apiSvc[spn.svc]
<1>1. PICK obj \in Versions(spn.svc) : svc.ext = obj.ext /\ svc.lb = obj.lb
  BY DEF RecordedAs
<1>2. now \in Versions(spn.svc) /\ spec.ext = now.ext /\ spec.lb = now.lb
  BY DEF IsAsked, SpecOf
<1>3. Range(now.ext) \cup Range(now.lb) = Range(obj.ext) \cup Range(obj.lb)
  BY <1>2 DEF AddressesStay, ServicePortName
<1>4. new.ip = spec.ip /\ new.port = spec.port /\ new.ext = spec.ext /\ new.lb = spec.lb
  BY DEF NewServiceInfo
<1>5. svc.ip = spec.ip /\ svc.port = spec.port
  BY DEF RecordedAs, SvcID
<1> HIDE DEF new, now
<1>6. {new.ip} \cup Range(new.ext) \cup Range(new.lb) = {svc.ip} \cup Range(svc.ext) \cup Range(svc.lb)
  BY <1>1, <1>2, <1>3, <1>4, <1>5
<1>7. NoEndpointsElements(spn, new) = NoEndpointsElements(spn, svc)
  BY <1>4, <1>5, <1>6 DEF NoEndpointsElements
<1> QED BY <1>7 DEF new

\* A service port has endpoints when addresses are asked for.
LEMMA AskedWithout ==
    ASSUME PortInv, EndpointsAsAsked, Quiet, NEW spn \in ServicePortName, serviceMap[spn] # Nil
    PROVE  ~serviceMap[spn].withEP <=> AskedAddresses(spn) = {}
<1> DEFINE eps == endpointsMap[spn]
<1>1. serviceMap[spn].withEP <=> eps # <<>>
  <2> DEFINE w == Local(spn)
  <2>1. PortOK(w) /\ w.svc = serviceMap[spn] /\ w.eps = endpointsMap[spn]
    BY LocalFields DEF PortInv
  <2> HIDE DEF w
  <2> QED BY <2>1 DEF PortOK
<1>2. eps \in Seq(EndpointInfo)
  BY DEF PortInv, TypeOK
<1>3. DOMAIN eps = 1..Len(eps) /\ Len(eps) \in Nat /\ (eps = <<>> <=> Len(eps) = 0)
  BY <1>2, LenProperties, EmptySeq
<1>4. eps = <<>> <=> DOMAIN eps = {}
  BY <1>3
<1>5. {eps[i].addr : i \in DOMAIN eps} = AskedAddresses(spn)
  BY DEF EndpointsAsAsked
<1> HIDE DEF eps
<1>6. DOMAIN eps = {} <=> AskedAddresses(spn) = {}
  BY <1>5
<1> QED BY <1>1, <1>4, <1>6

\* The rejected addresses are those of the asked service ports without endpoints.
LEMMA RejectsAtRest ==
    ASSUME ServicesApart, AddressesStay, SvcInv, PortInv, RefusalInv, RejectsFounded, EndpointsAsAsked
    PROVE  RejectsAsAsked
<1> DEFINE Want(a) == NoEndpointsElements(a[1], NewServiceInfo(a[2], FALSE))
           Lacking == {a \in AskedPorts : AskedAddresses(a[1]) = {}}
<1> SUFFICES ASSUME Quiet
             PROVE  ElementsIn({"noendpoints"}) = UNION {Want(a) : a \in Lacking}
  BY DEF RejectsAsAsked
<1>0. SvcTyped(apiSvc) /\ Recorded /\ KnownPorts \subseteq ServicePortName
  BY QuietKnows DEF KnownPorts
<1>1. ASSUME NEW spn \in ServicePortName, NEW spec, IsAsked(spn, spec)
      PROVE  /\ serviceMap[spn] # Nil
             /\ NoEndpointsElements(spn, NewServiceInfo(spec, FALSE)) = NoEndpointsElements(spn, serviceMap[spn])
  <2>1. spn \in KnownPorts /\ SvcID(spec) = PortID(spn)
    BY <1>1, KnownIsAsked
  <2>2. RecordedAs(spn, serviceMap[spn]) /\ serviceMap[spn] # Nil
    BY <1>0, <2>1 DEF Recorded, KnownPorts
  <2> QED BY <1>1, <2>1, <2>2, RecordedAddresses
<1>2. ASSUME NEW x \in sets, x.set = "noendpoints"
      PROVE  \E a \in Lacking : x \in Want(a)
  <2>1. PICK spn \in ServicePortName : Rejects(spn, serviceMap[spn], x)
    BY <1>2 DEF RejectsFounded
  <2>2. /\ serviceMap[spn] # Nil /\ ~serviceMap[spn].withEP /\ x \in NoEndpointsElements(spn, serviceMap[spn])
        /\ spn \in KnownPorts
    BY <2>1 DEF Rejects, KnownPorts
  <2>3. PICK spec : IsAsked(spn, spec)
    BY <2>2, KnownIsAsked
  <2>4. AskedAddresses(spn) = {}
    BY <2>2, AskedWithout
  <2> DEFINE a == <<spn, spec>>
  <2>5. a \in AskedPorts /\ a[1] = spn /\ a[2] = spec
    BY <2>3, IsAskedFor
  <2>6. x \in NoEndpointsElements(spn, NewServiceInfo(spec, FALSE))
    BY <1>1, <2>2, <2>3
  <2> HIDE DEF a
  <2> QED BY <2>4, <2>5, <2>6
<1>3. ASSUME NEW a \in Lacking, NEW x \in Want(a)
      PROVE  x \in sets /\ x.set = "noendpoints"
  <2>1. a \in AskedPorts /\ AskedAddresses(a[1]) = {}
    OBVIOUS
  <2>2. a[1] \in ServicePortName /\ IsAsked(a[1], a[2])
    BY <1>0, <2>1, AskedPortIs
  <2> DEFINE spn == a[1]
  <2>3. serviceMap[spn] # Nil /\ x \in NoEndpointsElements(spn, serviceMap[spn])
    BY <1>1, <1>3, <2>2
  <2>4. ~serviceMap[spn].withEP
    BY <2>1, <2>2, <2>3, AskedWithout
  <2>5. x \in sets
    BY <2>2, <2>3, <2>4 DEF RefusalInv, Refuses
  <2> QED BY <2>3, <2>5, NoEndpointsLeadNowhere
<1> HIDE DEF Want, Lacking
<1> QED BY <1>2, <1>3 DEF ElementsIn

\* Once all events are handled, exactly the addresses of the service ports
\* without endpoints are rejected, as long as services keep their addresses.
THEOREM RejectsAlwaysAsAsked ==
    ASSUME Orderly, NoFatalEvents, AddressesStay
    PROVE  NFSpec => []RejectsAsAsked
<1>0. ServicesApart
  BY DEF Orderly
<1>1. SvcInv /\ PortInv /\ RefusalInv /\ RejectsFounded /\ EndpointsAsAsked => RejectsAsAsked
  BY <1>0, RejectsAtRest
<1> QED BY <1>1, ClusterInvariant, ClusterServed, ImplementsProxy, PortsStayApart, PortInvariant,
           RefusalInvariant, RejectsAlwaysFounded, PTL

(***************************************************************************)
(* An update never takes a service away.                                   *)
(***************************************************************************)
\* A Service object has at least one port, as the API server sees to for
\* services with a cluster IP.
HavePorts == \A s \in Service : \A obj \in Versions(s) : obj.ports # <<>>

\* An endpoint that comes or goes leaves its service port known.
LEMMA EndpointSectionsKnow ==
    ASSUME NEW spn, NEW addr, NEW local, NEW w, DOMAIN w = Fields, w.svc \in ServiceInfo,
           NEW u \in {addEndpoint(spn, addr, local, w), deleteEndpoint(spn, addr, local, w)}
    PROVE  u.svc # Nil
<1>1. EndpointSection(spn, w, u)
  BY EndpointSections
<1>2. PICK v : /\ DOMAIN v = Fields /\ v.svc = w.svc /\ v.sets = w.sets
               /\ \/ u = v
                  \/ u = updateServiceChain(spn, v)
                  \/ \E a, c, r : u = [updateServiceChain(spn, v) EXCEPT !.ec[a] = c, !.res = r]
                  \/ \E a, c : u = [updateServiceChain(spn, v) EXCEPT !.ec[a] = c]
  BY <1>1 DEF EndpointSection
<1> DEFINE v1 == updateServiceChain(spn, v)
<1>3. u = v \/ (DOMAIN v1 = Fields => u.svc = v1.svc)
  BY <1>2 DEF Fields
<1>4. Known(v1)
  BY <1>2, UpdateServiceChainRefuses DEF Known
<1> HIDE DEF v1
<1> QED BY <1>2, <1>3, <1>4, NilAssumption DEF Known

\* A step of the endpoints handlers leaves the known service ports known.
LEMMA EndpointStepKnows ==
    ASSUME EntriesApart, EpInv, EpHandler, NEW spn \in KnownPorts
    PROVE  serviceMap'[spn] # Nil
<1> DEFINE o == Head(epTodo)
<1>running. proc = "running"
  BY DEF EpHandler, EpStep, StepAddEndpoint, StepDeleteEndpoint, StepStoreEndpoints, StepPanicEndpoints
<1>0. spn \in ServicePortName /\ serviceMap[spn] \in ServiceInfo /\ serviceMap[spn] # Nil
      /\ serviceMap \in [ServicePortName -> ServiceInfo \cup {Nil}]
  BY <1>running DEF EpInv, KnownPorts, InStep, TypeOK
<1>1. CASE StepAddEndpoint \/ StepDeleteEndpoint
  <2> DEFINE w == Local(o.spn)
  <2>1. PICK u \in {addEndpoint(o.spn, o.addr, o.local, w), deleteEndpoint(o.spn, o.addr, o.local, w)} :
          Commit(o.spn, u)
    <3>1. proc = "running" /\ epTodo # <<>> /\ o.op \in {"add", "delete"}
      BY <1>1 DEF StepAddEndpoint, StepDeleteEndpoint, EpStep
    <3>2. epTodo # <<PanicEpOp>>
      BY <3>1 DEF PanicEpOp
    <3>3. InStep /\ InHand(epTodo, seenEp, epCache) /\ AllBalanced(endpointsMap, epTodo, seenEp)
      BY <3>1, <3>2 DEF EpInv
    <3>4. EndpointCallsAllowed
      BY <1>1, <3>3, CallStepsKeep
    <3> QED BY <1>1, <3>4 DEF EndpointCallsAllowed, AddEndpoint, DeleteEndpoint
  <2>2. serviceMap' = serviceMap \/ serviceMap' = [serviceMap EXCEPT ![o.spn] = u.svc]
    BY <2>1 DEF Commit, Stop
  <2>3. CASE spn = o.spn
    <3>1. u.svc # Nil
      <4>1. DOMAIN w = Fields /\ w.svc = serviceMap[spn]
        BY <2>3, LocalFields
      <4> HIDE DEF w, o
      <4> QED BY <1>0, <2>1, <4>1, EndpointSectionsKnow
    <3> HIDE DEF o
    <3> QED BY <1>0, <2>2, <2>3, <3>1
  <2> HIDE DEF o
  <2>4. CASE spn # o.spn
    BY <1>0, <2>2, <2>4
  <2> QED BY <2>3, <2>4
<1>2. CASE StepStoreEndpoints \/ StepPanicEndpoints
  BY <1>0, <1>2 DEF StepStoreEndpoints, StepPanicEndpoints, Stop, vars
<1> QED BY <1>1, <1>2 DEF EpHandler

\* A step of the service handlers leaves the other ports of a service known when
\* it deletes one, unless the service itself is gone.
LEMMA ServiceStepKnows ==
    ASSUME ServicesApart, HavePorts, InStep, SvcInv, AffInv, SvcHandler, proc' = "running",
           NEW s \in Service, seenSvc[s] # Nil, NEW spn \in KnownPorts, spn.svc = s
    PROVE  \E p \in ServicePortName : p.svc = s /\ serviceMap'[p] # Nil
<1> DEFINE o == Head(svcTodo)
<1>0. spn \in ServicePortName /\ serviceMap[spn] # Nil /\ serviceMap \in [ServicePortName -> ServiceInfo \cup {Nil}]
  BY DEF KnownPorts, InStep, TypeOK
<1>1. proc = "running" /\ svcTodo # <<>>
  BY DEF SvcHandler, StepAddPort, StepDeletePort, StepChangePort, StepAddElement, StepRemoveElement,
         StepStore, StepAffinity, StepPanic, SvcStep
<1>2. Working(svcTodo, seenSvc, svcCache, KnownPorts, Elements) /\ SvcTyped(seenSvc)
  BY <1>1 DEF SvcInv
<1>3. /\ o \in ServiceOp /\ Range(svcTodo) = {o} \cup Range(Tail(svcTodo)) /\ Fits(o, seenSvc, svcCache, KnownPorts)
      /\ Announced(Range(svcTodo), seenSvc, KnownPorts) /\ \A y \in Range(Tail(svcTodo)) : MayPrecede(o, y)
  BY <1>1, <1>2, WorkParts
<1>4. CASE StepAddPort
  <2>1. PICK u : Commit(o.spn, u)
    BY <1>4 DEF StepAddPort
  <2>2. o.op = "addPort"
    BY <1>4 DEF StepAddPort, SvcStep
  <2>3. o.spn \notin KnownPorts
    BY <1>3, <2>2 DEF Fits
  <2>4. serviceMap'[spn] = serviceMap[spn]
    <3>1. serviceMap' = serviceMap \/ serviceMap' = [serviceMap EXCEPT ![o.spn] = u.svc]
      BY <2>1 DEF Commit, Stop
    <3> HIDE DEF o
    <3> QED BY <1>0, <2>3, <3>1
  <2> QED BY <1>0, <2>4
<1>5. CASE StepDeletePort
  <2>1. PICK u : Commit(o.spn, u)
    BY <1>5 DEF StepDeletePort
  <2>2. o.op = "deletePort"
    BY <1>5 DEF StepDeletePort, SvcStep
  <2>3. ~HasPort(seenSvc[o.spn.svc], o.spn)
    BY <1>3, <2>2 DEF Fits
  <2>4. \A p \in ServicePortName : p # o.spn => serviceMap'[p] = serviceMap[p]
    <3>1. serviceMap' = serviceMap \/ serviceMap' = [serviceMap EXCEPT ![o.spn] = u.svc]
      BY <2>1 DEF Commit, Stop
    <3> HIDE DEF o
    <3> QED BY <1>0, <3>1
  <2> DEFINE obj == seenSvc[s]
             p == getSvcPortName(s, obj.ports[1])
  <2>5. obj \in Versions(s) /\ obj # Nil
    BY <1>2 DEF SvcTyped
  <2>6. 1 \in DOMAIN obj.ports
    <3>1. obj.ports # <<>> /\ obj.ports \in Seq(ServicePort)
      BY <2>5, ObjectFields DEF HavePorts
    <3> HIDE DEF obj
    <3> QED BY <3>1, EmptySeq, LenProperties
  <2>7. p \in ServicePortName /\ 1 \in At(obj, p) /\ p.svc = s
    <3> HIDE DEF obj
    <3> QED BY <2>5, <2>6, PortFields
  <2> HIDE DEF p
  <2>8. HasPort(seenSvc[p.svc], p)
    BY <2>5, <2>7 DEF HasPort
  <2>9. p \in KnownPorts
    <3>1. SUFFICES ASSUME p \notin KnownPorts PROVE FALSE
      OBVIOUS
    <3>2. PICK x \in Range(svcTodo) : IsAdding(x) /\ OpPort(x) = p
      BY <1>3, <2>7, <2>8, <3>1 DEF Announced
    <3>3. x # o
      BY <2>2, <3>2 DEF IsAdding
    <3>4. MayPrecede(o, x)
      BY <1>3, <3>2, <3>3
    <3> QED BY <2>2, <3>2, <3>4 DEF MayPrecede
  <2>10. p # o.spn
    BY <2>3, <2>8
  <2>11. serviceMap'[p] # Nil
    BY <2>4, <2>7, <2>9, <2>10 DEF KnownPorts
  <2> QED BY <2>7, <2>11
<1>6. CASE StepChangePort \/ StepStore \/ StepAddElement \/ StepRemoveElement
  BY <1>0, <1>6 DEF StepChangePort, StepStore, StepAddElement, StepRemoveElement, AddSetElement,
                    RemoveSetElement, Stop, vars
<1>7. CASE StepAffinity
  <2>1. KnownPorts' = KnownPorts
    BY <1>7, AffinityStep
  <2> QED BY <1>0, <2>1 DEF KnownPorts
<1>8. CASE StepPanic
  <2>1. o.op = "panic"
    BY <1>8 DEF StepPanic, SvcStep
  <2> HIDE DEF o
  <2> QED BY <1>3, <2>1, ServiceOpFields
<1> QED BY <1>4, <1>5, <1>6, <1>7, <1>8 DEF SvcHandler

\* "To prevent traffic drop, first add updated to new Protocol:Port rules then
\* remove the old ones": as long as a port that keeps its name keeps its number,
\* an update of a Service never leaves it without any port on the way.
THEOREM ServiceStaysServed ==
    ASSUME Orderly, HavePorts
    PROVE  NFSpec => ServiceNeverGone
<1> DEFINE Stays == \A s \in Service :
              (/\ \E spn \in ServicePortName : spn.svc = s /\ serviceMap[spn] # Nil
               /\ \A spn \in ServicePortName : spn.svc = s => serviceMap'[spn] = Nil
               /\ proc' = "running")
              => seenSvc[s] = Nil \/ proc # "running"
<1>1. EpInv /\ SvcInv /\ AffInv /\ NFNext => Stays
  <2> SUFFICES ASSUME EpInv, SvcInv, AffInv, NFNext, proc = "running", proc' = "running",
                      NEW s \in Service, seenSvc[s] # Nil, NEW spn \in ServicePortName, spn.svc = s,
                      serviceMap[spn] # Nil
               PROVE  \E p \in ServicePortName : p.svc = s /\ serviceMap'[p] # Nil
    OBVIOUS
  <2>0. EntriesApart /\ ServicesApart /\ InStep /\ spn \in KnownPorts /\ boot = <<>>
    BY DEF Orderly, EpInv, KnownPorts
  <2>1. CASE ServiceStep
    BY <2>0, <2>1, ServiceStepKnows DEF ServiceStep
  <2>2. CASE EndpointsStep
    BY <2>0, <2>2, EndpointStepKnows DEF EndpointsStep
  <2>3. CASE StepBootstrap
    BY <2>0, <2>3 DEF StepBootstrap
  <2>4. CASE KillProcess
    BY <2>4 DEF KillProcess, Kill, Stop
  <2>5. CASE RestartProcess
    BY <2>5 DEF RestartProcess, Restart
  <2>6. CASE Done
    BY <2>6 DEF Done, nfVars, vars
  <2>7. ASSUME NEW t \in Service, ChangeService(t) \/ ServiceEvent(t) PROVE serviceMap' = serviceMap
    BY <2>7 DEF ChangeService, ServiceEvent, DeliverService, DeliverServiceTombstone, Stop, vars
  <2>8. ASSUME NEW o \in EpObject, ChangeEndpoints(o) \/ EndpointsEvent(o) PROVE serviceMap' = serviceMap
    BY <2>8 DEF ChangeEndpoints, EndpointsEvent, DeliverEndpoints, DeliverEndpointsTombstone, Stop, vars
  <2> QED BY <2>1, <2>2, <2>3, <2>4, <2>5, <2>6, <2>7, <2>8 DEF NFNext
<1>2. EpInv /\ SvcInv /\ AffInv /\ [NFNext]_nfVars => [Stays]_nfVars
  BY <1>1
<1>3. ServiceNeverGone <=> [][Stays]_nfVars
  BY PTL DEF ServiceNeverGone
<1> HIDE DEF Stays
<1> QED BY <1>2, <1>3, ClusterInvariant, PTL DEF NFSpec
=============================================================================
