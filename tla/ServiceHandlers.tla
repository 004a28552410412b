--------------------------- MODULE ServiceHandlers ---------------------------
(***************************************************************************)
(* The Service informer and the handlers of pkg/proxy/proxy_service.go     *)
(* that turn each of its events into the critical sections of Proxy.       *)
(*                                                                         *)
(* An informer keeps the last object it delivered and delivers the current *)
(* one as an add, update or delete event when its handler is free: several *)
(* changes may reach the handler as one (a re-list after a broken watch),  *)
(* or one by one.  The handler runs in the goroutine of the informer; its  *)
(* remaining work is a sequence of operations, one step each, so its       *)
(* critical sections interleave with those of the endpoints handler in     *)
(* every way.                                                              *)
(*                                                                         *)
(* Left out: the version checks of the handler, which only log, and the    *)
(* periodic resync, whose updates keep their version and are passed over.  *)
(***************************************************************************)
EXTENDS Proxy

\* A port of a Service object, and the object; ip is Nil for a service without
\* a cluster IP (headless, ExternalName), aff Nil or a timeout.
ServicePort ==
    [name : PortName, proto : Protocol, port : Port, nodePort : Port \cup {0}]
ServiceObject ==
    [ip : IP \cup {Nil}, ports : Seq(ServicePort), ext : IPLists, lb : IPLists,
     aff : Timeout \cup {Nil}]

ASSUME SvcAssumption == Nil \notin ServiceObject /\ Nil \notin Stored

VARIABLES
    apiSvc,     \* the Service objects in the API server, or Nil
    seenSvc,    \* the last objects the informer delivered, or Nil
    svcCache,   \* p.cache: the last known objects, or Nil
    svcTodo     \* the remaining operations of the handler

svcVars == <<apiSvc, seenSvc, svcCache, svcTodo>>

(***************************************************************************)
(* Objects.                                                                *)
(***************************************************************************)
getSvcPortName(s, p) == [svc |-> s, port |-> p.name, proto |-> p.proto]

\* The names of the ports of a Service, in their order.
PortNames(s, obj) == [i \in DOMAIN obj.ports |-> getSvcPortName(s, obj.ports[i])]

SpecOf(obj, p) ==
    [ip |-> obj.ip, port |-> p.port, nodePort |-> p.nodePort,
     ext |-> obj.ext, lb |-> obj.lb, aff |-> obj.aff]

\* Mutant of isServicePortInPorts: there is no second pass by port number.
isServicePortNameInPorts(ports, p) ==
    LET byName == {i \in DOMAIN ports : ports[i].name = p.name}
    IN  IF byName = {} THEN 0 ELSE CHOOSE i \in byName : \A j \in byName : i <= j

\* isServicePortInPorts: by name first, then by protocol and port; 0 if there
\* is none (the code then returns index 0, which is the first port).
isServicePortInPorts(ports, p) ==
    LET byName == {i \in DOMAIN ports : ports[i].name = p.name}
        byPort == {i \in DOMAIN ports : ports[i].proto = p.proto /\ ports[i].port = p.port}
        first(S) == CHOOSE i \in S : \A j \in S : i <= j
    IN  IF byName # {} THEN first(byName) ELSE IF byPort # {} THEN first(byPort) ELSE 0

\* getLastKnownSvcFromCache, as removeServicePortFromSets uses it.
LastKnown(s) ==
    IF svcCache[s] = Nil THEN Nil
    ELSE [ip |-> svcCache[s].ip, ext |-> svcCache[s].ext, lb |-> svcCache[s].lb,
          nodePorts |-> {svcCache[s].ports[i].nodePort : i \in DOMAIN svcCache[s].ports} \ {0}]

(***************************************************************************)
(* The operations of the handlers.                                         *)
(***************************************************************************)
AddPortOp(spn, spec) == [op |-> "addPort", spn |-> spn, spec |-> spec]
DeletePortOp(spn) == [op |-> "deletePort", spn |-> spn]
ChangePortOp(s, new, i, stored) ==
    [op |-> "changePort", svc |-> s, new |-> new, i |-> i, stored |-> stored]
AddElementOp(spn, set, ip, port) ==
    [op |-> "addElement", spn |-> spn, set |-> set, ip |-> ip, port |-> port]
RemoveElementOp(spn, set, ip, port) ==
    [op |-> "removeElement", spn |-> spn, set |-> set, ip |-> ip, port |-> port]
AffinityOp(ports, aff) == [op |-> "affinity", ports |-> ports, aff |-> aff]
StoreOp(s, obj) == [op |-> "store", svc |-> s, obj |-> obj]
PanicOp == [op |-> "panic"]

\* processClusterIPChanges.
ClusterIPOps(s, new, stored) ==
    LET add == [i \in DOMAIN new.ports |->
                  LET p == new.ports[i] IN
                  AddElementOp(getSvcPortName(s, p), "cluster", new.ip, p.port)]
        remove == [i \in DOMAIN new.ports |->
                  LET p == new.ports[i] IN
                  RemoveElementOp(getSvcPortName(s, p), "cluster", stored.ip, p.port)]
    IN  IF new.ip = stored.ip THEN <<>>
        ELSE (IF new.ip = Nil THEN <<>> ELSE add) \o (IF stored.ip = Nil THEN <<>> ELSE remove)

\* The loops of processExternalIPChanges and processLoadBalancerIPChange: the
\* new addresses are added, then the old ones removed, each with its
\* masquerade element.
AddressOps(s, new, set, newIPs, storedIPs) ==
    LET add(ip) == FlattenSeq([i \in DOMAIN new.ports |->
                     LET p == new.ports[i] IN
                     <<AddElementOp(getSvcPortName(s, p), set, ip, p.port),
                       AddElementOp(getSvcPortName(s, p), "markmasq", ip, p.port)>>])
        remove(ip) == FlattenSeq([i \in DOMAIN new.ports |->
                     LET p == new.ports[i] IN
                     <<RemoveElementOp(getSvcPortName(s, p), set, ip, p.port),
                       RemoveElementOp(getSvcPortName(s, p), "markmasq", ip, p.port)>>])
        added == Picked(newIPs, {i \in DOMAIN newIPs : newIPs[i] \notin Range(storedIPs)})
        removed == Picked(storedIPs, {i \in DOMAIN storedIPs : storedIPs[i] \notin Range(newIPs)})
    IN  FlattenSeq([i \in DOMAIN added |-> add(added[i])])
        \o FlattenSeq([i \in DOMAIN removed |-> remove(removed[i])])

\* Mutant of DeletedPortOps: the second loop is missing.
DeletedPortNoOps(s, new, stored) == <<>>

\* processServicePortChanges, second loop: ports the new object does not have.
DeletedPortOps(s, new, stored) ==
    LET gone == Picked(stored.ports, {i \in DOMAIN stored.ports :
                                        isServicePortInPorts(new.ports, stored.ports[i]) = 0})
    IN  [i \in DOMAIN gone |-> DeletePortOp(getSvcPortName(s, gone[i]))]

\* Mutant of AffinityOps: only the addition of session affinity is noticed.
AffinityAddedOps(s, new, stored) ==
    IF new.aff # Nil /\ stored.aff = Nil THEN <<AffinityOp(PortNames(s, new), new.aff)>> ELSE <<>>

\* processAffinityChange: a change of the timeout alone is not a change.
AffinityOps(s, new, stored) ==
    IF (new.aff = Nil) = (stored.aff = Nil) THEN <<>>
    ELSE <<AffinityOp(PortNames(s, new), new.aff)>>

\* AddService, DeleteService, UpdateService.
AddServiceOps(s, new) ==
    IF new.ip = Nil THEN <<>>
    ELSE [i \in DOMAIN new.ports |->
            AddPortOp(getSvcPortName(s, new.ports[i]), SpecOf(new, new.ports[i]))]

\* Mutant of DeleteServiceOps: the service stays in the cache.
DeleteServiceKeepingCacheOps(s, old) ==
    [i \in DOMAIN old.ports |-> DeletePortOp(getSvcPortName(s, old.ports[i]))]

DeleteServiceOps(s, old) ==
    [i \in DOMAIN old.ports |-> DeletePortOp(getSvcPortName(s, old.ports[i]))]
    \o <<StoreOp(s, Nil)>>

UpdateServiceOps(s, new, stored) ==
    [i \in DOMAIN new.ports |-> ChangePortOp(s, new, i, stored)]
    \o DeletedPortOps(s, new, stored)
    \o ClusterIPOps(s, new, stored)
    \o AddressOps(s, new, "external", new.ext, stored.ext)
    \o AddressOps(s, new, "loadbalancer", new.lb, stored.lb)
    \o AffinityOps(s, new, stored)
    \o <<StoreOp(s, new)>>

\* Mutant of NodePortOps: the old node port is not removed.
NodePortAddedOps(s, new, i, stored, id) ==
    IF stored.ports[id].nodePort = new.ports[i].nodePort THEN <<>>
    ELSE <<AddElementOp(getSvcPortName(s, new.ports[i]), "nodeport", Nil, new.ports[i].nodePort)>>

\* processServicePortChanges, first loop, for the port new.ports[i].  The
\* node port to remove is guarded by the stored port at index i, not id.
NodePortOps(s, new, i, stored, id) ==
    LET spn == getSvcPortName(s, new.ports[i])
    IN  IF stored.ports[id].nodePort = new.ports[i].nodePort THEN <<>>
        ELSE <<AddElementOp(spn, "nodeport", Nil, new.ports[i].nodePort)>>
             \o (IF i > Len(stored.ports) THEN <<PanicOp>>
                 ELSE IF stored.ports[i].nodePort = 0 THEN <<>>
                 ELSE <<RemoveElementOp(spn, "nodeport", Nil, stored.ports[id].nodePort)>>)

ChangePortOps(s, new, i, stored) ==
    LET p     == new.ports[i]
        spn   == getSvcPortName(s, p)
        found == isServicePortInPorts(stored.ports, p)
        id    == IF found = 0 THEN 1 ELSE found
        old   == stored.ports[id]
        replace == <<DeletePortOp(getSvcPortName(s, old)), AddPortOp(spn, SpecOf(new, p))>>
    IN  IF found = 0 /\ serviceMap[spn] = Nil THEN <<AddPortOp(spn, SpecOf(new, p))>>
        ELSE IF stored.ports = <<>> THEN <<PanicOp>>
        ELSE IF old.name # p.name THEN replace
        ELSE (IF old.proto # p.proto \/ old.port # p.port THEN replace ELSE <<>>)
             \o NodePortOps(s, new, i, stored, id)

(***************************************************************************)
(* The informer.                                                           *)
(***************************************************************************)
\* handleAddService, handleUpdateService, handleDeleteService.
DeliverService(s) ==
    LET old == seenSvc[s]
        new == apiSvc[s]
        stored == IF svcCache[s] = Nil THEN old ELSE svcCache[s]
    IN  /\ proc = "running" /\ svcTodo = <<>> /\ old # new
        /\ seenSvc' = [seenSvc EXCEPT ![s] = new]
        /\ svcCache' = IF old = Nil THEN [svcCache EXCEPT ![s] = new] ELSE svcCache
        /\ svcTodo' = IF old = Nil THEN AddServiceOps(s, new)
                      ELSE IF new = Nil THEN DeleteServiceOps(s, old)
                      ELSE UpdateServiceOps(s, new, stored)
        /\ UNCHANGED <<vars, apiSvc>>

\* The delete was missed and arrives as a tombstone: handleDeleteService
\* checks the type of the object inside, then goes on with the nil Service.
DeliverServiceTombstone(s) ==
    /\ proc = "running" /\ svcTodo = <<>>
    /\ seenSvc[s] # Nil /\ apiSvc[s] = Nil
    /\ Stop("panicked")
    /\ UNCHANGED svcVars

(***************************************************************************)
(* The handlers.                                                           *)
(***************************************************************************)
SvcStep(kind) ==
    /\ proc = "running"
    /\ svcTodo # <<>>
    /\ Head(svcTodo).op = kind
    /\ UNCHANGED <<apiSvc, seenSvc>>

StepAddPort ==
    /\ SvcStep("addPort")
    /\ LET o == Head(svcTodo) IN
         \E w \in {addServicePort(o.spn, o.spec, Local(o.spn))} : Commit(o.spn, w)
    /\ svcTodo' = Tail(svcTodo)
    /\ UNCHANGED svcCache

StepDeletePort ==
    /\ SvcStep("deletePort")
    /\ LET o == Head(svcTodo) IN
         \E w \in {deleteServicePort(o.spn, LastKnown(o.spn.svc), Local(o.spn))} : Commit(o.spn, w)
    /\ svcTodo' = Tail(svcTodo)
    /\ UNCHANGED svcCache

StepChangePort ==
    /\ SvcStep("changePort")
    /\ LET o == Head(svcTodo) IN
         svcTodo' = ChangePortOps(o.svc, o.new, o.i, o.stored) \o Tail(svcTodo)
    /\ UNCHANGED <<vars, svcCache>>

\* The lookup in serviceMap comes first; port 0 is a node port not asked for.
StepAddElement ==
    /\ SvcStep("addElement")
    /\ LET o == Head(svcTodo) IN
         IF serviceMap[o.spn] = Nil THEN Stop("panicked")
         ELSE IF o.port = 0 THEN UNCHANGED vars
         ELSE AddSetElement(o.spn, o.set, o.ip, o.port)
    /\ svcTodo' = Tail(svcTodo)
    /\ UNCHANGED svcCache

StepRemoveElement ==
    /\ SvcStep("removeElement")
    /\ LET o == Head(svcTodo) IN
         IF serviceMap[o.spn] = Nil THEN Stop("panicked")
         ELSE RemoveSetElement(o.spn, o.set, o.ip, o.port)
    /\ svcTodo' = Tail(svcTodo)
    /\ UNCHANGED svcCache

StepAffinity ==
    /\ SvcStep("affinity")
    /\ LET o == Head(svcTodo) IN
         \E after \in {[spn \in Range(o.ports) |->
                          IF o.aff = Nil THEN removeAffinity(Local(spn)) ELSE addAffinity(Local(spn))]} :
            AffinityChange(PortsReached(o.ports, after), after)
    /\ svcTodo' = Tail(svcTodo)
    /\ UNCHANGED svcCache

StepStore ==
    /\ SvcStep("store")
    /\ svcCache' = [svcCache EXCEPT ![Head(svcTodo).svc] = Head(svcTodo).obj]
    /\ svcTodo' = Tail(svcTodo)
    /\ UNCHANGED vars

StepPanic ==
    /\ SvcStep("panic")
    /\ Stop("panicked")
    /\ UNCHANGED <<svcTodo, svcCache>>

SvcHandler ==
    \/ StepAddPort \/ StepDeletePort \/ StepChangePort \/ StepAddElement
    \/ StepRemoveElement \/ StepAffinity \/ StepStore \/ StepPanic
=============================================================================
