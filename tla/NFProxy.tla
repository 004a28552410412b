------------------------------- MODULE NFProxy -------------------------------
(***************************************************************************)
(* The whole proxy: the objects of the cluster, the two informers with     *)
(* their handlers (ServiceHandlers and EndpointHandlers), the bootstrap    *)
(* rules main programs before it starts them, and the life of the process. *)
(***************************************************************************)
EXTENDS ServiceHandlers, EndpointHandlers, FiniteSets

CONSTANTS
    SvcVersions,    \* service -> the Service objects it may have, or Nil
    EpVersions,     \* object name -> the endpoint objects it may have, or Nil
    Bootstrap,      \* Nil, or what main is told of the API server
    Tombstones,     \* whether a watch may miss the delete of an object
    MaxChanges,     \* bound on the changes of the cluster
    MaxKills        \* bound on the times the process is killed

ASSUME NFAssumption ==
    /\ SvcVersions \in [Service -> SUBSET (ServiceObject \cup {Nil})]
    /\ EpVersions \in [EpObject -> SUBSET (Seq(EndpointEntry) \cup {Nil})]
    /\ Tombstones \in BOOLEAN

VARIABLES
    boot,           \* the remaining operations of BootstrapRules
    changes, kills  \* counters for the bounds

nfVars == <<vars, svcVars, epVars, boot, changes, kills>>

(***************************************************************************)
(* The process.  Bootstrap is [svc, obj, ep, eps]: the names of the        *)
(* kubernetes Service and of its Endpoints object or slice, and the two    *)
(* objects BootstrapRules makes up for them.                               *)
(***************************************************************************)
\* Mutant of BootstrapOps: the endpoint of the API server is forgotten.
BootstrapServiceOps ==
    IF Bootstrap = Nil THEN <<>> ELSE AddServiceOps(Bootstrap.svc, Bootstrap.obj)

\* BootstrapRules: AddService, then AddEndpoints or AddEndpointSlice.
BootstrapOps ==
    IF Bootstrap = Nil THEN <<>>
    ELSE AddServiceOps(Bootstrap.svc, Bootstrap.obj) \o AddOps(Bootstrap.eps)

\* The caches, once BootstrapRules has stored its two objects in them.
FirstSvcCache ==
    [s \in Service |-> IF Bootstrap # Nil /\ s = Bootstrap.svc THEN Bootstrap.obj ELSE Nil]
FirstEpCache ==
    [o \in EpObject |-> IF Bootstrap # Nil /\ o = Bootstrap.ep THEN Bootstrap.eps ELSE Nil]

NFInit ==
    /\ Init
    /\ apiSvc = [s \in Service |-> Nil] /\ seenSvc = [s \in Service |-> Nil]
    /\ apiEp = [o \in EpObject |-> Nil] /\ seenEp = [o \in EpObject |-> Nil]
    /\ svcCache = FirstSvcCache /\ epCache = FirstEpCache
    /\ svcTodo = <<>> /\ epTodo = <<>> /\ boot = BootstrapOps
    /\ changes = 0 /\ kills = 0

\* main runs BootstrapRules before it starts the informers.
StepBootstrap ==
    /\ proc = "running"
    /\ boot # <<>>
    /\ LET o == Head(boot) IN
         \E w \in {IF o.op = "addPort" THEN addServicePort(o.spn, o.spec, Local(o.spn))
                   ELSE addEndpoint(o.spn, o.addr, o.local, Local(o.spn))} : Commit(o.spn, w)
    /\ boot' = Tail(boot)
    /\ UNCHANGED <<svcVars, epVars, changes, kills>>

KillProcess ==
    /\ kills < MaxKills
    /\ Kill
    /\ kills' = kills + 1
    /\ UNCHANGED <<svcVars, epVars, boot, changes>>

\* Mutant of RestartProcess: the work of the old process is taken up again.
RestartProcessResuming ==
    /\ Restart
    /\ seenSvc' = [s \in Service |-> Nil] /\ seenEp' = [o \in EpObject |-> Nil]
    /\ svcCache' = FirstSvcCache /\ epCache' = FirstEpCache
    /\ boot' = BootstrapOps
    /\ UNCHANGED <<svcTodo, epTodo, apiSvc, apiEp, changes, kills>>

\* The new process bootstraps and its informers list everything anew.
RestartProcess ==
    /\ Restart
    /\ seenSvc' = [s \in Service |-> Nil] /\ seenEp' = [o \in EpObject |-> Nil]
    /\ svcCache' = FirstSvcCache /\ epCache' = FirstEpCache
    /\ svcTodo' = <<>> /\ epTodo' = <<>> /\ boot' = BootstrapOps
    /\ UNCHANGED <<apiSvc, apiEp, changes, kills>>

(***************************************************************************)
(* The cluster.                                                            *)
(***************************************************************************)
ChangeService(s) ==
    /\ changes < MaxChanges
    /\ \E obj \in SvcVersions[s] \ {apiSvc[s]} : apiSvc' = [apiSvc EXCEPT ![s] = obj]
    /\ changes' = changes + 1
    /\ UNCHANGED <<vars, seenSvc, svcCache, svcTodo, epVars, boot, kills>>

ChangeEndpoints(o) ==
    /\ changes < MaxChanges
    /\ \E obj \in EpVersions[o] \ {apiEp[o]} : apiEp' = [apiEp EXCEPT ![o] = obj]
    /\ changes' = changes + 1
    /\ UNCHANGED <<vars, svcVars, seenEp, epCache, epTodo, boot, kills>>

(***************************************************************************)
(* The specification.                                                      *)
(***************************************************************************)
ServiceEvent(s) ==
    /\ boot = <<>>
    /\ DeliverService(s) \/ (Tombstones /\ DeliverServiceTombstone(s))
    /\ UNCHANGED <<epVars, boot, changes, kills>>

EndpointsEvent(o) ==
    /\ boot = <<>>
    /\ DeliverEndpoints(o) \/ (Tombstones /\ DeliverEndpointsTombstone(o))
    /\ UNCHANGED <<svcVars, boot, changes, kills>>

ServiceStep == SvcHandler /\ UNCHANGED <<epVars, boot, changes, kills>>
EndpointsStep == EpHandler /\ UNCHANGED <<svcVars, boot, changes, kills>>

\* Everything has been delivered and handled.
Quiet ==
    /\ proc = "running" /\ boot = <<>>
    /\ svcTodo = <<>> /\ epTodo = <<>>
    /\ seenSvc = apiSvc /\ seenEp = apiEp

Done == Quiet /\ changes = MaxChanges /\ UNCHANGED nfVars

NFNext ==
    \/ \E s \in Service : ChangeService(s) \/ ServiceEvent(s)
    \/ \E o \in EpObject : ChangeEndpoints(o) \/ EndpointsEvent(o)
    \/ ServiceStep
    \/ EndpointsStep
    \/ StepBootstrap
    \/ KillProcess
    \/ RestartProcess
    \/ Done

\* A handler can take a step whenever it has work left.
SvcBusy == proc = "running" /\ svcTodo # <<>>
EpBusy == proc = "running" /\ epTodo # <<>>

\* A goroutine that can run does, informers deliver what they list and watch,
\* and the DaemonSet restarts the pod.  The first two conjuncts are the weak
\* fairness of the handlers, with SvcBusy and EpBusy for ENABLED.
Fairness ==
    /\ []<>~SvcBusy \/ []<><<ServiceStep>>_nfVars
    /\ []<>~EpBusy \/ []<><<EndpointsStep>>_nfVars
    /\ \A s \in Service : WF_nfVars(ServiceEvent(s))
    /\ \A o \in EpObject : WF_nfVars(EndpointsEvent(o))
    /\ WF_nfVars(StepBootstrap)
    /\ WF_nfVars(RestartProcess)

NFSpec == NFInit /\ [][NFNext]_nfVars /\ Fairness

(***************************************************************************)
(* Correctness: when everything is handled, the kernel does what the       *)
(* objects of the cluster ask for.                                         *)
(***************************************************************************)
\* The service ports the cluster asks for: <<name, what its object says>>.
AskedPorts ==
    UNION {{<<getSvcPortName(s, apiSvc[s].ports[i]), SpecOf(apiSvc[s], apiSvc[s].ports[i])>> :
              i \in DOMAIN apiSvc[s].ports} :
           s \in {s \in Service : apiSvc[s] # Nil /\ apiSvc[s].ip # Nil}}

\* The endpoint addresses these objects ask for behind a service port: the
\* ready ones, when they come from slices.
AddressesIn(objs, spn) ==
    UNION {{objs[o][i].addr : i \in {i \in DOMAIN objs[o] :
                objs[o][i].name = spn /\ (EndpointSlice => objs[o][i].ready)}} :
           o \in {o \in EpObject : objs[o] # Nil}}

AskedAddresses(spn) == AddressesIn(apiEp, spn)

\* The addresses new connections to the chain of a service port end up at.
ServedAddresses(spn) ==
    IF serviceMap[spn] = Nil THEN {}
    ELSE {a \in Addr : /\ JumpsTo(svcChain[spn][SvcID(serviceMap[spn])], a)
                       /\ epChain[spn][a] # Nil
                       /\ \E i \in DOMAIN epChain[spn][a] : epChain[spn][a][i].kind = "dnat"}

ElementsIn(names) == {x \in sets : x.set \in names}

\* Once all events are handled, the service ports known to the proxy are the
\* ports of the Service objects, whatever sequence of adds, renames,
\* renumberings and deletes led there.
ServicePortsAsAsked ==
    Quiet => {<<spn, SvcID(serviceMap[spn])>> : spn \in {spn \in ServicePortName : serviceMap[spn] # Nil}}
             = {<<a[1], SvcID(a[2])>> : a \in AskedPorts}

\* Once all events are handled, the cluster IP, external IP, load balancer,
\* node port and masquerade sets hold the addresses of the Service objects,
\* each leading to the chain of its service port, and nothing else.
SetsAsAsked ==
    Quiet => ElementsIn(SetNames \ {"noendpoints"})
             = UNION {Range(ServicePortElements(a[1], NewServiceInfo(a[2], FALSE))) : a \in AskedPorts}

\* Once all events are handled, exactly the addresses of the service ports
\* without endpoints are rejected (addToNoEndpointsList).
RejectsAsAsked ==
    Quiet => ElementsIn({"noendpoints"})
             = UNION {NoEndpointsElements(a[1], NewServiceInfo(a[2], FALSE)) :
                        a \in {a \in AskedPorts : AskedAddresses(a[1]) = {}}}

\* Once all events are handled, the proxy knows exactly the addresses of the
\* Endpoints objects (UpdateEndpoints removes the entries that are gone).
EndpointsAsAsked ==
    Quiet => \A spn \in ServicePortName :
                {endpointsMap[spn][i].addr : i \in DOMAIN endpointsMap[spn]} = AskedAddresses(spn)

\* Once all events are handled, a connection to a service port is sent to the
\* addresses the cluster asks for and to no other: chain, rules and DNAT of
\* every one of them are in the kernel, whichever slice they came with.
ServedAsAsked ==
    Quiet => \A a \in AskedPorts : ServedAddresses(a[1]) = AskedAddresses(a[1])

\* An update that replaces the endpoints of a service port never leaves the
\* port without any on the way: UpdateEndpoints adds before it deletes.
NeverEmptied ==
    [][\A spn \in ServicePortName :
         (/\ ServedAddresses(spn) # {} /\ ServedAddresses(spn)' = {}
          /\ serviceMap'[spn] # Nil /\ proc' = "running")
         => AddressesIn(seenEp, spn) = {}]_nfVars

\* An update of a Service never leaves it without any port on the way: "to
\* prevent traffic drop, first add updated to new Protocol:Port rules then
\* remove the old ones" (processServicePortChanges).
ServiceNeverGone ==
    [][\A s \in Service :
         (/\ \E spn \in ServicePortName : spn.svc = s /\ serviceMap[spn] # Nil
          /\ \A spn \in ServicePortName : spn.svc = s => serviceMap'[spn] = Nil
          /\ proc' = "running")
         => seenSvc[s] = Nil \/ proc # "running"]_nfVars

\* Once all events are handled, exactly the ports of the services with
\* session affinity have it.
AffinityAsAsked ==
    Quiet => \A a \in AskedPorts :
                serviceMap[a[1]] # Nil /\ (serviceMap[a[1]].withAff <=> a[2].aff # Nil)

\* Once all events are handled, the affinity maps forget a client after the
\* time the Service asks for: processAffinityChange "checks for changes in
\* Affinity and re-program new entries for all ServicePort".
TimeoutsAsAsked ==
    Quiet => \A a \in AskedPorts :
                a[2].aff # Nil => affinityMap[a[1]][SvcID(a[2])] = a[2].aff

\* Between two events of an informer the cache holds the object that was
\* handled last, so that the next update is compared with what the kernel
\* was programmed from (storeSvcInCache, removeSvcFromCache and the like).
CacheInStep ==
    proc = "running" => /\ svcTodo = <<>> => svcCache = seenSvc
                        /\ epTodo = <<>> => epCache = seenEp

\* The calls of the service handlers are those Proxy!Next allows: no address
\* of another port is claimed, the cache knows every element of a port that is
\* deleted, affinity is added only to ports without it and removed only from
\* ports with it.
ServiceCallsAllowed ==
    LET o == Head(svcTodo) IN
    /\ StepAddPort => /\ o.spn \in ServicePortName /\ o.spec \in PortSpec
                      /\ AddServicePort(o.spn, o.spec)
    /\ StepDeletePort => /\ o.spn \in ServicePortName
                         /\ DeleteServicePort(o.spn, LastKnown(o.spn.svc))
    /\ StepAddElement /\ proc' = "running" /\ o.port # 0 =>
          /\ o.spn \in ServicePortName /\ o.set \in UpdatedSets
          /\ o.ip \in AddressesOf(o.set) /\ o.port \in Port
    /\ StepAffinity => /\ Range(o.ports) \subseteq ServicePortName
                       /\ IF o.aff = Nil THEN RemoveAffinity(Range(o.ports)) ELSE AddAffinity(Range(o.ports))

\* So are those of the endpoints handlers: no endpoint is added twice, and the
\* loop of deleteEndpoint ends with its first match.
EndpointCallsAllowed ==
    LET o == Head(epTodo) IN
    /\ StepAddEndpoint => AddEndpoint(o.spn, o.addr, o.local)
    /\ StepDeleteEndpoint => DeleteEndpoint(o.spn, o.addr, o.local)

\* The handlers call the critical sections of Proxy only as Proxy!Next
\* allows, whatever sequence of events they handle and however the two
\* informers interleave.
KeepsContract == [][ServiceCallsAllowed /\ EndpointCallsAllowed]_nfVars

\* From the end of BootstrapRules on, through the informers' own adds and
\* updates of the kubernetes objects and after every restart, connections to
\* the API server's service address are balanced and never rejected.
APIServerReachable ==
    (Bootstrap # Nil /\ proc = "running" /\ boot = <<>>) =>
        \A i \in DOMAIN Bootstrap.obj.ports :
            LET spn == getSvcPortName(Bootstrap.svc, Bootstrap.obj.ports[i])
                ref == <<spn, <<Bootstrap.obj.ip, Bootstrap.obj.ports[i].port>>>>
            IN  /\ ServedAddresses(spn) # {}
                /\ Element("cluster", spn, ref[2][1], ref[2][2], ref) \in sets
                /\ Element("noendpoints", spn, ref[2][1], ref[2][2], Nil) \notin sets

\* When the cluster stops changing, the proxy comes to rest, after as many
\* crashes and restarts as it takes, and stays there.
ComesToRest == (changes = MaxChanges) ~> []Quiet
=============================================================================
