--------------------------- MODULE ServiceProofs ----------------------------
(***************************************************************************)
(* The service handlers bring the service ports and the sets in step with  *)
(* the Service objects.                                                    *)
(*                                                                         *)
(* SvcInv says that the known ports and the elements of the sets, together *)
(* with the operations the handler in progress still has to do (svcTodo),  *)
(* are what the objects delivered ask for: what is missing will be added   *)
(* (Announced, Filled), what is too much will be removed (Withdrawn,       *)
(* Accounted), and each operation is one the delivered object calls for    *)
(* (Fits), in an order in which none meets a port that is not there        *)
(* (Ordered).  AffInv says the same of the session affinity of the ports.  *)
(* It follows that the handlers keep to the contract of Proxy, or panic on *)
(* the way (ServiceCallsSurvived): NFProxyProofs takes this as hypothesis. *)
(*                                                                         *)
(* ServicesApart says what the API server, the users and cloud providers   *)
(* are to keep to.  What it rules out, the handlers do not follow: each    *)
(* case has a configuration that shows it.                                 *)
(***************************************************************************)
EXTENDS NFProxyProofs, FlattenProofs

(***************************************************************************)
(* What the cluster keeps to.                                              *)
(***************************************************************************)
\* The objects a service may have.
Versions(s) == SvcVersions[s] \ {Nil}

\* The elements a port of a Service object asks for: <<set, address, port>>.
Slots(obj, p) ==
    ({"cluster", "markmasq"} \X {obj.ip} \X {p.port})
    \cup ({"external", "markmasq"} \X Range(obj.ext) \X {p.port})
    \cup ({"loadbalancer", "markmasq"} \X Range(obj.lb) \X {p.port})
    \cup (IF p.nodePort = 0 THEN {} ELSE {<<"nodeport", Nil, p.nodePort>>})

\* A port keeps its name, protocol, number and node port, and is there once.
PortsKept(obj, other) ==
    \A i \in DOMAIN obj.ports, j \in DOMAIN other.ports :
        \/ obj.ports[i].name = other.ports[j].name
        \/ obj.ports[i].proto = other.ports[j].proto /\ obj.ports[i].port = other.ports[j].port
        => obj.ports[i] = other.ports[j] /\ (obj = other => i = j)

\* A service keeps its cluster IP; its session affinity comes and goes only if
\* its ports stay, and its ports come and go only if they have no node port; an
\* address it has is its cluster IP, an external or a load balancer address,
\* whenever it has it.
ServiceKept(obj, other) ==
    /\ obj.ip # Nil /\ obj.ip = other.ip
    /\ (obj.aff = Nil) = (other.aff = Nil) \/ obj.ports = other.ports
    /\ obj.ports = other.ports \/ \A i \in DOMAIN obj.ports : obj.ports[i].nodePort = 0
    /\ Range(obj.ext) \cap Range(other.lb) = {}
    /\ obj.ip \notin Range(other.ext) \cup Range(other.lb)

\* Where the object has this service port.
At(obj, spn) == {i \in DOMAIN obj.ports : obj.ports[i].name = spn.port /\ obj.ports[i].proto = spn.proto}
HasPort(obj, spn) == obj # Nil /\ At(obj, spn) # {}

\* The elements the object asks for, for one of its service ports.
SlotsOf(obj, spn) == IF obj = Nil THEN {} ELSE UNION {Slots(obj, obj.ports[i]) : i \in At(obj, spn)}

\* The type of a slot.
Slot == (SetNames \ {"noendpoints"}) \X (IP \cup {Nil}) \X Port

\* The elements a service port may come to ask for: its number with every
\* address its service may have.  An update that changes ports and addresses
\* removes the old addresses with the new ports.
Claims(spn) ==
    {t \in Slot : \E obj, other \in Versions(spn.svc) : \E i \in At(other, spn) : t \in Slots(obj, other.ports[i])}

\* The node ports of an object.
NodePorts(obj) == {obj.ports[i].nodePort : i \in DOMAIN obj.ports} \ {0}

\* What the API server, the users and the cloud provider keep to for all of the
\* services: ports come and go, and so do external and load balancer addresses,
\* but no two service ports claim the same element, and a node port belongs to
\* one service, whatever the protocol.
ServicesApart ==
    /\ \A s \in Service : \A obj, other \in Versions(s) : PortsKept(obj, other) /\ ServiceKept(obj, other)
    /\ \A spn, other \in ServicePortName :
          spn.proto = other.proto /\ Claims(spn) \cap Claims(other) # {} => spn = other
    /\ \A s, t \in Service : \A obj \in Versions(s), other \in Versions(t) :
          NodePorts(obj) \cap NodePorts(other) # {} => s = t

\* The IP and port that name the chain of the service port, and the element of
\* a slot, which leads to that chain.
PortID(spn) ==
    CHOOSE id \in SvcKey : \E obj \in Versions(spn.svc) : \E i \in At(obj, spn) : id = <<obj.ip, obj.ports[i].port>>
ElementAt(spn, t) ==
    Element(t[1], spn, t[2], t[3], IF t[1] = "markmasq" THEN Nil ELSE <<spn, PortID(spn)>>)
ElementsOf(obj, spn) == {ElementAt(spn, t) : t \in SlotsOf(obj, spn)}

\* The fields of a Service object.
LEMMA ObjectFields ==
    ASSUME NEW s \in Service, NEW obj \in Versions(s)
    PROVE  /\ obj \in ServiceObject /\ obj # Nil
           /\ obj.ip \in IP \cup {Nil} /\ obj.ports \in Seq(ServicePort) /\ obj.ext \in IPLists /\ obj.lb \in IPLists
           /\ obj.aff \in Timeout \cup {Nil}
           /\ Range(obj.ext) \subseteq IP /\ Range(obj.lb) \subseteq IP
<1>1. obj \in ServiceObject /\ obj # Nil
  BY NFAssumption DEF Versions
<1>2. /\ obj.ip \in IP \cup {Nil} /\ obj.ports \in Seq(ServicePort) /\ obj.ext \in IPLists /\ obj.lb \in IPLists
      /\ obj.aff \in Timeout \cup {Nil}
  BY <1>1 DEF ServiceObject
<1>3. ASSUME NEW q \in IPLists
      PROVE  Range(q) \subseteq IP
  <2>1. q \in Seq(IP)
    BY ProxyAssumption
  <2>2. \A i \in DOMAIN q : q[i] \in IP
    BY <2>1, ElementOfSeq, LenProperties
  <2> QED BY <2>2 DEF Range
<1> QED BY <1>1, <1>2, <1>3

\* The fields of one of its ports.
LEMMA PortFields ==
    ASSUME NEW s \in Service, NEW obj \in Versions(s), NEW i \in DOMAIN obj.ports
    PROVE  /\ obj.ports[i] \in ServicePort
           /\ obj.ports[i].name \in PortName /\ obj.ports[i].proto \in Protocol /\ obj.ports[i].port \in Port
           /\ obj.ports[i].nodePort \in Port \cup {0}
           /\ getSvcPortName(s, obj.ports[i]) \in ServicePortName
           /\ i \in At(obj, getSvcPortName(s, obj.ports[i])) /\ getSvcPortName(s, obj.ports[i]).svc = s
<1>1. obj.ports \in Seq(ServicePort)
  BY ObjectFields
<1>2. obj.ports[i] \in ServicePort
  BY <1>1, ElementOfSeq, LenProperties
<1> QED BY <1>2 DEF ServicePort, getSvcPortName, ServicePortName, At

\* A service port is the one at its place.
LEMMA NameAt ==
    ASSUME NEW s \in Service, NEW obj, NEW spn \in ServicePortName, spn.svc = s, NEW i \in At(obj, spn)
    PROVE  getSvcPortName(s, obj.ports[i]) = spn /\ i \in DOMAIN obj.ports
BY DEF At, getSvcPortName, ServicePortName

\* The names of the ports of an object.
LEMMA PortNamesTyped ==
    ASSUME NEW s \in Service, NEW obj \in Versions(s)
    PROVE  /\ PortNames(s, obj) \in Seq(ServicePortName)
           /\ \A spn \in Range(PortNames(s, obj)) : spn \in ServicePortName /\ spn.svc = s /\ HasPort(obj, spn)
<1> DEFINE ports == PortNames(s, obj)
<1>1. obj.ports \in Seq(ServicePort) /\ obj # Nil
  BY ObjectFields
<1>2. Len(obj.ports) \in Nat /\ DOMAIN obj.ports = 1..Len(obj.ports)
  BY <1>1, LenProperties
<1>3. ASSUME NEW i \in DOMAIN obj.ports
      PROVE  /\ getSvcPortName(s, obj.ports[i]) \in ServicePortName /\ getSvcPortName(s, obj.ports[i]).svc = s
             /\ HasPort(obj, getSvcPortName(s, obj.ports[i]))
  BY <1>1, PortFields DEF HasPort
<1>4. ports = [i \in DOMAIN obj.ports |-> getSvcPortName(s, obj.ports[i])]
  BY DEF PortNames
<1> HIDE DEF ports
<1>5. ports \in Seq(ServicePortName)
  BY <1>2, <1>3, <1>4, SeqDef
<1> QED BY <1>3, <1>4, <1>5 DEF Range, ports

\* The type of a slot.
LEMMA SlotsTyped ==
    ASSUME ServicesApart, NEW s \in Service, NEW obj \in Versions(s), NEW i \in DOMAIN obj.ports
    PROVE  Slots(obj, obj.ports[i]) \subseteq Slot
<1>1. obj.ip \in IP
  BY ObjectFields DEF ServicesApart, ServiceKept
<1> QED BY <1>1, ObjectFields, PortFields DEF Slots, Slot, SetNames

\* A service port has one place, and its chain is named after the cluster IP
\* and the port there, in every object of its service.
LEMMA PortIDOf ==
    ASSUME ServicesApart, NEW spn \in ServicePortName, NEW obj \in Versions(spn.svc), NEW i \in At(obj, spn)
    PROVE  /\ PortID(spn) = <<obj.ip, obj.ports[i].port>> /\ PortID(spn) \in SvcKey
           /\ SlotsOf(obj, spn) = Slots(obj, obj.ports[i]) /\ HasPort(obj, spn)
           /\ \A j \in At(obj, spn) : j = i
<1>0. spn.svc \in Service /\ i \in DOMAIN obj.ports
  BY DEF ServicePortName, At
<1>1. obj.ip \in IP /\ obj.ports[i].port \in Port /\ obj # Nil
  BY <1>0, ObjectFields, PortFields DEF ServicesApart, ServiceKept
<1>2. ASSUME NEW other \in Versions(spn.svc), NEW j \in At(other, spn)
      PROVE  <<other.ip, other.ports[j].port>> = <<obj.ip, obj.ports[i].port>>
  <2>1. PortsKept(obj, other) /\ ServiceKept(obj, other)
    BY <1>0 DEF ServicesApart
  <2>2. obj.ports[i].name = other.ports[j].name /\ j \in DOMAIN other.ports
    BY DEF At
  <2>3. obj.ports[i] = other.ports[j]
    BY <1>0, <2>1, <2>2 DEF PortsKept
  <2> QED BY <2>1, <2>3 DEF ServiceKept
<1>3. ASSUME NEW j \in At(obj, spn)
      PROVE  j = i
  <2>1. PortsKept(obj, obj)
    BY <1>0 DEF ServicesApart
  <2>2. obj.ports[i].name = obj.ports[j].name /\ j \in DOMAIN obj.ports
    BY DEF At
  <2> QED BY <1>0, <2>1, <2>2 DEF PortsKept
<1>4. At(obj, spn) = {i}
  BY <1>3
<1>5. <<obj.ip, obj.ports[i].port>> \in SvcKey
  BY <1>1 DEF SvcKey
<1>6. PortID(spn) = <<obj.ip, obj.ports[i].port>>
  BY <1>2, <1>5 DEF PortID
<1>7. SlotsOf(obj, spn) = Slots(obj, obj.ports[i]) /\ HasPort(obj, spn)
  BY <1>1, <1>4 DEF SlotsOf, HasPort
<1> QED BY <1>3, <1>5, <1>6, <1>7

\* What an object asks for is what its service ports may ask for.
LEMMA SlotsClaimed ==
    ASSUME ServicesApart, NEW spn \in ServicePortName, NEW obj \in Versions(spn.svc)
    PROVE  SlotsOf(obj, spn) \subseteq Claims(spn)
<1>1. spn.svc \in Service
  BY DEF ServicePortName
<1>2. ASSUME NEW t \in SlotsOf(obj, spn)
      PROVE  t \in Claims(spn)
  <2>1. PICK i \in At(obj, spn) : t \in Slots(obj, obj.ports[i])
    BY DEF SlotsOf
  <2>2. i \in DOMAIN obj.ports
    BY DEF At
  <2>3. t \in Slot
    BY <1>1, <2>1, <2>2, SlotsTyped
  <2> QED BY <2>1, <2>3 DEF Claims
<1> QED BY <1>2

\* An object has slots for its own ports only.
LEMMA SlotsOfPorts ==
    ASSUME NEW obj, NEW spn, NEW t \in SlotsOf(obj, spn)
    PROVE  HasPort(obj, spn)
BY DEF SlotsOf, HasPort

\* The fields of an element.
LEMMA ElementFields ==
    ASSUME NEW spn, NEW t
    PROVE  /\ ElementAt(spn, t).set = t[1] /\ ElementAt(spn, t).key = <<spn.proto, t[2], t[3]>>
           /\ ElementAt(spn, t).to = IF t[1] = "markmasq" THEN Nil ELSE <<spn, PortID(spn)>>
BY DEF ElementAt, Element

\* A slot has three fields.
LEMMA SlotFields ==
    ASSUME NEW t \in Slot
    PROVE  /\ t = <<t[1], t[2], t[3]>> /\ t[1] \in SetNames \ {"noendpoints"} /\ t[2] \in IP \cup {Nil}
           /\ t[3] \in Port
BY DEF Slot

\* A set and a key are claimed once.
LEMMA ClaimsApart ==
    ASSUME ServicesApart, NEW spn \in ServicePortName, NEW other \in ServicePortName,
           NEW t \in Claims(spn), NEW u \in Claims(other),
           t[1] = u[1], <<spn.proto, t[2], t[3]>> = <<other.proto, u[2], u[3]>>
    PROVE  spn = other /\ t = u
<1>1. t \in Slot /\ u \in Slot
  BY DEF Claims
<1>2. spn.proto = other.proto /\ t[2] = u[2] /\ t[3] = u[3]
  OBVIOUS
<1>3. t = u
  BY <1>1, <1>2, SlotFields
<1> QED BY <1>2, <1>3 DEF ServicesApart

(***************************************************************************)
(* The inductive invariant of the service side.                            *)
(***************************************************************************)
\* What an operation of a service handler may be.
ServiceOp ==
         [op : {"addPort"}, spn : ServicePortName, spec : PortSpec]
    \cup [op : {"deletePort"}, spn : ServicePortName]
    \cup [op : {"changePort"}, svc : Service, new : ServiceObject, i : Nat, stored : ServiceObject]
    \cup [op : {"addElement", "removeElement"}, spn : ServicePortName, set : SetNames, ip : IP \cup {Nil}, port : Port]
    \cup [op : {"affinity"}, ports : Seq(ServicePortName), aff : Timeout \cup {Nil}]
    \cup [op : {"store"}, svc : Service, obj : ServiceObject \cup {Nil}]

\* The operations that may add a service port, and those on one element.
IsAdding(x) == x.op \in {"addPort", "changePort"}
IsElement(x) == x.op \in {"addElement", "removeElement"}

OpPort(x) == IF x.op = "changePort" THEN getSvcPortName(x.svc, x.new.ports[x.i]) ELSE x.spn
OpSlot(x) == <<x.set, x.ip, x.port>>

\* The ports are added before others are deleted and before their elements change,
\* each is added once, their affinity changes once, and the object is stored last.
MayPrecede(x, y) ==
    /\ x.op # "store"
    /\ IsElement(x) \/ x.op = "deletePort" => ~IsAdding(y)
    /\ IsAdding(x) /\ IsAdding(y) => OpPort(x) # OpPort(y)
    /\ ~(x.op = "affinity" /\ y.op = "affinity")
Ordered(ops) == \A k, l \in DOMAIN ops : k < l => MayPrecede(ops[k], ops[l])

\* Every operation is called for by the object delivered last: K are the known
\* service ports, seen the delivered objects and cache the stored ones.
Fits(x, seen, cache, K) ==
    /\ x.op = "addPort" =>
          LET obj == seen[x.spn.svc] IN
          x.spn \notin K /\ obj # Nil /\ \E i \in At(obj, x.spn) : x.spec = SpecOf(obj, obj.ports[i])
    /\ x.op = "changePort" =>
          /\ x.new = seen[x.svc] /\ x.stored = cache[x.svc] /\ x.new # Nil /\ x.stored # Nil
          /\ x.i \in DOMAIN x.new.ports
          /\ OpPort(x) \in K <=> HasPort(x.stored, OpPort(x))
    /\ x.op = "deletePort" => ~HasPort(seen[x.spn.svc], x.spn) /\ HasPort(cache[x.spn.svc], x.spn)
    /\ x.op = "addElement" => OpSlot(x) \in SlotsOf(seen[x.spn.svc], x.spn)
    /\ x.op = "removeElement" =>
          HasPort(seen[x.spn.svc], x.spn) /\ OpSlot(x) \in Claims(x.spn) \ SlotsOf(seen[x.spn.svc], x.spn)
    /\ x.op = "affinity" => \A spn \in Range(x.ports) :
          /\ spn \in K /\ HasPort(seen[spn.svc], spn) /\ cache[spn.svc] # Nil
          /\ x.aff = seen[spn.svc].aff /\ (x.aff = Nil) # (cache[spn.svc].aff = Nil)
    /\ x.op = "store" => x.obj = seen[x.svc]
AllFit(W, seen, cache, K) == \A x \in W : Fits(x, seen, cache, K)

\* The stored objects are, or will be when the work W is done, the delivered ones.
CacheNext(W, seen, cache) == \A s \in Service : cache[s] = seen[s] \/ StoreOp(s, seen[s]) \in W

\* A port that is asked for is known or will be, and its elements are in the
\* sets or will be; a known port that is not asked for will be deleted.
Announced(W, seen, K) ==
    \A spn \in ServicePortName : HasPort(seen[spn.svc], spn) /\ spn \notin K =>
        \E x \in W : IsAdding(x) /\ OpPort(x) = spn
Filled(W, seen, K, E) ==
    \A spn \in K : \A t \in SlotsOf(seen[spn.svc], spn) :
        ElementAt(spn, t) \in E \/ AddElementOp(spn, t[1], t[2], t[3]) \in W
Withdrawn(W, seen, K) ==
    \A spn \in K : HasPort(seen[spn.svc], spn) \/ DeletePortOp(spn) \in W

\* Every element E of the sets is that of a known port and is asked for, or the
\* stored object knows it and it will be removed, with its port or alone.
Leaving(spn, t, W, seen, cache) ==
    /\ t \in SlotsOf(cache[spn.svc], spn)
    /\ HasPort(seen[spn.svc], spn) => RemoveElementOp(spn, t[1], t[2], t[3]) \in W
Accounted(x, W, seen, cache, K) ==
    \E spn \in K : \E t \in Claims(spn) :
        x = ElementAt(spn, t) /\ (t \in SlotsOf(seen[spn.svc], spn) \/ Leaving(spn, t, W, seen, cache))
AllAccounted(W, seen, cache, K, E) == \A x \in E : Accounted(x, W, seen, cache, K)

\* The work in hand.
Working(ops, seen, cache, K, E) ==
    /\ ops \in Seq(ServiceOp) /\ Ordered(ops)
    /\ AllFit(Range(ops), seen, cache, K) /\ CacheNext(Range(ops), seen, cache)
    /\ Announced(Range(ops), seen, K) /\ Filled(Range(ops), seen, K, E) /\ Withdrawn(Range(ops), seen, K)
    /\ AllAccounted(Range(ops), seen, cache, K, E)

\* The service ports the proxy knows, and the elements that are looked after one
\* by one: all but those of the no-endpoints set.
KnownPorts == {spn \in ServicePortName : serviceMap[spn] # Nil}
Others(elements) == {x \in elements : x.set # "noendpoints"}
Elements == Others(sets)

\* The record of a known port says what its objects say, and the elements of the
\* no-endpoints set lead nowhere.
RecordedAs(spn, svc) ==
    /\ SvcID(svc) = PortID(spn)
    /\ \E obj \in Versions(spn.svc) : HasPort(obj, spn) /\ svc.ext = obj.ext /\ svc.lb = obj.lb
RejectsNowhere(elements) == \A x \in elements : x.set = "noendpoints" => x.to = Nil
Recorded ==
    /\ \A spn \in KnownPorts : RecordedAs(spn, serviceMap[spn])
    /\ RejectsNowhere(sets)

\* The objects of the cluster, as far as they are seen or stored.
SvcTyped(objs) ==
    /\ objs \in [Service -> ServiceObject \cup {Nil}]
    /\ \A s \in Service : objs[s] \in Versions(s) \cup {Nil}

\* The inductive invariant: while the process runs, the known ports and their
\* elements together with the work in hand are what the delivered objects ask
\* for.
SvcInv ==
    /\ SvcTyped(apiSvc) /\ SvcTyped(seenSvc) /\ SvcTyped(svcCache)
    /\ proc = "running" => Working(svcTodo, seenSvc, svcCache, KnownPorts, Elements) /\ Recorded

\* And a known port that is asked for has session affinity if the object asks
\* for it; until processAffinityChange is done, if the stored one does.
AffinityDue(spn, W) == \E x \in W : x.op = "affinity" /\ spn \in Range(x.ports)
StickyAs(spn, svc, W, seen, cache) ==
    HasPort(seen[spn.svc], spn) =>
        (HasAff(svc) <=> IF AffinityDue(spn, W) THEN cache[spn.svc].aff # Nil ELSE seen[spn.svc].aff # Nil)
AffInv ==
    proc = "running" =>
        \A spn \in KnownPorts : StickyAs(spn, serviceMap[spn], Range(svcTodo), seenSvc, svcCache)

(***************************************************************************)
(* The order of the work.                                                  *)
(***************************************************************************)
\* The fields of an operation.
LEMMA ServiceOpFields ==
    ASSUME NEW x \in ServiceOp
    PROVE  /\ x.op \in {"addPort", "deletePort", "changePort", "addElement", "removeElement", "affinity", "store"}
           /\ x.op \in {"addPort", "deletePort", "addElement", "removeElement"} => x.spn \in ServicePortName
           /\ x.op = "addPort" => x.spec \in PortSpec
           /\ x.op \in {"changePort", "store"} => x.svc \in Service
           /\ x.op = "changePort" => x.new \in ServiceObject /\ x.stored \in ServiceObject /\ x.i \in Nat
           /\ x.op = "affinity" => x.ports \in Seq(ServicePortName) /\ x.aff \in Timeout \cup {Nil}
           /\ x.op = "store" => x.obj \in ServiceObject \cup {Nil}
           /\ IsElement(x) => x.set \in SetNames /\ x.ip \in IP \cup {Nil} /\ x.port \in Port
BY DEF ServiceOp, IsElement

\* The first operation and the others.
LEMMA RangeHeadTail ==
    ASSUME NEW S, NEW ops \in Seq(S), ops # <<>>
    PROVE  /\ Head(ops) \in S /\ Tail(ops) \in Seq(S) /\ Range(ops) = {Head(ops)} \cup Range(Tail(ops))
           /\ DOMAIN ops = 1..Len(ops) /\ Len(ops) \in Nat /\ 1 \in DOMAIN ops /\ ops[1] = Head(ops)
           /\ \A k \in DOMAIN Tail(ops) : k \in Nat /\ k > 0 /\ k + 1 \in DOMAIN ops /\ Tail(ops)[k] = ops[k + 1]
           /\ DOMAIN Tail(ops) = 1..Len(Tail(ops)) /\ Len(Tail(ops)) = Len(ops) - 1
<1> DEFINE t == Tail(ops)
<1>1. /\ Len(ops) \in Nat /\ Len(ops) > 0 /\ DOMAIN ops = 1..Len(ops) /\ Head(ops) = ops[1]
      /\ t \in Seq(S) /\ Len(t) = Len(ops) - 1 /\ DOMAIN t = 1..Len(t) /\ Head(ops) \in S
  BY HeadTailProperties, LenProperties, EmptySeq
<1>2. \A k \in 1..Len(t) : t[k] = ops[k + 1]
  BY <1>1, HeadTailProperties
<1> HIDE DEF t
<1>3. 1 \in DOMAIN ops /\ \A k \in DOMAIN t : k \in Nat /\ k > 0 /\ k + 1 \in DOMAIN ops
  BY <1>1
<1>4. ASSUME NEW k \in DOMAIN ops, k # 1
      PROVE  k - 1 \in DOMAIN t /\ t[k - 1] = ops[k]
  <2>1. k - 1 \in 1..Len(t) /\ (k - 1) + 1 = k
    BY <1>1, <1>4
  <2> QED BY <1>1, <1>2, <2>1
<1>5. Range(ops) = {Head(ops)} \cup Range(t)
  <2>1. ASSUME NEW k \in DOMAIN ops PROVE ops[k] \in {Head(ops)} \cup Range(t)
    BY <1>1, <1>4 DEF Range
  <2>2. ASSUME NEW k \in DOMAIN t PROVE t[k] \in Range(ops)
    BY <1>1, <1>2, <1>3 DEF Range
  <2>3. Head(ops) \in Range(ops)
    BY <1>1, <1>3 DEF Range
  <2> QED BY <2>1, <2>2, <2>3 DEF Range
<1> QED BY <1>1, <1>2, <1>3, <1>5 DEF t

\* The order is that of the operations that are left.
LEMMA OrderedTail ==
    ASSUME NEW S, NEW ops \in Seq(S), ops # <<>>, Ordered(ops)
    PROVE  Ordered(Tail(ops)) /\ \A y \in Range(Tail(ops)) : MayPrecede(Head(ops), y)
<1> DEFINE t == Tail(ops)
<1>1. /\ 1 \in DOMAIN ops /\ ops[1] = Head(ops)
      /\ \A k \in DOMAIN t : k \in Nat /\ k > 0 /\ k + 1 \in DOMAIN ops /\ t[k] = ops[k + 1]
  BY RangeHeadTail
<1> HIDE DEF t
<1>2. ASSUME NEW k \in DOMAIN t, NEW l \in DOMAIN t, k < l
      PROVE  MayPrecede(t[k], t[l])
  <2>1. k + 1 \in DOMAIN ops /\ l + 1 \in DOMAIN ops /\ k + 1 < l + 1 /\ t[k] = ops[k + 1] /\ t[l] = ops[l + 1]
    BY <1>1, <1>2
  <2> QED BY <2>1 DEF Ordered
<1>3. ASSUME NEW l \in DOMAIN t
      PROVE  MayPrecede(Head(ops), t[l])
  <2>1. l + 1 \in DOMAIN ops /\ 1 < l + 1 /\ t[l] = ops[l + 1]
    BY <1>1
  <2> QED BY <1>1, <2>1 DEF Ordered
<1>4. Ordered(t)
  BY <1>2 DEF Ordered
<1>5. \A y \in Range(t) : MayPrecede(Head(ops), y)
  BY <1>3 DEF Range
<1> QED BY <1>4, <1>5 DEF t

\* One part of the work after another.
LEMMA OrderedConcat ==
    ASSUME NEW S, NEW a \in Seq(S), NEW b \in Seq(S), Ordered(a), Ordered(b),
           \A x \in Range(a), y \in Range(b) : MayPrecede(x, y)
    PROVE  a \o b \in Seq(S) /\ Ordered(a \o b) /\ Range(a \o b) = Range(a) \cup Range(b)
<1> DEFINE c == a \o b
<1>1. /\ c \in Seq(S) /\ DOMAIN c = 1..(Len(a) + Len(b)) /\ DOMAIN a = 1..Len(a) /\ DOMAIN b = 1..Len(b)
      /\ Len(a) \in Nat /\ Len(b) \in Nat
  OBVIOUS
<1>2. \A k \in 1..(Len(a) + Len(b)) : c[k] = IF k <= Len(a) THEN a[k] ELSE b[k - Len(a)]
  OBVIOUS
<1>3. Range(c) = Range(a) \cup Range(b)
  BY RangeConcat
<1> HIDE DEF c
<1>4. ASSUME NEW k \in DOMAIN c, NEW l \in DOMAIN c, k < l
      PROVE  MayPrecede(c[k], c[l])
  <2>1. CASE l <= Len(a)
    <3>1. k \in DOMAIN a /\ l \in DOMAIN a /\ c[k] = a[k] /\ c[l] = a[l]
      BY <1>1, <1>2, <1>4, <2>1
    <3> QED BY <1>4, <3>1 DEF Ordered
  <2>2. CASE k <= Len(a) /\ ~(l <= Len(a))
    <3>1. k \in DOMAIN a /\ l - Len(a) \in DOMAIN b /\ c[k] = a[k] /\ c[l] = b[l - Len(a)]
      BY <1>1, <1>2, <1>4, <2>2
    <3>2. c[k] \in Range(a) /\ c[l] \in Range(b)
      BY <3>1 DEF Range
    <3> QED BY <3>2
  <2>3. CASE ~(k <= Len(a))
    <3>1. /\ k - Len(a) \in DOMAIN b /\ l - Len(a) \in DOMAIN b /\ k - Len(a) < l - Len(a)
          /\ c[k] = b[k - Len(a)] /\ c[l] = b[l - Len(a)]
      BY <1>1, <1>2, <1>4, <2>3
    <3> QED BY <3>1 DEF Ordered
  <2> QED BY <1>1, <1>4, <2>1, <2>2, <2>3
<1> QED BY <1>1, <1>3, <1>4 DEF Ordered, c

\* Operations that may come in any order.
LEMMA AnyOrder ==
    ASSUME NEW ops, \A x, y \in Range(ops) : MayPrecede(x, y)
    PROVE  Ordered(ops)
BY DEF Ordered, Range

(***************************************************************************)
(* The steps of the work.                                                  *)
(***************************************************************************)
\* What the objects at hand ask for may be asked for.
LEMMA ObjectsClaim ==
    ASSUME ServicesApart, NEW objs, SvcTyped(objs), NEW spn \in ServicePortName
    PROVE  /\ objs[spn.svc] \in Versions(spn.svc) \cup {Nil}
           /\ SlotsOf(objs[spn.svc], spn) \subseteq Claims(spn)
           /\ \A t \in SlotsOf(objs[spn.svc], spn) : HasPort(objs[spn.svc], spn)
<1>1. spn.svc \in Service
  BY DEF ServicePortName
<1>2. objs[spn.svc] \in Versions(spn.svc) \cup {Nil}
  BY <1>1 DEF SvcTyped
<1>3. objs[spn.svc] = Nil => SlotsOf(objs[spn.svc], spn) = {}
  BY DEF SlotsOf
<1> QED BY <1>2, <1>3, SlotsClaimed, SlotsOfPorts

\* The element with the set and the key of a slot is that of the slot.
LEMMA OneElement ==
    ASSUME ServicesApart, NEW W, NEW seen, NEW cache, NEW K \in SUBSET ServicePortName, NEW X,
           AllAccounted(W, seen, cache, K, X), NEW spn \in ServicePortName, NEW t \in Claims(spn),
           NEW x \in X, x.set = t[1], x.key = <<spn.proto, t[2], t[3]>>
    PROVE  x = ElementAt(spn, t) /\ spn \in K
<1>0. PICK s \in K : \E u \in Claims(s) : x = ElementAt(s, u)
  BY DEF AllAccounted, Accounted
<1>1. PICK u \in Claims(s) : x = ElementAt(s, u)
  BY <1>0
<1>2. u[1] = t[1] /\ <<s.proto, u[2], u[3]>> = <<spn.proto, t[2], t[3]>>
  BY <1>1, ElementFields
<1>3. s = spn /\ u = t
  BY <1>2, ClaimsApart
<1> QED BY <1>1, <1>3

\* Other service ports come and go.
LEMMA StillFits ==
    ASSUME NEW x, NEW seen, NEW cache, NEW K, NEW L, Fits(x, seen, cache, K),
           x.op = "addPort" => x.spn \notin L,
           x.op = "changePort" => (OpPort(x) \in K <=> OpPort(x) \in L),
           x.op = "affinity" => \A spn \in Range(x.ports) : spn \in L
    PROVE  Fits(x, seen, cache, L)
BY DEF Fits

\* The service port at the head of the work is added, with its elements.
LEMMA AddPortWork ==
    ASSUME ServicesApart, NEW seen, NEW cache, SvcTyped(seen), NEW K \in SUBSET ServicePortName, NEW X,
           NEW ops, Working(ops, seen, cache, K, X), ops # <<>>, NEW x, x = Head(ops), x.op = "addPort"
    PROVE  Working(Tail(ops), seen, cache, K \cup {x.spn},
                   X \cup ElementsOf(seen[x.spn.svc], x.spn))
<1> DEFINE W == Range(ops)
           V == Range(Tail(ops))
           spn == x.spn
           new == {ElementAt(spn, t) : t \in SlotsOf(seen[spn.svc], spn)}
           L == K \cup {spn}
           Y == X \cup new
<1>1. ops \in Seq(ServiceOp) /\ Ordered(ops)
  BY DEF Working
<1>2. Tail(ops) \in Seq(ServiceOp) /\ x \in ServiceOp /\ W = {x} \cup V
  BY <1>1, RangeHeadTail
<1>3. Ordered(Tail(ops)) /\ \A y \in V : MayPrecede(x, y)
  BY <1>1, OrderedTail
<1>4. spn \in ServicePortName
  BY <1>2, ServiceOpFields
<1>5. Fits(x, seen, cache, K) /\ \A y \in V : Fits(y, seen, cache, K)
  BY <1>2 DEF Working, AllFit
<1>6. /\ CacheNext(W, seen, cache) /\ Announced(W, seen, K) /\ Filled(W, seen, K, X)
      /\ Withdrawn(W, seen, K) /\ AllAccounted(W, seen, cache, K, X)
  BY DEF Working
<1>7. HasPort(seen[spn.svc], spn) /\ spn \notin K /\ SlotsOf(seen[spn.svc], spn) \subseteq Claims(spn)
  <2>1. spn \notin K /\ seen[spn.svc] # Nil /\ At(seen[spn.svc], spn) # {}
    BY <1>5 DEF Fits
  <2> QED BY <1>4, <2>1, ObjectsClaim DEF HasPort
<1>8. \A y \in V : IsAdding(y) => OpPort(y) # spn
  BY <1>3 DEF MayPrecede, IsAdding, OpPort
<1> HIDE DEF W, V
<1>9. ASSUME NEW y \in V
      PROVE  Fits(y, seen, cache, L)
  <2>1. Fits(y, seen, cache, K)
    BY <1>5
  <2>2. y.op = "addPort" => y.spn \notin L
    BY <1>8, <2>1 DEF Fits, IsAdding, OpPort
  <2>3. y.op = "changePort" => (OpPort(y) \in K <=> OpPort(y) \in L)
    BY <1>8 DEF IsAdding
  <2>4. y.op = "affinity" => \A s \in Range(y.ports) : s \in L
    BY <2>1 DEF Fits
  <2> QED BY <2>1, <2>2, <2>3, <2>4, StillFits
<1>10. CacheNext(V, seen, cache)
  BY <1>2, <1>6 DEF CacheNext, StoreOp
<1>11. Announced(V, seen, L)
  <2>1. ASSUME NEW s \in ServicePortName, HasPort(seen[s.svc], s), s \notin L
        PROVE  \E y \in V : IsAdding(y) /\ OpPort(y) = s
    <3>1. PICK y \in W : IsAdding(y) /\ OpPort(y) = s
      BY <1>6, <2>1 DEF Announced
    <3>2. y # x
      BY <2>1, <3>1 DEF OpPort
    <3> QED BY <1>2, <3>1, <3>2
  <2> QED BY <2>1 DEF Announced
<1>12. Filled(V, seen, L, Y)
  <2>1. ASSUME NEW s \in L, NEW t \in SlotsOf(seen[s.svc], s)
        PROVE  ElementAt(s, t) \in Y \/ AddElementOp(s, t[1], t[2], t[3]) \in V
    <3>1. CASE s = spn
      BY <3>1
    <3>2. CASE s # spn
      <4>1. ElementAt(s, t) \in X \/ AddElementOp(s, t[1], t[2], t[3]) \in W
        BY <1>6, <3>2 DEF Filled
      <4>2. AddElementOp(s, t[1], t[2], t[3]) # x
        BY DEF AddElementOp
      <4> QED BY <1>2, <4>1, <4>2
    <3> QED BY <3>1, <3>2
  <2> QED BY <2>1 DEF Filled
<1>13. Withdrawn(V, seen, L)
  <2>1. ASSUME NEW s \in L
        PROVE  HasPort(seen[s.svc], s) \/ DeletePortOp(s) \in V
    BY <1>2, <1>6, <1>7 DEF Withdrawn, DeletePortOp
  <2> QED BY <2>1 DEF Withdrawn
<1>14. AllAccounted(V, seen, cache, L, Y)
  <2>1. ASSUME NEW e \in X
        PROVE  Accounted(e, V, seen, cache, L)
    <3>0. PICK s \in K : \E t \in Claims(s) :
            e = ElementAt(s, t) /\ (t \in SlotsOf(seen[s.svc], s) \/ Leaving(s, t, W, seen, cache))
      BY <1>6 DEF AllAccounted, Accounted
    <3>1. PICK t \in Claims(s) :
            e = ElementAt(s, t) /\ (t \in SlotsOf(seen[s.svc], s) \/ Leaving(s, t, W, seen, cache))
      BY <3>0
    <3>2. Leaving(s, t, W, seen, cache) => Leaving(s, t, V, seen, cache)
      BY <1>2 DEF Leaving, RemoveElementOp
    <3> QED BY <3>1, <3>2 DEF Accounted
  <2>2. ASSUME NEW t \in SlotsOf(seen[spn.svc], spn)
        PROVE  Accounted(ElementAt(spn, t), V, seen, cache, L)
    BY <1>7 DEF Accounted
  <2> QED BY <2>1, <2>2 DEF AllAccounted
<1> HIDE DEF L, Y
<1>15. Working(Tail(ops), seen, cache, L, Y)
  BY <1>2, <1>3, <1>9, <1>10, <1>11, <1>12, <1>13, <1>14 DEF Working, AllFit, V
<1> QED BY <1>15 DEF L, Y, ElementsOf

\* An element is that of one slot.
LEMMA SameElement ==
    ASSUME ServicesApart, NEW spn \in ServicePortName, NEW other \in ServicePortName,
           NEW t \in Claims(spn), NEW u \in Claims(other), ElementAt(spn, t) = ElementAt(other, u)
    PROVE  spn = other /\ t = u
<1>1. ElementAt(spn, t).set = t[1] /\ ElementAt(spn, t).key = <<spn.proto, t[2], t[3]>>
  BY ElementFields
<1>2. ElementAt(other, u).set = u[1] /\ ElementAt(other, u).key = <<other.proto, u[2], u[3]>>
  BY ElementFields
<1>3. t[1] = u[1] /\ <<spn.proto, t[2], t[3]>> = <<other.proto, u[2], u[3]>>
  BY <1>1, <1>2
<1> QED BY <1>3, ClaimsApart

\* What is known of the work in hand and of its first operation.
LEMMA WorkParts ==
    ASSUME NEW seen, NEW cache, NEW K, NEW X, NEW ops, Working(ops, seen, cache, K, X), ops # <<>>
    PROVE  /\ Tail(ops) \in Seq(ServiceOp) /\ Head(ops) \in ServiceOp
           /\ Range(ops) = {Head(ops)} \cup Range(Tail(ops)) /\ Ordered(Tail(ops))
           /\ \A y \in Range(Tail(ops)) : MayPrecede(Head(ops), y)
           /\ Fits(Head(ops), seen, cache, K) /\ \A y \in Range(Tail(ops)) : Fits(y, seen, cache, K)
           /\ CacheNext(Range(ops), seen, cache) /\ Announced(Range(ops), seen, K)
           /\ Filled(Range(ops), seen, K, X) /\ Withdrawn(Range(ops), seen, K)
           /\ AllAccounted(Range(ops), seen, cache, K, X)
<1>1. ops \in Seq(ServiceOp) /\ Ordered(ops)
  BY DEF Working
<1>2. Tail(ops) \in Seq(ServiceOp) /\ Head(ops) \in ServiceOp /\ Range(ops) = {Head(ops)} \cup Range(Tail(ops))
  BY <1>1, RangeHeadTail
<1>3. Ordered(Tail(ops)) /\ \A y \in Range(Tail(ops)) : MayPrecede(Head(ops), y)
  BY <1>1, OrderedTail
<1>4. Fits(Head(ops), seen, cache, K) /\ \A y \in Range(Tail(ops)) : Fits(y, seen, cache, K)
  BY <1>2 DEF Working, AllFit
<1>5. /\ CacheNext(Range(ops), seen, cache) /\ Announced(Range(ops), seen, K)
      /\ Filled(Range(ops), seen, K, X) /\ Withdrawn(Range(ops), seen, K)
      /\ AllAccounted(Range(ops), seen, cache, K, X)
  BY DEF Working
<1> QED BY <1>2, <1>3, <1>4, <1>5

\* What is left of a set of operations that one of them is taken from.
LEMMA WithoutOp ==
    ASSUME NEW seen, NEW cache, NEW K, NEW W, NEW V, NEW x, W = {x} \cup V
    PROVE  /\ x.op # "store" /\ CacheNext(W, seen, cache) => CacheNext(V, seen, cache)
           /\ ~IsAdding(x) /\ Announced(W, seen, K) => Announced(V, seen, K)
           /\ x.op # "deletePort" /\ Withdrawn(W, seen, K) => Withdrawn(V, seen, K)
<1>1. x.op # "store" /\ CacheNext(W, seen, cache) => CacheNext(V, seen, cache)
  BY DEF CacheNext, StoreOp
<1>2. ~IsAdding(x) /\ Announced(W, seen, K) => Announced(V, seen, K)
  BY DEF Announced
<1>3. x.op # "deletePort" /\ Withdrawn(W, seen, K) => Withdrawn(V, seen, K)
  <2>1. x.op # "deletePort" => \A s : DeletePortOp(s) # x
    BY DEF DeletePortOp
  <2> QED BY <2>1 DEF Withdrawn
<1> QED BY <1>1, <1>2, <1>3

\* An element of a service port that is asked for is at the head of the work:
\* the port is known by then.
LEMMA ElementPortKnown ==
    ASSUME ServicesApart, NEW seen, NEW cache, SvcTyped(seen), NEW K \in SUBSET ServicePortName, NEW X,
           NEW ops, Working(ops, seen, cache, K, X), ops # <<>>, NEW x, x = Head(ops), IsElement(x)
    PROVE  /\ x.spn \in K /\ x.spn \in ServicePortName /\ OpSlot(x) \in Claims(x.spn)
           /\ HasPort(seen[x.spn.svc], x.spn)
           /\ x.op = "addElement" => OpSlot(x) \in SlotsOf(seen[x.spn.svc], x.spn)
           /\ x.op = "removeElement" => OpSlot(x) \notin SlotsOf(seen[x.spn.svc], x.spn)
<1> DEFINE V == Range(Tail(ops))
           spn == x.spn
<1>1. /\ x \in ServiceOp /\ Range(ops) = {x} \cup V /\ \A y \in V : MayPrecede(x, y)
      /\ Fits(x, seen, cache, K) /\ Announced(Range(ops), seen, K)
  BY WorkParts
<1>2. x.op \in {"addElement", "removeElement"} /\ spn \in ServicePortName
  BY <1>1, ServiceOpFields DEF IsElement
<1> HIDE DEF V
<1>3. CASE x.op = "addElement"
  <2>1. OpSlot(x) \in SlotsOf(seen[spn.svc], spn)
    BY <1>1, <1>3 DEF Fits
  <2>2. HasPort(seen[spn.svc], spn) /\ OpSlot(x) \in Claims(spn)
    BY <1>2, <2>1, ObjectsClaim
  <2>3. spn \in K
    BY <1>1, <1>2, <2>2 DEF Announced, MayPrecede, IsAdding, IsElement
  <2> QED BY <1>2, <1>3, <2>1, <2>2, <2>3
<1>4. CASE x.op = "removeElement"
  <2>1. HasPort(seen[spn.svc], spn) /\ OpSlot(x) \in Claims(spn) \ SlotsOf(seen[spn.svc], spn)
    BY <1>1, <1>4 DEF Fits
  <2>3. spn \in K
    BY <1>1, <1>2, <2>1 DEF Announced, MayPrecede, IsAdding, IsElement
  <2> QED BY <1>2, <1>4, <2>1, <2>3
<1> QED BY <1>2, <1>3, <1>4

\* The element at the head of the work is added.
LEMMA AddElementWork ==
    ASSUME ServicesApart, NEW seen, NEW cache, SvcTyped(seen), NEW K \in SUBSET ServicePortName, NEW X,
           NEW ops, Working(ops, seen, cache, K, X), ops # <<>>, NEW x, x = Head(ops), x.op = "addElement"
    PROVE  Working(Tail(ops), seen, cache, K, X \cup {ElementAt(x.spn, OpSlot(x))})
<1> DEFINE W == Range(ops)
           V == Range(Tail(ops))
           spn == x.spn
           new == ElementAt(spn, OpSlot(x))
           Y == X \cup {new}
<1>1. /\ Tail(ops) \in Seq(ServiceOp) /\ x \in ServiceOp /\ W = {x} \cup V /\ Ordered(Tail(ops))
      /\ \A y \in V : Fits(y, seen, cache, K)
      /\ CacheNext(W, seen, cache) /\ Announced(W, seen, K) /\ Filled(W, seen, K, X)
      /\ Withdrawn(W, seen, K) /\ AllAccounted(W, seen, cache, K, X)
  BY WorkParts
<1>2. spn \in K /\ OpSlot(x) \in Claims(spn) /\ OpSlot(x) \in SlotsOf(seen[spn.svc], spn)
  BY ElementPortKnown DEF IsElement
<1> HIDE DEF W, V
<1>3. CacheNext(V, seen, cache) /\ Announced(V, seen, K) /\ Withdrawn(V, seen, K)
  BY <1>1, WithoutOp DEF IsAdding
<1>4. Filled(V, seen, K, Y)
  <2>1. ASSUME NEW s \in K, NEW t \in SlotsOf(seen[s.svc], s)
        PROVE  ElementAt(s, t) \in Y \/ AddElementOp(s, t[1], t[2], t[3]) \in V
    <3>1. ElementAt(s, t) \in X \/ AddElementOp(s, t[1], t[2], t[3]) \in W
      BY <1>1 DEF Filled
    <3>2. CASE AddElementOp(s, t[1], t[2], t[3]) = x
      <4>1. s = spn /\ OpSlot(x) = <<t[1], t[2], t[3]>>
        BY <3>2 DEF AddElementOp, OpSlot
      <4>2. t \in Slot
        BY ObjectsClaim DEF Claims
      <4>3. t = OpSlot(x)
        BY <4>1, <4>2, SlotFields
      <4> QED BY <4>1, <4>3
    <3> QED BY <1>1, <3>1, <3>2
  <2> QED BY <2>1 DEF Filled
<1>5. AllAccounted(V, seen, cache, K, Y)
  <2>1. ASSUME NEW e \in X
        PROVE  Accounted(e, V, seen, cache, K)
    <3>0. PICK s \in K : \E t \in Claims(s) :
            e = ElementAt(s, t) /\ (t \in SlotsOf(seen[s.svc], s) \/ Leaving(s, t, W, seen, cache))
      BY <1>1 DEF AllAccounted, Accounted
    <3>1. PICK t \in Claims(s) :
            e = ElementAt(s, t) /\ (t \in SlotsOf(seen[s.svc], s) \/ Leaving(s, t, W, seen, cache))
      BY <3>0
    <3>2. Leaving(s, t, W, seen, cache) => Leaving(s, t, V, seen, cache)
      BY <1>1 DEF Leaving, RemoveElementOp
    <3> QED BY <3>1, <3>2 DEF Accounted
  <2>2. Accounted(new, V, seen, cache, K)
    BY <1>2 DEF Accounted
  <2> QED BY <2>1, <2>2 DEF AllAccounted
<1> HIDE DEF Y
<1>6. Working(Tail(ops), seen, cache, K, Y)
  BY <1>1, <1>3, <1>4, <1>5 DEF Working, AllFit, V
<1> QED BY <1>6 DEF Y

\* The element at the head of the work is removed.
LEMMA RemoveElementWork ==
    ASSUME ServicesApart, NEW seen, NEW cache, SvcTyped(seen), NEW K \in SUBSET ServicePortName, NEW X,
           NEW ops, Working(ops, seen, cache, K, X), ops # <<>>, NEW x, x = Head(ops), x.op = "removeElement"
    PROVE  Working(Tail(ops), seen, cache, K, X \ {ElementAt(x.spn, OpSlot(x))})
<1> DEFINE W == Range(ops)
           V == Range(Tail(ops))
           spn == x.spn
           old == ElementAt(spn, OpSlot(x))
           Y == X \ {old}
<1>1. /\ Tail(ops) \in Seq(ServiceOp) /\ x \in ServiceOp /\ W = {x} \cup V /\ Ordered(Tail(ops))
      /\ \A y \in V : Fits(y, seen, cache, K)
      /\ CacheNext(W, seen, cache) /\ Announced(W, seen, K) /\ Filled(W, seen, K, X)
      /\ Withdrawn(W, seen, K) /\ AllAccounted(W, seen, cache, K, X)
  BY WorkParts
<1>2. spn \in K /\ OpSlot(x) \in Claims(spn) /\ OpSlot(x) \notin SlotsOf(seen[spn.svc], spn)
  BY ElementPortKnown DEF IsElement
<1> HIDE DEF W, V
<1>3. CacheNext(V, seen, cache) /\ Announced(V, seen, K) /\ Withdrawn(V, seen, K)
  BY <1>1, WithoutOp DEF IsAdding
<1>4. Filled(V, seen, K, Y)
  <2>1. ASSUME NEW s \in K, NEW t \in SlotsOf(seen[s.svc], s)
        PROVE  ElementAt(s, t) \in Y \/ AddElementOp(s, t[1], t[2], t[3]) \in V
    <3>1. ElementAt(s, t) \in X \/ AddElementOp(s, t[1], t[2], t[3]) \in W
      BY <1>1 DEF Filled
    <3>2. AddElementOp(s, t[1], t[2], t[3]) # x
      BY DEF AddElementOp
    <3>3. ElementAt(s, t) # old
      <4>1. SUFFICES ASSUME ElementAt(s, t) = old PROVE FALSE
        OBVIOUS
      <4>2. t \in Claims(s)
        BY ObjectsClaim
      <4>4. s = spn /\ t = OpSlot(x)
        BY <1>2, <4>1, <4>2, SameElement
      <4> QED BY <1>2, <4>4
    <3> QED BY <1>1, <3>1, <3>2, <3>3
  <2> QED BY <2>1 DEF Filled
<1>5. AllAccounted(V, seen, cache, K, Y)
  <2>1. ASSUME NEW e \in Y
        PROVE  Accounted(e, V, seen, cache, K)
    <3>0. PICK s \in K : \E t \in Claims(s) :
            e = ElementAt(s, t) /\ (t \in SlotsOf(seen[s.svc], s) \/ Leaving(s, t, W, seen, cache))
      BY <1>1 DEF AllAccounted, Accounted
    <3>1. PICK t \in Claims(s) :
            e = ElementAt(s, t) /\ (t \in SlotsOf(seen[s.svc], s) \/ Leaving(s, t, W, seen, cache))
      BY <3>0
    <3>2. RemoveElementOp(s, t[1], t[2], t[3]) # x
      <4>1. SUFFICES ASSUME RemoveElementOp(s, t[1], t[2], t[3]) = x PROVE FALSE
        OBVIOUS
      <4>2. s = spn /\ OpSlot(x) = <<t[1], t[2], t[3]>> /\ t \in Slot
        BY <4>1 DEF RemoveElementOp, OpSlot, Claims
      <4>3. t = OpSlot(x)
        BY <4>2, SlotFields
      <4> QED BY <3>1, <4>2, <4>3
    <3>3. Leaving(s, t, W, seen, cache) => Leaving(s, t, V, seen, cache)
      BY <1>1, <3>2 DEF Leaving
    <3> QED BY <3>1, <3>3 DEF Accounted
  <2> QED BY <2>1 DEF AllAccounted
<1> HIDE DEF Y
<1>6. Working(Tail(ops), seen, cache, K, Y)
  BY <1>1, <1>3, <1>4, <1>5 DEF Working, AllFit, V
<1> QED BY <1>6 DEF Y

\* From X to Y the elements of spn go; what else goes is not asked for either.
PortGone(X, Y, spn, seen, K) ==
    /\ Y \subseteq X /\ \A t \in Claims(spn) : ElementAt(spn, t) \notin Y
    /\ \A s \in K : \A t \in SlotsOf(seen[s.svc], s) : ElementAt(s, t) \in X => ElementAt(s, t) \in Y

\* The service port at the head of the work is deleted with its elements.
LEMMA DeletePortWork ==
    ASSUME ServicesApart, NEW seen, NEW cache, SvcTyped(seen), NEW K \in SUBSET ServicePortName, NEW X,
           NEW ops, Working(ops, seen, cache, K, X), ops # <<>>, NEW x, x = Head(ops), x.op = "deletePort",
           NEW Y, PortGone(X, Y, x.spn, seen, K)
    PROVE  Working(Tail(ops), seen, cache, K \ {x.spn}, Y)
<1>0. /\ Y \in SUBSET X /\ \A t \in Claims(x.spn) : ElementAt(x.spn, t) \notin Y
      /\ \A s \in K : \A t \in SlotsOf(seen[s.svc], s) : ElementAt(s, t) \in X => ElementAt(s, t) \in Y
  BY DEF PortGone
<1> USE <1>0
<1> DEFINE W == Range(ops)
           V == Range(Tail(ops))
           spn == x.spn
           L == K \ {spn}
<1>1. /\ Tail(ops) \in Seq(ServiceOp) /\ x \in ServiceOp /\ W = {x} \cup V /\ Ordered(Tail(ops))
      /\ Fits(x, seen, cache, K) /\ \A y \in V : Fits(y, seen, cache, K)
      /\ CacheNext(W, seen, cache) /\ Announced(W, seen, K) /\ Filled(W, seen, K, X)
      /\ Withdrawn(W, seen, K) /\ AllAccounted(W, seen, cache, K, X)
  BY WorkParts
<1>2. ~HasPort(seen[spn.svc], spn)
  BY <1>1 DEF Fits
<1> HIDE DEF W, V
<1>3. CacheNext(V, seen, cache) /\ Announced(V, seen, K)
  BY <1>1, WithoutOp DEF IsAdding
<1>4. Announced(V, seen, L)
  BY <1>2, <1>3 DEF Announced
<1>5. Withdrawn(V, seen, L)
  <2>1. ASSUME NEW s \in L
        PROVE  HasPort(seen[s.svc], s) \/ DeletePortOp(s) \in V
    <3>1. HasPort(seen[s.svc], s) \/ DeletePortOp(s) \in W
      BY <1>1 DEF Withdrawn
    <3>2. DeletePortOp(s) # x
      BY DEF DeletePortOp
    <3> QED BY <1>1, <3>1, <3>2
  <2> QED BY <2>1 DEF Withdrawn
<1>6. ASSUME NEW y \in V
      PROVE  Fits(y, seen, cache, L)
  <2>1. Fits(y, seen, cache, K)
    BY <1>1
  <2>2. y.op = "addPort" => y.spn \notin L
    BY <2>1 DEF Fits
  <2>3. y.op = "changePort" => OpPort(y) # spn
    <3>1. SUFFICES ASSUME y.op = "changePort", OpPort(y) = spn PROVE FALSE
      OBVIOUS
    <3>2. y.new = seen[y.svc] /\ y.new # Nil /\ y.i \in DOMAIN y.new.ports
      BY <2>1, <3>1 DEF Fits
    <3>3. spn = getSvcPortName(y.svc, y.new.ports[y.i])
      BY <3>1 DEF OpPort
    <3>4. spn.svc = y.svc /\ y.i \in At(y.new, spn)
      BY <3>2, <3>3 DEF getSvcPortName, At
    <3> QED BY <1>2, <3>2, <3>4 DEF HasPort
  <2>4. y.op = "affinity" => \A s \in Range(y.ports) : s \in L
    BY <1>2, <2>1 DEF Fits
  <2> QED BY <2>1, <2>2, <2>3, <2>4, StillFits
<1>7. Filled(V, seen, L, Y)
  <2>1. ASSUME NEW s \in L, NEW t \in SlotsOf(seen[s.svc], s)
        PROVE  ElementAt(s, t) \in Y \/ AddElementOp(s, t[1], t[2], t[3]) \in V
    <3>1. ElementAt(s, t) \in X \/ AddElementOp(s, t[1], t[2], t[3]) \in W
      BY <1>1 DEF Filled
    <3>2. AddElementOp(s, t[1], t[2], t[3]) # x
      BY DEF AddElementOp
    <3> QED BY <1>1, <3>1, <3>2
  <2> QED BY <2>1 DEF Filled
<1>8. AllAccounted(V, seen, cache, L, Y)
  <2>1. ASSUME NEW e \in Y
        PROVE  Accounted(e, V, seen, cache, L)
    <3>0. PICK s \in K : \E t \in Claims(s) :
            e = ElementAt(s, t) /\ (t \in SlotsOf(seen[s.svc], s) \/ Leaving(s, t, W, seen, cache))
      BY <1>1 DEF AllAccounted, Accounted
    <3>1. PICK t \in Claims(s) :
            e = ElementAt(s, t) /\ (t \in SlotsOf(seen[s.svc], s) \/ Leaving(s, t, W, seen, cache))
      BY <3>0
    <3>2. s # spn
      BY <2>1, <3>1
    <3>3. Leaving(s, t, W, seen, cache) => Leaving(s, t, V, seen, cache)
      BY <1>1 DEF Leaving, RemoveElementOp
    <3> QED BY <3>1, <3>2, <3>3 DEF Accounted
  <2> QED BY <2>1 DEF AllAccounted
<1> HIDE DEF L
<1>9. Working(Tail(ops), seen, cache, L, Y)
  BY <1>1, <1>3, <1>4, <1>5, <1>6, <1>7, <1>8 DEF Working, AllFit, V
<1> QED BY <1>9 DEF L

\* The object at the head of the work is stored: nothing is left to do.
LEMMA StoreWork ==
    ASSUME NEW seen, NEW cache, SvcTyped(seen), SvcTyped(cache), NEW K \in SUBSET ServicePortName, NEW X,
           NEW ops, Working(ops, seen, cache, K, X), ops # <<>>, NEW x, x = Head(ops), x.op = "store"
    PROVE  /\ Working(Tail(ops), seen, [cache EXCEPT ![x.svc] = x.obj], K, X)
           /\ SvcTyped([cache EXCEPT ![x.svc] = x.obj])
<1> DEFINE W == Range(ops)
           V == Range(Tail(ops))
           next == [cache EXCEPT ![x.svc] = x.obj]
<1>1. /\ Tail(ops) \in Seq(ServiceOp) /\ x \in ServiceOp /\ W = {x} \cup V /\ Ordered(Tail(ops))
      /\ \A y \in V : MayPrecede(x, y) /\ Fits(x, seen, cache, K)
      /\ CacheNext(W, seen, cache) /\ Announced(W, seen, K) /\ Filled(W, seen, K, X)
      /\ Withdrawn(W, seen, K) /\ AllAccounted(W, seen, cache, K, X)
  BY WorkParts
<1>2. x.svc \in Service /\ x.obj = seen[x.svc]
  <2>1. Fits(x, seen, cache, K)
    BY WorkParts
  <2> QED BY <1>1, <2>1, ServiceOpFields DEF Fits
<1>3. V = {} /\ W = {x}
  <2>1. V = {}
    BY <1>1 DEF MayPrecede
  <2> QED BY <1>1, <2>1
<1> HIDE DEF W, V
<1>4. SvcTyped(next) /\ \A s \in Service : next[s] = seen[s]
  <2>1. cache \in [Service -> ServiceObject \cup {Nil}] /\ seen \in [Service -> ServiceObject \cup {Nil}]
    BY DEF SvcTyped
  <2>2. ASSUME NEW s \in Service PROVE next[s] = seen[s]
    <3>1. cache[s] = seen[s] \/ StoreOp(s, seen[s]) = x
      BY <1>1, <1>3 DEF CacheNext
    <3>2. CASE s = x.svc
      BY <1>2, <2>1, <3>2
    <3>3. CASE s # x.svc
      BY <2>1, <3>1, <3>3 DEF StoreOp
    <3> QED BY <3>2, <3>3
  <2>3. next \in [Service -> ServiceObject \cup {Nil}]
    BY <1>2, <2>1
  <2> HIDE DEF next
  <2> QED BY <2>2, <2>3 DEF SvcTyped
<1> HIDE DEF next
<1>5. CacheNext(V, seen, next)
  BY <1>4 DEF CacheNext
<1>6. Announced(V, seen, K) /\ Withdrawn(V, seen, K)
  BY <1>1, WithoutOp DEF IsAdding
<1>7. Filled(V, seen, K, X)
  <2>1. \A s, t : AddElementOp(s, t[1], t[2], t[3]) # x
    BY DEF AddElementOp
  <2> QED BY <1>1, <2>1 DEF Filled
<1>8. AllAccounted(V, seen, next, K, X)
  <2>1. ASSUME NEW e \in X
        PROVE  Accounted(e, V, seen, next, K)
    <3>0. PICK s \in K : \E t \in Claims(s) :
            e = ElementAt(s, t) /\ (t \in SlotsOf(seen[s.svc], s) \/ Leaving(s, t, W, seen, cache))
      BY <1>1 DEF AllAccounted, Accounted
    <3>1. PICK t \in Claims(s) :
            e = ElementAt(s, t) /\ (t \in SlotsOf(seen[s.svc], s) \/ Leaving(s, t, W, seen, cache))
      BY <3>0
    <3>2. HasPort(seen[s.svc], s)
      BY <1>3, <1>6 DEF Withdrawn
    <3>3. ~Leaving(s, t, W, seen, cache)
      BY <1>3, <3>2 DEF Leaving, RemoveElementOp
    <3> QED BY <3>1, <3>3 DEF Accounted
  <2> QED BY <2>1 DEF AllAccounted
<1>9. Working(Tail(ops), seen, next, K, X)
  BY <1>1, <1>3, <1>5, <1>6, <1>7, <1>8 DEF Working, AllFit, V
<1> QED BY <1>4, <1>9 DEF next

\* There is a least one among some numbers.
LEMMA LeastExists ==
    ASSUME NEW S \in SUBSET Nat, S # {}
    PROVE  \E i \in S : \A j \in S : i <= j
<1> DEFINE R == {p \in Nat \X Nat : p[1] < p[2]}
<1>1. IsWellFoundedOn(R, Nat)
  <2>1. R = OpToRel(<, Nat)
    BY DEF OpToRel
  <2> QED BY <2>1, NatLessThanWellFounded
<1>2. PICK x \in S : \A y \in S : ~(<<y, x>> \in R)
  <2> HIDE DEF R
  <2> QED BY <1>1, WFMin
<1>3. ASSUME NEW y \in S
      PROVE  x <= y
  <2>1. x \in Nat /\ y \in Nat /\ ~(y < x)
    BY <1>2
  <2> QED BY <2>1
<1> QED BY <1>3

\* isServicePortInPorts finds the port where it is, and it is the same port.
LEMMA PortFound ==
    ASSUME ServicesApart, NEW s \in Service, NEW obj \in Versions(s), NEW other \in Versions(s),
           NEW j \in DOMAIN other.ports
    PROVE  LET p == other.ports[j]
               found == isServicePortInPorts(obj.ports, p)
           IN  /\ HasPort(obj, getSvcPortName(s, p)) => found \in DOMAIN obj.ports /\ obj.ports[found] = p
               /\ ~HasPort(obj, getSvcPortName(s, p)) => found = 0
               /\ HasPort(obj, getSvcPortName(s, p)) => found # 0 /\ obj.ports # <<>>
<1> DEFINE p == other.ports[j]
           spn == getSvcPortName(s, p)
           byName == {i \in DOMAIN obj.ports : obj.ports[i].name = p.name}
           byPort == {i \in DOMAIN obj.ports : obj.ports[i].proto = p.proto /\ obj.ports[i].port = p.port}
           first(S) == CHOOSE i \in S : \A k \in S : i <= k
           found == isServicePortInPorts(obj.ports, p)
<1>1. PortsKept(obj, other) /\ obj # Nil /\ obj.ports \in Seq(ServicePort)
  BY ObjectFields DEF ServicesApart
<1>2. DOMAIN obj.ports = 1..Len(obj.ports) /\ Len(obj.ports) \in Nat
  BY <1>1, LenProperties
<1>3. \A i \in byName : obj.ports[i] = p
  BY <1>1 DEF PortsKept
<1>4. \A i \in byPort : obj.ports[i] = p
  BY <1>1 DEF PortsKept
<1>5. At(obj, spn) = byName
  <2>1. spn.port = p.name /\ spn.proto = p.proto
    BY DEF getSvcPortName
  <2> QED BY <1>3, <2>1 DEF At
<1>6. byPort \subseteq byName
  BY <1>4
<1>7. found = IF byName # {} THEN first(byName) ELSE IF byPort # {} THEN first(byPort) ELSE 0
  BY DEF isServicePortInPorts
<1>8. CASE byName = {}
  <2>1. byPort = {} /\ ~HasPort(obj, spn)
    BY <1>5, <1>6, <1>8 DEF HasPort
  <2>2. found = 0
    BY <1>7, <1>8, <2>1
  <2> QED BY <2>1, <2>2
<1>9. CASE byName # {}
  <2>1. byName \in SUBSET Nat
    BY <1>2
  <2>2. \E i \in byName : \A k \in byName : i <= k
    <3> HIDE DEF byName
    <3> QED BY <1>9, <2>1, LeastExists
  <2>3. found \in byName
    <3> HIDE DEF byName, found
    <3> QED BY <1>7, <1>9, <2>2
  <2>4. found \in DOMAIN obj.ports /\ obj.ports[found] = p
    BY <1>3, <2>3
  <2>5. found # 0 /\ obj.ports # <<>>
    <3> HIDE DEF byName, found
    <3> QED BY <1>2, <2>4
  <2>6. HasPort(obj, spn)
    BY <1>1, <1>5, <1>9 DEF HasPort
  <2> QED BY <2>4, <2>5, <2>6
<1> HIDE DEF p, spn, found
<1> QED BY <1>8, <1>9 DEF p, spn, found

\* What the first loop of processServicePortChanges does for a port: nothing,
\* if the stored object has it, and it is added otherwise.
LEMMA ChangePortOpsAre ==
    ASSUME ServicesApart, NEW s \in Service, NEW new \in Versions(s), NEW stored \in Versions(s),
           NEW i \in DOMAIN new.ports, NEW spn, spn = getSvcPortName(s, new.ports[i]),
           serviceMap[spn] # Nil <=> HasPort(stored, spn)
    PROVE  ChangePortOps(s, new, i, stored) =
              IF HasPort(stored, spn) THEN <<>> ELSE <<AddPortOp(spn, SpecOf(new, new.ports[i]))>>
<1> DEFINE p == new.ports[i]
           found == isServicePortInPorts(stored.ports, p)
<1>1. /\ HasPort(stored, spn) => found \in DOMAIN stored.ports /\ stored.ports[found] = p
      /\ ~HasPort(stored, spn) => found = 0
      /\ HasPort(stored, spn) => found # 0 /\ stored.ports # <<>>
  BY PortFound
<1> HIDE DEF found
<1>2. CASE HasPort(stored, spn)
  <2>1. NodePortOps(s, new, i, stored, found) = <<>>
    BY <1>1, <1>2 DEF NodePortOps
  <2>2. ChangePortOps(s, new, i, stored) = <<>> \o <<>>
    BY <1>1, <1>2, <2>1 DEF ChangePortOps, found
  <2> QED BY <1>2, <2>2
<1>3. CASE ~HasPort(stored, spn)
  BY <1>1, <1>3 DEF ChangePortOps, found
<1> QED BY <1>2, <1>3

\* What a Service object says of one of its ports.
LEMMA SpecTyped ==
    ASSUME ServicesApart, NEW s \in Service, NEW obj \in Versions(s), NEW i \in DOMAIN obj.ports
    PROVE  SpecOf(obj, obj.ports[i]) \in PortSpec
<1>1. obj.ip \in IP /\ obj.ext \in IPLists /\ obj.lb \in IPLists /\ obj.aff \in Timeout \cup {Nil}
  BY ObjectFields DEF ServicesApart, ServiceKept
<1>2. obj.ports[i].port \in Port /\ obj.ports[i].nodePort \in Port \cup {0}
  BY PortFields
<1> QED BY <1>1, <1>2 DEF SpecOf, PortSpec

\* An operation that changes neither the ports nor the elements is taken from
\* the work.
LEMMA SkipWork ==
    ASSUME NEW seen, NEW cache, NEW K \in SUBSET ServicePortName, NEW X,
           NEW ops, Working(ops, seen, cache, K, X), ops # <<>>, NEW x, x = Head(ops),
           x.op = "affinity" \/ (x.op = "changePort" /\ OpPort(x) \in K)
    PROVE  Working(Tail(ops), seen, cache, K, X)
<1> DEFINE W == Range(ops)
           V == Range(Tail(ops))
<1>1. /\ Tail(ops) \in Seq(ServiceOp) /\ W = {x} \cup V /\ Ordered(Tail(ops))
      /\ \A y \in V : Fits(y, seen, cache, K)
      /\ CacheNext(W, seen, cache) /\ Announced(W, seen, K) /\ Filled(W, seen, K, X)
      /\ Withdrawn(W, seen, K) /\ AllAccounted(W, seen, cache, K, X)
  BY WorkParts
<1> HIDE DEF W, V
<1>2. CacheNext(V, seen, cache) /\ Withdrawn(V, seen, K)
  BY <1>1, WithoutOp
<1>3. Announced(V, seen, K)
  BY <1>1 DEF Announced, IsAdding
<1>4. Filled(V, seen, K, X)
  <2>1. \A s, t : AddElementOp(s, t[1], t[2], t[3]) # x
    BY DEF AddElementOp
  <2> QED BY <1>1, <2>1 DEF Filled
<1>5. AllAccounted(V, seen, cache, K, X)
  <2>1. \A s, t : RemoveElementOp(s, t[1], t[2], t[3]) # x
    BY DEF RemoveElementOp
  <2>2. \A s, t : Leaving(s, t, W, seen, cache) => Leaving(s, t, V, seen, cache)
    BY <1>1, <2>1 DEF Leaving
  <2> QED BY <1>1, <2>2 DEF AllAccounted, Accounted
<1> QED BY <1>1, <1>2, <1>3, <1>4, <1>5 DEF Working, AllFit, V

\* The port at the head of the work is compared with the stored object, and is
\* to be added if it is new.
LEMMA ChangePortWork ==
    ASSUME ServicesApart, NEW seen, NEW cache, SvcTyped(seen), SvcTyped(cache), NEW X,
           NEW ops, Working(ops, seen, cache, KnownPorts, X), ops # <<>>, NEW x, x = Head(ops), x.op = "changePort"
    PROVE  LET left == ChangePortOps(x.svc, x.new, x.i, x.stored) \o Tail(ops) IN
           /\ Working(left, seen, cache, KnownPorts, X)
           /\ \A z : z.op = "affinity" => (z \in Range(left) <=> z \in Range(ops))
<1> DEFINE W == Range(ops)
           V == Range(Tail(ops))
           K == KnownPorts
           spn == OpPort(x)
           p == x.new.ports[x.i]
           y == AddPortOp(spn, SpecOf(x.new, p))
           more == ChangePortOps(x.svc, x.new, x.i, x.stored)
           next == <<y>> \o Tail(ops)
<1>1. /\ Tail(ops) \in Seq(ServiceOp) /\ W = {x} \cup V /\ Ordered(Tail(ops)) /\ x \in ServiceOp
      /\ \A z \in V : MayPrecede(x, z)
      /\ Fits(x, seen, cache, K) /\ \A z \in V : Fits(z, seen, cache, K)
      /\ CacheNext(W, seen, cache) /\ Announced(W, seen, K) /\ Filled(W, seen, K, X)
      /\ Withdrawn(W, seen, K) /\ AllAccounted(W, seen, cache, K, X)
  BY WorkParts
<1>2. /\ x.new = seen[x.svc] /\ x.stored = cache[x.svc] /\ x.new # Nil /\ x.stored # Nil
      /\ x.i \in DOMAIN x.new.ports /\ (spn \in K <=> HasPort(x.stored, spn))
  BY <1>1 DEF Fits
<1>3. x.svc \in Service /\ x.new \in Versions(x.svc) /\ x.stored \in Versions(x.svc)
  BY <1>1, <1>2, ServiceOpFields DEF SvcTyped
<1>4. spn = getSvcPortName(x.svc, p)
  BY DEF OpPort
<1>5. spn \in ServicePortName /\ spn.svc = x.svc /\ x.i \in At(x.new, spn)
  BY <1>2, <1>3, <1>4, PortFields
<1>6. serviceMap[spn] # Nil <=> HasPort(x.stored, spn)
  BY <1>2, <1>5 DEF KnownPorts
<1>7. more = IF HasPort(x.stored, spn) THEN <<>> ELSE <<y>>
  BY <1>2, <1>3, <1>4, <1>6, ChangePortOpsAre
<1> HIDE DEF K, more
<1>8. CASE HasPort(x.stored, spn)
  <2>1. more \o Tail(ops) = Tail(ops)
    BY <1>1, <1>7, <1>8
  <2>2. K \in SUBSET ServicePortName
    BY DEF K, KnownPorts
  <2>3. Working(ops, seen, cache, K, X) /\ spn \in K
    BY <1>2, <1>8 DEF K
  <2>4. Working(Tail(ops), seen, cache, K, X)
    BY <2>2, <2>3, SkipWork
  <2>5. \A z : z.op = "affinity" => (z \in V <=> z \in W)
    BY <1>1
  <2> QED BY <2>1, <2>4, <2>5 DEF K, more
<1>9. CASE ~HasPort(x.stored, spn)
  <2> HIDE DEF spn, V, W
  <2>1. spn \notin K
    BY <1>2, <1>9
  <2>2. SpecOf(x.new, p) \in PortSpec
    BY <1>2, <1>3, SpecTyped
  <2>3. y \in ServiceOp
    BY <1>5, <2>2 DEF AddPortOp, ServiceOp
  <2>4. y.op = "addPort" /\ y.spn = spn /\ IsAdding(y) /\ OpPort(y) = spn /\ ~IsElement(y)
    BY DEF AddPortOp, IsAdding, OpPort, IsElement
  <2>5. Fits(y, seen, cache, K)
    <3>1. x.new = seen[spn.svc] /\ y.spec = SpecOf(x.new, x.new.ports[x.i])
      BY <1>2, <1>5 DEF AddPortOp
    <3>2. \E i \in At(seen[spn.svc], spn) : y.spec = SpecOf(seen[spn.svc], seen[spn.svc].ports[i])
      BY <1>5, <3>1
    <3>3. seen[spn.svc] # Nil
      BY <1>2, <3>1
    <3> HIDE DEF y
    <3> QED BY <2>1, <2>4, <3>2, <3>3 DEF Fits
  <2> HIDE DEF y
  <2>6. \A z \in V : MayPrecede(y, z)
    <3>1. IsAdding(x) /\ spn = OpPort(x)
      BY DEF IsAdding, spn
    <3> QED BY <1>1, <2>4, <3>1 DEF MayPrecede
  <2>7. <<y>> \in Seq(ServiceOp) /\ Range(<<y>>) = {y} /\ Ordered(<<y>>)
    <3>1. <<y>> \in Seq(ServiceOp) /\ DOMAIN <<y>> = {1} /\ <<y>>[1] = y
      BY <2>3
    <3>2. Range(<<y>>) = {y}
      BY <3>1 DEF Range
    <3>3. Ordered(<<y>>)
      BY <3>1 DEF Ordered
    <3> QED BY <3>1, <3>2, <3>3
  <2>8. next \in Seq(ServiceOp) /\ Ordered(next) /\ Range(next) = {y} \cup V
    <3>1. \A a \in Range(<<y>>), b \in Range(Tail(ops)) : MayPrecede(a, b)
      BY <2>6, <2>7 DEF V
    <3>2. next \in Seq(ServiceOp) /\ Ordered(next) /\ Range(next) = Range(<<y>>) \cup Range(Tail(ops))
      <4> DEFINE a == <<y>>
                 b == Tail(ops)
      <4>1. a \in Seq(ServiceOp) /\ b \in Seq(ServiceOp) /\ Ordered(a) /\ Ordered(b)
        BY <1>1, <2>7
      <4>2. \A v \in Range(a), z \in Range(b) : MayPrecede(v, z)
        BY <3>1
      <4> HIDE DEF a, b
      <4>3. a \o b \in Seq(ServiceOp) /\ Ordered(a \o b) /\ Range(a \o b) = Range(a) \cup Range(b)
        BY <4>1, <4>2, OrderedConcat
      <4> QED BY <4>3 DEF a, b
    <3> QED BY <2>7, <3>2 DEF V
  <2> DEFINE U == {y} \cup V
  <2>9. CacheNext(V, seen, cache) /\ Withdrawn(V, seen, K)
    BY <1>1, WithoutOp
  <2>10. CacheNext(U, seen, cache) /\ Withdrawn(U, seen, K)
    BY <2>9 DEF CacheNext, Withdrawn
  <2>11. Announced(U, seen, K)
    <3>1. ASSUME NEW s \in ServicePortName, HasPort(seen[s.svc], s), s \notin K
          PROVE  \E z \in U : IsAdding(z) /\ OpPort(z) = s
      <4>1. PICK z \in W : IsAdding(z) /\ OpPort(z) = s
        BY <1>1, <3>1 DEF Announced
      <4>2. CASE z = x
        BY <2>4, <4>1, <4>2 DEF spn
      <4> QED BY <1>1, <4>1, <4>2
    <3> QED BY <3>1 DEF Announced
  <2>12. Filled(U, seen, K, X)
    <3>1. \A s, t : AddElementOp(s, t[1], t[2], t[3]) # x
      BY DEF AddElementOp
    <3> QED BY <1>1, <3>1 DEF Filled
  <2>13. AllAccounted(U, seen, cache, K, X)
    <3>1. \A s, t : RemoveElementOp(s, t[1], t[2], t[3]) # x
      BY DEF RemoveElementOp
    <3>2. \A s, t : Leaving(s, t, W, seen, cache) => Leaving(s, t, U, seen, cache)
      BY <1>1, <3>1 DEF Leaving
    <3> QED BY <1>1, <3>2 DEF AllAccounted, Accounted
  <2>14. AllFit(U, seen, cache, K)
    BY <1>1, <2>5 DEF AllFit
  <2>15. Working(next, seen, cache, K, X)
    <3> HIDE DEF next, U
    <3>1. U = Range(next)
      BY <2>8 DEF U
    <3> QED BY <2>8, <2>10, <2>11, <2>12, <2>13, <2>14, <3>1 DEF Working
  <2>16. more \o Tail(ops) = next
    BY <1>7, <1>9
  <2>17. \A z : z.op = "affinity" => (z \in Range(next) <=> z \in W)
    <3> HIDE DEF next
    <3> QED BY <1>1, <2>4, <2>8
  <2> QED BY <2>15, <2>16, <2>17 DEF K, more, W
<1> QED BY <1>8, <1>9

(***************************************************************************)
(* The elements that are added and removed with a service port.            *)
(***************************************************************************)
\* What getLastKnownSvcFromCache tells of an object.
StoredOf(obj) == [ip |-> obj.ip, ext |-> obj.ext, lb |-> obj.lb, nodePorts |-> NodePorts(obj)]

\* D has the set and the key of each of these slots of the service port.
HasKeys(D, spn, T) == \A t \in T : \E d \in D : d.set = t[1] /\ d.key = <<spn.proto, t[2], t[3]>>

\* Every element the object asks for at one of its ports is removed with the
\* port, and nothing else but node ports of the same object.
LEMMA StoredElementsAre ==
    ASSUME NEW spn, NEW svc, NEW obj, NEW i \in DOMAIN obj.ports, obj.ip # Nil, svc.port = obj.ports[i].port,
           Nil # StoredOf(obj)
    PROVE  /\ HasKeys(StoredElements(spn, svc, StoredOf(obj)), spn, Slots(obj, obj.ports[i]))
           /\ \A d \in StoredElements(spn, svc, StoredOf(obj)) :
                \/ \E t \in Slots(obj, obj.ports[i]) : d.set = t[1] /\ d.key = <<spn.proto, t[2], t[3]>>
                \/ \E np \in NodePorts(obj) : d.set = "nodeport" /\ d.key = <<spn.proto, Nil, np>>
<1> DEFINE p == obj.ports[i]
           D == StoredElements(spn, svc, StoredOf(obj))
           P == ({"cluster", "markmasq"} \X {obj.ip}) \cup ({"external", "markmasq"} \X Range(obj.ext))
                \cup ({"loadbalancer", "markmasq"} \X Range(obj.lb))
           N == {Element("nodeport", spn, Nil, np, Nil) : np \in NodePorts(obj)}
           A == {Element(pair[1], spn, pair[2], p.port, Nil) : pair \in P}
<1>1. D = N \cup A
  <2>1. /\ StoredOf(obj).ip = obj.ip /\ StoredOf(obj).ext = obj.ext /\ StoredOf(obj).lb = obj.lb
        /\ StoredOf(obj).nodePorts = NodePorts(obj)
    BY DEF StoredOf
  <2>2. {obj.ip} \ {Nil} = {obj.ip}
    OBVIOUS
  <2> QED BY <2>1, <2>2 DEF StoredElements
<1>2. \A a, b, c : Element(a, spn, b, c, Nil).set = a /\ Element(a, spn, b, c, Nil).key = <<spn.proto, b, c>>
  BY DEF Element
<1> HIDE DEF D
<1>3. ASSUME NEW t \in Slots(obj, p)
      PROVE  \E d \in D : d.set = t[1] /\ d.key = <<spn.proto, t[2], t[3]>>
  <2>1. CASE t = <<"nodeport", Nil, p.nodePort>> /\ p.nodePort # 0
    <3>1. p.nodePort \in NodePorts(obj)
      BY <2>1 DEF NodePorts
    <3>2. Element("nodeport", spn, Nil, p.nodePort, Nil) \in D
      BY <1>1, <3>1
    <3> QED BY <1>2, <2>1, <3>2
  <2>2. CASE <<t[1], t[2]>> \in P /\ t[3] = p.port
    <3>1. Element(t[1], spn, t[2], p.port, Nil) \in A
      <4> HIDE DEF P
      <4> DEFINE pair == <<t[1], t[2]>>
      <4>1. pair[1] = t[1] /\ pair[2] = t[2] /\ pair \in P
        BY <2>2
      <4> HIDE DEF pair
      <4> QED BY <4>1
    <3>2. Element(t[1], spn, t[2], p.port, Nil) \in D
      BY <1>1, <3>1
    <3> QED BY <1>2, <2>2, <3>2
  <2>3. \/ t = <<"nodeport", Nil, p.nodePort>> /\ p.nodePort # 0
        \/ <<t[1], t[2]>> \in P /\ t[3] = p.port
    BY DEF Slots
  <2> QED BY <2>1, <2>2, <2>3
<1>4. ASSUME NEW d \in D
      PROVE  \/ \E t \in Slots(obj, p) : d.set = t[1] /\ d.key = <<spn.proto, t[2], t[3]>>
             \/ \E np \in NodePorts(obj) : d.set = "nodeport" /\ d.key = <<spn.proto, Nil, np>>
  <2>1. CASE d \in N
    BY <1>2, <2>1
  <2>2. CASE d \in A
    <3>1. PICK pair \in P : d = Element(pair[1], spn, pair[2], p.port, Nil)
      BY <2>2
    <3>2. <<pair[1], pair[2], p.port>> \in Slots(obj, p)
      BY <3>1 DEF Slots
    <3>3. d.set = pair[1] /\ d.key = <<spn.proto, pair[2], p.port>>
      BY <1>2, <3>1
    <3> DEFINE t == <<pair[1], pair[2], p.port>>
    <3>4. t[1] = pair[1] /\ t[2] = pair[2] /\ t[3] = p.port /\ t \in Slots(obj, p)
      BY <3>2
    <3> HIDE DEF t
    <3> QED BY <3>3, <3>4
  <2> QED BY <1>1, <2>1, <2>2
<1>5. HasKeys(D, spn, Slots(obj, p))
  BY <1>3 DEF HasKeys
<1> QED BY <1>4, <1>5 DEF D

\* The elements of external or load balancer addresses.
LEMMA AddressElementsAre ==
    ASSUME NEW spn \in ServicePortName, NEW svc \in ServiceInfo, NEW ips \in Seq(IP),
           NEW set \in SetNames \ {"noendpoints"}
    PROVE  Range(AddressElements(spn, svc, set, ips)) =
              {Element(set, spn, ip, svc.port, <<spn, SvcID(svc)>>) : ip \in Range(ips)}
              \cup {Element("markmasq", spn, ip, svc.port, Nil) : ip \in Range(ips)}
<1> DEFINE f == AddressElements(spn, svc, set, ips)
           n == Len(ips)
           one(ip) == Element(set, spn, ip, svc.port, <<spn, SvcID(svc)>>)
           two(ip) == Element("markmasq", spn, ip, svc.port, Nil)
<1>1. n \in Nat /\ DOMAIN ips = 1..n /\ DOMAIN f = 1..(2 * n)
  BY LenProperties DEF AddressElements
<1>2. \A j \in 1..(2 * n) : f[j] = IF j % 2 = 1 THEN one(ips[(j + 1) \div 2]) ELSE two(ips[j \div 2])
  BY DEF AddressElements
<1> HIDE DEF f, one, two, n
<1>3. ASSUME NEW j \in DOMAIN f
      PROVE  \E ip \in Range(ips) : f[j] = one(ip) \/ f[j] = two(ip)
  <2>1. CASE j % 2 = 1
    <3>1. (j + 1) \div 2 \in DOMAIN ips
      BY <1>1, <2>1
    <3>2. ips[(j + 1) \div 2] \in Range(ips)
      BY <3>1 DEF Range
    <3> QED BY <1>1, <1>2, <2>1, <3>2
  <2>2. CASE j % 2 # 1
    <3>1. j \div 2 \in DOMAIN ips
      BY <1>1, <2>2
    <3>2. ips[j \div 2] \in Range(ips)
      BY <3>1 DEF Range
    <3> QED BY <1>1, <1>2, <2>2, <3>2
  <2> QED BY <2>1, <2>2
<1>4. ASSUME NEW m \in DOMAIN ips
      PROVE  one(ips[m]) \in Range(f) /\ two(ips[m]) \in Range(f)
  <2>1. 2 * m \in 1..(2 * n) /\ (2 * m) % 2 # 1 /\ (2 * m) \div 2 = m
    BY <1>1
  <2>2. 2 * m - 1 \in 1..(2 * n) /\ (2 * m - 1) % 2 = 1 /\ ((2 * m - 1) + 1) \div 2 = m
    BY <1>1
  <2>3. f[2 * m] = two(ips[m])
    BY <1>2, <2>1
  <2>4. f[2 * m - 1] = one(ips[m])
    BY <1>2, <2>2
  <2> QED BY <1>1, <2>1, <2>2, <2>3, <2>4 DEF Range
<1>5. Range(f) \subseteq {one(ip) : ip \in Range(ips)} \cup {two(ip) : ip \in Range(ips)}
  BY <1>3 DEF Range
<1>6. {one(ip) : ip \in Range(ips)} \cup {two(ip) : ip \in Range(ips)} \subseteq Range(f)
  <2>1. \A ip \in Range(ips) : \E m \in DOMAIN ips : ip = ips[m]
    BY DEF Range
  <2> QED BY <1>4, <2>1
<1>7. Range(f) = {one(ip) : ip \in Range(ips)} \cup {two(ip) : ip \in Range(ips)}
  BY <1>5, <1>6
<1> QED BY <1>7 DEF f, one, two

\* The elements addServicePortToSets adds are those the object asks for.
LEMMA ElementsWanted ==
    ASSUME ServicesApart, NEW spn \in ServicePortName, NEW obj \in Versions(spn.svc), NEW i \in At(obj, spn),
           NEW b \in BOOLEAN
    PROVE  LET svc == NewServiceInfo(SpecOf(obj, obj.ports[i]), b) IN
           /\ svc \in ServiceInfo /\ SvcID(svc) = PortID(spn) /\ svc.withAff = (obj.aff # Nil)
           /\ Range(ServicePortElements(spn, svc)) = ElementsOf(obj, spn)
<1> DEFINE p == obj.ports[i]
           svc == NewServiceInfo(SpecOf(obj, p), b)
           ref == <<spn, PortID(spn)>>
           S == Owned(spn, svc)
           e1 == Element("cluster", spn, obj.ip, p.port, ref)
           e2 == Element("markmasq", spn, obj.ip, p.port, Nil)
           e3 == Element("nodeport", spn, Nil, p.nodePort, ref)
           own == <<e1, e2>>
           ext == AddressElements(spn, svc, "external", obj.ext)
           lb  == AddressElements(spn, svc, "loadbalancer", obj.lb)
           np  == IF p.nodePort = 0 THEN <<>> ELSE <<e3>>
<1>0. spn.svc \in Service /\ i \in DOMAIN obj.ports
  BY DEF ServicePortName, At
<1>1. SpecOf(obj, p) \in PortSpec
  BY <1>0, SpecTyped
<1>2. svc \in ServiceInfo
  BY <1>1, NewServiceInfoType
<1>3. /\ svc.ip = obj.ip /\ svc.port = p.port /\ svc.nodePort = p.nodePort /\ svc.ext = obj.ext /\ svc.lb = obj.lb
      /\ svc.withAff = (obj.aff # Nil)
  BY DEF NewServiceInfo, SpecOf
<1>4. SvcID(svc) = PortID(spn) /\ SlotsOf(obj, spn) = Slots(obj, p)
  BY <1>3, PortIDOf DEF SvcID
<1> HIDE DEF svc
<1>5. obj.ext \in Seq(IP) /\ obj.lb \in Seq(IP) /\ obj.ip \in IP
  BY <1>0, ObjectFields, ProxyAssumption DEF ServicesApart, ServiceKept
<1>6. p.port \in Port /\ p.nodePort \in Port \cup {0}
  BY <1>0, PortFields
<1>7. {"cluster", "markmasq", "nodeport", "external", "loadbalancer"} \subseteq SetNames \ {"noendpoints"}
  BY DEF SetNames
<1>8. ext \in Seq(S) /\ lb \in Seq(S)
  BY <1>2, <1>5, <1>7, AddressElementsOwned
<1>9. /\ Range(ext) = {Element("external", spn, ip, p.port, ref) : ip \in Range(obj.ext)}
                      \cup {Element("markmasq", spn, ip, p.port, Nil) : ip \in Range(obj.ext)}
      /\ Range(lb) = {Element("loadbalancer", spn, ip, p.port, ref) : ip \in Range(obj.lb)}
                      \cup {Element("markmasq", spn, ip, p.port, Nil) : ip \in Range(obj.lb)}
  <2>1. /\ <<spn, SvcID(svc)>> = ref /\ svc.port = p.port
        /\ "external" \in SetNames \ {"noendpoints"} /\ "loadbalancer" \in SetNames \ {"noendpoints"}
    BY <1>3, <1>4, <1>7
  <2>2. ASSUME NEW name \in SetNames \ {"noendpoints"}, NEW ips \in Seq(IP)
        PROVE  Range(AddressElements(spn, svc, name, ips))
               = {Element(name, spn, ip, p.port, ref) : ip \in Range(ips)}
                 \cup {Element("markmasq", spn, ip, p.port, Nil) : ip \in Range(ips)}
    BY <1>2, <1>7, <2>1, <2>2, AddressElementsAre
  <2>3. Range(ext) = {Element("external", spn, ip, p.port, ref) : ip \in Range(obj.ext)}
                     \cup {Element("markmasq", spn, ip, p.port, Nil) : ip \in Range(obj.ext)}
    BY <1>5, <2>1, <2>2
  <2>4. Range(lb) = {Element("loadbalancer", spn, ip, p.port, ref) : ip \in Range(obj.lb)}
                     \cup {Element("markmasq", spn, ip, p.port, Nil) : ip \in Range(obj.lb)}
    BY <1>5, <2>1, <2>2
  <2> QED BY <2>3, <2>4
<1>10. e1 \in S /\ e2 \in S /\ (p.nodePort # 0 => e3 \in S)
  <2>1. ref \in {Nil, <<spn, SvcID(svc)>>}
    BY <1>4
  <2> HIDE DEF ref, p
  <2> QED BY <1>5, <1>6, <1>7, <2>1, ElementOwned
<1> HIDE DEF S, e1, e2, e3, ext, lb
<1>11. own \in Seq(S) /\ np \in Seq(S) /\ Range(own) = {e1, e2} /\ Range(np) = IF p.nodePort = 0 THEN {} ELSE {e3}
  <2>1. own \in Seq(S) /\ np \in Seq(S)
    BY <1>10
  <2>2. Range(own) = {e1, e2}
    <3>1. DOMAIN own = {1, 2} /\ own[1] = e1 /\ own[2] = e2
      OBVIOUS
    <3> HIDE DEF own
    <3> QED BY <3>1 DEF Range
  <2>3. Range(<<e3>>) = {e3}
    <3>1. DOMAIN <<e3>> = {1} /\ <<e3>>[1] = e3
      OBVIOUS
    <3> QED BY <3>1 DEF Range
  <2>4. Range(<<>>) = {}
    BY DEF Range
  <2> QED BY <2>1, <2>2, <2>3, <2>4
<1> HIDE DEF own, np
<1>12. Range(((own \o ext) \o lb) \o np) = Range(own) \cup Range(ext) \cup Range(lb) \cup Range(np)
  <2> DEFINE q == own \o ext
             r == q \o lb
  <2>1. q \in Seq(S) /\ Range(q) = Range(own) \cup Range(ext)
    BY <1>8, <1>11, RangeConcat, ConcatProperties
  <2> HIDE DEF q
  <2>2. r \in Seq(S) /\ Range(r) = Range(q) \cup Range(lb)
    BY <1>8, <2>1, RangeConcat, ConcatProperties
  <2> HIDE DEF r
  <2>3. Range(r \o np) = Range(r) \cup Range(np)
    BY <1>11, <2>2, RangeConcat
  <2> QED BY <2>1, <2>2, <2>3 DEF q, r
<1>13. ServicePortElements(spn, svc) = ((own \o ext) \o lb) \o np
  BY <1>3, <1>4 DEF ServicePortElements, e1, e2, e3, ext, lb, own, np
<1>14. {ElementAt(spn, t) : t \in Slots(obj, p)} = Range(own) \cup Range(ext) \cup Range(lb) \cup Range(np)
  <2> DEFINE at(a, ip) == Element(a, spn, ip, p.port, IF a = "markmasq" THEN Nil ELSE ref)
  <2>1. \A a, ip, port : ElementAt(spn, <<a, ip, port>>) = Element(a, spn, ip, port, IF a = "markmasq" THEN Nil ELSE ref)
    BY DEF ElementAt
  <2>2. {ElementAt(spn, t) : t \in {"cluster", "markmasq"} \X {obj.ip} \X {p.port}} = {e1, e2}
    <3>1. {"cluster", "markmasq"} \X {obj.ip} \X {p.port} = {<<"cluster", obj.ip, p.port>>, <<"markmasq", obj.ip, p.port>>}
      OBVIOUS
    <3>2. ElementAt(spn, <<"cluster", obj.ip, p.port>>) = e1 /\ ElementAt(spn, <<"markmasq", obj.ip, p.port>>) = e2
      BY <2>1 DEF e1, e2
    <3> QED BY <3>1, <3>2
  <2>3. ASSUME NEW a \in {"external", "loadbalancer"}, NEW R
        PROVE  {ElementAt(spn, t) : t \in {a, "markmasq"} \X R \X {p.port}} =
                  {Element(a, spn, ip, p.port, ref) : ip \in R} \cup {Element("markmasq", spn, ip, p.port, Nil) : ip \in R}
    <3> DEFINE T == {a, "markmasq"} \X R \X {p.port}
    <3>1. \A ip : ElementAt(spn, <<a, ip, p.port>>) = Element(a, spn, ip, p.port, ref)
      BY <2>1
    <3>2. \A ip : ElementAt(spn, <<"markmasq", ip, p.port>>) = Element("markmasq", spn, ip, p.port, Nil)
      BY <2>1
    <3>3. \A t \in T : \E ip \in R : t = <<a, ip, p.port>> \/ t = <<"markmasq", ip, p.port>>
      OBVIOUS
    <3>4. \A ip \in R : <<a, ip, p.port>> \in T /\ <<"markmasq", ip, p.port>> \in T
      OBVIOUS
    <3> DEFINE one(ip) == Element(a, spn, ip, p.port, ref)
               two(ip) == Element("markmasq", spn, ip, p.port, Nil)
               G == {ElementAt(spn, t) : t \in T}
               H == {one(ip) : ip \in R} \cup {two(ip) : ip \in R}
    <3> HIDE DEF T
    <3>5. \A t \in T : ElementAt(spn, t) \in H
      BY <3>1, <3>2, <3>3
    <3>6. \A ip \in R : one(ip) \in G /\ two(ip) \in G
      <4>1. ASSUME NEW ip \in R
            PROVE  one(ip) \in G /\ two(ip) \in G
        <5>1. one(ip) = ElementAt(spn, <<a, ip, p.port>>) /\ two(ip) = ElementAt(spn, <<"markmasq", ip, p.port>>)
          BY <3>1, <3>2
        <5> HIDE DEF one, two
        <5> QED BY <3>4, <5>1
      <4> QED BY <4>1
    <3>7. G \subseteq H
      BY <3>5
    <3>8. H \subseteq G
      BY <3>6
    <3> QED BY <3>7, <3>8 DEF T
  <2>4. {ElementAt(spn, t) : t \in (IF p.nodePort = 0 THEN {} ELSE {<<"nodeport", Nil, p.nodePort>>})} = Range(np)
    <3>1. ElementAt(spn, <<"nodeport", Nil, p.nodePort>>) = e3
      BY <2>1 DEF e3
    <3> QED BY <1>11, <3>1
  <2>5. {ElementAt(spn, t) : t \in {"external", "markmasq"} \X Range(obj.ext) \X {p.port}} = Range(ext)
    BY <1>9, <2>3
  <2>6. {ElementAt(spn, t) : t \in {"loadbalancer", "markmasq"} \X Range(obj.lb) \X {p.port}} = Range(lb)
    BY <1>9, <2>3
  <2>7. ASSUME NEW A, NEW B, NEW C, NEW D
        PROVE  {ElementAt(spn, t) : t \in A \cup B \cup C \cup D} =
                  {ElementAt(spn, t) : t \in A} \cup {ElementAt(spn, t) : t \in B}
                  \cup {ElementAt(spn, t) : t \in C} \cup {ElementAt(spn, t) : t \in D}
    OBVIOUS
  <2>8. Slots(obj, p) =
           ({"cluster", "markmasq"} \X {obj.ip} \X {p.port})
           \cup ({"external", "markmasq"} \X Range(obj.ext) \X {p.port})
           \cup ({"loadbalancer", "markmasq"} \X Range(obj.lb) \X {p.port})
           \cup (IF p.nodePort = 0 THEN {} ELSE {<<"nodeport", Nil, p.nodePort>>})
    BY DEF Slots
  <2> DEFINE A == {"cluster", "markmasq"} \X {obj.ip} \X {p.port}
             B == {"external", "markmasq"} \X Range(obj.ext) \X {p.port}
             C == {"loadbalancer", "markmasq"} \X Range(obj.lb) \X {p.port}
             D == IF p.nodePort = 0 THEN {} ELSE {<<"nodeport", Nil, p.nodePort>>}
  <2>9. /\ {ElementAt(spn, t) : t \in A} = {e1, e2} /\ {ElementAt(spn, t) : t \in B} = Range(ext)
        /\ {ElementAt(spn, t) : t \in C} = Range(lb) /\ {ElementAt(spn, t) : t \in D} = Range(np)
        /\ Slots(obj, p) = A \cup B \cup C \cup D
    BY <2>2, <2>4, <2>5, <2>6, <2>8
  <2> HIDE DEF A, B, C, D
  <2> QED BY <1>11, <2>7, <2>9
<1> QED BY <1>2, <1>3, <1>4, <1>12, <1>13, <1>14 DEF svc, ElementsOf

\* A service port is deleted at the head of the work: its elements are removed,
\* and no element that is asked for.
LEMMA DeletePortElements ==
    ASSUME ServicesApart, NEW seen, NEW cache, SvcTyped(seen), SvcTyped(cache),
           NEW K \in SUBSET ServicePortName, NEW X,
           NEW ops, Working(ops, seen, cache, K, X), ops # <<>>, NEW x, x = Head(ops), x.op = "deletePort",
           NEW svc, SvcID(svc) = PortID(x.spn), NEW Y,
           Y = RemoveFromSets(X, StoredElements(x.spn, svc, StoredOf(cache[x.spn.svc])))
    PROVE  PortGone(X, Y, x.spn, seen, K)
<1> DEFINE spn == x.spn
           obj == cache[spn.svc]
           D == StoredElements(spn, svc, StoredOf(obj))
<1>1. /\ x \in ServiceOp /\ Fits(x, seen, cache, K) /\ AllAccounted(Range(ops), seen, cache, K, X)
  BY WorkParts
<1>2. spn \in ServicePortName /\ spn.svc \in Service
  BY <1>1, ServiceOpFields DEF ServicePortName
<1>3. ~HasPort(seen[spn.svc], spn) /\ HasPort(obj, spn)
  BY <1>1 DEF Fits
<1>4. obj \in Versions(spn.svc) /\ seen[spn.svc] \in Versions(spn.svc) \cup {Nil}
  BY <1>2, <1>3 DEF SvcTyped, HasPort
<1>5. PICK i \in At(obj, spn) : TRUE
  BY <1>3 DEF HasPort
<1>6. i \in DOMAIN obj.ports /\ obj.ip # Nil
  BY <1>2, <1>4, <1>5 DEF At, ServicesApart, ServiceKept
<1>7. PortID(spn) = <<obj.ip, obj.ports[i].port>> /\ SlotsOf(obj, spn) = Slots(obj, obj.ports[i])
  BY <1>2, <1>4, <1>5, PortIDOf
<1>8. svc.port = obj.ports[i].port
  BY <1>7 DEF SvcID
<1>9. Nil # StoredOf(obj)
  <2>1. NodePorts(obj) \subseteq Port
    BY <1>2, <1>4, PortFields DEF NodePorts
  <2>2. StoredOf(obj) \in Stored
    BY <1>2, <1>4, <2>1, ObjectFields DEF StoredOf, Stored
  <2> QED BY <2>2, SvcAssumption
<1>10. /\ HasKeys(D, spn, Slots(obj, obj.ports[i]))
       /\ \A d \in D :
            \/ \E t \in Slots(obj, obj.ports[i]) : d.set = t[1] /\ d.key = <<spn.proto, t[2], t[3]>>
            \/ \E np \in NodePorts(obj) : d.set = "nodeport" /\ d.key = <<spn.proto, Nil, np>>
  <2> HIDE DEF obj, spn
  <2>1. obj.ip # Nil /\ svc.port = obj.ports[i].port /\ Nil # StoredOf(obj) /\ i \in DOMAIN obj.ports
    BY <1>6, <1>8, <1>9
  <2>2. HasKeys(D, spn, Slots(obj, obj.ports[i]))
    BY <2>1, StoredElementsAre
  <2>3. \A d \in D :
            \/ \E t \in Slots(obj, obj.ports[i]) : d.set = t[1] /\ d.key = <<spn.proto, t[2], t[3]>>
            \/ \E np \in NodePorts(obj) : d.set = "nodeport" /\ d.key = <<spn.proto, Nil, np>>
    BY <2>1, StoredElementsAre
  <2> QED BY <2>2, <2>3
<1> HIDE DEF D, obj
<1>11. Y = {e \in X : \A d \in D : ~(e.set = d.set /\ e.key = d.key)}
  BY DEF RemoveFromSets, D, obj
<1>12. ASSUME NEW t \in Claims(spn), ElementAt(spn, t) \in Y
       PROVE  FALSE
  <2> DEFINE e == ElementAt(spn, t)
             W == Range(ops)
  <2>1. e \in X /\ \A d \in D : ~(e.set = d.set /\ e.key = d.key)
    BY <1>11, <1>12
  <2> HIDE DEF e, W
  <2>2. PICK s \in K : \E u \in Claims(s) :
          e = ElementAt(s, u) /\ (u \in SlotsOf(seen[s.svc], s) \/ Leaving(s, u, W, seen, cache))
    BY <1>1, <2>1 DEF AllAccounted, Accounted, W
  <2>3. PICK u \in Claims(s) :
          e = ElementAt(s, u) /\ (u \in SlotsOf(seen[s.svc], s) \/ Leaving(s, u, W, seen, cache))
    BY <2>2
  <2>4. ElementAt(s, u) = ElementAt(spn, t)
    BY <2>3 DEF e
  <2>5. s = spn /\ u = t
    BY <1>2, <2>4, SameElement
  <2>6. t \in SlotsOf(obj, spn)
    BY <1>3, <2>3, <2>5, SlotsOfPorts DEF Leaving, obj
  <2>7. PICK d \in D : d.set = t[1] /\ d.key = <<spn.proto, t[2], t[3]>>
    BY <1>7, <1>10, <2>6 DEF HasKeys
  <2>8. e.set = t[1] /\ e.key = <<spn.proto, t[2], t[3]>>
    BY ElementFields DEF e
  <2> QED BY <2>1, <2>7, <2>8
<1>13. ASSUME NEW s \in K, NEW t \in SlotsOf(seen[s.svc], s), ElementAt(s, t) \in X
       PROVE  ElementAt(s, t) \in Y
  <2> DEFINE e == ElementAt(s, t)
  <2>1. SUFFICES ASSUME NEW d \in D, e.set = d.set, e.key = d.key PROVE FALSE
    BY <1>11, <1>13
  <2>2. e.set = t[1] /\ e.key = <<s.proto, t[2], t[3]>>
    BY ElementFields
  <2> HIDE DEF e
  <2>3. s \in ServicePortName /\ s.svc \in Service
    BY DEF ServicePortName
  <2>4. t \in Claims(s) /\ HasPort(seen[s.svc], s) /\ seen[s.svc] \in Versions(s.svc) \cup {Nil}
    BY <2>3, ObjectsClaim
  <2>5. CASE \E u \in Slots(obj, obj.ports[i]) : d.set = u[1] /\ d.key = <<spn.proto, u[2], u[3]>>
    <3>1. PICK u \in Slots(obj, obj.ports[i]) : d.set = u[1] /\ d.key = <<spn.proto, u[2], u[3]>>
      BY <2>5
    <3>2. u \in Claims(spn)
      BY <1>2, <1>4, <1>7, SlotsClaimed
    <3>3. t[1] = u[1] /\ <<s.proto, t[2], t[3]>> = <<spn.proto, u[2], u[3]>>
      BY <2>1, <2>2, <3>1
    <3>4. s = spn
      BY <1>2, <2>3, <2>4, <3>2, <3>3, ClaimsApart
    <3> QED BY <1>3, <2>4, <3>4
  <2>6. CASE \E np \in NodePorts(obj) : d.set = "nodeport" /\ d.key = <<spn.proto, Nil, np>>
    <3> DEFINE new == seen[s.svc]
    <3>1. PICK np \in NodePorts(obj) : d.set = "nodeport" /\ d.key = <<spn.proto, Nil, np>>
      BY <2>6
    <3>2. t[1] = "nodeport" /\ t[3] = np
      <4>1. t[1] = "nodeport" /\ <<s.proto, t[2], t[3]>> = <<spn.proto, Nil, np>>
        BY <2>1, <2>2, <3>1
      <4> QED BY <4>1
    <3>3. new \in Versions(s.svc) /\ new # Nil
      BY <2>4 DEF HasPort
    <3> HIDE DEF new
    <3>4. PICK j \in At(new, s) : t \in Slots(new, new.ports[j])
      BY <3>3 DEF SlotsOf, new
    <3>5. t = <<"nodeport", Nil, new.ports[j].nodePort>> /\ new.ports[j].nodePort # 0
      BY <3>2, <3>4 DEF Slots
    <3>6. np \in NodePorts(new)
      BY <3>2, <3>4, <3>5 DEF NodePorts, At
    <3>7. s.svc = spn.svc
      BY <1>2, <1>4, <2>3, <3>1, <3>3, <3>6 DEF ServicesApart
    <3>8. ServiceKept(obj, new)
      BY <1>2, <1>4, <3>3, <3>7 DEF ServicesApart
    <3>9. ~\A k \in DOMAIN obj.ports : obj.ports[k].nodePort = 0
      BY <3>1 DEF NodePorts
    <3>10. obj.ports = new.ports
      BY <3>8, <3>9 DEF ServiceKept
    <3>11. HasPort(new, spn)
      BY <1>3, <3>3, <3>10 DEF HasPort, At
    <3> QED BY <1>3, <3>7, <3>11 DEF new
  <2> QED BY <1>10, <2>1, <2>5, <2>6
<1>14. Y \subseteq X
  BY <1>11
<1> QED BY <1>12, <1>13, <1>14 DEF PortGone

(***************************************************************************)
(* The work of an event.                                                   *)
(***************************************************************************)
\* When there is no work in hand, the stored objects are the delivered ones,
\* the known ports are theirs, and so are the elements.
LEMMA AtRest ==
    ASSUME ServicesApart, NEW seen, NEW cache, SvcTyped(seen), NEW K \in SUBSET ServicePortName, NEW X,
           Working(<<>>, seen, cache, K, X)
    PROVE  /\ \A s \in Service : cache[s] = seen[s]
           /\ \A spn \in ServicePortName : spn \in K <=> HasPort(seen[spn.svc], spn)
           /\ \A spn \in K : \A t \in SlotsOf(seen[spn.svc], spn) : ElementAt(spn, t) \in X
           /\ \A e \in X : \E spn \in K : \E t \in Claims(spn) : e = ElementAt(spn, t) /\ t \in SlotsOf(seen[spn.svc], spn)
<1>1. Range(<<>>) = {}
  BY DEF Range
<1>2. /\ CacheNext({}, seen, cache) /\ Announced({}, seen, K) /\ Filled({}, seen, K, X)
      /\ Withdrawn({}, seen, K) /\ AllAccounted({}, seen, cache, K, X)
  BY <1>1 DEF Working
<1>3. \A s \in Service : cache[s] = seen[s]
  BY <1>2 DEF CacheNext
<1>4. \A spn \in ServicePortName : spn \in K <=> HasPort(seen[spn.svc], spn)
  BY <1>2 DEF Announced, Withdrawn
<1>5. \A spn \in K : \A t \in SlotsOf(seen[spn.svc], spn) : ElementAt(spn, t) \in X
  BY <1>2 DEF Filled
<1>6. ASSUME NEW e \in X
      PROVE  \E spn \in K : \E t \in Claims(spn) : e = ElementAt(spn, t) /\ t \in SlotsOf(seen[spn.svc], spn)
  <2>0. PICK spn \in K : \E t \in Claims(spn) :
          e = ElementAt(spn, t) /\ (t \in SlotsOf(seen[spn.svc], spn) \/ Leaving(spn, t, {}, seen, cache))
    BY <1>2 DEF AllAccounted, Accounted
  <2>1. PICK t \in Claims(spn) :
          e = ElementAt(spn, t) /\ (t \in SlotsOf(seen[spn.svc], spn) \/ Leaving(spn, t, {}, seen, cache))
    BY <2>0
  <2>2. ~Leaving(spn, t, {}, seen, cache)
    BY <1>4 DEF Leaving
  <2> QED BY <2>1, <2>2
<1> QED BY <1>3, <1>4, <1>5, <1>6

\* The service ports of an object have different names.
LEMMA DistinctPorts ==
    ASSUME ServicesApart, NEW s \in Service, NEW obj \in Versions(s),
           NEW i \in DOMAIN obj.ports, NEW j \in DOMAIN obj.ports,
           getSvcPortName(s, obj.ports[i]) = getSvcPortName(s, obj.ports[j])
    PROVE  i = j
<1>1. PortsKept(obj, obj) /\ obj.ports[i].name = obj.ports[j].name
  BY DEF ServicesApart, getSvcPortName
<1> QED BY <1>1 DEF PortsKept

\* An object is delivered for one service, and the others keep theirs.
LEMMA SvcTypedExcept ==
    ASSUME NEW objs, SvcTyped(objs), NEW s \in Service, NEW obj \in Versions(s) \cup {Nil}
    PROVE  /\ SvcTyped([objs EXCEPT ![s] = obj])
           /\ [objs EXCEPT ![s] = obj][s] = obj
           /\ \A r \in Service : r # s => [objs EXCEPT ![s] = obj][r] = objs[r]
<1> DEFINE next == [objs EXCEPT ![s] = obj]
<1>1. objs \in [Service -> ServiceObject \cup {Nil}] /\ \A r \in Service : objs[r] \in Versions(r) \cup {Nil}
  BY DEF SvcTyped
<1>2. obj \in ServiceObject \cup {Nil}
  BY ObjectFields
<1>3. next \in [Service -> ServiceObject \cup {Nil}] /\ next[s] = obj /\ \A r \in Service : r # s => next[r] = objs[r]
  BY <1>1, <1>2
<1> HIDE DEF next
<1>4. SvcTyped(next)
  BY <1>1, <1>3 DEF SvcTyped
<1> QED BY <1>3, <1>4 DEF next

\* AddService: the ports are added, and the object is in the cache already.
LEMMA AddServiceWork ==
    ASSUME ServicesApart, NEW seen, NEW cache, SvcTyped(seen), NEW K \in SUBSET ServicePortName, NEW X,
           Working(<<>>, seen, cache, K, X), NEW s \in Service, seen[s] = Nil, NEW new \in Versions(s),
           NEW seen2, NEW cache2, seen2[s] = new, cache2[s] = new,
           \A r \in Service : r # s => seen2[r] = seen[r] /\ cache2[r] = cache[r]
    PROVE  Working(AddServiceOps(s, new), seen2, cache2, K, X)
<1> DEFINE ops == AddServiceOps(s, new)
           n == Len(new.ports)
           name(i) == getSvcPortName(s, new.ports[i])
           add(i) == AddPortOp(name(i), SpecOf(new, new.ports[i]))
<1>1. new.ip # Nil /\ new # Nil /\ n \in Nat /\ DOMAIN new.ports = 1..n
  BY ObjectFields, LenProperties DEF ServicesApart, ServiceKept
<1>2. ops = [i \in 1..n |-> add(i)]
  BY <1>1 DEF AddServiceOps
<1>3. ASSUME NEW i \in 1..n
      PROVE  /\ name(i) \in ServicePortName /\ name(i).svc = s /\ i \in At(new, name(i)) /\ add(i) \in ServiceOp
             /\ add(i).op = "addPort" /\ add(i).spn = name(i) /\ add(i).spec = SpecOf(new, new.ports[i])
             /\ IsAdding(add(i)) /\ OpPort(add(i)) = name(i) /\ ~IsElement(add(i))
  <2>1. name(i) \in ServicePortName /\ name(i).svc = s /\ i \in At(new, name(i))
    BY <1>1, PortFields
  <2>2. SpecOf(new, new.ports[i]) \in PortSpec
    BY <1>1, SpecTyped
  <2> HIDE DEF name
  <2> QED BY <2>1, <2>2 DEF AddPortOp, ServiceOp, IsAdding, IsElement, OpPort
<1>4. \A i, j \in 1..n : name(i) = name(j) => i = j
  BY <1>1, DistinctPorts
<1>5. /\ \A r \in Service : cache[r] = seen[r]
      /\ \A spn \in ServicePortName : spn \in K <=> HasPort(seen[spn.svc], spn)
      /\ \A spn \in K : \A t \in SlotsOf(seen[spn.svc], spn) : ElementAt(spn, t) \in X
      /\ \A e \in X : \E spn \in K : \E t \in Claims(spn) : e = ElementAt(spn, t) /\ t \in SlotsOf(seen[spn.svc], spn)
  BY AtRest
<1>6. \A spn \in K : spn.svc \in Service /\ spn.svc # s /\ seen2[spn.svc] = seen[spn.svc]
  BY <1>5 DEF HasPort, ServicePortName
<1> HIDE DEF name, add, n, ops
<1>7. ops \in Seq(ServiceOp) /\ DOMAIN ops = 1..n /\ \A i \in 1..n : ops[i] = add(i)
  <2>1. ops \in [1..n -> ServiceOp]
    BY <1>2, <1>3
  <2> QED BY <1>1, <1>2, <2>1, SeqDef
<1>8. Ordered(ops)
  <2>1. ASSUME NEW k \in 1..n, NEW l \in 1..n, k < l
        PROVE  MayPrecede(add(k), add(l))
    <3>1. k # l
      BY <2>1
    <3> QED BY <1>3, <1>4, <3>1 DEF MayPrecede
  <2> QED BY <1>7, <2>1 DEF Ordered
<1>9. Range(ops) = {add(i) : i \in 1..n}
  BY <1>7 DEF Range
<1> DEFINE W == {add(i) : i \in 1..n}
<1>10. AllFit(W, seen2, cache2, K)
  <2>1. ASSUME NEW i \in 1..n
        PROVE  Fits(add(i), seen2, cache2, K)
    <3>1. name(i) \notin K
      BY <1>3, <1>6
    <3>2. seen2[name(i).svc] = new
      BY <1>3
    <3>3. \E j \in At(new, name(i)) : add(i).spec = SpecOf(new, new.ports[j])
      BY <1>3
    <3> QED BY <1>1, <1>3, <3>1, <3>2, <3>3 DEF Fits
  <2> QED BY <2>1 DEF AllFit
<1>11. CacheNext(W, seen2, cache2)
  BY <1>5 DEF CacheNext
<1>12. Announced(W, seen2, K)
  <2>1. ASSUME NEW spn \in ServicePortName, HasPort(seen2[spn.svc], spn), spn \notin K
        PROVE  \E x \in W : IsAdding(x) /\ OpPort(x) = spn
    <3>1. spn.svc \in Service
      BY DEF ServicePortName
    <3>2. spn.svc = s
      BY <1>5, <2>1, <3>1
    <3>3. PICK i \in At(new, spn) : TRUE
      BY <2>1, <3>2 DEF HasPort
    <3>4. i \in 1..n /\ name(i) = spn
      BY <1>1, <3>2, <3>3, NameAt DEF name
    <3> QED BY <1>3, <3>4
  <2> QED BY <2>1 DEF Announced
<1>13. Filled(W, seen2, K, X)
  BY <1>5, <1>6 DEF Filled
<1>14. Withdrawn(W, seen2, K)
  BY <1>5, <1>6 DEF Withdrawn
<1>15. AllAccounted(W, seen2, cache2, K, X)
  <2>1. ASSUME NEW e \in X
        PROVE  Accounted(e, W, seen2, cache2, K)
    <3>1. PICK spn \in K : \E t \in Claims(spn) : e = ElementAt(spn, t) /\ t \in SlotsOf(seen[spn.svc], spn)
      BY <1>5
    <3> QED BY <1>6, <3>1 DEF Accounted
  <2> QED BY <2>1 DEF AllAccounted
<1> HIDE DEF W
<1>16. Working(ops, seen2, cache2, K, X)
  <2>1. Range(ops) = W
    BY <1>9 DEF W
  <2> QED BY <1>7, <1>8, <1>10, <1>11, <1>12, <1>13, <1>14, <1>15, <2>1 DEF Working
<1> QED BY <1>16 DEF ops

\* DeleteService: the ports of the object, which is in the cache, are deleted.
LEMMA DeleteServiceWork ==
    ASSUME ServicesApart, NEW seen, NEW cache, SvcTyped(seen), NEW K \in SUBSET ServicePortName, NEW X,
           Working(<<>>, seen, cache, K, X), NEW s \in Service, NEW old \in Versions(s), seen[s] = old,
           NEW seen2, seen2[s] = Nil, \A r \in Service : r # s => seen2[r] = seen[r]
    PROVE  Working(DeleteServiceOps(s, old), seen2, cache, K, X)
<1> DEFINE n == Len(old.ports)
           name(i) == getSvcPortName(s, old.ports[i])
           del(i) == DeletePortOp(name(i))
           a == [i \in 1..n |-> del(i)]
           store == StoreOp(s, Nil)
           b == <<store>>
           ops == a \o b
<1>1. old # Nil /\ n \in Nat /\ DOMAIN old.ports = 1..n
  BY ObjectFields, LenProperties
<1>2. DeleteServiceOps(s, old) = ops
  BY <1>1 DEF DeleteServiceOps
<1>3. ASSUME NEW i \in 1..n
      PROVE  /\ name(i) \in ServicePortName /\ name(i).svc = s /\ i \in At(old, name(i)) /\ del(i) \in ServiceOp
             /\ del(i).op = "deletePort" /\ del(i).spn = name(i) /\ ~IsAdding(del(i)) /\ ~IsElement(del(i))
  <2>1. name(i) \in ServicePortName /\ name(i).svc = s /\ i \in At(old, name(i))
    BY <1>1, PortFields
  <2> HIDE DEF name
  <2> QED BY <2>1 DEF DeletePortOp, ServiceOp, IsAdding, IsElement
<1>4. store \in ServiceOp /\ store.op = "store" /\ store.svc = s /\ store.obj = Nil /\ ~IsAdding(store) /\ ~IsElement(store)
  BY DEF StoreOp, ServiceOp, IsAdding, IsElement
<1>5. /\ \A r \in Service : cache[r] = seen[r]
      /\ \A spn \in ServicePortName : spn \in K <=> HasPort(seen[spn.svc], spn)
      /\ \A spn \in K : \A t \in SlotsOf(seen[spn.svc], spn) : ElementAt(spn, t) \in X
      /\ \A e \in X : \E spn \in K : \E t \in Claims(spn) : e = ElementAt(spn, t) /\ t \in SlotsOf(seen[spn.svc], spn)
  BY AtRest
<1>6. \A spn \in ServicePortName : spn.svc \in Service
  BY DEF ServicePortName
<1> HIDE DEF name, del, n, store
<1>7. a \in Seq(ServiceOp) /\ DOMAIN a = 1..n /\ \A i \in 1..n : a[i] = del(i)
  <2>1. a \in [1..n -> ServiceOp]
    BY <1>3
  <2> QED BY <1>1, <2>1, SeqDef
<1>8. b \in Seq(ServiceOp) /\ DOMAIN b = {1} /\ b[1] = store
  BY <1>4
<1> HIDE DEF a, b
<1>9. Range(a) = {del(i) : i \in 1..n} /\ Range(b) = {store}
  BY <1>7, <1>8 DEF Range
<1>10. Ordered(a) /\ Ordered(b)
  <2>1. Ordered(a)
    BY <1>3, <1>7 DEF Ordered, MayPrecede
  <2>2. Ordered(b)
    BY <1>8 DEF Ordered
  <2> QED BY <2>1, <2>2
<1>11. ops \in Seq(ServiceOp) /\ Ordered(ops) /\ Range(ops) = Range(a) \cup Range(b)
  <2>1. \A x \in Range(a), y \in Range(b) : MayPrecede(x, y)
    BY <1>3, <1>4, <1>9 DEF MayPrecede
  <2> QED BY <1>7, <1>8, <1>10, <2>1, OrderedConcat
<1> DEFINE W == {del(i) : i \in 1..n} \cup {store}
<1> HIDE DEF ops
<1>12. AllFit(W, seen2, cache, K)
  <2>1. ASSUME NEW i \in 1..n
        PROVE  Fits(del(i), seen2, cache, K)
    <3>1. ~HasPort(seen2[name(i).svc], name(i))
      BY <1>3 DEF HasPort
    <3>2. HasPort(cache[name(i).svc], name(i))
      BY <1>1, <1>3, <1>5 DEF HasPort
    <3> QED BY <1>3, <3>1, <3>2 DEF Fits
  <2>2. Fits(store, seen2, cache, K)
    BY <1>4 DEF Fits
  <2> QED BY <2>1, <2>2 DEF AllFit
<1>13. CacheNext(W, seen2, cache)
  BY <1>5 DEF CacheNext, store
<1>14. Announced(W, seen2, K)
  BY <1>5, <1>6 DEF Announced, HasPort
<1>15. Filled(W, seen2, K, X)
  BY <1>5, <1>6 DEF Filled, SlotsOf
<1>16. Withdrawn(W, seen2, K)
  <2>1. ASSUME NEW spn \in K
        PROVE  HasPort(seen2[spn.svc], spn) \/ DeletePortOp(spn) \in W
    <3>1. CASE spn.svc # s
      BY <1>5, <1>6, <3>1
    <3>2. CASE spn.svc = s
      <4>1. PICK i \in At(old, spn) : TRUE
        BY <1>5, <3>2 DEF HasPort
      <4>2. i \in 1..n /\ name(i) = spn
        BY <1>1, <3>2, <4>1, NameAt DEF name
      <4> QED BY <4>2 DEF del
    <3> QED BY <3>1, <3>2
  <2> QED BY <2>1 DEF Withdrawn
<1>17. AllAccounted(W, seen2, cache, K, X)
  <2>1. ASSUME NEW e \in X
        PROVE  Accounted(e, W, seen2, cache, K)
    <3>1. PICK spn \in K : \E t \in Claims(spn) : e = ElementAt(spn, t) /\ t \in SlotsOf(seen[spn.svc], spn)
      BY <1>5
    <3>2. PICK t \in Claims(spn) : e = ElementAt(spn, t) /\ t \in SlotsOf(seen[spn.svc], spn)
      BY <3>1
    <3>3. CASE spn.svc # s
      BY <1>6, <3>2, <3>3 DEF Accounted
    <3>4. CASE spn.svc = s
      <4>1. Leaving(spn, t, W, seen2, cache)
        BY <1>5, <3>2, <3>4 DEF Leaving, HasPort
      <4> QED BY <3>2, <4>1 DEF Accounted
    <3> QED BY <3>3, <3>4
  <2> QED BY <2>1 DEF AllAccounted
<1> HIDE DEF W
<1>18. Working(ops, seen2, cache, K, X)
  <2>1. Range(ops) = W
    BY <1>9, <1>11 DEF W
  <2> QED BY <1>11, <1>12, <1>13, <1>14, <1>15, <1>16, <1>17, <2>1 DEF Working
<1> QED BY <1>2, <1>18

\* The elements that are picked from a sequence.
LEMMA RangePicked ==
    ASSUME NEW S, NEW q \in Seq(S), NEW P \in SUBSET DOMAIN q
    PROVE  Picked(q, P) \in Seq(S) /\ Range(Picked(q, P)) = {q[i] : i \in P}
<1>1. PICK f : Lists(Picked(q, P), q, P, f)
  BY PickedOf
<1>2. Range(Picked(q, P)) = {q[i] : i \in P}
  BY <1>1 DEF Lists, Range
<1> QED BY <1>2, PickedOf

\* A sequence of pairs.
PairsOf(f, g, n) == [i \in 1..n |-> <<f[i], g[i]>>]

\* A sequence of pairs put together.
LEMMA PairsFlattened ==
    ASSUME NEW S, NEW n \in Nat, NEW f \in [1..n -> S], NEW g \in [1..n -> S],
           NEW q, q = FlattenSeq(PairsOf(f, g, n))
    PROVE  q \in Seq(S) /\ Range(q) = Range(f) \cup Range(g)
<1> DEFINE seqs == [i \in 1..n |-> <<f[i], g[i]>>]
<1>1. \A i \in 1..n : seqs[i] \in Seq(S) /\ Range(seqs[i]) = {f[i], g[i]}
  <2>1. ASSUME NEW i \in 1..n
        PROVE  seqs[i] \in Seq(S) /\ Range(seqs[i]) = {f[i], g[i]}
    <3>1. seqs[i] = <<f[i], g[i]>> /\ f[i] \in S /\ g[i] \in S
      OBVIOUS
    <3> HIDE DEF seqs
    <3>2. seqs[i] \in Seq(S) /\ DOMAIN seqs[i] = {1, 2} /\ seqs[i][1] = f[i] /\ seqs[i][2] = g[i]
      BY <3>1
    <3> QED BY <3>2 DEF Range
  <2> QED BY <2>1
<1>2. seqs \in [1..n -> Seq(S)] /\ DOMAIN seqs = 1..n
  BY <1>1
<1>3. seqs \in Seq(Seq(S))
  BY <1>2, SeqDef
<1> HIDE DEF seqs
<1>4. FlattenSeq(seqs) \in Seq(S) /\ Range(FlattenSeq(seqs)) = UNION {Range(seqs[i]) : i \in 1..n}
  BY <1>2, <1>3, FlattenElements
<1>5. UNION {Range(seqs[i]) : i \in 1..n} = {f[i] : i \in 1..n} \cup {g[i] : i \in 1..n}
  <2>1. {Range(seqs[i]) : i \in 1..n} = {{f[i], g[i]} : i \in 1..n}
    BY <1>1
  <2> DEFINE D == 1..n
  <2> HIDE DEF D
  <2>2. UNION {{f[i], g[i]} : i \in D} = {f[i] : i \in D} \cup {g[i] : i \in D}
    OBVIOUS
  <2> QED BY <2>1, <2>2 DEF D
<1>6. Range(f) = {f[i] : i \in 1..n} /\ Range(g) = {g[i] : i \in 1..n}
  BY DEF Range
<1> QED BY <1>4, <1>5, <1>6 DEF seqs, PairsOf

\* The calls an update makes for an address, and for several addresses, of
\* every port; kind is "addElement" or "removeElement".
ElementCall(kind, s, p, set, ip) ==
    [op |-> kind, spn |-> getSvcPortName(s, p), set |-> set, ip |-> ip, port |-> p.port]
AddressCalls(kind, s, new, set, ip) ==
    FlattenSeq([i \in DOMAIN new.ports |->
        <<ElementCall(kind, s, new.ports[i], set, ip), ElementCall(kind, s, new.ports[i], "markmasq", ip)>>])
AddressList(kind, s, new, set, ips) ==
    FlattenSeq([i \in DOMAIN ips |-> AddressCalls(kind, s, new, set, ips[i])])
CallsFor(kind, s, new, set, I) ==
    {ElementCall(kind, s, new.ports[i], a, ip) : i \in DOMAIN new.ports, a \in {set, "markmasq"}, ip \in I}

\* The calls for one address.
LEMMA AddressCallsAre ==
    ASSUME NEW s \in Service, NEW new \in Versions(s), NEW kind \in {"addElement", "removeElement"},
           NEW set \in SetNames, NEW ip \in IP
    PROVE  /\ AddressCalls(kind, s, new, set, ip) \in Seq(ServiceOp)
           /\ Range(AddressCalls(kind, s, new, set, ip)) = CallsFor(kind, s, new, set, {ip})
<1> DEFINE n == Len(new.ports)
           f == [i \in 1..n |-> ElementCall(kind, s, new.ports[i], set, ip)]
           g == [i \in 1..n |-> ElementCall(kind, s, new.ports[i], "markmasq", ip)]
           q == FlattenSeq([i \in 1..n |-> <<f[i], g[i]>>])
<1>1. n \in Nat /\ DOMAIN new.ports = 1..n
  BY ObjectFields, LenProperties
<1>2. ASSUME NEW i \in 1..n, NEW a \in SetNames
      PROVE  ElementCall(kind, s, new.ports[i], a, ip) \in ServiceOp
  <2>1. getSvcPortName(s, new.ports[i]) \in ServicePortName /\ new.ports[i].port \in Port
    BY <1>1, PortFields
  <2> QED BY <2>1 DEF ElementCall, ServiceOp
<1>3. f \in [1..n -> ServiceOp] /\ g \in [1..n -> ServiceOp]
  BY <1>2 DEF SetNames
<1>4. AddressCalls(kind, s, new, set, ip) = q
  <2>1. [i \in 1..n |-> <<f[i], g[i]>>] =
        [i \in DOMAIN new.ports |->
          <<ElementCall(kind, s, new.ports[i], set, ip), ElementCall(kind, s, new.ports[i], "markmasq", ip)>>]
    BY <1>1
  <2> QED BY <2>1 DEF AddressCalls
<1>5. {f[i] : i \in 1..n} \cup {g[i] : i \in 1..n} = CallsFor(kind, s, new, set, {ip})
  <2> DEFINE c(i, a) == ElementCall(kind, s, new.ports[i], a, ip)
  <2>1. \A i \in 1..n : f[i] = c(i, set) /\ g[i] = c(i, "markmasq")
    OBVIOUS
  <2>2. \A x : x \in CallsFor(kind, s, new, set, {ip}) <=> \E i \in 1..n : x = c(i, set) \/ x = c(i, "markmasq")
    <3> HIDE DEF f, g, n
    <3> QED BY <1>1 DEF CallsFor
  <2> HIDE DEF c, f, g, n
  <2>3. \A x : x \in {f[i] : i \in 1..n} \cup {g[i] : i \in 1..n} <=> \E i \in 1..n : x = f[i] \/ x = g[i]
    OBVIOUS
  <2> QED BY <2>1, <2>2, <2>3
<1> HIDE DEF f, g
<1>6. q \in Seq(ServiceOp) /\ Range(q) = Range(f) \cup Range(g)
  <2> HIDE DEF n
  <2>1. q = FlattenSeq(PairsOf(f, g, n))
    BY DEF PairsOf
  <2> HIDE DEF q
  <2>2. ASSUME NEW m \in Nat, NEW a \in [1..m -> ServiceOp], NEW b \in [1..m -> ServiceOp],
               NEW r, r = FlattenSeq(PairsOf(a, b, m))
        PROVE  r \in Seq(ServiceOp) /\ Range(r) = Range(a) \cup Range(b)
    BY <2>2, PairsFlattened
  <2>3. n \in Nat /\ f \in [1..n -> ServiceOp] /\ g \in [1..n -> ServiceOp]
    BY <1>1, <1>3
  <2> QED BY <2>1, <2>2, <2>3
<1>7. Range(f) = {f[i] : i \in 1..n} /\ Range(g) = {g[i] : i \in 1..n}
  BY <1>3 DEF Range
<1> QED BY <1>4, <1>5, <1>6, <1>7

\* The calls for several addresses.
LEMMA AddressListIs ==
    ASSUME NEW s \in Service, NEW new \in Versions(s), NEW kind \in {"addElement", "removeElement"},
           NEW set \in SetNames, NEW ips \in Seq(IP)
    PROVE  /\ AddressList(kind, s, new, set, ips) \in Seq(ServiceOp)
           /\ Range(AddressList(kind, s, new, set, ips)) = CallsFor(kind, s, new, set, Range(ips))
<1> DEFINE n == Len(ips)
           seqs == [i \in DOMAIN ips |-> AddressCalls(kind, s, new, set, ips[i])]
<1>1. n \in Nat /\ DOMAIN ips = 1..n /\ \A i \in 1..n : ips[i] \in IP
  BY LenProperties, ElementOfSeq
<1>2. \A i \in 1..n : /\ AddressCalls(kind, s, new, set, ips[i]) \in Seq(ServiceOp)
                      /\ Range(AddressCalls(kind, s, new, set, ips[i])) = CallsFor(kind, s, new, set, {ips[i]})
  BY <1>1, AddressCallsAre
<1>3. /\ DOMAIN seqs = 1..n /\ seqs \in [1..n -> Seq(ServiceOp)]
      /\ \A i \in 1..n : Range(seqs[i]) = CallsFor(kind, s, new, set, {ips[i]})
  <2> HIDE DEF n
  <2> QED BY <1>1, <1>2
<1> HIDE DEF seqs, n
<1>4. seqs \in Seq(Seq(ServiceOp))
  BY <1>1, <1>3, SeqDef
<1>5. FlattenSeq(seqs) \in Seq(ServiceOp) /\ Range(FlattenSeq(seqs)) = UNION {Range(seqs[i]) : i \in 1..n}
  BY <1>3, <1>4, FlattenElements
<1>6. UNION {CallsFor(kind, s, new, set, {ips[i]}) : i \in 1..n} = CallsFor(kind, s, new, set, Range(ips))
  <2> DEFINE c(i, a, ip) == ElementCall(kind, s, new.ports[i], a, ip)
             D == DOMAIN new.ports
             A == {set, "markmasq"}
  <2>1. \A I : CallsFor(kind, s, new, set, I) = {c(i, a, ip) : i \in D, a \in A, ip \in I}
    BY DEF CallsFor
  <2>2. Range(ips) = {ips[i] : i \in 1..n}
    BY <1>1 DEF Range
  <2> HIDE DEF c, D, A
  <2>3. ASSUME NEW x
        PROVE  x \in UNION {CallsFor(kind, s, new, set, {ips[i]}) : i \in 1..n}
                  <=> x \in CallsFor(kind, s, new, set, Range(ips))
    <3>1. x \in CallsFor(kind, s, new, set, Range(ips))
             <=> \E i \in D, a \in A : \E k \in 1..n : x = c(i, a, ips[k])
      BY <2>1, <2>2
    <3>2. \A k \in 1..n : x \in CallsFor(kind, s, new, set, {ips[k]}) <=> \E i \in D, a \in A : x = c(i, a, ips[k])
      BY <2>1
    <3> QED BY <3>1, <3>2
  <2> QED BY <2>3
<1>7. UNION {Range(seqs[i]) : i \in 1..n} = CallsFor(kind, s, new, set, Range(ips))
  BY <1>3, <1>6
<1> QED BY <1>5, <1>7 DEF AddressList, seqs

\* The calls an update makes for a list of addresses that changes.
LEMMA AddressOpsAre ==
    ASSUME NEW s \in Service, NEW new \in Versions(s), NEW set \in SetNames,
           NEW newIPs \in Seq(IP), NEW storedIPs \in Seq(IP)
    PROVE  LET ops == AddressOps(s, new, set, newIPs, storedIPs) IN
           /\ ops \in Seq(ServiceOp) /\ Ordered(ops) /\ \A x \in Range(ops) : IsElement(x)
           /\ Range(ops) = CallsFor("addElement", s, new, set, Range(newIPs) \ Range(storedIPs))
                           \cup CallsFor("removeElement", s, new, set, Range(storedIPs) \ Range(newIPs))
<1> DEFINE added == Picked(newIPs, {i \in DOMAIN newIPs : newIPs[i] \notin Range(storedIPs)})
           removed == Picked(storedIPs, {i \in DOMAIN storedIPs : storedIPs[i] \notin Range(newIPs)})
           a == AddressList("addElement", s, new, set, added)
           b == AddressList("removeElement", s, new, set, removed)
           ops == AddressOps(s, new, set, newIPs, storedIPs)
<1>1. ops = a \o b
  BY DEF AddressOps, AddressList, AddressCalls, ElementCall, AddElementOp, RemoveElementOp
<1>2. added \in Seq(IP) /\ Range(added) = Range(newIPs) \ Range(storedIPs)
  <2> DEFINE P == {i \in DOMAIN newIPs : newIPs[i] \notin Range(storedIPs)}
  <2>1. added \in Seq(IP) /\ Range(added) = {newIPs[i] : i \in P}
    BY RangePicked
  <2>2. {newIPs[i] : i \in P} = Range(newIPs) \ Range(storedIPs)
    BY DEF Range
  <2> QED BY <2>1, <2>2
<1>3. removed \in Seq(IP) /\ Range(removed) = Range(storedIPs) \ Range(newIPs)
  <2> DEFINE P == {i \in DOMAIN storedIPs : storedIPs[i] \notin Range(newIPs)}
  <2>1. removed \in Seq(IP) /\ Range(removed) = {storedIPs[i] : i \in P}
    BY RangePicked
  <2>2. {storedIPs[i] : i \in P} = Range(storedIPs) \ Range(newIPs)
    BY DEF Range
  <2> QED BY <2>1, <2>2
<1> HIDE DEF added, removed, ops
<1>4. /\ a \in Seq(ServiceOp) /\ Range(a) = CallsFor("addElement", s, new, set, Range(newIPs) \ Range(storedIPs))
      /\ b \in Seq(ServiceOp) /\ Range(b) = CallsFor("removeElement", s, new, set, Range(storedIPs) \ Range(newIPs))
  <2>0. ASSUME NEW kind \in {"addElement", "removeElement"}, NEW ips \in Seq(IP)
        PROVE  /\ AddressList(kind, s, new, set, ips) \in Seq(ServiceOp)
               /\ Range(AddressList(kind, s, new, set, ips)) = CallsFor(kind, s, new, set, Range(ips))
    BY AddressListIs
  <2>1. a \in Seq(ServiceOp) /\ Range(a) = CallsFor("addElement", s, new, set, Range(added))
    BY <1>2, <2>0
  <2>2. b \in Seq(ServiceOp) /\ Range(b) = CallsFor("removeElement", s, new, set, Range(removed))
    BY <1>3, <2>0
  <2> HIDE DEF a, b
  <2> QED BY <1>2, <1>3, <2>1, <2>2
<1> HIDE DEF a, b
<1>5. ops \in Seq(ServiceOp) /\ Range(ops) = Range(a) \cup Range(b)
  BY <1>1, <1>4, RangeConcat, ConcatProperties
<1>6. ASSUME NEW x \in Range(ops)
      PROVE  IsElement(x)
  BY <1>4, <1>5 DEF CallsFor, ElementCall, IsElement
<1>7. Ordered(ops)
  <2>1. \A x, y \in Range(ops) : MayPrecede(x, y)
    BY <1>6 DEF MayPrecede, IsElement, IsAdding
  <2> QED BY <2>1, AnyOrder
<1> QED BY <1>4, <1>5, <1>6, <1>7 DEF ops

\* The ports of the stored object that the new one does not have.
GonePorts(s, new, stored) ==
    {spn \in ServicePortName : spn.svc = s /\ HasPort(stored, spn) /\ ~HasPort(new, spn)}

\* The second loop of processServicePortChanges.
LEMMA DeletedPortOpsAre ==
    ASSUME ServicesApart, NEW s \in Service, NEW new \in Versions(s), NEW stored \in Versions(s)
    PROVE  LET ops == DeletedPortOps(s, new, stored) IN
           /\ ops \in Seq(ServiceOp) /\ Ordered(ops)
           /\ Range(ops) = {DeletePortOp(spn) : spn \in GonePorts(s, new, stored)}
<1> DEFINE P == {i \in DOMAIN stored.ports : isServicePortInPorts(new.ports, stored.ports[i]) = 0}
           gone == Picked(stored.ports, P)
           n == Len(gone)
           del(i) == DeletePortOp(getSvcPortName(s, gone[i]))
           ops == DeletedPortOps(s, new, stored)
<1>1. ops = [i \in DOMAIN gone |-> del(i)]
  BY DEF DeletedPortOps
<1>2. gone \in Seq(ServicePort) /\ Range(gone) = {stored.ports[i] : i \in P}
  BY ObjectFields, RangePicked
<1> HIDE DEF gone, ops
<1>3. n \in Nat /\ DOMAIN gone = 1..n
  BY <1>2, LenProperties
<1>4. ASSUME NEW i \in 1..n
      PROVE  \E spn \in GonePorts(s, new, stored) : del(i) = DeletePortOp(spn)
  <2>1. PICK j \in P : gone[i] = stored.ports[j]
    BY <1>2, <1>3 DEF Range
  <2> DEFINE spn == getSvcPortName(s, stored.ports[j])
  <2>2. j \in DOMAIN stored.ports /\ stored # Nil
    BY <2>1, ObjectFields
  <2>3. spn \in ServicePortName /\ spn.svc = s /\ j \in At(stored, spn)
    BY <2>2, PortFields
  <2>4. ~HasPort(new, spn)
    BY <2>1, <2>2, PortFound
  <2>5. spn \in GonePorts(s, new, stored)
    BY <2>2, <2>3, <2>4 DEF GonePorts, HasPort
  <2> QED BY <2>1, <2>5
<1>5. ASSUME NEW spn \in GonePorts(s, new, stored)
      PROVE  \E i \in 1..n : del(i) = DeletePortOp(spn)
  <2>1. spn \in ServicePortName /\ spn.svc = s /\ HasPort(stored, spn) /\ ~HasPort(new, spn)
    BY DEF GonePorts
  <2>2. PICK j \in At(stored, spn) : TRUE
    BY <2>1 DEF HasPort
  <2>3. getSvcPortName(s, stored.ports[j]) = spn /\ j \in DOMAIN stored.ports
    BY <2>1, NameAt
  <2>4. j \in P
    BY <2>1, <2>3, PortFound
  <2>5. stored.ports[j] \in Range(gone)
    BY <1>2, <2>4
  <2>6. PICK i \in 1..n : gone[i] = stored.ports[j]
    BY <1>3, <2>5 DEF Range
  <2> QED BY <2>3, <2>6
<1> HIDE DEF del, n, P
<1>6. DOMAIN ops = 1..n /\ \A i \in 1..n : ops[i] = del(i)
  BY <1>1, <1>3
<1>7. Range(ops) = {DeletePortOp(spn) : spn \in GonePorts(s, new, stored)}
  BY <1>4, <1>5, <1>6 DEF Range
<1>8. \A spn \in GonePorts(s, new, stored) :
        /\ DeletePortOp(spn) \in ServiceOp /\ DeletePortOp(spn).op = "deletePort"
        /\ ~IsAdding(DeletePortOp(spn)) /\ ~IsElement(DeletePortOp(spn))
  BY DEF GonePorts, DeletePortOp, ServiceOp, IsAdding, IsElement
<1>9. ops \in Seq(ServiceOp)
  <2>1. ops \in [1..n -> ServiceOp]
    <3>1. \A i \in 1..n : del(i) \in ServiceOp
      BY <1>4, <1>8
    <3> QED BY <1>1, <1>3, <3>1
  <2> QED BY <1>3, <2>1, SeqDef
<1>10. Ordered(ops)
  <2>1. \A x, y \in Range(ops) : MayPrecede(x, y)
    BY <1>7, <1>8 DEF MayPrecede
  <2> QED BY <2>1, AnyOrder
<1> QED BY <1>7, <1>9, <1>10 DEF ops

\* The first loop.
LEMMA ChangedPortOpsAre ==
    ASSUME ServicesApart, NEW s \in Service, NEW new \in Versions(s), NEW stored \in Versions(s)
    PROVE  LET ops == [i \in DOMAIN new.ports |-> ChangePortOp(s, new, i, stored)] IN
           /\ ops \in Seq(ServiceOp) /\ Ordered(ops)
           /\ Range(ops) = {ChangePortOp(s, new, i, stored) : i \in DOMAIN new.ports}
<1> DEFINE n == Len(new.ports)
           chg(i) == ChangePortOp(s, new, i, stored)
           ops == [i \in DOMAIN new.ports |-> chg(i)]
<1>1. n \in Nat /\ DOMAIN new.ports = 1..n /\ new \in ServiceObject /\ stored \in ServiceObject
  BY ObjectFields, LenProperties
<1>2. ASSUME NEW i \in 1..n
      PROVE  /\ chg(i) \in ServiceOp /\ chg(i).op = "changePort" /\ ~IsElement(chg(i))
             /\ OpPort(chg(i)) = getSvcPortName(s, new.ports[i])
  <2>1. i \in Nat
    BY <1>1
  <2> HIDE DEF n
  <2> QED BY <1>1, <2>1 DEF ChangePortOp, ServiceOp, IsElement, OpPort
<1> HIDE DEF chg, n
<1>3. DOMAIN ops = 1..n /\ \A i \in 1..n : ops[i] = chg(i)
  BY <1>1
<1>4. ops \in Seq(ServiceOp)
  <2>1. ops \in [1..n -> ServiceOp]
    BY <1>1, <1>2
  <2> QED BY <1>1, <2>1, SeqDef
<1> HIDE DEF ops
<1>5. Ordered(ops)
  <2>1. ASSUME NEW k \in 1..n, NEW l \in 1..n, k < l
        PROVE  MayPrecede(chg(k), chg(l))
    <3>1. k # l
      BY <2>1
    <3>2. OpPort(chg(k)) # OpPort(chg(l))
      BY <1>1, <1>2, <3>1, DistinctPorts
    <3> QED BY <1>2, <3>2 DEF MayPrecede
  <2> QED BY <1>3, <2>1 DEF Ordered
<1>6. Range(ops) = {chg(i) : i \in DOMAIN new.ports}
  BY <1>1, <1>3 DEF Range
<1> QED BY <1>4, <1>5, <1>6 DEF ops, chg

\* What there is to do for processAffinityChange.
AffinityWork(s, new, stored) ==
    IF (new.aff = Nil) = (stored.aff = Nil) THEN {} ELSE {AffinityOp(PortNames(s, new), new.aff)}

\* The affinity of the ports is changed once, or not at all.
LEMMA AffinityOpsAre ==
    ASSUME ServicesApart, NEW s \in Service, NEW new \in Versions(s), NEW stored
    PROVE  LET ops == AffinityOps(s, new, stored) IN
           /\ ops \in Seq(ServiceOp) /\ Ordered(ops) /\ Range(ops) = AffinityWork(s, new, stored)
           /\ \A x \in Range(ops) : x.op = "affinity"
<1> DEFINE ops == AffinityOps(s, new, stored)
           x == AffinityOp(PortNames(s, new), new.aff)
<1>1. CASE (new.aff = Nil) = (stored.aff = Nil)
  <2>1. ops = <<>> /\ AffinityWork(s, new, stored) = {}
    BY <1>1 DEF AffinityOps, AffinityWork
  <2>2. Range(<<>>) = {} /\ Ordered(<<>>) /\ <<>> \in Seq(ServiceOp)
    BY DEF Range, Ordered
  <2> HIDE DEF ops
  <2>3. ops \in Seq(ServiceOp) /\ Ordered(ops) /\ Range(ops) = AffinityWork(s, new, stored)
        /\ \A y \in Range(ops) : y.op = "affinity"
    BY <2>1, <2>2
  <2> QED BY <2>3 DEF ops
<1>2. CASE (new.aff = Nil) # (stored.aff = Nil)
  <2>1. ops = <<x>> /\ AffinityWork(s, new, stored) = {x}
    BY <1>2 DEF AffinityOps, AffinityWork
  <2>2. x \in ServiceOp /\ x.op = "affinity"
    <3>1. PortNames(s, new) \in Seq(ServicePortName) /\ new.aff \in Timeout \cup {Nil}
      BY PortNamesTyped, ObjectFields
    <3> QED BY <3>1 DEF AffinityOp, ServiceOp
  <2> HIDE DEF x
  <2>3. <<x>> \in Seq(ServiceOp) /\ DOMAIN <<x>> = {1} /\ <<x>>[1] = x
    BY <2>2
  <2>4. Range(<<x>>) = {x} /\ Ordered(<<x>>)
    BY <2>3 DEF Range, Ordered
  <2> HIDE DEF ops
  <2>5. ops \in Seq(ServiceOp) /\ Ordered(ops) /\ Range(ops) = AffinityWork(s, new, stored)
        /\ \A y \in Range(ops) : y.op = "affinity"
    BY <2>1, <2>2, <2>3, <2>4
  <2> QED BY <2>5 DEF ops
<1> QED BY <1>1, <1>2

\* The work of UpdateService.
UpdateWork(s, new, stored) ==
    {ChangePortOp(s, new, i, stored) : i \in DOMAIN new.ports}
    \cup {DeletePortOp(spn) : spn \in GonePorts(s, new, stored)}
    \cup CallsFor("addElement", s, new, "external", Range(new.ext) \ Range(stored.ext))
    \cup CallsFor("removeElement", s, new, "external", Range(stored.ext) \ Range(new.ext))
    \cup CallsFor("addElement", s, new, "loadbalancer", Range(new.lb) \ Range(stored.lb))
    \cup CallsFor("removeElement", s, new, "loadbalancer", Range(stored.lb) \ Range(new.lb))
    \cup AffinityWork(s, new, stored)
    \cup {StoreOp(s, new)}

\* It is done in the right order.
LEMMA UpdateServiceOpsAre ==
    ASSUME ServicesApart, NEW s \in Service, NEW new \in Versions(s), NEW stored \in Versions(s)
    PROVE  LET ops == UpdateServiceOps(s, new, stored) IN
           ops \in Seq(ServiceOp) /\ Ordered(ops) /\ Range(ops) = UpdateWork(s, new, stored)
<1> DEFINE a == [i \in DOMAIN new.ports |-> ChangePortOp(s, new, i, stored)]
           b == DeletedPortOps(s, new, stored)
           c == AddressOps(s, new, "external", new.ext, stored.ext)
           d == AddressOps(s, new, "loadbalancer", new.lb, stored.lb)
           f == AffinityOps(s, new, stored)
           store == StoreOp(s, new)
           e == <<store>>
           ops == UpdateServiceOps(s, new, stored)
<1>1. ServiceKept(new, stored) /\ new \in ServiceObject
  BY ObjectFields DEF ServicesApart
<1>2. ClusterIPOps(s, new, stored) = <<>>
  BY <1>1 DEF ServiceKept, ClusterIPOps
<1>affinity. /\ f \in Seq(ServiceOp) /\ Ordered(f) /\ Range(f) = AffinityWork(s, new, stored)
             /\ \A x \in Range(f) : x.op = "affinity"
  BY AffinityOpsAre
<1>3. new.ext \in Seq(IP) /\ new.lb \in Seq(IP) /\ stored.ext \in Seq(IP) /\ stored.lb \in Seq(IP)
  BY ObjectFields, ProxyAssumption
<1>4. a \in Seq(ServiceOp) /\ Ordered(a) /\ Range(a) = {ChangePortOp(s, new, i, stored) : i \in DOMAIN new.ports}
  BY ChangedPortOpsAre
<1>5. b \in Seq(ServiceOp) /\ Ordered(b) /\ Range(b) = {DeletePortOp(spn) : spn \in GonePorts(s, new, stored)}
  BY DeletedPortOpsAre
<1>6. ASSUME NEW set \in SetNames, NEW new1 \in Seq(IP), NEW old1 \in Seq(IP)
      PROVE  LET q == AddressOps(s, new, set, new1, old1) IN
             /\ q \in Seq(ServiceOp) /\ Ordered(q) /\ \A x \in Range(q) : IsElement(x)
             /\ Range(q) = CallsFor("addElement", s, new, set, Range(new1) \ Range(old1))
                           \cup CallsFor("removeElement", s, new, set, Range(old1) \ Range(new1))
  BY AddressOpsAre
<1>7. "external" \in SetNames /\ "loadbalancer" \in SetNames
  BY DEF SetNames
<1>8. /\ c \in Seq(ServiceOp) /\ Ordered(c) /\ \A x \in Range(c) : IsElement(x)
      /\ Range(c) = CallsFor("addElement", s, new, "external", Range(new.ext) \ Range(stored.ext))
                    \cup CallsFor("removeElement", s, new, "external", Range(stored.ext) \ Range(new.ext))
  BY <1>3, <1>6, <1>7
<1>9. /\ d \in Seq(ServiceOp) /\ Ordered(d) /\ \A x \in Range(d) : IsElement(x)
      /\ Range(d) = CallsFor("addElement", s, new, "loadbalancer", Range(new.lb) \ Range(stored.lb))
                    \cup CallsFor("removeElement", s, new, "loadbalancer", Range(stored.lb) \ Range(new.lb))
  BY <1>3, <1>6, <1>7
<1>10. store \in ServiceOp
  BY <1>1 DEF StoreOp, ServiceOp
<1>11. e \in Seq(ServiceOp) /\ Ordered(e) /\ Range(e) = {store}
  <2>1. e \in Seq(ServiceOp) /\ DOMAIN e = {1} /\ e[1] = store
    BY <1>10
  <2> HIDE DEF e, store
  <2> QED BY <2>1 DEF Ordered, Range
<1>12. ops = ((((a \o b) \o c) \o d) \o f) \o e
  <2> HIDE DEF a, b, c, d, e, f
  <2>1. (a \o b) \o <<>> = a \o b
    <3>1. a \o b \in Seq(ServiceOp)
      BY <1>4, <1>5, ConcatProperties
    <3>2. \A q \in Seq(ServiceOp) : q \o <<>> = q
      OBVIOUS
    <3> HIDE DEF ops
    <3> QED BY <3>1, <3>2
  <2>2. ops = (((((a \o b) \o <<>>) \o c) \o d) \o f) \o e
    BY <1>2 DEF UpdateServiceOps, a, b, c, d, e, f, store
  <2> HIDE DEF ops
  <2> QED BY <2>1, <2>2
<1>13. \A x \in Range(a) : IsAdding(x) /\ ~IsElement(x) /\ x.op \notin {"store", "affinity"}
  <2> HIDE DEF a
  <2> QED BY <1>4 DEF ChangePortOp, IsAdding, IsElement
<1>14. \A x \in Range(b) : ~IsAdding(x) /\ ~IsElement(x) /\ x.op \notin {"store", "affinity"}
  <2> HIDE DEF b
  <2> QED BY <1>5 DEF DeletePortOp, IsAdding, IsElement
<1>15. ~IsAdding(store) /\ store.op = "store"
  BY DEF StoreOp, IsAdding
<1>16. \A x \in Range(c) \cup Range(d) : IsElement(x) /\ ~IsAdding(x) /\ x.op \notin {"store", "affinity"}
  BY <1>8, <1>9 DEF IsElement, IsAdding
<1>sticky. \A x \in Range(f) : ~IsAdding(x) /\ ~IsElement(x) /\ x.op = "affinity"
  <2> HIDE DEF f
  <2> QED BY <1>affinity DEF IsElement, IsAdding
<1> HIDE DEF a, b, c, d, e, f, store, ops
<1>17. a \o b \in Seq(ServiceOp) /\ Ordered(a \o b) /\ Range(a \o b) = Range(a) \cup Range(b)
  <2>1. \A x \in Range(a), y \in Range(b) : MayPrecede(x, y)
    BY <1>13, <1>14 DEF MayPrecede
  <2> QED BY <1>4, <1>5, <2>1, OrderedConcat
<1> DEFINE ab == a \o b
           abc == ab \o c
           abcd == abc \o d
           all == abcd \o f
<1>18. ab \in Seq(ServiceOp) /\ Ordered(ab) /\ Range(ab) = Range(a) \cup Range(b)
  BY <1>17
<1> HIDE DEF ab
<1>19. abc \in Seq(ServiceOp) /\ Ordered(abc) /\ Range(abc) = Range(ab) \cup Range(c)
  <2>1. \A x \in Range(ab), y \in Range(c) : MayPrecede(x, y)
    BY <1>13, <1>14, <1>16, <1>18 DEF MayPrecede
  <2>2. ab \in Seq(ServiceOp) /\ Ordered(ab) /\ c \in Seq(ServiceOp) /\ Ordered(c)
    BY <1>8, <1>18
  <2>3. ab \o c \in Seq(ServiceOp) /\ Ordered(ab \o c) /\ Range(ab \o c) = Range(ab) \cup Range(c)
    BY <2>1, <2>2, OrderedConcat
  <2> QED BY <2>3
<1> HIDE DEF abc
<1>20. abcd \in Seq(ServiceOp) /\ Ordered(abcd) /\ Range(abcd) = Range(abc) \cup Range(d)
  <2>1. \A x \in Range(abc), y \in Range(d) : MayPrecede(x, y)
    BY <1>13, <1>14, <1>16, <1>18, <1>19 DEF MayPrecede
  <2>2. abc \in Seq(ServiceOp) /\ Ordered(abc) /\ d \in Seq(ServiceOp) /\ Ordered(d)
    BY <1>9, <1>19
  <2>3. abc \o d \in Seq(ServiceOp) /\ Ordered(abc \o d) /\ Range(abc \o d) = Range(abc) \cup Range(d)
    BY <2>1, <2>2, OrderedConcat
  <2> QED BY <2>3
<1> HIDE DEF abcd
<1>plain. \A x \in Range(abcd) : x.op \notin {"store", "affinity"}
  BY <1>13, <1>14, <1>16, <1>18, <1>19, <1>20
<1>last. all \in Seq(ServiceOp) /\ Ordered(all) /\ Range(all) = Range(abcd) \cup Range(f)
  <2>1. \A x \in Range(abcd), y \in Range(f) : MayPrecede(x, y)
    BY <1>plain, <1>sticky DEF MayPrecede
  <2>2. abcd \in Seq(ServiceOp) /\ Ordered(abcd) /\ f \in Seq(ServiceOp) /\ Ordered(f)
    BY <1>20, <1>affinity
  <2>3. abcd \o f \in Seq(ServiceOp) /\ Ordered(abcd \o f) /\ Range(abcd \o f) = Range(abcd) \cup Range(f)
    BY <2>1, <2>2, OrderedConcat
  <2> QED BY <2>3
<1> HIDE DEF all
<1>21. all \o e \in Seq(ServiceOp) /\ Ordered(all \o e) /\ Range(all \o e) = Range(all) \cup {store}
  <2>1. \A x \in Range(all), y \in Range(e) : MayPrecede(x, y)
    BY <1>11, <1>15, <1>plain, <1>sticky, <1>last DEF MayPrecede
  <2> QED BY <1>11, <1>last, <2>1, OrderedConcat
<1>22. ops = all \o e
  BY <1>12 DEF ab, abc, abcd, all
<1>23. Range(ops) = UpdateWork(s, new, stored)
  BY <1>4, <1>5, <1>8, <1>9, <1>18, <1>19, <1>20, <1>affinity, <1>last, <1>21, <1>22 DEF UpdateWork, store
<1> QED BY <1>21, <1>22, <1>23 DEF ops

\* The external or the load balancer addresses of an object.
IPsOf(obj, set) == IF set = "external" THEN obj.ext ELSE obj.lb

\* An address that comes or goes changes slots of these two kinds only.
LEMMA SlotsDiffer ==
    ASSUME NEW obj, NEW other, NEW p, obj.ip = other.ip, NEW t \in Slots(obj, p) \ Slots(other, p)
    PROVE  /\ t = <<t[1], t[2], t[3]>> /\ t[3] = p.port
           /\ \E set \in {"external", "loadbalancer"} :
                t[1] \in {set, "markmasq"} /\ t[2] \in Range(IPsOf(obj, set)) \ Range(IPsOf(other, set))
BY DEF Slots, IPsOf

\* What an update adds is asked for, and what it removes is not.
LEMMA CallSlots ==
    ASSUME ServicesApart, NEW s \in Service, NEW new \in Versions(s), NEW stored \in Versions(s),
           NEW i \in DOMAIN new.ports, NEW spn, spn = getSvcPortName(s, new.ports[i]),
           NEW set \in {"external", "loadbalancer"}, NEW a \in {set, "markmasq"}, NEW ip,
           NEW t, t = <<a, ip, new.ports[i].port>>
    PROVE  /\ spn \in ServicePortName /\ spn.svc = s /\ HasPort(new, spn)
           /\ ip \in Range(IPsOf(new, set)) => t \in SlotsOf(new, spn)
           /\ ip \in Range(IPsOf(stored, set)) \ Range(IPsOf(new, set)) => t \in Claims(spn) \ SlotsOf(new, spn)
<1> DEFINE p == new.ports[i]
<1>1. spn \in ServicePortName /\ spn.svc = s /\ i \in At(new, spn)
  BY PortFields
<1>2. SlotsOf(new, spn) = Slots(new, p) /\ HasPort(new, spn)
  BY <1>1, PortIDOf
<1>3. p.port \in Port /\ ServiceKept(new, stored) /\ ServiceKept(stored, new)
  BY PortFields DEF ServicesApart
<1>4. ip \in Range(IPsOf(new, set)) => t \in Slots(new, p)
  BY DEF Slots, IPsOf
<1>5. ASSUME ip \in Range(IPsOf(stored, set)) \ Range(IPsOf(new, set))
      PROVE  t \in Claims(spn) \ Slots(new, p)
  <2>1. t \in Slots(stored, p)
    BY <1>5 DEF Slots, IPsOf
  <2>2. ip \in IP
    BY <1>5, ObjectFields DEF IPsOf
  <2>3. t \in Slot
    BY <1>3, <2>2 DEF Slot, SetNames
  <2>4. t \in Claims(spn)
    BY <1>1, <2>1, <2>3 DEF Claims
  <2>5. t \notin Slots(new, p)
    <3>1. ip # new.ip
      BY <1>3, <1>5 DEF ServiceKept, IPsOf
    <3>2. CASE set = "external"
      <4>1. ip \notin Range(new.ext) /\ ip \notin Range(new.lb)
        BY <1>3, <1>5, <3>2 DEF ServiceKept, IPsOf
      <4> QED BY <3>1, <3>2, <4>1 DEF Slots
    <3>3. CASE set = "loadbalancer"
      <4>1. ip \notin Range(new.ext) /\ ip \notin Range(new.lb)
        BY <1>3, <1>5, <3>3 DEF ServiceKept, IPsOf
      <4> QED BY <3>1, <3>3, <4>1 DEF Slots
    <3> QED BY <3>2, <3>3
  <2> QED BY <2>4, <2>5
<1> QED BY <1>1, <1>2, <1>4, <1>5

\* A call of an update.
LEMMA CallIs ==
    ASSUME NEW kind, NEW s, NEW new, NEW set, NEW I, NEW x \in CallsFor(kind, s, new, set, I)
    PROVE  \E i \in DOMAIN new.ports : \E a \in {set, "markmasq"} : \E ip \in I :
              /\ x.op = kind /\ x.spn = getSvcPortName(s, new.ports[i])
              /\ OpSlot(x) = <<a, ip, new.ports[i].port>>
<1>1. PICK i \in DOMAIN new.ports, a \in {set, "markmasq"}, ip \in I : x = ElementCall(kind, s, new.ports[i], a, ip)
  BY DEF CallsFor
<1>2. x.op = kind /\ x.spn = getSvcPortName(s, new.ports[i]) /\ OpSlot(x) = <<a, ip, new.ports[i].port>>
  BY <1>1 DEF ElementCall, OpSlot
<1> QED BY <1>2

\* The addresses that come or go are the work of an update.
LEMMA CallsInWork ==
    ASSUME NEW s, NEW new, NEW stored, NEW set \in {"external", "loadbalancer"}
    PROVE  /\ CallsFor("addElement", s, new, set, Range(IPsOf(new, set)) \ Range(IPsOf(stored, set)))
                 \subseteq UpdateWork(s, new, stored)
           /\ CallsFor("removeElement", s, new, set, Range(IPsOf(stored, set)) \ Range(IPsOf(new, set)))
                 \subseteq UpdateWork(s, new, stored)
BY DEF UpdateWork, IPsOf

\* What the work of an update is.
LEMMA UpdateWorkIs ==
    ASSUME NEW s, NEW new, NEW stored, NEW x \in UpdateWork(s, new, stored)
    PROVE  \/ \E i \in DOMAIN new.ports : x = ChangePortOp(s, new, i, stored)
           \/ \E spn \in GonePorts(s, new, stored) : x = DeletePortOp(spn)
           \/ \E set \in {"external", "loadbalancer"} :
                 x \in CallsFor("addElement", s, new, set, Range(IPsOf(new, set)) \ Range(IPsOf(stored, set)))
           \/ \E set \in {"external", "loadbalancer"} :
                 x \in CallsFor("removeElement", s, new, set, Range(IPsOf(stored, set)) \ Range(IPsOf(new, set)))
           \/ x \in AffinityWork(s, new, stored)
           \/ x = StoreOp(s, new)
<1>1. IPsOf(new, "external") = new.ext /\ IPsOf(new, "loadbalancer") = new.lb
  BY DEF IPsOf
<1>2. IPsOf(stored, "external") = stored.ext /\ IPsOf(stored, "loadbalancer") = stored.lb
  BY DEF IPsOf
<1> QED BY <1>1, <1>2 DEF UpdateWork

\* UpdateService.
LEMMA UpdateServiceWork ==
    ASSUME ServicesApart, NEW seen, NEW cache, SvcTyped(seen), NEW K \in SUBSET ServicePortName, NEW X,
           Working(<<>>, seen, cache, K, X), NEW s \in Service, NEW stored \in Versions(s), seen[s] = stored,
           NEW new \in Versions(s), NEW seen2, seen2[s] = new, \A r \in Service : r # s => seen2[r] = seen[r]
    PROVE  Working(UpdateServiceOps(s, new, stored), seen2, cache, K, X)
<1> DEFINE ops == UpdateServiceOps(s, new, stored)
           W == UpdateWork(s, new, stored)
<1>1. ops \in Seq(ServiceOp) /\ Ordered(ops) /\ Range(ops) = W
  BY UpdateServiceOpsAre
<1>2. /\ \A r \in Service : cache[r] = seen[r]
      /\ \A spn \in ServicePortName : spn \in K <=> HasPort(seen[spn.svc], spn)
      /\ \A spn \in K : \A t \in SlotsOf(seen[spn.svc], spn) : ElementAt(spn, t) \in X
      /\ \A e \in X : \E spn \in K : \E t \in Claims(spn) : e = ElementAt(spn, t) /\ t \in SlotsOf(seen[spn.svc], spn)
  BY AtRest
<1>3. \A spn \in ServicePortName : spn.svc \in Service
  BY DEF ServicePortName
<1>4. new # Nil /\ stored # Nil /\ new.ip = stored.ip
  BY ObjectFields DEF ServicesApart, ServiceKept
<1> HIDE DEF W
<1>5. ASSUME NEW spn \in ServicePortName, spn.svc = s, HasPort(new, spn), HasPort(stored, spn)
      PROVE  \E i \in At(new, spn) : /\ SlotsOf(new, spn) = Slots(new, new.ports[i])
                                     /\ SlotsOf(stored, spn) = Slots(stored, new.ports[i])
                                     /\ i \in DOMAIN new.ports /\ getSvcPortName(s, new.ports[i]) = spn
  <2>1. PICK i \in At(new, spn) : TRUE
    BY <1>5 DEF HasPort
  <2>2. PICK j \in At(stored, spn) : TRUE
    BY <1>5 DEF HasPort
  <2>3. SlotsOf(new, spn) = Slots(new, new.ports[i]) /\ SlotsOf(stored, spn) = Slots(stored, stored.ports[j])
    BY <1>5, <2>1, <2>2, PortIDOf
  <2>4. new.ports[i] = stored.ports[j]
    BY <2>1, <2>2 DEF ServicesApart, PortsKept, At
  <2>5. i \in DOMAIN new.ports /\ getSvcPortName(s, new.ports[i]) = spn
    BY <1>5, <2>1, NameAt
  <2> QED BY <2>1, <2>3, <2>4, <2>5
<1>6. ASSUME NEW x \in W
      PROVE  Fits(x, seen2, cache, K)
  <2>1. CASE \E i \in DOMAIN new.ports : x = ChangePortOp(s, new, i, stored)
    <3>1. PICK i \in DOMAIN new.ports : x = ChangePortOp(s, new, i, stored)
      BY <2>1
    <3>2. x.op = "changePort" /\ x.svc = s /\ x.new = new /\ x.i = i /\ x.stored = stored
      BY <3>1 DEF ChangePortOp
    <3>3. OpPort(x) = getSvcPortName(s, new.ports[i])
      BY <3>2 DEF OpPort
    <3>4. OpPort(x) \in ServicePortName /\ OpPort(x).svc = s
      BY <3>3, PortFields
    <3>5. OpPort(x) \in K <=> HasPort(stored, OpPort(x))
      BY <1>2, <3>4
    <3> QED BY <1>2, <1>4, <3>2, <3>5 DEF Fits
  <2>2. CASE \E spn \in GonePorts(s, new, stored) : x = DeletePortOp(spn)
    <3>1. PICK spn \in GonePorts(s, new, stored) : x = DeletePortOp(spn)
      BY <2>2
    <3>2. x.op = "deletePort" /\ x.spn = spn
      BY <3>1 DEF DeletePortOp
    <3>3. spn.svc = s /\ HasPort(stored, spn) /\ ~HasPort(new, spn)
      BY DEF GonePorts
    <3> QED BY <1>2, <3>2, <3>3 DEF Fits
  <2>3. CASE \E set \in {"external", "loadbalancer"} :
                x \in CallsFor("addElement", s, new, set, Range(IPsOf(new, set)) \ Range(IPsOf(stored, set)))
    <3>1. PICK set \in {"external", "loadbalancer"} :
                x \in CallsFor("addElement", s, new, set, Range(IPsOf(new, set)) \ Range(IPsOf(stored, set)))
      BY <2>3
    <3>2. PICK i \in DOMAIN new.ports : \E a \in {set, "markmasq"} :
              \E ip \in Range(IPsOf(new, set)) \ Range(IPsOf(stored, set)) :
                 x.op = "addElement" /\ x.spn = getSvcPortName(s, new.ports[i]) /\ OpSlot(x) = <<a, ip, new.ports[i].port>>
      BY <3>1, CallIs
    <3>3. PICK a \in {set, "markmasq"} : \E ip \in Range(IPsOf(new, set)) \ Range(IPsOf(stored, set)) :
                 x.op = "addElement" /\ x.spn = getSvcPortName(s, new.ports[i]) /\ OpSlot(x) = <<a, ip, new.ports[i].port>>
      BY <3>2
    <3>4. PICK ip \in Range(IPsOf(new, set)) \ Range(IPsOf(stored, set)) :
                 x.op = "addElement" /\ x.spn = getSvcPortName(s, new.ports[i]) /\ OpSlot(x) = <<a, ip, new.ports[i].port>>
      BY <3>3
    <3>5. x.spn.svc = s /\ OpSlot(x) \in SlotsOf(new, x.spn)
      BY <3>4, CallSlots
    <3> QED BY <3>4, <3>5 DEF Fits
  <2>4. CASE \E set \in {"external", "loadbalancer"} :
                x \in CallsFor("removeElement", s, new, set, Range(IPsOf(stored, set)) \ Range(IPsOf(new, set)))
    <3>1. PICK set \in {"external", "loadbalancer"} :
                x \in CallsFor("removeElement", s, new, set, Range(IPsOf(stored, set)) \ Range(IPsOf(new, set)))
      BY <2>4
    <3>2. PICK i \in DOMAIN new.ports : \E a \in {set, "markmasq"} :
              \E ip \in Range(IPsOf(stored, set)) \ Range(IPsOf(new, set)) :
                 x.op = "removeElement" /\ x.spn = getSvcPortName(s, new.ports[i]) /\ OpSlot(x) = <<a, ip, new.ports[i].port>>
      BY <3>1, CallIs
    <3>3. PICK a \in {set, "markmasq"} : \E ip \in Range(IPsOf(stored, set)) \ Range(IPsOf(new, set)) :
                 x.op = "removeElement" /\ x.spn = getSvcPortName(s, new.ports[i]) /\ OpSlot(x) = <<a, ip, new.ports[i].port>>
      BY <3>2
    <3>4. PICK ip \in Range(IPsOf(stored, set)) \ Range(IPsOf(new, set)) :
                 x.op = "removeElement" /\ x.spn = getSvcPortName(s, new.ports[i]) /\ OpSlot(x) = <<a, ip, new.ports[i].port>>
      BY <3>3
    <3>5. x.spn.svc = s /\ HasPort(new, x.spn) /\ OpSlot(x) \in Claims(x.spn) \ SlotsOf(new, x.spn)
      BY <3>4, CallSlots
    <3> QED BY <3>4, <3>5 DEF Fits
  <2>5. CASE x = StoreOp(s, new)
    <3>1. x.op = "store" /\ x.svc = s /\ x.obj = new
      BY <2>5 DEF StoreOp
    <3> QED BY <3>1 DEF Fits
  <2>6. CASE x \in AffinityWork(s, new, stored)
    <3>1. (new.aff = Nil) # (stored.aff = Nil) /\ x = AffinityOp(PortNames(s, new), new.aff)
      BY <2>6 DEF AffinityWork
    <3>2. x.op = "affinity" /\ x.ports = PortNames(s, new) /\ x.aff = new.aff
      BY <3>1 DEF AffinityOp
    <3>3. new.ports = stored.ports
      BY <3>1 DEF ServicesApart, ServiceKept
    <3>4. ASSUME NEW spn \in Range(x.ports)
          PROVE  /\ spn \in K /\ HasPort(seen2[spn.svc], spn)
                 /\ cache[spn.svc] # Nil
                 /\ x.aff = seen2[spn.svc].aff /\ (x.aff = Nil) # (cache[spn.svc].aff = Nil)
      <4>1. spn \in ServicePortName /\ spn.svc = s /\ HasPort(new, spn)
        BY <3>2, PortNamesTyped
      <4>2. HasPort(stored, spn)
        BY <1>4, <3>3, <4>1 DEF HasPort, At
      <4>3. spn \in K /\ cache[spn.svc] = stored /\ seen2[spn.svc] = new
        BY <1>2, <4>1, <4>2
      <4> QED BY <1>4, <3>1, <3>2, <4>1, <4>3
    <3> QED BY <3>2, <3>4 DEF Fits
  <2> QED BY <2>1, <2>2, <2>3, <2>4, <2>5, <2>6, UpdateWorkIs DEF W
<1>7. CacheNext(W, seen2, cache)
  BY <1>2 DEF CacheNext, W, UpdateWork
<1>8. Announced(W, seen2, K)
  <2>1. ASSUME NEW spn \in ServicePortName, HasPort(seen2[spn.svc], spn), spn \notin K
        PROVE  \E x \in W : IsAdding(x) /\ OpPort(x) = spn
    <3>1. spn.svc = s
      BY <1>2, <1>3, <2>1
    <3>2. PICK i \in At(new, spn) : TRUE
      BY <2>1, <3>1 DEF HasPort
    <3>3. i \in DOMAIN new.ports /\ getSvcPortName(s, new.ports[i]) = spn
      BY <3>1, <3>2, NameAt
    <3> DEFINE x == ChangePortOp(s, new, i, stored)
    <3>4. x \in W
      BY <3>3 DEF W, UpdateWork
    <3>5. IsAdding(x) /\ OpPort(x) = spn
      BY <3>3 DEF ChangePortOp, IsAdding, OpPort
    <3> QED BY <3>4, <3>5
  <2> QED BY <2>1 DEF Announced
<1>9. Filled(W, seen2, K, X)
  <2>1. ASSUME NEW spn \in K, NEW t \in SlotsOf(seen2[spn.svc], spn), ElementAt(spn, t) \notin X
        PROVE  AddElementOp(spn, t[1], t[2], t[3]) \in W
    <3>1. spn \in ServicePortName /\ spn.svc = s
      BY <1>2, <1>3, <2>1
    <3>2. HasPort(stored, spn) /\ HasPort(new, spn) /\ t \in SlotsOf(new, spn) /\ t \notin SlotsOf(stored, spn)
      BY <1>2, <2>1, <3>1, SlotsOfPorts
    <3>3. PICK i \in At(new, spn) : /\ SlotsOf(new, spn) = Slots(new, new.ports[i])
                                    /\ SlotsOf(stored, spn) = Slots(stored, new.ports[i])
                                    /\ i \in DOMAIN new.ports /\ getSvcPortName(s, new.ports[i]) = spn
      BY <1>5, <3>1, <3>2
    <3>4. t \in Slots(new, new.ports[i]) \ Slots(stored, new.ports[i])
      BY <3>2, <3>3
    <3>5. /\ t[3] = new.ports[i].port
          /\ \E set \in {"external", "loadbalancer"} :
                t[1] \in {set, "markmasq"} /\ t[2] \in Range(IPsOf(new, set)) \ Range(IPsOf(stored, set))
      BY <1>4, <3>4, SlotsDiffer
    <3>6. PICK set \in {"external", "loadbalancer"} :
                t[1] \in {set, "markmasq"} /\ t[2] \in Range(IPsOf(new, set)) \ Range(IPsOf(stored, set))
      BY <3>5
    <3>7. AddElementOp(spn, t[1], t[2], t[3]) = ElementCall("addElement", s, new.ports[i], t[1], t[2])
      BY <3>3, <3>5 DEF AddElementOp, ElementCall
    <3>8. ElementCall("addElement", s, new.ports[i], t[1], t[2])
            \in CallsFor("addElement", s, new, set, Range(IPsOf(new, set)) \ Range(IPsOf(stored, set)))
      BY <3>3, <3>6 DEF CallsFor
    <3> QED BY <3>7, <3>8, CallsInWork DEF W
  <2> QED BY <2>1 DEF Filled
<1>10. Withdrawn(W, seen2, K)
  <2>1. ASSUME NEW spn \in K, ~HasPort(seen2[spn.svc], spn)
        PROVE  DeletePortOp(spn) \in W
    <3>1. spn \in ServicePortName /\ spn.svc = s
      BY <1>2, <1>3, <2>1
    <3>2. spn \in GonePorts(s, new, stored)
      BY <1>2, <2>1, <3>1 DEF GonePorts
    <3> QED BY <3>2 DEF W, UpdateWork
  <2> QED BY <2>1 DEF Withdrawn
<1>11. AllAccounted(W, seen2, cache, K, X)
  <2>1. ASSUME NEW e \in X
        PROVE  Accounted(e, W, seen2, cache, K)
    <3>1. PICK spn \in K : \E t \in Claims(spn) : e = ElementAt(spn, t) /\ t \in SlotsOf(seen[spn.svc], spn)
      BY <1>2
    <3>2. PICK t \in Claims(spn) : e = ElementAt(spn, t) /\ t \in SlotsOf(seen[spn.svc], spn)
      BY <3>1
    <3>3. CASE spn.svc # s \/ t \in SlotsOf(seen2[spn.svc], spn)
      BY <1>3, <3>2, <3>3 DEF Accounted
    <3>4. CASE spn.svc = s /\ t \notin SlotsOf(seen2[spn.svc], spn)
      <4>1. t \in SlotsOf(stored, spn) /\ HasPort(stored, spn) /\ t \notin SlotsOf(new, spn)
        BY <1>2, <3>2, <3>4
      <4>2. ASSUME HasPort(new, spn)
            PROVE  RemoveElementOp(spn, t[1], t[2], t[3]) \in W
        <5>3. PICK i \in At(new, spn) : /\ SlotsOf(new, spn) = Slots(new, new.ports[i])
                                        /\ SlotsOf(stored, spn) = Slots(stored, new.ports[i])
                                        /\ i \in DOMAIN new.ports /\ getSvcPortName(s, new.ports[i]) = spn
          BY <1>5, <3>4, <4>1, <4>2
        <5>4. t \in Slots(stored, new.ports[i]) \ Slots(new, new.ports[i])
          BY <4>1, <5>3
        <5>5. /\ t[3] = new.ports[i].port
              /\ \E set \in {"external", "loadbalancer"} :
                    t[1] \in {set, "markmasq"} /\ t[2] \in Range(IPsOf(stored, set)) \ Range(IPsOf(new, set))
          BY <1>4, <5>4, SlotsDiffer
        <5>6. PICK set \in {"external", "loadbalancer"} :
                    t[1] \in {set, "markmasq"} /\ t[2] \in Range(IPsOf(stored, set)) \ Range(IPsOf(new, set))
          BY <5>5
        <5>7. RemoveElementOp(spn, t[1], t[2], t[3]) = ElementCall("removeElement", s, new.ports[i], t[1], t[2])
          BY <5>3, <5>5 DEF RemoveElementOp, ElementCall
        <5>8. ElementCall("removeElement", s, new.ports[i], t[1], t[2])
                \in CallsFor("removeElement", s, new, set, Range(IPsOf(stored, set)) \ Range(IPsOf(new, set)))
          BY <5>3, <5>6 DEF CallsFor
        <5> QED BY <5>7, <5>8, CallsInWork DEF W
      <4>3. Leaving(spn, t, W, seen2, cache)
        BY <1>2, <3>4, <4>1, <4>2 DEF Leaving
      <4> QED BY <3>2, <4>3 DEF Accounted
    <3> QED BY <3>3, <3>4
  <2> QED BY <2>1 DEF AllAccounted
<1>12. AllFit(W, seen2, cache, K)
  BY <1>6 DEF AllFit
<1> HIDE DEF ops
<1>13. Working(ops, seen2, cache, K, X)
  BY <1>1, <1>7, <1>8, <1>9, <1>10, <1>11, <1>12 DEF Working
<1> QED BY <1>13 DEF ops

(***************************************************************************)
(* What the critical sections do to the elements.                          *)
(***************************************************************************)
\* The no-endpoints set is aside from the others.
LEMMA NoEndpointsAside ==
    ASSUME NEW elements, NEW spn, NEW svc, NEW none, none = NoEndpointsElements(spn, svc)
    PROVE  /\ Others(elements \cup none) = Others(elements)
           /\ Others(RemoveFromSets(elements, none)) = Others(elements)
           /\ RejectsNowhere(elements) => RejectsNowhere(elements \cup none)
           /\ RejectsNowhere(elements) => RejectsNowhere(RemoveFromSets(elements, none))
<1>1. \A x \in none : x.to = Nil /\ x.set = "noendpoints"
  BY NoEndpointsLeadNowhere
<1> QED BY <1>1 DEF Others, RejectsNowhere, RemoveFromSets

\* From w to u the port and the elements of the other sets stay what they are.
KeepsElements(w, u) ==
    /\ Known(u) /\ SvcID(u.svc) = SvcID(w.svc) /\ u.svc.ext = w.svc.ext /\ u.svc.lb = w.svc.lb
    /\ Others(u.sets) = Others(w.sets)
    /\ RejectsNowhere(w.sets) => RejectsNowhere(u.sets)

\* updateServiceChain changes the no-endpoints set only.
LEMMA UpdateKeepsElements ==
    ASSUME NEW spn, NEW w, Known(w)
    PROVE  KeepsElements(w, updateServiceChain(spn, w))
<1> DEFINE v == MarkEndpoints(spn, w)
           u == updateServiceChain(spn, w)
           none == NoEndpointsElements(spn, w.svc)
<1>1. Keeps(w, u) /\ Leaves(v, u)
  BY UpdateServiceChainKeeps, UpdateServiceChainLeaves
<1>2. v.sets \in {w.sets, w.sets \cup none, RemoveFromSets(w.sets, none)}
  BY DEF MarkEndpoints, Known, Fields
<1>3. /\ u.sets = v.sets /\ Known(u) /\ SvcID(u.svc) = SvcID(w.svc)
      /\ u.svc.ext = w.svc.ext /\ u.svc.lb = w.svc.lb
  <2>1. v.svc.ext = w.svc.ext /\ v.svc.lb = w.svc.lb
    BY DEF MarkEndpoints, Known, Fields, ServiceInfo
  <2> QED BY <1>1, <2>1 DEF Leaves, Keeps
<1>4. Others(v.sets) = Others(w.sets) /\ (RejectsNowhere(w.sets) => RejectsNowhere(v.sets))
  <2> DEFINE s == w.sets
             more == s \cup none
             less == RemoveFromSets(s, none)
  <2>1. /\ Others(more) = Others(s) /\ Others(less) = Others(s)
        /\ RejectsNowhere(s) => RejectsNowhere(more) /\ RejectsNowhere(less)
    <3> HIDE DEF s
    <3> QED BY NoEndpointsAside
  <2>2. v.sets \in {s, more, less}
    BY <1>2
  <2> HIDE DEF s, more, less, v
  <2>3. Others(v.sets) = Others(s) /\ (RejectsNowhere(s) => RejectsNowhere(v.sets))
    BY <2>1, <2>2
  <2> QED BY <2>3 DEF s
<1> HIDE DEF u, v, none
<1>5. KeepsElements(w, u)
  BY <1>3, <1>4 DEF KeepsElements
<1> QED BY <1>5 DEF u

\* An endpoint comes or goes.
LEMMA EndpointKeepsElements ==
    ASSUME NEW spn, NEW addr, NEW local, NEW w, DOMAIN w = Fields, w.svc \in ServiceInfo \cup {Nil},
           NEW u \in {addEndpoint(spn, addr, local, w), deleteEndpoint(spn, addr, local, w)}
    PROVE  /\ Others(u.sets) = Others(w.sets) /\ (RejectsNowhere(w.sets) => RejectsNowhere(u.sets))
           /\ w.svc = Nil => u.svc = Nil
           /\ w.svc # Nil => SvcID(u.svc) = SvcID(w.svc) /\ u.svc.ext = w.svc.ext /\ u.svc.lb = w.svc.lb
<1>0. EndpointSection(spn, w, u)
  BY EndpointSections
<1>1. PICK v : /\ DOMAIN v = Fields /\ v.svc = w.svc /\ v.sets = w.sets
               /\ \/ u = v
                  \/ u = updateServiceChain(spn, v)
                  \/ \E a, c, r : u = [updateServiceChain(spn, v) EXCEPT !.ec[a] = c, !.res = r]
                  \/ \E a, c : u = [updateServiceChain(spn, v) EXCEPT !.ec[a] = c]
  BY <1>0 DEF EndpointSection
<1> DEFINE v1 == updateServiceChain(spn, v)
<1>2. u = v \/ (DOMAIN v1 = Fields => u.svc = v1.svc /\ u.sets = v1.sets)
  BY <1>1 DEF Fields
<1>3. CASE w.svc = Nil
  <2>1. v1 = v
    BY <1>1, <1>3, UpdateServiceChainNil
  <2> QED BY <1>1, <1>2, <1>3, <2>1
<1>4. CASE w.svc \in ServiceInfo
  <2>1. Known(v)
    BY <1>1, <1>4 DEF Known
  <2>2. KeepsElements(v, v1)
    BY <2>1, UpdateKeepsElements
  <2> HIDE DEF v1
  <2>3. /\ DOMAIN v1 = Fields /\ SvcID(v1.svc) = SvcID(w.svc) /\ v1.svc.ext = w.svc.ext /\ v1.svc.lb = w.svc.lb
        /\ Others(v1.sets) = Others(w.sets)
        /\ RejectsNowhere(w.sets) => RejectsNowhere(v1.sets)
    BY <1>1, <2>2 DEF KeepsElements, Known
  <2>4. \/ u.svc = w.svc /\ u.sets = w.sets
        \/ u.svc = v1.svc /\ u.sets = v1.sets
    BY <1>1, <1>2, <2>3
  <2>5. w.svc # Nil
    BY <1>4, NilAssumption
  <2> QED BY <2>3, <2>4, <2>5
<1> QED BY <1>3, <1>4

\* A service port is added: no element was taken, so all are in the sets.
LEMMA AddPortElements ==
    ASSUME NEW spn \in ServicePortName, NEW spec \in PortSpec, NEW w, DOMAIN w = Fields, w.svc = Nil,
           AddAllToSetsOK(w.sets, ServicePortElements(spn, NewServiceInfo(spec, w.eps # <<>>)))
    PROVE  LET u == addServicePort(spn, spec, w)
               svc == NewServiceInfo(spec, w.eps # <<>>)
           IN  /\ SvcID(u.svc) = SvcID(svc) /\ u.svc.ext = svc.ext /\ u.svc.lb = svc.lb
               /\ Others(u.sets) = Others(w.sets) \cup Range(ServicePortElements(spn, svc))
               /\ RejectsNowhere(w.sets) => RejectsNowhere(u.sets)
<1> DEFINE svc == NewServiceInfo(spec, w.eps # <<>>)
           id  == SvcID(svc)
           es  == ServicePortElements(spn, svc)
           none == NoEndpointsElements(spn, svc)
           w1  == [w EXCEPT !.svc = svc,
                            !.sc[id] = CreateChain(@),
                            !.sets = IF svc.withEP THEN @ ELSE @ \cup none]
           w2  == AddServiceAffinityMap(w1, id, svc.maxAge)
           w3  == IF ~svc.withAff THEN w1 ELSE IF ~svc.withEP THEN w2 ELSE addAffinityEndpoint(w2)
           w4  == [w3 EXCEPT !.sets = AddAllToSets(@, es)]
           u   == updateServiceChain(spn, w4)
<1>1. svc \in ServiceInfo
  BY NftAssumption DEF NewServiceInfo, ServiceInfo, PortSpec
<1>2. es \in Seq(Owned(spn, svc))
  BY <1>1, ServicePortElementsOwned
<1>3. \A x \in none : x.to = Nil /\ x.set = "noendpoints"
  BY NoEndpointsLeadNowhere
<1>4. addServicePort(spn, spec, w)
        = IF ~AddAllToSetsOK(w3.sets, es) THEN [w4 EXCEPT !.svc = Nil, !.res = "error"] ELSE u
  BY DEF addServicePort
<1>5. AddAllToSetsOK(w.sets, es)
  OBVIOUS
<1> HIDE DEF svc, es, none
<1>6. DOMAIN w1 = Fields /\ w1.svc = svc /\ w1.sets \in {w.sets, w.sets \cup none}
  BY DEF Fields
<1> HIDE DEF w1
<1>7. DOMAIN w2 = Fields /\ w2.svc = svc /\ w2.sets = w1.sets
  BY <1>6 DEF AddServiceAffinityMap, Fields
<1> HIDE DEF w2
<1>8. DOMAIN w3 = Fields /\ w3.svc = svc /\ w3.sets \in {w.sets, w.sets \cup none}
  BY <1>6, <1>7, AffinityKeeps
<1> HIDE DEF w3
<1>9. \A j \in DOMAIN es : es[j].set # "noendpoints"
  <2>1. \A j \in DOMAIN es : es[j] \in Owned(spn, svc)
    BY <1>2, LenProperties, ElementOfSeq
  <2> QED BY <2>1 DEF Owned
<1>10. AddAllToSetsOK(w3.sets, es)
  BY <1>3, <1>5, <1>8, <1>9 DEF AddAllToSetsOK, Conflicts
<1>11. DOMAIN w4 = Fields /\ w4.svc = svc /\ w4.sets = AddAllToSets(w3.sets, es)
  BY <1>8 DEF Fields
<1> HIDE DEF w4
<1>12. w4.sets = w3.sets \cup Range(es)
  <2>1. DOMAIN es = 1..Len(es) /\ Len(es) \in Nat
    BY <1>2, LenProperties
  <2>2. \A j \in DOMAIN es : \A k \in 1..j : k \in DOMAIN es
    BY <2>1
  <2>3. \A j \in DOMAIN es : \A k \in 1..j : ~Conflicts(w3.sets, es[k])
    BY <1>10, <2>2 DEF AddAllToSetsOK
  <2> QED BY <1>11, <2>3 DEF AddAllToSets, Range
<1>13. Others(w4.sets) = Others(w.sets) \cup Range(es)
  <2>1. \A x \in Range(es) : x.set # "noendpoints"
    BY <1>9 DEF Range
  <2> QED BY <1>3, <1>8, <1>12, <2>1 DEF Others
<1>14. RejectsNowhere(w.sets) => RejectsNowhere(w4.sets)
  <2>1. \A x \in Range(es) : x.set # "noendpoints"
    BY <1>9 DEF Range
  <2> QED BY <1>3, <1>8, <1>12, <2>1 DEF RejectsNowhere
<1>15. KeepsElements(w4, u)
  BY <1>1, <1>11, UpdateKeepsElements DEF Known
<1> HIDE DEF u
<1>16. /\ SvcID(u.svc) = SvcID(svc) /\ u.svc.ext = svc.ext /\ u.svc.lb = svc.lb
       /\ Others(u.sets) = Others(w4.sets) /\ (RejectsNowhere(w4.sets) => RejectsNowhere(u.sets))
  BY <1>11, <1>15 DEF KeepsElements
<1>17. addServicePort(spn, spec, w) = u
  BY <1>4, <1>10
<1> QED BY <1>13, <1>14, <1>16, <1>17 DEF svc, es

\* A service port is deleted: the elements its last known object says it has
\* are removed, and nothing else but rejects.
LEMMA DeletePortSets ==
    ASSUME NEW spn, NEW stored, NEW w, Known(w), NEW u, u = deleteServicePort(spn, stored, w)
    PROVE  /\ Others(u.sets) = RemoveFromSets(Others(w.sets), StoredElements(spn, w.svc, stored))
           /\ RejectsNowhere(w.sets) => RejectsNowhere(u.sets)
<1> DEFINE known == StoredElements(spn, w.svc, stored)
           none == NoEndpointsElements(spn, w.svc)
<1>1. u.sets = RemoveFromSets(w.sets, RemovedElements(spn, stored, w.svc))
  BY DeleteServicePortSets
<1>2. \A x \in none : x.set = "noendpoints"
  BY NoEndpointsLeadNowhere
<1>3. RemovedElements(spn, stored, w.svc) \in {known, known \cup none}
  BY DEF RemovedElements
<1> HIDE DEF known, none
<1>4. Others(u.sets) = RemoveFromSets(Others(w.sets), known)
  BY <1>1, <1>2, <1>3 DEF Others, RemoveFromSets
<1>5. RejectsNowhere(w.sets) => RejectsNowhere(u.sets)
  BY <1>1 DEF RejectsNowhere, RemoveFromSets
<1> QED BY <1>4, <1>5 DEF known

(***************************************************************************)
(* The steps of the service handlers.                                      *)
(***************************************************************************)
\* What a critical section does to the known ports and the sets.
LEMMA CommitKnows ==
    ASSUME InStep, NEW spn \in ServicePortName, NEW u, Commit(spn, u), u.res = "ok"
    PROVE  /\ serviceMap'[spn] = u.svc /\ \A s \in ServicePortName \ {spn} : serviceMap'[s] = serviceMap[s]
           /\ sets' = u.sets /\ proc' = proc
           /\ KnownPorts' = IF u.svc = Nil THEN KnownPorts \ {spn} ELSE KnownPorts \cup {spn}
<1>1. serviceMap' = [serviceMap EXCEPT ![spn] = u.svc] /\ sets' = u.sets /\ proc' = proc
  BY DEF Commit
<1>2. serviceMap \in [ServicePortName -> ServiceInfo \cup {Nil}]
  BY DEF InStep, TypeOK
<1>3. serviceMap'[spn] = u.svc /\ \A s \in ServicePortName \ {spn} : serviceMap'[s] = serviceMap[s]
  BY <1>1, <1>2
<1> QED BY <1>1, <1>3 DEF KnownPorts

\* A critical section of a handler that the work in hand calls for.
LEMMA CommitKeepsWork ==
    ASSUME InStep, SvcInv, proc = "running", NEW spn \in ServicePortName, NEW u, Commit(spn, u), u.res = "ok",
           NEW K, K = (IF u.svc = Nil THEN KnownPorts \ {spn} ELSE KnownPorts \cup {spn}),
           u.svc # Nil => RecordedAs(spn, u.svc), RejectsNowhere(u.sets),
           Working(svcTodo', seenSvc, svcCache, K, Others(u.sets)),
           UNCHANGED <<apiSvc, seenSvc, svcCache>>
    PROVE  SvcInv'
<1>1. /\ serviceMap'[spn] = u.svc /\ \A s \in ServicePortName \ {spn} : serviceMap'[s] = serviceMap[s]
      /\ sets' = u.sets /\ proc' = proc /\ KnownPorts' = K
  BY CommitKnows
<1>2. Elements' = Others(u.sets)
  BY <1>1 DEF Elements, Others
<1>3. Working(svcTodo', seenSvc', svcCache', KnownPorts', Elements')
  BY <1>1, <1>2
<1>4. ASSUME NEW s \in KnownPorts'
      PROVE  RecordedAs(s, serviceMap'[s])
  <2>1. CASE s = spn
    BY <1>1, <1>4, <2>1 DEF KnownPorts
  <2>2. CASE s # spn
    <3>1. s \in KnownPorts /\ serviceMap'[s] = serviceMap[s]
      BY <1>1, <1>4, <2>2 DEF KnownPorts
    <3> QED BY <3>1 DEF SvcInv, Recorded
  <2> QED BY <2>1, <2>2
<1>5. RejectsNowhere(sets')
  BY <1>1
<1>6. Recorded'
  BY <1>4, <1>5 DEF Recorded, RecordedAs, RejectsNowhere
<1>7. SvcTyped(apiSvc') /\ SvcTyped(seenSvc') /\ SvcTyped(svcCache')
  BY DEF SvcInv
<1> QED BY <1>3, <1>6, <1>7 DEF SvcInv

\* The element of a slot is the only one with its set and its key.
LEMMA NoConflict ==
    ASSUME ServicesApart, SvcInv, proc = "running", NEW spn \in ServicePortName, NEW t \in Claims(spn),
           NEW e, e = ElementAt(spn, t)
    PROVE  ~Conflicts(sets, e)
<1>1. t \in Slot
  BY DEF Claims
<1>2. AllAccounted(Range(svcTodo), seenSvc, svcCache, KnownPorts, Elements)
  BY DEF SvcInv, Working
<1>3. KnownPorts \in SUBSET ServicePortName
  BY DEF KnownPorts
<1>4. e.set = t[1] /\ e.key = <<spn.proto, t[2], t[3]>> /\ t[1] # "noendpoints"
  BY <1>1, ElementFields, SlotFields
<1>5. ASSUME NEW x \in sets, x.set = e.set, x.key = e.key
      PROVE  x.to = e.to
  <2>1. x \in Elements
    BY <1>4, <1>5 DEF Elements, Others
  <2>2. x = ElementAt(spn, t)
    BY <1>2, <1>3, <1>4, <1>5, <2>1, OneElement
  <2> QED BY <2>2
<1> QED BY <1>5 DEF Conflicts

\* addServicePort is called as Proxy allows, for a port that is asked for.
LEMMA AddPortStep ==
    ASSUME ServicesApart, InStep, SvcInv, StepAddPort
    PROVE  /\ ServiceCallsAllowed /\ SvcInv'
           /\ HasAff(serviceMap'[Head(svcTodo).spn]) <=> Head(svcTodo).spec.aff # Nil
<1> DEFINE o == Head(svcTodo)
           spn == o.spn
           w == Local(spn)
           obj == seenSvc[spn.svc]
           u == addServicePort(spn, o.spec, w)
<1>1. proc = "running" /\ svcTodo # <<>> /\ o.op = "addPort" /\ Commit(spn, u) /\ svcTodo' = Tail(svcTodo)
      /\ UNCHANGED <<apiSvc, seenSvc, svcCache>>
  BY DEF StepAddPort, SvcStep
<1>2. Working(svcTodo, seenSvc, svcCache, KnownPorts, Elements) /\ Recorded /\ SvcTyped(seenSvc)
  BY <1>1 DEF SvcInv
<1>3. o \in ServiceOp /\ Fits(o, seenSvc, svcCache, KnownPorts)
  BY <1>1, <1>2, WorkParts
<1>4. spn \in ServicePortName /\ o.spec \in PortSpec
  BY <1>1, <1>3, ServiceOpFields
<1>5. PICK i \in At(obj, spn) : o.spec = SpecOf(obj, obj.ports[i])
  BY <1>1, <1>3 DEF Fits
<1>6. spn \notin KnownPorts /\ obj # Nil
  BY <1>1, <1>3 DEF Fits
<1>7. obj \in Versions(spn.svc) /\ SlotsOf(obj, spn) \subseteq Claims(spn)
  BY <1>2, <1>4, <1>6, ObjectsClaim
<1>8. serviceMap[spn] = Nil /\ PortOK(w) /\ DOMAIN w = Fields /\ w.svc = Nil /\ w.res = "ok" /\ w.sets = sets
      /\ w.eps = endpointsMap[spn]
  BY <1>4, <1>6, LocalFields DEF KnownPorts, InStep
<1> DEFINE has == w.eps # <<>>
           svc == NewServiceInfo(o.spec, has)
           es == ServicePortElements(spn, svc)
           new == ElementsOf(obj, spn)
<1>9. SvcID(svc) = PortID(spn) /\ Range(es) = new
  <2>1. has \in BOOLEAN
    OBVIOUS
  <2> HIDE DEF has
  <2> QED BY <1>4, <1>5, <1>7, <2>1, ElementsWanted
<1> HIDE DEF new
<1>10. AddAllToSetsOK(sets, es)
  <2>1. ASSUME NEW j \in DOMAIN es
        PROVE  ~Conflicts(sets, es[j])
    <3>1. es[j] \in new
      BY <1>9 DEF Range
    <3>2. PICK t \in SlotsOf(obj, spn) : es[j] = ElementAt(spn, t)
      BY <3>1 DEF new, ElementsOf
    <3>3. t \in Claims(spn)
      BY <1>7, <3>2
    <3> HIDE DEF es, spn
    <3> QED BY <1>1, <1>4, <3>2, <3>3, NoConflict
  <2> QED BY <2>1 DEF AddAllToSetsOK
<1>11. AddServicePort(spn, o.spec)
  BY <1>1, <1>8, <1>10 DEF AddServicePort
<1>12. ServiceCallsAllowed
  BY <1>1, <1>4, <1>11 DEF ServiceCallsAllowed, SvcStep, StepDeletePort, StepAddElement, StepAffinity
<1>13. PortOK(u) /\ u.res = "ok" /\ Effect(u, TRUE, o.spec.aff # Nil, AddrsOf(w.eps))
  <2>1. AddAllToSetsOK(w.sets, ServicePortElements(spn, NewServiceInfo(o.spec, w.eps # <<>>)))
    BY <1>8, <1>10
  <2> HIDE DEF w, spn
  <2> QED BY <1>4, <1>8, <2>1, AddServicePortOK
<1>14. /\ SvcID(u.svc) = SvcID(svc) /\ u.svc.ext = svc.ext /\ u.svc.lb = svc.lb
       /\ Others(u.sets) = Others(w.sets) \cup Range(es)
       /\ RejectsNowhere(w.sets) => RejectsNowhere(u.sets)
  <2>1. AddAllToSetsOK(w.sets, ServicePortElements(spn, NewServiceInfo(o.spec, w.eps # <<>>)))
    BY <1>8, <1>10
  <2> HIDE DEF w, spn
  <2> QED BY <1>4, <1>8, <2>1, AddPortElements
<1>addresses. u.svc.ext = obj.ext /\ u.svc.lb = obj.lb
  <2>1. svc.ext = obj.ext /\ svc.lb = obj.lb
    BY <1>5 DEF NewServiceInfo, SpecOf
  <2> HIDE DEF u, svc
  <2> QED BY <1>14, <2>1
<1> HIDE DEF u, es, svc, w
<1>15. RecordedAs(spn, u.svc)
  <2>1. HasPort(obj, spn)
    BY <1>5, <1>6 DEF HasPort
  <2> HIDE DEF obj, spn
  <2> QED BY <1>7, <1>9, <1>14, <1>addresses, <2>1 DEF RecordedAs
<1>16. RejectsNowhere(u.sets) /\ Others(u.sets) = Elements \cup new /\ u.svc # Nil
  BY <1>2, <1>8, <1>9, <1>13, <1>14 DEF Recorded, Elements, Effect
<1>17. Working(Tail(svcTodo), seenSvc, svcCache, KnownPorts \cup {spn}, Elements \cup new)
  <2>1. KnownPorts \in SUBSET ServicePortName
    BY DEF KnownPorts
  <2>2. ASSUME NEW x, x = Head(svcTodo), x.op = "addPort"
        PROVE  Working(Tail(svcTodo), seenSvc, svcCache, KnownPorts \cup {x.spn},
                       Elements \cup ElementsOf(seenSvc[x.spn.svc], x.spn))
    <3>1. svcTodo # <<>>
      BY <1>1
    <3> HIDE DEF o
    <3> QED BY ONLY ServicesApart, <1>2, <2>1, <2>2, <3>1, AddPortWork
  <2> QED BY <1>1, <2>2 DEF new
<1>18. Working(svcTodo', seenSvc, svcCache, KnownPorts \cup {spn}, Others(u.sets))
  BY <1>1, <1>16, <1>17
<1>19. SvcInv'
  <2> HIDE DEF spn
  <2> QED BY <1>1, <1>4, <1>13, <1>15, <1>16, <1>18, CommitKeepsWork DEF u, w, o
<1>20. HasAff(serviceMap'[spn]) <=> o.spec.aff # Nil
  <2>1. serviceMap'[spn] = u.svc
    <3> HIDE DEF spn, o
    <3> QED BY <1>1, <1>4, <1>13, CommitKnows DEF u, w
  <2> QED BY <1>13, <2>1 DEF Effect
<1> QED BY <1>12, <1>19, <1>20

\* The last known object is the stored one.
LEMMA LastKnownIs ==
    ASSUME NEW s, svcCache[s] # Nil
    PROVE  LastKnown(s) = StoredOf(svcCache[s])
BY DEF LastKnown, StoredOf, NodePorts

\* A service port that is not known has no elements.
LEMMA UnknownHasNone ==
    ASSUME ServicesApart, NEW W, NEW seen, NEW cache, NEW K \in SUBSET ServicePortName, NEW X,
           AllAccounted(W, seen, cache, K, X), NEW spn \in ServicePortName, spn \notin K, NEW t \in Claims(spn)
    PROVE  ElementAt(spn, t) \notin X
<1>1. ElementAt(spn, t).set = t[1] /\ ElementAt(spn, t).key = <<spn.proto, t[2], t[3]>>
  BY ElementFields
<1> DEFINE e == ElementAt(spn, t)
<1>2. e.set = t[1] /\ e.key = <<spn.proto, t[2], t[3]>>
  BY <1>1
<1> HIDE DEF e
<1>3. e \notin X
  BY <1>2, OneElement
<1> QED BY <1>3 DEF e

\* Only its own elements lead to a service port.
LEMMA LeadsToOwn ==
    ASSUME NEW W, NEW seen, NEW cache, NEW K \in SUBSET ServicePortName, NEW X,
           AllAccounted(W, seen, cache, K, X), NEW ref, ref # Nil,
           NEW x \in X, x.to = ref, NEW spn, ref[1] = spn
    PROVE  \E t \in Claims(spn) : x = ElementAt(spn, t)
<1>1. PICK s \in K : \E t \in Claims(s) : x = ElementAt(s, t)
  BY DEF AllAccounted, Accounted
<1>2. PICK t \in Claims(s) : x = ElementAt(s, t)
  BY <1>1
<1>3. x.to = IF t[1] = "markmasq" THEN Nil ELSE <<s, PortID(s)>>
  BY <1>2, ElementFields
<1>4. ref = <<s, PortID(s)>>
  BY <1>3
<1>5. s = spn
  BY <1>4
<1> QED BY <1>2, <1>5

\* deleteServicePort is called as Proxy allows: the stored object knows every
\* element of the port.
LEMMA DeletePortStep ==
    ASSUME ServicesApart, InStep, SvcInv, StepDeletePort
    PROVE  ServiceCallsAllowed /\ SvcInv'
<1> DEFINE o == Head(svcTodo)
           spn == o.spn
           w == Local(spn)
           stored == LastKnown(spn.svc)
           u == deleteServicePort(spn, stored, w)
           svc == serviceMap[spn]
           D == StoredElements(spn, svc, stored)
           Y == IF svc = Nil THEN Elements ELSE RemoveFromSets(Elements, D)
<1>1. proc = "running" /\ svcTodo # <<>> /\ o.op = "deletePort" /\ Commit(spn, u) /\ svcTodo' = Tail(svcTodo)
      /\ UNCHANGED <<apiSvc, seenSvc, svcCache>>
  BY DEF StepDeletePort, SvcStep
<1>2. /\ Working(svcTodo, seenSvc, svcCache, KnownPorts, Elements) /\ Recorded
      /\ SvcTyped(seenSvc) /\ SvcTyped(svcCache)
  BY <1>1 DEF SvcInv
<1>3. o \in ServiceOp /\ Fits(o, seenSvc, svcCache, KnownPorts)
      /\ AllAccounted(Range(svcTodo), seenSvc, svcCache, KnownPorts, Elements)
  BY <1>1, <1>2, WorkParts
<1>4. spn \in ServicePortName
  BY <1>1, <1>3, ServiceOpFields
<1>5. KnownPorts \in SUBSET ServicePortName
  BY DEF KnownPorts
<1>6. svcCache[spn.svc] # Nil
  BY <1>1, <1>3 DEF Fits, HasPort
<1>7. stored = StoredOf(svcCache[spn.svc])
  BY <1>6, LastKnownIs
<1>8. /\ PortOK(w) /\ DOMAIN w = Fields /\ w.svc = svc /\ w.res = "ok" /\ w.sets = sets
      /\ svc \in ServiceInfo \cup {Nil}
  BY <1>4, LocalFields DEF InStep, TypeOK
<1> HIDE DEF w, stored
<1>9. ASSUME svc # Nil
      PROVE  SvcID(svc) = PortID(spn) /\ Known(w) /\ <<spn, SvcID(svc)>> # Nil
  <2>1. spn \in KnownPorts
    BY <1>4, <1>9 DEF KnownPorts
  <2>2. SvcID(svc) = PortID(spn)
    BY <1>2, <2>1 DEF Recorded, RecordedAs
  <2>3. svc \in ServiceInfo
    BY <1>8, <1>9
  <2>4. SvcID(svc) \in SvcKey
    BY <2>3 DEF SvcID, ServiceInfo, SvcKey
  <2>5. <<spn, SvcID(svc)>> \in SvcRef
    BY <1>4, <2>4 DEF SvcRef
  <2> QED BY <1>8, <2>2, <2>3, <2>5, NilAssumption DEF Known
<1>10. PortGone(Elements, Y, spn, seenSvc, KnownPorts)
  <2>1. CASE svc = Nil
    <3>1. spn \notin KnownPorts
      BY <2>1 DEF KnownPorts
    <3>2. \A t \in Claims(spn) : ElementAt(spn, t) \notin Elements
      <4> HIDE DEF spn
      <4> QED BY <1>3, <1>4, <1>5, <3>1, UnknownHasNone
    <3> QED BY <2>1, <3>2 DEF PortGone
  <2>2. CASE svc # Nil
    <3>1. Y = RemoveFromSets(Elements, StoredElements(spn, svc, StoredOf(svcCache[spn.svc])))
      BY <1>7, <2>2
    <3>2. SvcID(svc) = PortID(spn)
      BY <1>9, <2>2
    <3>3. ASSUME NEW x, x = Head(svcTodo), x.op = "deletePort", NEW v, SvcID(v) = PortID(x.spn), NEW Z,
                 Z = RemoveFromSets(Elements, StoredElements(x.spn, v, StoredOf(svcCache[x.spn.svc])))
          PROVE  PortGone(Elements, Z, x.spn, seenSvc, KnownPorts)
      <4>1. svcTodo # <<>>
        BY <1>1
      <4> QED BY ONLY ServicesApart, <1>2, <1>5, <3>3, <4>1, DeletePortElements
    <3> HIDE DEF svc, Y
    <3> QED BY <1>1, <3>1, <3>2, <3>3
  <2> QED BY <2>1, <2>2
<1>11. ASSUME svc # Nil, NEW x \in RemoveFromSets(sets, D)
       PROVE  x.to # <<spn, SvcID(svc)>>
  <2> SUFFICES ASSUME x.to = <<spn, SvcID(svc)>> PROVE FALSE
    OBVIOUS
  <2>1. x \in sets /\ \A d \in D : ~(x.set = d.set /\ x.key = d.key)
    BY <1>11 DEF RemoveFromSets
  <2>2. x.set # "noendpoints"
    BY <1>2, <1>9, <1>11, <2>1 DEF Recorded, RejectsNowhere
  <2>3. x \in Elements
    BY <2>1, <2>2 DEF Elements, Others
  <2>4. x \in Y
    BY <1>11, <2>1, <2>3 DEF RemoveFromSets
  <2>5. \E t \in Claims(spn) : x = ElementAt(spn, t)
    <3> DEFINE ref == <<spn, SvcID(svc)>>
    <3>1. x.to = ref /\ ref # Nil /\ ref[1] = spn
      BY <1>9, <1>11
    <3> HIDE DEF spn, ref
    <3> QED BY <1>3, <1>5, <2>3, <3>1, LeadsToOwn
  <2> QED BY <1>10, <2>4, <2>5 DEF PortGone
<1>12. DeleteServicePort(spn, stored)
  BY <1>1, <1>11 DEF DeleteServicePort, w
<1>13. ServiceCallsAllowed
  BY <1>1, <1>4, <1>12 DEF ServiceCallsAllowed, SvcStep, StepAddPort, StepAddElement, StepAffinity, stored
<1>14. u.res = "ok" /\ u.svc = Nil /\ Others(u.sets) = Y /\ RejectsNowhere(u.sets)
  <2>1. PortOK(u) /\ u.res = "ok" /\ IF w.svc = Nil THEN u = w ELSE Effect(u, FALSE, FALSE, AddrsOf(w.eps))
    <3>1. w.svc # Nil => \A x \in RemoveFromSets(w.sets, StoredElements(spn, w.svc, stored)) : x.to # <<spn, SvcID(w.svc)>>
      BY <1>8, <1>11
    <3> HIDE DEF spn
    <3> QED BY <1>4, <1>8, <3>1, DeleteServicePortOK
  <2>2. u.svc = Nil
    BY <1>8, <2>1 DEF Effect
  <2>3. RejectsNowhere(w.sets) /\ Others(w.sets) = Elements
    BY <1>2, <1>8 DEF Recorded, Elements
  <2>4. CASE svc = Nil
    BY <1>8, <2>1, <2>2, <2>3, <2>4
  <2>5. CASE svc # Nil
    <3>1. Known(w)
      BY <1>9, <2>5
    <3>2. /\ Others(u.sets) = RemoveFromSets(Others(w.sets), StoredElements(spn, w.svc, stored))
          /\ RejectsNowhere(w.sets) => RejectsNowhere(u.sets)
      BY <3>1, DeletePortSets
    <3> QED BY <1>8, <2>1, <2>2, <2>3, <2>5, <3>2
  <2> QED BY <2>4, <2>5
<1> HIDE DEF Y, u, svc
<1>15. Working(Tail(svcTodo), seenSvc, svcCache, KnownPorts \ {spn}, Y)
  <2>1. ASSUME NEW x, x = Head(svcTodo), x.op = "deletePort", NEW Z,
               PortGone(Elements, Z, x.spn, seenSvc, KnownPorts)
        PROVE  Working(Tail(svcTodo), seenSvc, svcCache, KnownPorts \ {x.spn}, Z)
    <3>1. svcTodo # <<>>
      BY <1>1
    <3> QED BY ONLY ServicesApart, <1>2, <1>5, <2>1, <3>1, DeletePortWork
  <2> QED BY <1>1, <1>10, <2>1
<1>16. Working(svcTodo', seenSvc, svcCache, KnownPorts \ {spn}, Others(u.sets))
  BY <1>1, <1>14, <1>15
<1>17. SvcInv'
  <2> HIDE DEF spn
  <2> QED BY <1>1, <1>4, <1>14, <1>16, CommitKeepsWork
<1> QED BY <1>13, <1>17

\* A step that leaves the service ports as they are.
LEMMA SetsKeepWork ==
    ASSUME SvcInv, proc = "running", UNCHANGED <<serviceMap, apiSvc, seenSvc, svcCache>>,
           RejectsNowhere(sets'), Working(svcTodo', seenSvc, svcCache, KnownPorts, Others(sets'))
    PROVE  SvcInv'
<1>1. KnownPorts' = KnownPorts /\ Elements' = Others(sets')
  BY DEF KnownPorts, Elements, Others
<1>2. Working(svcTodo', seenSvc', svcCache', KnownPorts', Elements')
  BY <1>1
<1>3. \A s \in KnownPorts' : RecordedAs(s, serviceMap'[s])
  BY <1>1 DEF SvcInv, Recorded
<1>4. Recorded'
  BY <1>3 DEF Recorded, RecordedAs, RejectsNowhere
<1>5. SvcTyped(apiSvc') /\ SvcTyped(seenSvc') /\ SvcTyped(svcCache')
  BY DEF SvcInv
<1> QED BY <1>2, <1>4, <1>5 DEF SvcInv

\* The addresses of elements: node ports have none.
LEMMA ClaimAddress ==
    ASSUME ServicesApart, NEW spn \in ServicePortName, NEW t \in Claims(spn)
    PROVE  t[2] \in AddressesOf(t[1])
<1>1. t \in Slot /\ spn.svc \in Service
  BY DEF Claims, ServicePortName
<1>2. PICK obj \in Versions(spn.svc) : \E other \in Versions(spn.svc) : \E i \in At(other, spn) : t \in Slots(obj, other.ports[i])
  BY DEF Claims
<1>3. PICK p : t \in Slots(obj, p)
  BY <1>2
<1>4. Range(obj.ext) \subseteq IP /\ Range(obj.lb) \subseteq IP
  BY <1>1, ObjectFields
<1>5. CASE t = <<"nodeport", Nil, p.nodePort>>
  BY <1>5 DEF AddressesOf
<1>6. ASSUME NEW set \in {"external", "loadbalancer"}, NEW I \in SUBSET IP, t \in {set, "markmasq"} \X I \X {p.port}
      PROVE  t[2] \in AddressesOf(t[1])
  <2>1. t[1] # "nodeport" /\ t[2] \in IP
    BY <1>6
  <2> QED BY <2>1 DEF AddressesOf
<1>7. CASE t \in {"cluster", "markmasq"} \X {obj.ip} \X {p.port}
  <2>1. t[1] # "nodeport" /\ t[2] = obj.ip
    BY <1>7
  <2>2. obj.ip \in IP
    BY <1>1, ObjectFields DEF ServicesApart, ServiceKept
  <2> QED BY <2>1, <2>2 DEF AddressesOf
<1> QED BY <1>3, <1>4, <1>5, <1>6, <1>7 DEF Slots

\* A handler adds an element that is asked for to a known port.
LEMMA AddElementStep ==
    ASSUME ServicesApart, UpdatedSets = SetNames \ {"noendpoints"}, InStep, SvcInv, StepAddElement
    PROVE  ServiceCallsAllowed /\ SvcInv'
<1> DEFINE o == Head(svcTodo)
           spn == o.spn
           t == OpSlot(o)
           e == ElementAt(spn, t)
<1>1. proc = "running" /\ svcTodo # <<>> /\ o.op = "addElement" /\ svcTodo' = Tail(svcTodo)
      /\ UNCHANGED <<apiSvc, seenSvc, svcCache>>
  BY DEF StepAddElement, SvcStep
<1>2. Working(svcTodo, seenSvc, svcCache, KnownPorts, Elements) /\ Recorded /\ SvcTyped(seenSvc)
  BY <1>1 DEF SvcInv
<1>3. KnownPorts \in SUBSET ServicePortName
  BY DEF KnownPorts
<1>4. spn \in KnownPorts /\ spn \in ServicePortName /\ t \in Claims(spn)
  <2>1. IsElement(o)
    BY <1>1 DEF IsElement
  <2> QED BY <1>1, <1>2, <1>3, <2>1, ElementPortKnown
<1>5. t \in Slot /\ t[1] = o.set /\ t[2] = o.ip /\ t[3] = o.port
  BY <1>4 DEF Claims, OpSlot
<1>6. o.set \in UpdatedSets /\ o.ip \in AddressesOf(o.set) /\ o.port \in Port /\ o.port # 0
  <2>1. o.set \in SetNames \ {"noendpoints"} /\ o.port \in Port
    BY <1>5, SlotFields
  <2>2. o.ip \in AddressesOf(o.set)
    <3>1. t[2] \in AddressesOf(t[1])
      <4> HIDE DEF t, spn
      <4> QED BY <1>4, ClaimAddress
    <3> QED BY <1>5, <3>1
  <2> QED BY <2>1, <2>2, NftAssumption
<1>7. ServiceCallsAllowed
  BY <1>1, <1>4, <1>6 DEF ServiceCallsAllowed, SvcStep, StepAddPort, StepDeletePort, StepAffinity
<1>8. serviceMap[spn] # Nil /\ SvcID(serviceMap[spn]) = PortID(spn)
  BY <1>2, <1>4 DEF KnownPorts, Recorded, RecordedAs
<1>9. /\ sets' = AddToSet(sets, Element(o.set, spn, o.ip, o.port,
                            IF o.set = "markmasq" THEN Nil ELSE <<spn, SvcID(serviceMap[spn])>>))
      /\ serviceMap' = serviceMap
  BY <1>6, <1>8 DEF StepAddElement, AddSetElement
<1>10. sets' = AddToSet(sets, e)
  BY <1>5, <1>8, <1>9 DEF ElementAt
<1>11. ~Conflicts(sets, e)
  <2> HIDE DEF t, spn
  <2> QED BY <1>1, <1>4, NoConflict
<1>12. sets' = sets \cup {e} /\ e.set # "noendpoints"
  <2>1. e.set = t[1]
    BY ElementFields
  <2>2. t[1] # "noendpoints"
    BY <1>5, SlotFields
  <2> QED BY <1>10, <1>11, <2>1, <2>2 DEF AddToSet
<1> HIDE DEF e
<1>13. Others(sets') = Elements \cup {e} /\ RejectsNowhere(sets')
  BY <1>2, <1>12 DEF Others, Elements, RejectsNowhere, Recorded
<1>14. Working(Tail(svcTodo), seenSvc, svcCache, KnownPorts, Elements \cup {e})
  <2>1. ASSUME NEW x, x = Head(svcTodo), x.op = "addElement"
        PROVE  Working(Tail(svcTodo), seenSvc, svcCache, KnownPorts, Elements \cup {ElementAt(x.spn, OpSlot(x))})
    <3>1. svcTodo # <<>>
      BY <1>1
    <3> QED BY ONLY ServicesApart, <1>2, <1>3, <2>1, <3>1, AddElementWork
  <2> QED BY <1>1, <2>1 DEF e
<1>15. SvcInv'
  BY <1>1, <1>9, <1>13, <1>14, SetsKeepWork
<1> QED BY <1>7, <1>15

\* A handler removes an element that is no longer asked for from a known port.
LEMMA RemoveElementStep ==
    ASSUME ServicesApart, InStep, SvcInv, StepRemoveElement
    PROVE  ServiceCallsAllowed /\ SvcInv'
<1> DEFINE o == Head(svcTodo)
           spn == o.spn
           t == OpSlot(o)
           e == ElementAt(spn, t)
           d == Element(o.set, spn, o.ip, o.port, Nil)
<1>1. proc = "running" /\ svcTodo # <<>> /\ o.op = "removeElement" /\ svcTodo' = Tail(svcTodo)
      /\ UNCHANGED <<apiSvc, seenSvc, svcCache>>
  BY DEF StepRemoveElement, SvcStep
<1>2. Working(svcTodo, seenSvc, svcCache, KnownPorts, Elements) /\ Recorded /\ SvcTyped(seenSvc)
  BY <1>1 DEF SvcInv
<1>3. /\ KnownPorts \in SUBSET ServicePortName
      /\ AllAccounted(Range(svcTodo), seenSvc, svcCache, KnownPorts, Elements)
  BY <1>2 DEF KnownPorts, Working
<1>4. spn \in KnownPorts /\ spn \in ServicePortName /\ t \in Claims(spn)
  <2>1. IsElement(o)
    BY <1>1 DEF IsElement
  <2> QED BY <1>1, <1>2, <1>3, <2>1, ElementPortKnown
<1>5. t[1] = o.set /\ t[2] = o.ip /\ t[3] = o.port
  BY DEF OpSlot
<1>6. ServiceCallsAllowed
  BY <1>1 DEF ServiceCallsAllowed, SvcStep, StepAddPort, StepDeletePort, StepAddElement, StepAffinity
<1>7. serviceMap[spn] # Nil
  BY <1>4 DEF KnownPorts
<1>8. sets' = RemoveFromSets(sets, {d}) /\ serviceMap' = serviceMap
  BY <1>7 DEF StepRemoveElement, RemoveSetElement
<1>9. d.set = t[1] /\ d.key = <<spn.proto, t[2], t[3]>> /\ e.set = t[1] /\ e.key = <<spn.proto, t[2], t[3]>>
  BY <1>5, ElementFields DEF Element
<1> HIDE DEF d, e, t
<1>10. ASSUME NEW x \in Elements
       PROVE  x.set = d.set /\ x.key = d.key <=> x = e
  <2>1. ASSUME x.set = d.set, x.key = d.key
        PROVE  x = ElementAt(spn, t)
    <3>1. x.set = t[1] /\ x.key = <<spn.proto, t[2], t[3]>>
      BY <1>9, <2>1
    <3> HIDE DEF spn
    <3> QED BY <1>3, <1>4, <3>1, OneElement
  <2> QED BY <1>9, <2>1 DEF e
<1>11. Others(sets') = Elements \ {e}
  BY <1>8, <1>10 DEF Others, Elements, RemoveFromSets
<1>12. RejectsNowhere(sets')
  BY <1>2, <1>8 DEF Recorded, RejectsNowhere, RemoveFromSets
<1>13. Working(Tail(svcTodo), seenSvc, svcCache, KnownPorts, Elements \ {e})
  <2>1. ASSUME NEW x, x = Head(svcTodo), x.op = "removeElement"
        PROVE  Working(Tail(svcTodo), seenSvc, svcCache, KnownPorts, Elements \ {ElementAt(x.spn, OpSlot(x))})
    <3>1. svcTodo # <<>>
      BY <1>1
    <3> QED BY ONLY ServicesApart, <1>2, <1>3, <2>1, <3>1, RemoveElementWork
  <2> QED BY <1>1, <2>1 DEF e, t
<1>14. SvcInv'
  BY <1>1, <1>8, <1>11, <1>12, <1>13, SetsKeepWork
<1> QED BY <1>6, <1>14

\* A port is compared with the stored object.
LEMMA ChangePortStep ==
    ASSUME ServicesApart, InStep, SvcInv, StepChangePort
    PROVE  /\ ServiceCallsAllowed /\ SvcInv'
           /\ \A z : z.op = "affinity" => (z \in Range(svcTodo') <=> z \in Range(svcTodo))
<1> DEFINE o == Head(svcTodo)
<1>1. /\ proc = "running" /\ svcTodo # <<>> /\ o.op = "changePort" /\ UNCHANGED vars
      /\ svcTodo' = ChangePortOps(o.svc, o.new, o.i, o.stored) \o Tail(svcTodo)
      /\ UNCHANGED <<apiSvc, seenSvc, svcCache>>
  BY DEF StepChangePort, SvcStep
<1>2. /\ Working(svcTodo, seenSvc, svcCache, KnownPorts, Elements) /\ Recorded
      /\ SvcTyped(seenSvc) /\ SvcTyped(svcCache)
  BY <1>1 DEF SvcInv
<1>3. ServiceCallsAllowed
  BY <1>1 DEF ServiceCallsAllowed, SvcStep, StepAddPort, StepDeletePort, StepAddElement, StepAffinity
<1>4. serviceMap' = serviceMap /\ sets' = sets
  BY <1>1 DEF vars
<1>5. Others(sets') = Elements /\ RejectsNowhere(sets')
  BY <1>2, <1>4 DEF Elements, Recorded
<1>6. LET left == ChangePortOps(o.svc, o.new, o.i, o.stored) \o Tail(svcTodo) IN
      /\ Working(left, seenSvc, svcCache, KnownPorts, Elements)
      /\ \A z : z.op = "affinity" => (z \in Range(left) <=> z \in Range(svcTodo))
  <2>1. ASSUME NEW x, x = Head(svcTodo), x.op = "changePort"
        PROVE  LET left == ChangePortOps(x.svc, x.new, x.i, x.stored) \o Tail(svcTodo) IN
               /\ Working(left, seenSvc, svcCache, KnownPorts, Elements)
               /\ \A z : z.op = "affinity" => (z \in Range(left) <=> z \in Range(svcTodo))
    <3>1. svcTodo # <<>>
      BY <1>1
    <3> QED BY ONLY ServicesApart, <1>2, <2>1, <3>1, ChangePortWork
  <2> QED BY <1>1, <2>1
<1>7. SvcInv'
  BY <1>1, <1>4, <1>5, <1>6, SetsKeepWork
<1> QED BY <1>1, <1>3, <1>6, <1>7

\* The object that was handled goes into the cache.
LEMMA StoreStep ==
    ASSUME InStep, SvcInv, StepStore
    PROVE  ServiceCallsAllowed /\ SvcInv'
<1> DEFINE o == Head(svcTodo)
           next == [svcCache EXCEPT ![o.svc] = o.obj]
<1>1. /\ proc = "running" /\ svcTodo # <<>> /\ o.op = "store" /\ UNCHANGED vars
      /\ svcTodo' = Tail(svcTodo) /\ svcCache' = next /\ UNCHANGED <<apiSvc, seenSvc>>
  BY DEF StepStore, SvcStep
<1>2. /\ Working(svcTodo, seenSvc, svcCache, KnownPorts, Elements) /\ Recorded
      /\ SvcTyped(seenSvc) /\ SvcTyped(svcCache) /\ SvcTyped(apiSvc)
  BY <1>1 DEF SvcInv
<1>3. ServiceCallsAllowed
  BY <1>1 DEF ServiceCallsAllowed, SvcStep, StepAddPort, StepDeletePort, StepAddElement, StepAffinity
<1>4. Working(Tail(svcTodo), seenSvc, next, KnownPorts, Elements) /\ SvcTyped(next)
  <2>1. KnownPorts \in SUBSET ServicePortName
    BY DEF KnownPorts
  <2>2. ASSUME NEW x, x = Head(svcTodo), x.op = "store"
        PROVE  /\ Working(Tail(svcTodo), seenSvc, [svcCache EXCEPT ![x.svc] = x.obj], KnownPorts, Elements)
               /\ SvcTyped([svcCache EXCEPT ![x.svc] = x.obj])
    <3>1. svcTodo # <<>>
      BY <1>1
    <3> QED BY ONLY <1>2, <2>1, <2>2, <3>1, StoreWork
  <2> QED BY <1>1, <2>2
<1> HIDE DEF next
<1>5. KnownPorts' = KnownPorts /\ Elements' = Elements /\ serviceMap' = serviceMap /\ sets' = sets
  BY <1>1 DEF vars, KnownPorts, Elements, Others
<1>6. Recorded'
  BY <1>2, <1>5 DEF Recorded, RecordedAs, RejectsNowhere
<1>7. Working(svcTodo', seenSvc', svcCache', KnownPorts', Elements')
  BY <1>1, <1>4, <1>5
<1>8. SvcTyped(apiSvc') /\ SvcTyped(seenSvc') /\ SvcTyped(svcCache')
  BY <1>1, <1>2, <1>4
<1>9. SvcInv'
  BY <1>6, <1>7, <1>8 DEF SvcInv
<1> QED BY <1>3, <1>9

(***************************************************************************)
(* Session affinity.                                                       *)
(***************************************************************************)
\* A step that leaves the affinity of every port and the affinity changes to be
\* made as they are; of a port it adds, or that is no longer asked for, more is
\* to be said.
LEMMA AffinityLeft ==
    ASSUME AffInv, proc = "running", UNCHANGED <<seenSvc, svcCache>>,
           \A z : z.op = "affinity" => (z \in Range(svcTodo') <=> z \in Range(svcTodo)),
           \A s \in KnownPorts' :
              \/ s \in KnownPorts /\ (HasAff(serviceMap'[s]) <=> HasAff(serviceMap[s]))
              \/ StickyAs(s, serviceMap'[s], Range(svcTodo), seenSvc, svcCache)
    PROVE  AffInv'
<1>1. ASSUME NEW s \in KnownPorts'
      PROVE  StickyAs(s, serviceMap'[s], Range(svcTodo), seenSvc, svcCache)
  <2>1. CASE s \in KnownPorts /\ (HasAff(serviceMap'[s]) <=> HasAff(serviceMap[s]))
    <3>1. StickyAs(s, serviceMap[s], Range(svcTodo), seenSvc, svcCache)
      BY <2>1 DEF AffInv
    <3> QED BY <2>1, <3>1 DEF StickyAs
  <2> QED BY <1>1, <2>1
<1>2. ASSUME NEW s
      PROVE  AffinityDue(s, Range(svcTodo')) <=> AffinityDue(s, Range(svcTodo))
  BY DEF AffinityDue
<1>3. ASSUME NEW s \in KnownPorts'
      PROVE  StickyAs(s, serviceMap'[s], Range(svcTodo'), seenSvc', svcCache')
  BY <1>1, <1>2, <1>3 DEF StickyAs
<1> QED BY <1>3 DEF AffInv, StickyAs, AffinityDue

\* An operation that is no affinity change is done, and none is added.
LEMMA NoneDone ==
    ASSUME NEW seen, NEW cache, NEW K, NEW X, Working(svcTodo, seen, cache, K, X), svcTodo # <<>>,
           Head(svcTodo).op # "affinity", svcTodo' = Tail(svcTodo)
    PROVE  \A z : z.op = "affinity" => (z \in Range(svcTodo') <=> z \in Range(svcTodo))
<1>1. Range(svcTodo) = {Head(svcTodo)} \cup Range(Tail(svcTodo))
  BY WorkParts
<1> QED BY <1>1

\* The other steps of the service handlers leave the affinity as it is, and a
\* port that is added gets the one its object asks for.
LEMMA OtherStepsKeepAffinity ==
    ASSUME ServicesApart, InStep, SvcInv, AffInv,
           StepAddPort \/ StepDeletePort \/ StepChangePort \/ StepAddElement \/ StepRemoveElement \/ StepStore
    PROVE  AffInv'
<1> DEFINE o == Head(svcTodo)
<1>1. proc = "running" /\ svcTodo # <<>> /\ seenSvc' = seenSvc
  BY DEF StepAddPort, StepDeletePort, StepChangePort, StepAddElement, StepRemoveElement, StepStore, SvcStep
<1>2. Working(svcTodo, seenSvc, svcCache, KnownPorts, Elements)
  BY <1>1 DEF SvcInv
<1>3. /\ o \in ServiceOp /\ Fits(o, seenSvc, svcCache, KnownPorts)
      /\ Range(svcTodo) = {o} \cup Range(Tail(svcTodo)) /\ \A y \in Range(Tail(svcTodo)) : MayPrecede(o, y)
      /\ \A y \in Range(svcTodo) : Fits(y, seenSvc, svcCache, KnownPorts)
  BY <1>1, <1>2, WorkParts
<1>4. serviceMap \in [ServicePortName -> ServiceInfo \cup {Nil}]
  BY DEF InStep, TypeOK
<1>5. CASE StepAddPort \/ StepDeletePort
  <2>1. /\ o.op \in {"addPort", "deletePort"} /\ svcTodo' = Tail(svcTodo) /\ svcCache' = svcCache
        /\ o.op = "addPort" <=> StepAddPort
    BY <1>5 DEF StepAddPort, StepDeletePort, SvcStep
  <2>2. o.spn \in ServicePortName
    BY <1>3, <2>1, ServiceOpFields
  <2>3. PICK v : serviceMap' = [serviceMap EXCEPT ![o.spn] = v]
    BY <1>5 DEF StepAddPort, StepDeletePort, Commit
  <2>4. \A z : z.op = "affinity" => (z \in Range(svcTodo') <=> z \in Range(svcTodo))
    BY <1>1, <1>2, <2>1, NoneDone
  <2>5. ASSUME NEW s \in KnownPorts', s # o.spn
        PROVE  s \in KnownPorts /\ serviceMap'[s] = serviceMap[s]
    <3> HIDE DEF o
    <3> QED BY <1>4, <2>2, <2>3, <2>5 DEF KnownPorts
  <2>6. StickyAs(o.spn, serviceMap'[o.spn], Range(svcTodo), seenSvc, svcCache)
    <3>1. CASE StepAddPort
      <4>1. HasAff(serviceMap'[o.spn]) <=> o.spec.aff # Nil
        BY <3>1, AddPortStep
      <4>2. o.spn \notin KnownPorts /\ o.spec.aff = seenSvc[o.spn.svc].aff
        <5>1. o.op = "addPort"
          BY <2>1, <3>1
        <5>2. LET obj == seenSvc[o.spn.svc] IN
              o.spn \notin KnownPorts /\ \E i \in At(obj, o.spn) : o.spec = SpecOf(obj, obj.ports[i])
          BY <1>3, <5>1 DEF Fits
        <5> QED BY <5>2 DEF SpecOf
      <4>3. ~AffinityDue(o.spn, Range(svcTodo))
        BY <1>3, <4>2 DEF AffinityDue, Fits
      <4> QED BY <4>1, <4>2, <4>3 DEF StickyAs
    <3>2. CASE StepDeletePort
      <4>1. ~HasPort(seenSvc[o.spn.svc], o.spn)
        BY <1>3, <2>1, <3>2 DEF Fits, StepDeletePort, SvcStep
      <4> QED BY <4>1 DEF StickyAs
    <3> QED BY <1>5, <3>1, <3>2
  <2> QED BY <1>1, <2>1, <2>4, <2>5, <2>6, AffinityLeft
<1>6. CASE StepChangePort
  <2>1. serviceMap' = serviceMap /\ svcCache' = svcCache
    BY <1>6 DEF StepChangePort, vars
  <2>2. \A z : z.op = "affinity" => (z \in Range(svcTodo') <=> z \in Range(svcTodo))
    BY <1>6, ChangePortStep
  <2>3. KnownPorts' = KnownPorts
    BY <2>1 DEF KnownPorts
  <2> QED BY <1>1, <2>1, <2>2, <2>3, AffinityLeft
<1>7. CASE StepAddElement \/ StepRemoveElement
  <2>1. serviceMap' = serviceMap /\ svcCache' = svcCache /\ svcTodo' = Tail(svcTodo) /\ o.op # "affinity"
    BY <1>7 DEF StepAddElement, StepRemoveElement, SvcStep, AddSetElement, RemoveSetElement, Stop, vars
  <2>2. \A z : z.op = "affinity" => (z \in Range(svcTodo') <=> z \in Range(svcTodo))
    BY <1>1, <1>2, <2>1, NoneDone
  <2>3. KnownPorts' = KnownPorts
    BY <2>1 DEF KnownPorts
  <2> QED BY <1>1, <2>1, <2>2, <2>3, AffinityLeft
<1>8. CASE StepStore
  <2>1. serviceMap' = serviceMap /\ o.op = "store" /\ svcTodo' = Tail(svcTodo)
    BY <1>8 DEF StepStore, SvcStep, vars
  <2>2. Range(svcTodo') = {} /\ Range(svcTodo) = {o}
    BY <1>3, <2>1 DEF MayPrecede
  <2>3. KnownPorts' = KnownPorts
    BY <2>1 DEF KnownPorts
  <2>4. \A s : ~AffinityDue(s, Range(svcTodo)) /\ ~AffinityDue(s, Range(svcTodo'))
    BY <2>1, <2>2 DEF AffinityDue
  <2>5. ASSUME NEW s \in KnownPorts
        PROVE  StickyAs(s, serviceMap[s], Range(svcTodo'), seenSvc, svcCache')
    BY <1>1, <2>4, <2>5 DEF AffInv, StickyAs
  <2> QED BY <1>1, <2>1, <2>3, <2>5 DEF AffInv, StickyAs, AffinityDue
<1> QED BY <1>5, <1>6, <1>7, <1>8

\* If no port that the loop gets to panics, it gets to all of them.
LEMMA AllReached ==
    ASSUME NEW S, NEW ports \in Seq(S), NEW after,
           \A s \in PortsReached(ports, after) : after[s].res # "panic"
    PROVE  PortsReached(ports, after) = Range(ports)
<1> DEFINE bad == {i \in DOMAIN ports : after[ports[i]].res = "panic"}
<1>1. DOMAIN ports = 1..Len(ports) /\ Len(ports) \in Nat
  BY LenProperties
<1>2. bad = {}
  <2> SUFFICES ASSUME bad # {} PROVE FALSE
    OBVIOUS
  <2>1. bad \in SUBSET Nat
    BY <1>1
  <2>2. PICK i \in bad : \A j \in bad : i <= j
    <3> HIDE DEF bad
    <3> QED BY <2>1, LeastExists
  <2>3. i \in DOMAIN ports /\ after[ports[i]].res = "panic"
    BY <2>2
  <2>4. ASSUME NEW j \in 1..(i - 1)
        PROVE  after[ports[j]].res # "panic"
    <3>1. j \in DOMAIN ports /\ ~(i <= j)
      BY <1>1, <2>3, <2>4
    <3> QED BY <2>2, <3>1
  <2>5. ports[i] \in PortsReached(ports, after)
    BY <2>3, <2>4 DEF PortsReached
  <2> QED BY <2>3, <2>5
<1>3. \A i \in DOMAIN ports : \A j \in 1..(i - 1) : after[ports[j]].res # "panic"
  BY <1>1, <1>2
<1> QED BY <1>3 DEF PortsReached, Range

\* processAffinityChange on one port: it is as the object asks for, unless it
\* panics.
LEMMA OnePortSticky ==
    ASSUME NEW w, PortOK(w), w.svc # Nil, w.res = "ok", NEW on \in BOOLEAN, HasAff(w.svc) <=> ~on,
           NEW u, u = (IF on THEN addAffinity(w) ELSE removeAffinity(w)), u.res # "panic"
    PROVE  /\ on => ~w.svc.withAff /\ w.eps # <<>>
           /\ ~on => w.svc.withAff
           /\ u.res = "ok" /\ u.svc # Nil /\ (HasAff(u.svc) <=> on)
           /\ SvcID(u.svc) = SvcID(w.svc) /\ u.svc.ext = w.svc.ext /\ u.svc.lb = w.svc.lb
<1>1. Known(w) /\ (HasAff(w.svc) <=> w.svc.withAff)
  BY AffinityOnOrOff DEF PortOK, Typed, Known
<1>2. Leaves(w, addAffinity(w)) /\ Leaves(w, removeAffinity(w))
  BY <1>1, AddAffinityLeaves, RemoveAffinityLeaves
<1>3. CASE on
  <2>1. ~w.svc.withAff /\ u = addAffinity(w)
    BY <1>1, <1>3
  <2>2. w.eps # <<>>
    <3> SUFFICES ASSUME w.eps = <<>> PROVE FALSE
      OBVIOUS
    <3>1. ChainOK(w.svc, w.eps, w.sc[SvcID(w.svc)])
      BY DEF PortOK
    <3>2. Len(w.svc.ruleID) < 2
      BY <3>1 DEF ChainOK, Remembers
    <3>3. addAffinity(w).res = "panic"
      BY <1>1, <3>2, AffinityKeeps DEF addAffinity, Known, Fields
    <3> QED BY <2>1, <3>3
  <2>3. u.res = "ok" /\ Effect(u, TRUE, TRUE, AddrsOf(w.eps))
    BY <2>1, <2>2, AddAffinityOK
  <2> QED BY <1>2, <1>3, <2>1, <2>2, <2>3 DEF Effect, Leaves, SvcID
<1>4. CASE ~on
  <2>1. w.svc.withAff /\ u = removeAffinity(w)
    BY <1>1, <1>4
  <2>2. u.res = "ok" /\ Effect(u, TRUE, FALSE, AddrsOf(w.eps))
    BY <2>1, RemoveAffinityOK
  <2> QED BY <1>2, <1>4, <2>1, <2>2 DEF Effect, Leaves, SvcID
<1> QED BY <1>3, <1>4

\* processAffinityChange is called as Proxy allows, or panics; when it is done,
\* every port has the affinity its object asks for.
LEMMA AffinityStep ==
    ASSUME ServicesApart, InStep, SvcInv, AffInv, StepAffinity
    PROVE  /\ ServiceCallsSurvived /\ SvcInv' /\ AffInv'
           /\ proc' = "running" => KnownPorts' = KnownPorts
<1> DEFINE o == Head(svcTodo)
           on == o.aff # Nil
           after == [s \in Range(o.ports) |-> IF o.aff = Nil THEN removeAffinity(Local(s)) ELSE addAffinity(Local(s))]
           ports == PortsReached(o.ports, after)
<1>1. /\ proc = "running" /\ svcTodo # <<>> /\ o.op = "affinity" /\ svcTodo' = Tail(svcTodo)
      /\ AffinityChange(ports, after) /\ UNCHANGED <<apiSvc, seenSvc, svcCache>>
  BY DEF StepAffinity, SvcStep
<1>2. /\ Working(svcTodo, seenSvc, svcCache, KnownPorts, Elements) /\ Recorded
      /\ SvcTyped(apiSvc) /\ SvcTyped(seenSvc) /\ SvcTyped(svcCache)
  BY <1>1 DEF SvcInv
<1>3. CASE proc' # "running"
  BY <1>1, <1>2, <1>3 DEF ServiceCallsSurvived, SvcInv, AffInv
<1>4. CASE proc' = "running"
  <2>1. /\ o \in ServiceOp /\ Fits(o, seenSvc, svcCache, KnownPorts)
        /\ Range(svcTodo) = {o} \cup Range(Tail(svcTodo)) /\ \A y \in Range(Tail(svcTodo)) : MayPrecede(o, y)
    BY <1>1, <1>2, WorkParts
  <2>2. o.ports \in Seq(ServicePortName) /\ Range(o.ports) \subseteq ServicePortName
    <3>1. o.ports \in Seq(ServicePortName)
      BY <1>1, <2>1, ServiceOpFields
    <3>2. \A i \in DOMAIN o.ports : o.ports[i] \in ServicePortName
      <4> HIDE DEF o
      <4> QED BY <3>1, ElementOfSeq, LenProperties
    <3> QED BY <3>1, <3>2 DEF Range
  <2>3. \A s \in ports : after[s].res # "panic"
    <3> HIDE DEF after, ports, o
    <3> QED BY <1>1, <1>4 DEF AffinityChange
  <2>4. ports = Range(o.ports)
    <3> HIDE DEF after, o
    <3> QED BY <2>2, <2>3, AllReached
  <2>5. ASSUME NEW s \in Range(o.ports)
        PROVE  /\ s \in KnownPorts /\ s \in ServicePortName
               /\ o.aff = seenSvc[s.svc].aff /\ (HasAff(serviceMap[s]) <=> ~on)
    <3>1. /\ s \in KnownPorts /\ HasPort(seenSvc[s.svc], s) /\ s \in ServicePortName
          /\ o.aff = seenSvc[s.svc].aff /\ (o.aff = Nil) # (svcCache[s.svc].aff = Nil)
      BY <1>1, <2>1, <2>2, <2>5 DEF Fits
    <3>2. AffinityDue(s, Range(svcTodo))
      BY <1>1, <2>1, <2>5 DEF AffinityDue
    <3>3. StickyAs(s, serviceMap[s], Range(svcTodo), seenSvc, svcCache)
      BY <1>1, <3>1 DEF AffInv
    <3>4. HasAff(serviceMap[s]) <=> svcCache[s.svc].aff # Nil
      BY <3>1, <3>2, <3>3 DEF StickyAs
    <3> QED BY <3>1, <3>4
  <2>6. ASSUME NEW s \in Range(o.ports)
        PROVE  /\ serviceMap[s] # Nil
               /\ on => ~serviceMap[s].withAff /\ endpointsMap[s] # <<>>
               /\ ~on => serviceMap[s].withAff
               /\ after[s].svc # Nil /\ (HasAff(after[s].svc) <=> on)
               /\ SvcID(after[s].svc) = SvcID(serviceMap[s])
               /\ after[s].svc.ext = serviceMap[s].ext /\ after[s].svc.lb = serviceMap[s].lb
    <3> DEFINE w == Local(s)
               u == after[s]
    <3>1. /\ PortOK(w) /\ w.svc = serviceMap[s] /\ w.svc # Nil /\ w.res = "ok" /\ w.eps = endpointsMap[s]
      BY <2>5, <2>6, LocalFields DEF InStep, KnownPorts
    <3>2. u = (IF on THEN addAffinity(w) ELSE removeAffinity(w)) /\ u.res # "panic"
      <4>1. after[s].res # "panic"
        <5> HIDE DEF after, ports, o
        <5> QED BY <2>3, <2>4, <2>6
      <4> QED BY <2>6, <4>1
    <3>3. HasAff(w.svc) <=> ~on
      BY <2>5, <2>6, <3>1
    <3>4. on \in BOOLEAN
      OBVIOUS
    <3> HIDE DEF on, w, u
    <3>5. /\ on => ~w.svc.withAff /\ w.eps # <<>>
          /\ ~on => w.svc.withAff
          /\ u.svc # Nil /\ (HasAff(u.svc) <=> on)
          /\ SvcID(u.svc) = SvcID(w.svc) /\ u.svc.ext = w.svc.ext /\ u.svc.lb = w.svc.lb
      BY <3>1, <3>2, <3>3, <3>4, OnePortSticky
    <3> QED BY <3>1, <3>5 DEF u
  <2>7. ServiceCallsAllowed
    <3>1. IF o.aff = Nil THEN RemoveAffinity(Range(o.ports)) ELSE AddAffinity(Range(o.ports))
      <4>1. CASE o.aff = Nil
        <5>1. after = [s \in Range(o.ports) |-> removeAffinity(Local(s))]
          BY <4>1
        <5> HIDE DEF after, ports, o
        <5> QED BY <1>1, <2>4, <2>6, <4>1, <5>1 DEF RemoveAffinity, on
      <4>2. CASE o.aff # Nil
        <5>1. after = [s \in Range(o.ports) |-> addAffinity(Local(s))]
          BY <4>2
        <5> HIDE DEF after, ports, o
        <5> QED BY <1>1, <2>4, <2>6, <4>2, <5>1 DEF AddAffinity, on
      <4> QED BY <4>1, <4>2
    <3> HIDE DEF after, ports
    <3> QED BY <1>1, <2>2, <3>1 DEF ServiceCallsAllowed, SvcStep, StepAddPort, StepDeletePort, StepAddElement
  <2> HIDE DEF after, ports
  <2>8. /\ sets' = sets
        /\ \A s \in ServicePortName : serviceMap'[s] = IF s \in Range(o.ports) THEN after[s].svc ELSE serviceMap[s]
    <3> HIDE DEF o
    <3> QED BY <1>1, <2>4 DEF AffinityChange
  <2>9. KnownPorts' = KnownPorts
    <3>1. \A s \in ServicePortName : serviceMap'[s] # Nil <=> serviceMap[s] # Nil
      <4> HIDE DEF o
      <4> QED BY <2>6, <2>8
    <3> QED BY <3>1 DEF KnownPorts
  <2>10. Working(Tail(svcTodo), seenSvc, svcCache, KnownPorts, Elements)
    <3>1. KnownPorts \in SUBSET ServicePortName
      BY DEF KnownPorts
    <3>2. ASSUME NEW x, x = Head(svcTodo), x.op = "affinity"
          PROVE  Working(Tail(svcTodo), seenSvc, svcCache, KnownPorts, Elements)
      <4>1. svcTodo # <<>>
        BY <1>1
      <4> QED BY ONLY <1>2, <3>1, <3>2, <4>1, SkipWork
    <3> QED BY <1>1, <3>2
  <2>11. Recorded'
    <3>1. ASSUME NEW s \in KnownPorts
          PROVE  RecordedAs(s, serviceMap'[s])
      <4>1. RecordedAs(s, serviceMap[s]) /\ s \in ServicePortName
        BY <1>2, <3>1 DEF Recorded, KnownPorts
      <4>2. CASE s \in Range(o.ports)
        <5> DEFINE v == after[s].svc
                   svc == serviceMap[s]
        <5>1. serviceMap'[s] = v
          BY <2>8, <4>1, <4>2
        <5>2. SvcID(v) = SvcID(svc) /\ v.ext = svc.ext /\ v.lb = svc.lb
          BY <2>6, <4>2
        <5> HIDE DEF v, svc
        <5> QED BY <4>1, <5>1, <5>2 DEF RecordedAs, svc
      <4>3. CASE s \notin Range(o.ports)
        BY <2>8, <4>1, <4>3
      <4> QED BY <4>2, <4>3
    <3>2. RejectsNowhere(sets')
      BY <1>2, <2>8 DEF Recorded
    <3> QED BY <2>9, <3>1, <3>2 DEF Recorded, RecordedAs, RejectsNowhere
  <2>12. SvcInv'
    <3>1. Elements' = Elements
      BY <2>8 DEF Elements, Others
    <3>2. Working(svcTodo', seenSvc', svcCache', KnownPorts', Elements')
      BY <1>1, <2>9, <2>10, <3>1
    <3>3. SvcTyped(apiSvc') /\ SvcTyped(seenSvc') /\ SvcTyped(svcCache')
      BY <1>1, <1>2
    <3> QED BY <2>11, <3>2, <3>3 DEF SvcInv
  <2>13. AffInv'
    <3>1. \A s : ~AffinityDue(s, Range(svcTodo'))
      BY <1>1, <2>1 DEF AffinityDue, MayPrecede
    <3>2. ASSUME NEW s \in KnownPorts
          PROVE  StickyAs(s, serviceMap'[s], Range(svcTodo'), seenSvc, svcCache)
      <4>1. s \in ServicePortName
        BY <3>2 DEF KnownPorts
      <4>2. CASE s \in Range(o.ports)
        <5>1. HasAff(serviceMap'[s]) <=> on
          BY <2>6, <2>8, <4>1, <4>2
        <5>2. o.aff = seenSvc[s.svc].aff
          BY <2>5, <4>2
        <5> QED BY <3>1, <5>1, <5>2 DEF StickyAs
      <4>3. CASE s \notin Range(o.ports)
        <5>1. serviceMap'[s] = serviceMap[s]
          BY <2>8, <4>1, <4>3
        <5>2. ~AffinityDue(s, Range(svcTodo))
          BY <1>1, <2>1, <3>1, <4>3 DEF AffinityDue
        <5>3. StickyAs(s, serviceMap[s], Range(svcTodo), seenSvc, svcCache)
          BY <1>1, <3>2 DEF AffInv
        <5> QED BY <3>1, <5>1, <5>2, <5>3 DEF StickyAs
      <4> QED BY <4>2, <4>3
    <3> QED BY <1>1, <2>9, <3>2 DEF AffInv, StickyAs, AffinityDue
  <2> QED BY <2>7, <2>9, <2>12, <2>13 DEF ServiceCallsSurvived
<1> QED BY <1>3, <1>4

\* A step of a service handler calls the critical sections as Proxy allows,
\* but for an affinity change that panics, and leaves what is known and what is
\* to be done in step with the objects.
LEMMA ServiceHandlerStep ==
    ASSUME ServicesApart, UpdatedSets = SetNames \ {"noendpoints"}, InStep, SvcInv, AffInv, SvcHandler
    PROVE  /\ ServiceCallsSurvived /\ SvcInv' /\ AffInv'
           /\ StepAffinity \/ ServiceCallsAllowed
<1>1. ASSUME StepPanic
      PROVE  FALSE
  <2>1. proc = "running" /\ svcTodo # <<>> /\ Head(svcTodo).op = "panic"
    BY <1>1 DEF StepPanic, SvcStep
  <2>2. Head(svcTodo) \in ServiceOp
    BY <2>1, WorkParts DEF SvcInv
  <2> QED BY <2>1, <2>2, ServiceOpFields
<1>2. CASE StepAffinity
  BY <1>2, AffinityStep
<1>3. CASE StepAddPort \/ StepDeletePort \/ StepChangePort \/ StepAddElement \/ StepRemoveElement \/ StepStore
  <2>1. ServiceCallsAllowed /\ SvcInv'
    BY <1>3, AddPortStep, DeletePortStep, ChangePortStep, AddElementStep, RemoveElementStep, StoreStep
  <2>2. AffInv'
    BY <1>3, OtherStepsKeepAffinity
  <2> QED BY <2>1, <2>2 DEF ServiceCallsSurvived
<1> QED BY <1>1, <1>2, <1>3 DEF SvcHandler

(***************************************************************************)
(* The other steps.                                                        *)
(***************************************************************************)
\* A step that leaves the service ports, their elements and the work on them
\* alone, or ends the process.
LEMMA ServicesUndisturbed ==
    ASSUME SvcInv, SvcTyped(apiSvc'), UNCHANGED <<serviceMap, sets, seenSvc, svcCache, svcTodo>>,
           proc' = "running" => proc = "running"
    PROVE  SvcInv'
<1>1. KnownPorts' = KnownPorts /\ Elements' = Elements
  BY DEF KnownPorts, Elements, Others
<1>2. SvcTyped(seenSvc') /\ SvcTyped(svcCache')
  BY DEF SvcInv
<1>3. ASSUME proc' = "running"
      PROVE  Working(svcTodo', seenSvc', svcCache', KnownPorts', Elements') /\ Recorded'
  <2>1. Working(svcTodo, seenSvc, svcCache, KnownPorts, Elements) /\ Recorded
    BY <1>3 DEF SvcInv
  <2>2. Working(svcTodo', seenSvc', svcCache', KnownPorts', Elements')
    BY <1>1, <2>1
  <2>3. Recorded'
    BY <1>1, <2>1 DEF Recorded, RecordedAs, RejectsNowhere
  <2> QED BY <2>2, <2>3
<1> QED BY <1>2, <1>3 DEF SvcInv

\* Nor is their affinity.
LEMMA AffinityStays ==
    ASSUME AffInv, UNCHANGED <<serviceMap, seenSvc, svcCache, svcTodo>>, proc' = "running" => proc = "running"
    PROVE  AffInv'
<1>1. CASE proc' = "running"
  <2>1. KnownPorts' = KnownPorts
    BY DEF KnownPorts
  <2> QED BY <1>1, <2>1, AffinityLeft
<1>2. CASE proc' # "running"
  BY <1>2 DEF AffInv
<1> QED BY <1>1, <1>2

\* The informer delivers a service, and its handler sets out to do what the
\* object asks for.
LEMMA DeliverServiceStep ==
    ASSUME ServicesApart, SvcInv, NEW s \in Service, DeliverService(s)
    PROVE  SvcInv'
<1> DEFINE old == seenSvc[s]
           new == apiSvc[s]
           stored == IF svcCache[s] = Nil THEN old ELSE svcCache[s]
           K == KnownPorts
           X == Elements
<1>1. /\ proc = "running" /\ svcTodo = <<>> /\ old # new
      /\ seenSvc' = [seenSvc EXCEPT ![s] = new]
      /\ svcCache' = IF old = Nil THEN [svcCache EXCEPT ![s] = new] ELSE svcCache
      /\ svcTodo' = IF old = Nil THEN AddServiceOps(s, new)
                    ELSE IF new = Nil THEN DeleteServiceOps(s, old)
                    ELSE UpdateServiceOps(s, new, stored)
      /\ UNCHANGED vars /\ apiSvc' = apiSvc
  BY DEF DeliverService
<1>2. /\ SvcTyped(apiSvc) /\ SvcTyped(seenSvc) /\ SvcTyped(svcCache)
      /\ Working(<<>>, seenSvc, svcCache, K, X) /\ Recorded
  BY <1>1 DEF SvcInv
<1>3. K \in SUBSET ServicePortName
  BY DEF KnownPorts
<1>4. old \in Versions(s) \cup {Nil} /\ new \in Versions(s) \cup {Nil}
  BY <1>2 DEF SvcTyped
<1>5. \A r \in Service : svcCache[r] = seenSvc[r]
  <2> HIDE DEF K, X
  <2> QED BY <1>2, <1>3, AtRest
<1>6. stored = old
  BY <1>5
<1> HIDE DEF stored, K, X, old, new
<1>7. SvcTyped(seenSvc') /\ seenSvc'[s] = new /\ \A r \in Service : r # s => seenSvc'[r] = seenSvc[r]
  <2> DEFINE next == [seenSvc EXCEPT ![s] = new]
  <2>1. SvcTyped(next) /\ next[s] = new /\ \A r \in Service : r # s => next[r] = seenSvc[r]
    BY <1>2, <1>4, SvcTypedExcept
  <2>2. seenSvc' = next
    BY <1>1
  <2> HIDE DEF next
  <2> QED BY <2>1, <2>2
<1>8. /\ SvcTyped(svcCache') /\ \A r \in Service : r # s => svcCache'[r] = svcCache[r]
      /\ old = Nil => svcCache'[s] = new
      /\ old # Nil => svcCache' = svcCache
  BY <1>1, <1>2, <1>4, SvcTypedExcept
<1>9. Nil \notin Versions(s)
  BY DEF Versions
<1>10. Working(svcTodo', seenSvc', svcCache', K, X)
  <2>1. CASE old = Nil
    <3>1. new \in Versions(s) /\ svcTodo' = AddServiceOps(s, new) /\ seenSvc[s] = Nil
      BY <1>1, <1>4, <2>1 DEF old
    <3>2. Working(AddServiceOps(s, new), seenSvc', svcCache', K, X)
      BY <1>2, <1>3, <1>7, <1>8, <2>1, <3>1, AddServiceWork
    <3> QED BY <3>1, <3>2
  <2>2. CASE old # Nil /\ new = Nil
    <3>1. old \in Versions(s) /\ svcTodo' = DeleteServiceOps(s, old) /\ seenSvc[s] = old
      BY <1>1, <1>4, <2>2 DEF old
    <3>2. Working(DeleteServiceOps(s, old), seenSvc', svcCache, K, X)
      BY <1>2, <1>3, <1>7, <2>2, <3>1, DeleteServiceWork
    <3> QED BY <1>8, <2>2, <3>1, <3>2
  <2>3. CASE old # Nil /\ new # Nil
    <3>1. old \in Versions(s) /\ new \in Versions(s) /\ svcTodo' = UpdateServiceOps(s, new, old) /\ seenSvc[s] = old
      BY <1>1, <1>4, <1>6, <2>3 DEF old
    <3>2. Working(UpdateServiceOps(s, new, old), seenSvc', svcCache, K, X)
      BY <1>2, <1>3, <1>7, <3>1, UpdateServiceWork
    <3> QED BY <1>8, <2>3, <3>1, <3>2
  <2> QED BY <2>1, <2>2, <2>3
<1>11. KnownPorts' = K /\ Elements' = X /\ serviceMap' = serviceMap /\ sets' = sets
  BY <1>1 DEF vars, KnownPorts, Elements, Others, K, X
<1>12. Recorded'
  BY <1>2, <1>11 DEF Recorded, RecordedAs, RejectsNowhere, K
<1>13. Working(svcTodo', seenSvc', svcCache', KnownPorts', Elements')
  BY <1>10, <1>11
<1>14. SvcTyped(apiSvc')
  BY <1>1, <1>2
<1> QED BY <1>7, <1>8, <1>12, <1>13, <1>14 DEF SvcInv

\* An update that adds or removes session affinity sets out to change it for the
\* known ports; the other events change it for none.
LEMMA DeliverServiceAffinity ==
    ASSUME ServicesApart, SvcInv, AffInv, NEW s \in Service, DeliverService(s)
    PROVE  AffInv'
<1> DEFINE old == seenSvc[s]
           new == apiSvc[s]
<1>1. /\ proc = "running" /\ svcTodo = <<>> /\ UNCHANGED vars
      /\ seenSvc' = [seenSvc EXCEPT ![s] = new]
      /\ svcCache' = IF old = Nil THEN [svcCache EXCEPT ![s] = new] ELSE svcCache
  BY DEF DeliverService
<1>2. /\ SvcTyped(apiSvc) /\ SvcTyped(seenSvc) /\ SvcTyped(svcCache)
      /\ Working(<<>>, seenSvc, svcCache, KnownPorts, Elements)
  BY <1>1 DEF SvcInv
<1>3. KnownPorts' = KnownPorts /\ serviceMap' = serviceMap /\ KnownPorts \in SUBSET ServicePortName
  BY <1>1 DEF vars, KnownPorts
<1>4. /\ \A r \in Service : svcCache[r] = seenSvc[r]
      /\ \A spn \in KnownPorts : HasPort(seenSvc[spn.svc], spn)
  BY <1>2, <1>3, AtRest
<1>5. ASSUME NEW spn \in KnownPorts
      PROVE  HasAff(serviceMap[spn]) <=> seenSvc[spn.svc].aff # Nil
  <2>1. StickyAs(spn, serviceMap[spn], Range(svcTodo), seenSvc, svcCache)
    BY <1>1, <1>5 DEF AffInv
  <2>2. ~AffinityDue(spn, Range(svcTodo))
    BY <1>1 DEF AffinityDue, Range
  <2> QED BY <1>4, <1>5, <2>1, <2>2 DEF StickyAs
<1>6. old \in Versions(s) \cup {Nil} /\ new \in Versions(s) \cup {Nil}
  BY <1>2 DEF SvcTyped
<1>7. /\ seenSvc'[s] = new /\ \A r \in Service : r # s => seenSvc'[r] = seenSvc[r]
      /\ old # Nil => svcCache' = svcCache
  BY <1>1, <1>2 DEF SvcTyped
<1>8. \A spn \in KnownPorts : spn.svc \in Service
  BY <1>3 DEF ServicePortName
<1>9. CASE old # Nil /\ new # Nil
  <2>1. svcTodo' = UpdateServiceOps(s, new, old) /\ old \in Versions(s) /\ new \in Versions(s) /\ svcCache' = svcCache
    BY <1>4, <1>6, <1>7, <1>9 DEF DeliverService
  <2> HIDE DEF old, new
  <2>2. Range(svcTodo') = UpdateWork(s, new, old)
    BY <2>1, UpdateServiceOpsAre
  <2>3. ASSUME NEW x \in Range(svcTodo'), x.op = "affinity"
        PROVE  x = AffinityOp(PortNames(s, new), new.aff) /\ (new.aff = Nil) # (old.aff = Nil)
    <3>1. x \in AffinityWork(s, new, old)
      BY <2>2, <2>3 DEF UpdateWork, ChangePortOp, DeletePortOp, CallsFor, ElementCall, StoreOp
    <3> QED BY <3>1 DEF AffinityWork
  <2>4. (new.aff = Nil) # (old.aff = Nil) => AffinityOp(PortNames(s, new), new.aff) \in Range(svcTodo')
    BY <2>2 DEF UpdateWork, AffinityWork
  <2>5. \A spn \in Range(PortNames(s, new)) : spn.svc = s
    BY <2>1, PortNamesTyped
  <2>6. ASSUME NEW spn \in KnownPorts, spn.svc = s, HasPort(new, spn)
        PROVE  spn \in Range(PortNames(s, new))
    <3>1. PICK i \in At(new, spn) : TRUE
      BY <2>6 DEF HasPort
    <3>2. getSvcPortName(s, new.ports[i]) = spn /\ i \in DOMAIN new.ports
      BY <1>3, <2>6, <3>1, NameAt
    <3> QED BY <3>2 DEF PortNames, Range
  <2>7. ASSUME NEW spn \in KnownPorts
        PROVE  StickyAs(spn, serviceMap[spn], Range(svcTodo'), seenSvc', svcCache)
    <3>1. AffinityDue(spn, Range(svcTodo')) =>
            spn.svc = s /\ (new.aff = Nil) # (old.aff = Nil)
      BY <2>3, <2>5 DEF AffinityDue, AffinityOp
    <3>2. CASE spn.svc = s
      <4>1. seenSvc'[spn.svc] = new /\ svcCache[spn.svc] = old /\ (HasAff(serviceMap[spn]) <=> old.aff # Nil)
        BY <1>4, <1>5, <1>7, <2>7, <3>2 DEF old
      <4>2. CASE (new.aff = Nil) # (old.aff = Nil) /\ HasPort(new, spn)
        <5> DEFINE x == AffinityOp(PortNames(s, new), new.aff)
        <5>1. x \in Range(svcTodo') /\ spn \in Range(PortNames(s, new))
          BY <2>4, <2>6, <2>7, <3>2, <4>2
        <5>2. x.op = "affinity" /\ x.ports = PortNames(s, new)
          BY DEF AffinityOp
        <5>3. AffinityDue(spn, Range(svcTodo'))
          BY <5>1, <5>2 DEF AffinityDue
        <5> QED BY <4>1, <5>3 DEF StickyAs
      <4>3. CASE (new.aff = Nil) = (old.aff = Nil)
        BY <3>1, <4>1, <4>3 DEF StickyAs
      <4> QED BY <4>1, <4>2, <4>3 DEF StickyAs
    <3>3. CASE spn.svc # s
      <4>1. seenSvc'[spn.svc] = seenSvc[spn.svc]
        BY <1>7, <1>8, <2>7, <3>3
      <4> QED BY <1>5, <2>7, <3>1, <3>3, <4>1 DEF StickyAs
    <3> QED BY <3>2, <3>3
  <2> QED BY <1>3, <2>1, <2>7 DEF AffInv, StickyAs, AffinityDue
<1>10. CASE old = Nil \/ new = Nil
  <2>1. svcTodo' = AddServiceOps(s, new) \/ svcTodo' = DeleteServiceOps(s, old)
    BY <1>10 DEF DeliverService
  <2>2. \A x \in Range(svcTodo') : x.op # "affinity"
    <3>1. CASE svcTodo' = AddServiceOps(s, new)
      <4> DEFINE a == [i \in DOMAIN new.ports |-> AddPortOp(getSvcPortName(s, new.ports[i]), SpecOf(new, new.ports[i]))]
      <4>1. svcTodo' = <<>> \/ svcTodo' = a
        BY <3>1 DEF AddServiceOps
      <4>2. \A r, q : AddPortOp(r, q).op = "addPort"
        BY DEF AddPortOp
      <4>3. \A i \in DOMAIN a : a[i].op = "addPort"
        BY <4>2
      <4> HIDE DEF a
      <4> QED BY <4>1, <4>3 DEF Range
    <3>2. CASE svcTodo' = DeleteServiceOps(s, old) /\ old # Nil
      <4> DEFINE a == [i \in DOMAIN old.ports |-> DeletePortOp(getSvcPortName(s, old.ports[i]))]
                 b == <<StoreOp(s, Nil)>>
      <4>1. old.ports \in Seq(ServicePort)
        BY <1>6, <3>2, ObjectFields
      <4>2. DOMAIN old.ports = 1..Len(old.ports) /\ Len(old.ports) \in Nat
        <5> DEFINE q == old.ports
        <5>1. q \in Seq(ServicePort)
          BY <4>1
        <5> HIDE DEF q
        <5>2. DOMAIN q = 1..Len(q) /\ Len(q) \in Nat
          BY <5>1, LenProperties
        <5> QED BY <5>2 DEF q
      <4>4. Range(a \o b) = Range(a) \cup Range(b)
        <5> DEFINE D == Range(a) \cup Range(b)
        <5>1. a \in Seq(D) /\ b \in Seq(D)
          <6>1. \A i \in 1..Len(old.ports) : DeletePortOp(getSvcPortName(s, old.ports[i])) \in D
            BY <4>2 DEF Range
          <6>2. a \in Seq(D)
            <7> HIDE DEF D
            <7> QED BY <4>2, <6>1, SeqDef
          <6>3. StoreOp(s, Nil) \in D
            <7>1. StoreOp(s, Nil) \in Range(b)
              BY DEF Range
            <7> QED BY <7>1
          <6> QED BY <6>2, <6>3
        <5> HIDE DEF a, b, D
        <5> QED BY <5>1, RangeConcat
      <4>5. svcTodo' = a \o b
        BY <3>2 DEF DeleteServiceOps
      <4>6. \A x \in Range(a) : x.op = "deletePort"
        <5>1. \A r : DeletePortOp(r).op = "deletePort"
          BY DEF DeletePortOp
        <5>2. \A i \in DOMAIN a : a[i].op = "deletePort"
          BY <5>1
        <5> HIDE DEF a
        <5> QED BY <5>2 DEF Range
      <4>7. \A x \in Range(b) : x.op = "store"
        BY DEF Range, StoreOp
      <4> HIDE DEF a, b
      <4> QED BY <4>4, <4>5, <4>6, <4>7
    <3> QED BY <1>10, <2>1, <3>1, <3>2 DEF DeliverService
  <2>3. ASSUME NEW spn \in KnownPorts
        PROVE  StickyAs(spn, serviceMap[spn], Range(svcTodo'), seenSvc', svcCache')
    <3>1. ~AffinityDue(spn, Range(svcTodo'))
      BY <2>2 DEF AffinityDue
    <3>2. CASE spn.svc = s
      <4>1. old # Nil
        BY <1>4, <2>3, <3>2 DEF HasPort
      <4>2. ~HasPort(seenSvc'[spn.svc], spn)
        BY <1>7, <1>10, <3>2, <4>1 DEF HasPort
      <4> QED BY <4>2 DEF StickyAs
    <3>3. CASE spn.svc # s
      <4>1. seenSvc'[spn.svc] = seenSvc[spn.svc]
        BY <1>7, <1>8, <2>3, <3>3
      <4> QED BY <1>5, <2>3, <3>1, <4>1 DEF StickyAs
    <3> QED BY <3>2, <3>3
  <2> QED BY <1>3, <2>3 DEF AffInv, StickyAs, AffinityDue
<1> QED BY <1>9, <1>10

\* An endpoint of a service port comes or goes: the port stays what it is.
LEMMA EndpointCallStep ==
    ASSUME InStep, SvcInv, AffInv, proc = "running", NEW spn \in ServicePortName, NEW addr, NEW local,
           NEW u \in {addEndpoint(spn, addr, local, Local(spn)), deleteEndpoint(spn, addr, local, Local(spn))},
           u.res = "ok", PortOK(u), u.svc # Nil <=> serviceMap[spn] # Nil,
           HasAff(u.svc) <=> HasAff(serviceMap[spn]), Commit(spn, u), UNCHANGED svcVars
    PROVE  SvcInv' /\ AffInv'
<1> DEFINE w == Local(spn)
           svc == serviceMap[spn]
           K == IF u.svc = Nil THEN KnownPorts \ {spn} ELSE KnownPorts \cup {spn}
<1>1. DOMAIN w = Fields /\ w.svc = svc /\ w.sets = sets /\ svc \in ServiceInfo \cup {Nil}
  BY LocalFields DEF InStep, TypeOK
<1> HIDE DEF w
<1>2. /\ Others(u.sets) = Others(w.sets) /\ (RejectsNowhere(w.sets) => RejectsNowhere(u.sets))
      /\ w.svc = Nil => u.svc = Nil
      /\ w.svc # Nil => SvcID(u.svc) = SvcID(w.svc) /\ u.svc.ext = w.svc.ext /\ u.svc.lb = w.svc.lb
  BY <1>1, EndpointKeepsElements DEF w
<1>3. Working(svcTodo, seenSvc, svcCache, KnownPorts, Elements) /\ Recorded
  BY DEF SvcInv
<1>4. u.svc # Nil => RecordedAs(spn, u.svc)
  <2> SUFFICES ASSUME u.svc # Nil PROVE RecordedAs(spn, u.svc)
    OBVIOUS
  <2>1. spn \in KnownPorts /\ svc # Nil
    BY DEF KnownPorts
  <2>2. RecordedAs(spn, svc)
    BY <1>3, <2>1 DEF Recorded
  <2>3. SvcID(u.svc) = SvcID(svc) /\ u.svc.ext = svc.ext /\ u.svc.lb = svc.lb
    BY <1>1, <1>2, <2>1
  <2> HIDE DEF svc
  <2> QED BY <2>2, <2>3 DEF RecordedAs
<1>5. Others(u.sets) = Elements /\ RejectsNowhere(u.sets)
  BY <1>1, <1>2, <1>3 DEF Elements, Recorded
<1>6. K = KnownPorts
  BY DEF KnownPorts
<1>7. UNCHANGED <<apiSvc, seenSvc, svcCache>> /\ svcTodo' = svcTodo
  BY DEF svcVars
<1>8. Working(svcTodo', seenSvc, svcCache, K, Others(u.sets))
  BY <1>3, <1>5, <1>6, <1>7
<1>9. SvcInv'
  BY <1>4, <1>5, <1>7, <1>8, CommitKeepsWork
<1>10. AffInv'
  <2>1. /\ serviceMap'[spn] = u.svc /\ KnownPorts' = KnownPorts
        /\ \A s \in ServicePortName \ {spn} : serviceMap'[s] = serviceMap[s]
    BY <1>6, CommitKnows
  <2>2. \A s \in KnownPorts' : s \in KnownPorts /\ (HasAff(serviceMap'[s]) <=> HasAff(serviceMap[s]))
    BY <2>1 DEF KnownPorts
  <2> QED BY <1>7, <2>2, AffinityLeft
<1> QED BY <1>9, <1>10

\* The steps of the endpoints handlers.
LEMMA EndpointHandlerStep ==
    ASSUME EntriesApart, EpInv, SvcInv, AffInv, EpHandler, UNCHANGED svcVars
    PROVE  SvcInv' /\ AffInv'
<1> DEFINE o == Head(epTodo)
           spn == o.spn
           w == Local(spn)
<1>0. InStep /\ SvcTyped(apiSvc') /\ UNCHANGED <<seenSvc, svcCache, svcTodo>>
  <2>1. proc = "running"
    BY DEF EpHandler, StepAddEndpoint, StepDeleteEndpoint, StepStoreEndpoints, StepPanicEndpoints, EpStep
  <2> QED BY <2>1 DEF EpInv, SvcInv, svcVars
<1>1. CASE StepAddEndpoint \/ StepDeleteEndpoint
  <2>1. proc = "running" /\ o.op \in {"add", "delete"} /\ epTodo # <<>>
    BY <1>1 DEF StepAddEndpoint, StepDeleteEndpoint, EpStep
  <2>2. epTodo # <<PanicEpOp>>
    BY <2>1 DEF PanicEpOp
  <2>3. InHand(epTodo, seenEp, epCache) /\ AllBalanced(endpointsMap, epTodo, seenEp)
    BY <2>1, <2>2 DEF EpInv
  <2>4. EndpointCallsAllowed
    BY <1>0, <1>1, <2>3, CallStepsKeep
  <2>5. o \in EndpointOp
    BY <2>1, <2>3, PendingTail DEF InHand
  <2>6. spn \in ServicePortName /\ o.addr \in Addr /\ o.local \in BOOLEAN
    BY <2>1, <2>5, EndpointOpFields DEF IsCall
  <2>7. PortOK(w) /\ w.res = "ok" /\ w.svc = serviceMap[spn] /\ w.eps = endpointsMap[spn]
    BY <1>0, <2>6, LocalFields DEF InStep
  <2>8. CASE StepAddEndpoint
    <3> DEFINE u == addEndpoint(spn, o.addr, o.local, w)
    <3>1. AddEndpoint(spn, o.addr, o.local)
      BY <2>4, <2>8 DEF EndpointCallsAllowed
    <3>2. Commit(spn, u) /\ \A i \in DOMAIN w.eps : w.eps[i].addr # o.addr
      BY <2>7, <3>1 DEF AddEndpoint
    <3> HIDE DEF o, spn, w
    <3>3. PortOK(u) /\ u.res = "ok" /\ Effect(u, w.svc # Nil, HasAff(w.svc), AddrsOf(w.eps) \cup {o.addr})
      BY <2>6, <2>7, <3>2, AddEndpointOK
    <3>4. (u.svc # Nil <=> serviceMap[spn] # Nil) /\ (HasAff(u.svc) <=> HasAff(serviceMap[spn]))
      BY <2>7, <3>3 DEF Effect
    <3>5. u \in {addEndpoint(spn, o.addr, o.local, Local(spn)), deleteEndpoint(spn, o.addr, o.local, Local(spn))}
      BY DEF w
    <3> HIDE DEF u
    <3> QED BY <1>0, <2>1, <2>6, <3>2, <3>3, <3>4, <3>5, EndpointCallStep
  <2>9. CASE StepDeleteEndpoint
    <3> DEFINE u == deleteEndpoint(spn, o.addr, o.local, w)
    <3>1. DeleteEndpoint(spn, o.addr, o.local)
      BY <2>4, <2>9 DEF EndpointCallsAllowed
    <3>2. Commit(spn, u)
      BY <3>1 DEF DeleteEndpoint
    <3> HIDE DEF o, spn, w
    <3>3. PortOK(u) /\ u.res = "ok" /\ (u = w \/ Effect(u, w.svc # Nil, HasAff(w.svc), AddrsOf(w.eps) \ {o.addr}))
      BY <2>6, <2>7, DeleteEndpointOK
    <3>4. (u.svc # Nil <=> serviceMap[spn] # Nil) /\ (HasAff(u.svc) <=> HasAff(serviceMap[spn]))
      <4> HIDE DEF u
      <4> QED BY <2>7, <3>3 DEF Effect
    <3>5. u \in {addEndpoint(spn, o.addr, o.local, Local(spn)), deleteEndpoint(spn, o.addr, o.local, Local(spn))}
      BY DEF w
    <3> HIDE DEF u
    <3> QED BY <1>0, <2>1, <2>6, <3>2, <3>3, <3>4, <3>5, EndpointCallStep
  <2> QED BY <1>1, <2>8, <2>9
<1>2. CASE StepStoreEndpoints \/ StepPanicEndpoints
  <2>1. UNCHANGED <<serviceMap, sets>> /\ (proc' = proc \/ proc' = "panicked")
    BY <1>2 DEF StepStoreEndpoints, StepPanicEndpoints, Stop, vars
  <2> QED BY <1>0, <2>1, ServicesUndisturbed, AffinityStays
<1> QED BY <1>1, <1>2 DEF EpHandler

\* A process that starts knows nothing and has nothing to do.
NoServices == [s \in Service |-> Nil]
LEMMA NothingToDo ==
    SvcTyped(NoServices) /\ Working(<<>>, NoServices, NoServices, {}, {})
<1> DEFINE none == NoServices
<1>1. \A s \in Service : none[s] = Nil
  BY DEF NoServices
<1>2. SvcTyped(none)
  BY DEF SvcTyped, NoServices
<1>3. Range(<<>>) = {}
  BY DEF Range
<1>4. \A spn \in ServicePortName : ~HasPort(none[spn.svc], spn)
  BY <1>1 DEF HasPort, ServicePortName
<1> HIDE DEF none
<1>5. CacheNext({}, none, none) /\ AllFit({}, none, none, {}) /\ AllAccounted({}, none, none, {}, {})
  BY DEF CacheNext, AllFit, AllAccounted
<1>6. Announced({}, none, {}) /\ Filled({}, none, {}, {}) /\ Withdrawn({}, none, {})
  BY <1>4 DEF Announced, Filled, Withdrawn
<1>7. <<>> \in Seq(ServiceOp) /\ Ordered(<<>>)
  BY DEF Ordered
<1>8. Working(<<>>, none, none, {}, {})
  BY <1>3, <1>5, <1>6, <1>7 DEF Working
<1> QED BY <1>2, <1>8 DEF none

\* The invariant holds when the process starts.
LEMMA SvcInitially ==
    ASSUME Bootstrap = Nil, NFInit
    PROVE  SvcInv /\ AffInv
<1>1. /\ apiSvc = NoServices /\ seenSvc = NoServices /\ svcCache = NoServices /\ svcTodo = <<>>
      /\ serviceMap = [spn \in ServicePortName |-> Nil] /\ sets = {}
  BY DEF NFInit, FirstSvcCache, NoServices, Init
<1>2. KnownPorts = {} /\ Elements = {} /\ Recorded
  BY <1>1 DEF KnownPorts, Elements, Others, Recorded, RejectsNowhere
<1> QED BY <1>1, <1>2, NothingToDo DEF SvcInv, AffInv

\* And when it starts anew.
LEMMA SvcAfterRestart ==
    ASSUME Bootstrap = Nil, SvcInv, RestartProcess
    PROVE  SvcInv' /\ AffInv'
<1>1. /\ apiSvc' = apiSvc /\ seenSvc' = NoServices /\ svcCache' = NoServices /\ svcTodo' = <<>>
      /\ serviceMap' = [spn \in ServicePortName |-> Nil] /\ sets' = {}
  BY DEF RestartProcess, FirstSvcCache, NoServices, Restart
<1>2. KnownPorts' = {} /\ Elements' = {} /\ Recorded'
  BY <1>1 DEF KnownPorts, Elements, Others, Recorded, RejectsNowhere
<1>3. Working(svcTodo', seenSvc', svcCache', KnownPorts', Elements')
  BY <1>1, <1>2, NothingToDo
<1>4. SvcTyped(apiSvc') /\ SvcTyped(seenSvc') /\ SvcTyped(svcCache')
  BY <1>1, NothingToDo DEF SvcInv
<1> QED BY <1>2, <1>3, <1>4 DEF SvcInv, AffInv
=============================================================================
