----------------------------- MODULE BootProofs -----------------------------
(***************************************************************************)
(* The API server: connections to it are balanced over endpoints that its  *)
(* address is among, from the moment BootstrapRules has run and whatever   *)
(* the handlers do afterwards, with every other service, kills and panics. *)
(*                                                                         *)
(* BootInv follows the service port of the API server.  It does not need   *)
(* the endpoints of a port to be distinct (BootstrapRules adds one that    *)
(* the informer delivers again), so it stands apart from the invariant of  *)
(* the whole proxy in ClusterProofs.                                       *)
(***************************************************************************)
EXTENDS ServiceProofs

(***************************************************************************)
(* The API server.                                                         *)
(***************************************************************************)
\* The service port BootstrapRules adds, the endpoint behind it, the IP and
\* port that name its chain, and its elements of the cluster IP set and of the
\* no-endpoints set.
APIPort == getSvcPortName(Bootstrap.svc, Bootstrap.obj.ports[1])
APISpec == SpecOf(Bootstrap.obj, Bootstrap.obj.ports[1])
APIAddr == Bootstrap.eps[1].addr
APIID == <<Bootstrap.obj.ip, Bootstrap.obj.ports[1].port>>
APIElement == Element("cluster", APIPort, APIID[1], APIID[2], <<APIPort, APIID>>)
APIReject == Element("noendpoints", APIPort, APIID[1], APIID[2], Nil)

\* What BootstrapRules makes up of the arguments of main: a Service with one
\* port and without session affinity, and one endpoint of it that is ready.
BootstrapMade ==
    /\ Bootstrap # Nil
    /\ Bootstrap.svc \in Service /\ Bootstrap.obj \in ServiceObject
    /\ Bootstrap.obj.ip # Nil /\ Bootstrap.obj.aff = Nil /\ Len(Bootstrap.obj.ports) = 1
    /\ Bootstrap.ep \in EpObject /\ Bootstrap.eps \in Seq(EndpointEntry) /\ Len(Bootstrap.eps) = 1
    /\ Bootstrap.eps[1].name = APIPort /\ Bootstrap.eps[1].ready = TRUE

\* None of the addresses is the API server's cluster IP.
Away(obj) == Bootstrap.obj.ip \notin {obj.ip} \cup Range(obj.ext) \cup Range(obj.lb)

\* The API server has the Service main was told of, no other service has its
\* cluster IP, and a service that is without a cluster IP at times keeps its
\* ports, each with a name of its own.
APIServiceStays ==
    /\ SvcVersions[Bootstrap.svc] = {Bootstrap.obj}
    /\ \A s \in Service \ {Bootstrap.svc} : \A obj, other \in Versions(s) :
          /\ Away(obj)
          /\ obj.ip = Nil =>
                /\ other.ports = obj.ports
                /\ \A i, j \in DOMAIN obj.ports : obj.ports[i].name = obj.ports[j].name => i = j

\* The entry of the API server's endpoint.
IsAPI(e) == e.name = APIPort /\ e.addr = APIAddr
HasAPI(obj) == obj # Nil /\ \E i \in DOMAIN obj : IsAPI(obj[i])

\* The objects of one name, with the one BootstrapRules makes up.
EpObjects(o) == EpVersions[o] \cup (IF o = Bootstrap.ep THEN {Bootstrap.eps} ELSE {})

\* The API server stays at the address main was told of, and is ready there;
\* other addresses may come and go.
APIAddressStays ==
    \A o \in EpObject : \A obj, other \in EpObjects(o) :
        /\ HasAPI(obj) => HasAPI(other)
        /\ obj # Nil => \A i \in DOMAIN obj : IsAPI(obj[i]) => obj[i].ready = TRUE

(***************************************************************************)
(* The service port of the API server.                                     *)
(***************************************************************************)
\* The address is among the endpoints.
AmongEndpoints(eps) == eps \in Seq(EndpointInfo) /\ \E i \in DOMAIN eps : eps[i].addr = APIAddr

\* The endpoint chain has its DNAT rule.
Translates(c) == c \in Seq(RuleType) /\ \E i \in DOMAIN c : c[i].kind = "dnat"

\* The service chain leads to the address.
Leads(c) == c \in Seq(RuleType) /\ JumpsTo(c, APIAddr)

\* The service port is known under its IP and port, without affinity.
APIKnown(svc) == svc \in ServiceInfo /\ SvcID(svc) = APIID /\ svc.withAff = FALSE

\* Connections to the API server are balanced over endpoints it is among.
ServesAPI(w) ==
    /\ DOMAIN w = Fields /\ APIKnown(w.svc) /\ w.svc.withEP = TRUE
    /\ AmongEndpoints(w.eps)
    /\ DOMAIN w.sc = SvcKey /\ Leads(w.sc[APIID])
    /\ DOMAIN w.ec = Addr /\ Translates(w.ec[APIAddr])

\* The types of the constants above.
LEMMA APITypes ==
    ASSUME BootstrapMade
    PROVE  /\ APIPort \in ServicePortName /\ APIPort.svc = Bootstrap.svc /\ APISpec \in PortSpec
           /\ APIAddr \in Addr /\ APIID \in SvcKey /\ Bootstrap.obj.ip \in IP
           /\ DOMAIN Bootstrap.obj.ports = {1} /\ APIID[1] = Bootstrap.obj.ip
           /\ Bootstrap.obj # Nil /\ Bootstrap.eps # Nil
<1>1. /\ Bootstrap.obj \in ServiceObject /\ Bootstrap.obj.ip \in IP /\ Bootstrap.obj.ports \in Seq(ServicePort)
      /\ Bootstrap.obj.ext \in IPLists /\ Bootstrap.obj.lb \in IPLists /\ Bootstrap.obj.aff \in Timeout \cup {Nil}
      /\ Bootstrap.obj # Nil
  BY SvcAssumption DEF BootstrapMade, ServiceObject
<1>2. DOMAIN Bootstrap.obj.ports = {1} /\ Bootstrap.obj.ports[1] \in ServicePort
  <2>1. DOMAIN Bootstrap.obj.ports = 1..1 /\ Len(Bootstrap.obj.ports) = 1
    BY <1>1, LenProperties DEF BootstrapMade
  <2> QED BY <1>1, <2>1, ElementOfSeq
<1>3. 1 \in DOMAIN Bootstrap.eps
  <2>1. DOMAIN Bootstrap.eps = 1..1
    BY LenProperties DEF BootstrapMade
  <2> QED BY <2>1
<1>4. APIAddr \in Addr
  BY <1>3, EntryFields DEF BootstrapMade, APIAddr
<1>5. APIPort \in ServicePortName /\ APIPort.svc = Bootstrap.svc
  BY <1>2 DEF BootstrapMade, APIPort, getSvcPortName, ServicePort, ServicePortName
<1>6. APISpec \in PortSpec /\ APIID \in SvcKey /\ APIID[1] = Bootstrap.obj.ip
  BY <1>1, <1>2 DEF APISpec, SpecOf, PortSpec, ServicePort, APIID, SvcKey
<1>7. Bootstrap.eps # Nil
  BY EpAssumption DEF BootstrapMade
<1> QED BY <1>1, <1>2, <1>4, <1>5, <1>6, <1>7

\* A load balancing rule leads to all of the endpoints.
LEMMA BalancerLeads ==
    ASSUME NEW eps, AmongEndpoints(eps), NEW h
    PROVE  LoadBalanceRule(h, eps).kind # "update" /\ \E t \in LoadBalanceRule(h, eps).to : t[2] = APIAddr
<1>1. LoadBalanceRule(h, eps).kind = "lb" /\ LoadBalanceRule(h, eps).to = Targets(eps)
  BY DEF LoadBalanceRule, Rule
<1>2. PICK i \in DOMAIN eps : eps[i].addr = APIAddr
  BY DEF AmongEndpoints
<1>3. <<i, eps[i].addr>> \in Targets(eps) /\ <<i, eps[i].addr>>[2] = APIAddr
  BY <1>2 DEF Targets
<1> QED BY <1>1, <1>3

\* Rules behind others.
LEMMA LeadsBehind ==
    ASSUME NEW c \in Seq(RuleType), NEW d \in Seq(RuleType), JumpsTo(c, APIAddr) \/ JumpsTo(d, APIAddr)
    PROVE  Leads(c \o d)
<1>1. /\ c \o d \in Seq(RuleType) /\ Len(c) \in Nat /\ Len(d) \in Nat
      /\ DOMAIN c = 1..Len(c) /\ DOMAIN d = 1..Len(d) /\ DOMAIN (c \o d) = 1..(Len(c) + Len(d))
      /\ \A i \in 1..(Len(c) + Len(d)) : (c \o d)[i] = IF i <= Len(c) THEN c[i] ELSE d[i - Len(c)]
  BY ConcatProperties, LenProperties
<1> DEFINE e == c \o d
<1>2. ASSUME NEW i \in DOMAIN c
      PROVE  i \in DOMAIN e /\ e[i] = c[i]
  BY <1>1
<1>3. ASSUME NEW i \in DOMAIN d
      PROVE  i + Len(c) \in DOMAIN e /\ e[i + Len(c)] = d[i]
  <2>1. i + Len(c) \in 1..(Len(c) + Len(d)) /\ ~(i + Len(c) <= Len(c)) /\ (i + Len(c)) - Len(c) = i
    BY <1>1
  <2> QED BY <1>1, <2>1
<1>4. e # Nil
  BY <1>1, NilAssumption
<1> HIDE DEF e
<1>5. JumpsTo(e, APIAddr)
  BY <1>2, <1>3, <1>4 DEF JumpsTo
<1> QED BY <1>1, <1>5 DEF Leads, e

\* Programming the chain keeps or makes it lead to the address, unless the
\* kernel refuses a rule and leaves what was there.
LEMMA ProgramLeads ==
    ASSUME NEW w, DOMAIN w = Fields, APIKnown(w.svc), AmongEndpoints(w.eps), DOMAIN w.sc = SvcKey,
           w.sc[APIID] \in Seq(RuleType),
           JumpsTo(w.sc[APIID], APIAddr) \/ (w.svc.ruleID = <<>> /\ TargetsExist(w))
    PROVE  LET u == ProgramServiceEndpoints(w) IN
           /\ u.eps = w.eps /\ u.ec = w.ec /\ u.svc.withAff = FALSE
           /\ DOMAIN u.sc = SvcKey /\ Leads(u.sc[APIID])
<1> DEFINE u == ProgramServiceEndpoints(w)
           c == w.sc[APIID]
           used == HandlesOf(c)
           h1 == NewHandle(used)
           h2 == NewHandle(used \cup {h1})
           lb == LoadBalanceRule(h2, w.eps)
           short == <<CounterRule(h1), lb>>
           one == <<CounterRule(h1)>>
           failed == [w EXCEPT !.res = "error"]
           panicked == [w EXCEPT !.res = "panic"]
           half == [w EXCEPT !.sc[APIID] = Append(c, CounterRule(h1)), !.res = "error"]
           first == WithRules(w, c \o short, <<h1, h2>>)
           h == NewHandle(UsedHandles(c, w.svc.ruleID))
           r == LoadBalanceRule(h, w.eps)
           n == PositionOf(c, w.svc.ruleID[2])
           d == ReplaceAt(c, n, r)
           again == WithRules(w, d, ReplaceAt(w.svc.ruleID, 2, h))
<1>1. /\ SvcID(w.svc) = APIID /\ w.svc.withAff = FALSE /\ w.svc \in ServiceInfo /\ APIID \in SvcKey
      /\ w.eps \in Seq(EndpointInfo)
  BY SvcIDType DEF APIKnown, AmongEndpoints
<1>2. h1 \in Handles /\ h2 \in Handles /\ h \in Handles
  BY NewHandleType
<1>3. \/ JumpsTo(c, APIAddr) /\ u \in {failed, panicked, half}
      \/ u = first
      \/ HasRule(c, w.svc.ruleID[2]) /\ u = again
  <2>1. c # Nil
    BY NilAssumption
  <2>2. u = IF w.svc.ruleID = <<>> THEN ProgramFirst(w) ELSE ReplaceRemembered(w, 2, "lb")
    BY <1>1, <2>1 DEF ProgramServiceEndpoints
  <2>3. ProgramFirst(w) = IF ~TargetsExist(w) THEN half ELSE first
    BY <1>1 DEF ProgramFirst
  <2>4. \/ ReplaceRemembered(w, 2, "lb") \in {failed, panicked}
        \/ HasRule(c, w.svc.ruleID[2]) /\ ReplaceRemembered(w, 2, "lb") = again
    BY <1>1 DEF ReplaceRemembered, ReplaceRule
  <2> HIDE DEF u, half, first, again, failed, panicked
  <2> QED BY <2>2, <2>3, <2>4
<1>4. CounterRule(h1) \in RuleType /\ lb \in RuleType /\ r \in RuleType
  BY <1>1, <1>2, RuleTypes
<1>5. Leads(c \o short)
  <2>1. lb.kind # "update" /\ \E t \in lb.to : t[2] = APIAddr
    BY BalancerLeads
  <2> HIDE DEF lb, h1
  <2>2. short \in Seq(RuleType) /\ 2 \in DOMAIN short /\ short[2] = lb
    BY <1>4
  <2> HIDE DEF short
  <2>3. short # Nil
    BY <2>2, NilAssumption
  <2>4. JumpsTo(short, APIAddr)
    BY <2>1, <2>2, <2>3 DEF JumpsTo
  <2> HIDE DEF c
  <2> QED BY <2>2, <2>4, LeadsBehind DEF c
<1>6. JumpsTo(c, APIAddr) => Leads(Append(c, CounterRule(h1)))
  <2> DEFINE k == CounterRule(h1)
  <2>0. c \in Seq(RuleType) /\ k \in RuleType
    BY <1>4
  <2> HIDE DEF k, c
  <2>1. <<k>> \in Seq(RuleType)
    BY <2>0
  <2>2. Append(c, k) = c \o <<k>>
    BY <2>0
  <2>3. JumpsTo(c, APIAddr) => Leads(c \o <<k>>)
    BY <2>0, <2>1, LeadsBehind
  <2> QED BY <2>2, <2>3 DEF k
<1>7. HasRule(c, w.svc.ruleID[2]) => Leads(d)
  <2> SUFFICES ASSUME HasRule(c, w.svc.ruleID[2]) PROVE Leads(d)
    OBVIOUS
  <2>1. n \in DOMAIN c /\ DOMAIN c = 1..Len(c)
    BY LenProperties DEF HasRule, HandlesOf, PositionOf
  <2>2. r.kind # "update" /\ \E t \in r.to : t[2] = APIAddr
    BY BalancerLeads
  <2>0. c \in Seq(RuleType) /\ r \in RuleType
    BY <1>4
  <2> HIDE DEF n, r, c
  <2>5. n \in 1..Len(c)
    BY <2>1
  <2>3. d \in Seq(RuleType) /\ Len(d) = Len(c) /\ d[n] = r
    <3> DEFINE all == ReplaceAt(c, n, r)
    <3>1. /\ all \in Seq(RuleType) /\ Len(all) = Len(c)
          /\ \A i \in 1..Len(c) : all[i] = IF i = n THEN r ELSE c[i]
      BY <2>0, <2>5, ReplaceAtProperties
    <3> HIDE DEF all
    <3>2. d = all
      BY DEF all
    <3> HIDE DEF d
    <3> QED BY <2>5, <3>1, <3>2
  <2> HIDE DEF d
  <2>4. n \in DOMAIN d /\ d # Nil
    BY <2>1, <2>3, LenProperties, NilAssumption
  <2> QED BY <2>2, <2>3, <2>4 DEF Leads, JumpsTo
<1>8. /\ failed.eps = w.eps /\ failed.ec = w.ec /\ failed.svc = w.svc /\ failed.sc = w.sc
      /\ panicked.eps = w.eps /\ panicked.ec = w.ec /\ panicked.svc = w.svc /\ panicked.sc = w.sc
      /\ half.eps = w.eps /\ half.ec = w.ec /\ half.svc = w.svc /\ DOMAIN half.sc = SvcKey
      /\ half.sc[APIID] = Append(c, CounterRule(h1))
  BY <1>1 DEF Fields
<1>9. ASSUME NEW e, NEW ids
      PROVE  LET v == WithRules(w, e, ids) IN
             v.eps = w.eps /\ v.ec = w.ec /\ v.svc.withAff = FALSE /\ DOMAIN v.sc = SvcKey /\ v.sc[APIID] = e
  BY <1>1 DEF WithRules, Fields, ServiceInfo
<1> DEFINE Fine(v) == v.eps = w.eps /\ v.ec = w.ec /\ v.svc.withAff = FALSE /\ DOMAIN v.sc = SvcKey
                      /\ Leads(v.sc[APIID])
<1>10. JumpsTo(c, APIAddr) => Fine(failed) /\ Fine(panicked) /\ Fine(half)
  <2>1. JumpsTo(c, APIAddr) => Leads(w.sc[APIID])
    BY DEF Leads
  <2> HIDE DEF failed, panicked, half
  <2> QED BY <1>1, <1>6, <1>8, <2>1
<1>11. Fine(first)
  <2> DEFINE e == c \o short
             ids == <<h1, h2>>
  <2>1. first = WithRules(w, e, ids) /\ Leads(e)
    BY <1>5
  <2>2. LET v == WithRules(w, e, ids) IN
        v.eps = w.eps /\ v.ec = w.ec /\ v.svc.withAff = FALSE /\ DOMAIN v.sc = SvcKey /\ v.sc[APIID] = e
    BY <1>9
  <2> HIDE DEF e, ids, first
  <2> QED BY <2>1, <2>2
<1>12. HasRule(c, w.svc.ruleID[2]) => Fine(again)
  <2> DEFINE ids == ReplaceAt(w.svc.ruleID, 2, h)
  <2>1. again = WithRules(w, d, ids)
    OBVIOUS
  <2>2. LET v == WithRules(w, d, ids) IN
        v.eps = w.eps /\ v.ec = w.ec /\ v.svc.withAff = FALSE /\ DOMAIN v.sc = SvcKey /\ v.sc[APIID] = d
    BY <1>9
  <2> HIDE DEF d, ids, again
  <2> QED BY <1>7, <2>1, <2>2
<1> HIDE DEF u, failed, panicked, half, first, again
<1>13. Fine(u)
  <2> HIDE DEF Fine, c
  <2> QED BY <1>3, <1>10, <1>11, <1>12
<1> QED BY <1>13 DEF u

\* The service port may be brought up to date: the address is among its
\* endpoints and translated to, and the chain leads there or will.
PortReady(w) ==
    /\ DOMAIN w = Fields /\ APIKnown(w.svc) /\ w.svc.withEP \in BOOLEAN
    /\ AmongEndpoints(w.eps)
    /\ DOMAIN w.sc = SvcKey /\ w.sc[APIID] \in Seq(RuleType)
    /\ DOMAIN w.ec = Addr /\ Translates(w.ec[APIAddr])
    /\ JumpsTo(w.sc[APIID], APIAddr) \/ (w.svc.ruleID = <<>> /\ TargetsExist(w))

\* The sets, once the service port is brought up to date.
Unrejected(w) ==
    IF w.svc.withEP THEN w.sets ELSE RemoveFromSets(w.sets, NoEndpointsElements(APIPort, w.svc))

\* An update of the chain reaches the API server.
LEMMA UpdateReaches ==
    ASSUME NEW w, PortReady(w), NEW u, u = updateServiceChain(APIPort, w)
    PROVE  ServesAPI(u) /\ u.sets = Unrejected(w)
<1> DEFINE w1 == MarkEndpoints(APIPort, w)
<1>1. /\ DOMAIN w = Fields /\ w.svc \in ServiceInfo /\ w.svc # Nil /\ SvcID(w.svc) = APIID
      /\ w.svc.withAff = FALSE /\ w.svc.withEP \in BOOLEAN /\ AmongEndpoints(w.eps)
  BY NilAssumption DEF PortReady, APIKnown
<1>2. w.eps # <<>>
  BY <1>1 DEF AmongEndpoints
<1>3. Known(w)
  BY <1>1 DEF Known
<1>4. w1 = [w EXCEPT !.sets = IF w.svc.withEP THEN @ ELSE RemoveFromSets(@, NoEndpointsElements(APIPort, w.svc)),
                     !.svc.withEP = TRUE]
  BY <1>2 DEF MarkEndpoints
<1>5. /\ DOMAIN w1 = Fields /\ w1.svc = [w.svc EXCEPT !.withEP = TRUE] /\ w1.eps = w.eps /\ w1.sc = w.sc
      /\ w1.ec = w.ec /\ w1.sets = Unrejected(w)
  BY <1>1, <1>4 DEF Fields, Unrejected
<1>6. w1.svc \in ServiceInfo /\ SvcID(w1.svc) = APIID /\ w1.svc.withAff = FALSE /\ w1.svc.withEP = TRUE
      /\ w1.svc.ruleID = w.svc.ruleID
  BY <1>1, <1>5 DEF ServiceInfo, SvcID
<1>7. u = ProgramServiceEndpoints(w1)
  BY <1>1, <1>2 DEF updateServiceChain
<1>8. Leaves(w1, u)
  BY <1>3, UpdateServiceChainLeaves
<1> HIDE DEF w1
<1>9. TargetsExist(w) => TargetsExist(w1)
  BY <1>5 DEF TargetsExist
<1>10. /\ u.eps = w1.eps /\ u.ec = w1.ec /\ u.svc.withAff = FALSE
       /\ DOMAIN u.sc = SvcKey /\ Leads(u.sc[APIID])
  <2>1. APIKnown(w1.svc) /\ AmongEndpoints(w1.eps) /\ DOMAIN w1.sc = SvcKey /\ w1.sc[APIID] \in Seq(RuleType)
    BY <1>1, <1>5, <1>6 DEF APIKnown, PortReady
  <2>2. JumpsTo(w1.sc[APIID], APIAddr) \/ (w1.svc.ruleID = <<>> /\ TargetsExist(w1))
    BY <1>5, <1>6, <1>9 DEF PortReady
  <2>3. LET v == ProgramServiceEndpoints(w1) IN
        /\ v.eps = w1.eps /\ v.ec = w1.ec /\ v.svc.withAff = FALSE
        /\ DOMAIN v.sc = SvcKey /\ Leads(v.sc[APIID])
    BY <1>5, <2>1, <2>2, ProgramLeads
  <2> QED BY <1>7, <2>3
<1>11. DOMAIN u = Fields /\ u.svc \in ServiceInfo /\ SvcID(u.svc) = APIID /\ u.svc.withEP = TRUE /\ u.sets = w1.sets
  BY <1>6, <1>8 DEF Leaves, Known, SvcID
<1> QED BY <1>1, <1>5, <1>10, <1>11 DEF ServesAPI, APIKnown, PortReady

\* A port that is reached may be brought up to date.
LEMMA ReachedPrepared ==
    ASSUME NEW w, ServesAPI(w), NEW v, DOMAIN v = Fields, v.svc = w.svc, v.sc = w.sc, AmongEndpoints(v.eps),
           DOMAIN v.ec = Addr, Translates(v.ec[APIAddr]), v.sets = w.sets
    PROVE  PortReady(v) /\ Unrejected(v) = w.sets
<1>1. w.svc.withEP = TRUE /\ APIKnown(w.svc) /\ DOMAIN w.sc = SvcKey /\ Leads(w.sc[APIID])
  BY DEF ServesAPI
<1> QED BY <1>1 DEF PortReady, Unrejected, Leads

\* One more endpoint.
LEMMA AmongAppended ==
    ASSUME NEW eps \in Seq(EndpointInfo), NEW ep \in EndpointInfo, AmongEndpoints(eps) \/ ep.addr = APIAddr
    PROVE  AmongEndpoints(Append(eps, ep))
<1> DEFINE all == Append(eps, ep)
           n == Len(eps)
<1>1. /\ all \in Seq(EndpointInfo) /\ n \in Nat /\ DOMAIN eps = 1..n /\ DOMAIN all = 1..(n + 1)
      /\ all[n + 1] = ep /\ \A i \in 1..n : all[i] = eps[i]
  BY AppendProperties, LenProperties
<1> HIDE DEF all, n
<1>2. n + 1 \in DOMAIN all /\ DOMAIN eps \subseteq DOMAIN all
  BY <1>1
<1> QED BY <1>1, <1>2 DEF AmongEndpoints, all

\* An endpoint with another address less.
LEMMA AmongRemoved ==
    ASSUME NEW eps, AmongEndpoints(eps), NEW n \in DOMAIN eps, eps[n].addr # APIAddr
    PROVE  AmongEndpoints(RemoveAt(eps, n))
<1> DEFINE rest == RemoveAt(eps, n)
<1>1. eps \in Seq(EndpointInfo) /\ DOMAIN eps = 1..Len(eps) /\ Len(eps) \in Nat
  BY LenProperties DEF AmongEndpoints
<1>2. /\ rest \in Seq(EndpointInfo) /\ Len(rest) = Len(eps) - 1
      /\ \A i \in 1..(Len(eps) - 1) : rest[i] = IF i < n THEN eps[i] ELSE eps[i + 1]
  BY <1>1, RemoveAtProperties
<1>3. DOMAIN rest = 1..(Len(eps) - 1)
  BY <1>2, LenProperties
<1> HIDE DEF rest
<1>4. PICK i \in DOMAIN eps : eps[i].addr = APIAddr
  BY DEF AmongEndpoints
<1>5. i # n
  BY <1>4
<1>6. CASE i < n
  <2>1. i \in 1..(Len(eps) - 1)
    BY <1>1, <1>4, <1>6
  <2> QED BY <1>2, <1>3, <1>4, <1>6, <2>1 DEF AmongEndpoints, rest
<1>7. CASE i > n
  <2>1. i - 1 \in 1..(Len(eps) - 1) /\ ~(i - 1 < n) /\ (i - 1) + 1 = i
    BY <1>1, <1>4, <1>7
  <2> QED BY <1>2, <1>3, <1>4, <2>1 DEF AmongEndpoints, rest
<1> QED BY <1>1, <1>4, <1>5, <1>6, <1>7

\* Rules behind others: the DNAT rule is still there, or is among the new ones.
LEMMA TranslatesBehind ==
    ASSUME NEW c \in Seq(RuleType), NEW h1 \in Handles, NEW h2 \in Handles, NEW h3 \in Handles
    PROVE  Translates(c \o EndpointRules(h1, h2, h3)) /\ c \o EndpointRules(h1, h2, h3) # Nil
<1> DEFINE d == EndpointRules(h1, h2, h3)
           e == c \o d
<1>1. /\ PlainRule(h1, "counter") \in RuleType /\ PlainRule(h2, "masq") \in RuleType
      /\ PlainRule(h3, "dnat") \in RuleType /\ PlainRule(h3, "dnat").kind = "dnat"
  BY EndpointRuleTypes DEF RuleKinds, PlainRule, Rule
<1>2. d = <<PlainRule(h1, "counter"), PlainRule(h2, "masq"), PlainRule(h3, "dnat")>>
  BY DEF EndpointRules, PlainRule
<1> HIDE DEF d
<1>3. d \in Seq(RuleType) /\ Len(d) = 3 /\ d[3].kind = "dnat"
  <2> DEFINE r1 == PlainRule(h1, "counter")
             r2 == PlainRule(h2, "masq")
             r3 == PlainRule(h3, "dnat")
  <2>1. r1 \in RuleType /\ r2 \in RuleType /\ r3 \in RuleType /\ r3.kind = "dnat" /\ d = <<r1, r2, r3>>
    BY <1>1, <1>2
  <2> HIDE DEF r1, r2, r3
  <2> QED BY <2>1
<1>4. /\ e \in Seq(RuleType) /\ Len(c) \in Nat /\ DOMAIN e = 1..(Len(c) + 3)
      /\ e[Len(c) + 3] = d[3]
  <2>1. /\ e \in Seq(RuleType) /\ Len(c) \in Nat /\ DOMAIN e = 1..(Len(c) + Len(d))
        /\ \A i \in 1..(Len(c) + Len(d)) : e[i] = IF i <= Len(c) THEN c[i] ELSE d[i - Len(c)]
    <3>1. /\ e \in Seq(RuleType) /\ Len(c) \in Nat /\ Len(d) \in Nat /\ Len(e) = Len(c) + Len(d)
          /\ \A i \in 1..(Len(c) + Len(d)) : e[i] = IF i <= Len(c) THEN c[i] ELSE d[i - Len(c)]
      BY <1>3, ConcatProperties, LenProperties
    <3> HIDE DEF e
    <3>2. DOMAIN e = 1..Len(e)
      BY <3>1, LenProperties
    <3> QED BY <3>1, <3>2
  <2> HIDE DEF e
  <2>2. Len(c) + 3 \in 1..(Len(c) + Len(d)) /\ ~(Len(c) + 3 <= Len(c)) /\ (Len(c) + 3) - Len(c) = 3
    BY <1>3, <2>1
  <2> QED BY <1>3, <2>1, <2>2
<1> HIDE DEF e
<1>5. Translates(e) /\ e # Nil
  <2>1. Len(c) + 3 \in DOMAIN e
    BY <1>4
  <2> QED BY <1>3, <1>4, <2>1, NilAssumption DEF Translates
<1> QED BY <1>5 DEF e, d

\* The service port when BootstrapRules adds the endpoint.
Added(w) ==
    /\ DOMAIN w = Fields /\ APIKnown(w.svc) /\ w.svc.withEP = FALSE /\ w.svc.ruleID = <<>>
    /\ w.eps = <<>>
    /\ DOMAIN w.sc = SvcKey /\ w.sc[APIID] = <<>>
    /\ DOMAIN w.ec = Addr /\ \A a \in Addr : w.ec[a] = Nil

\* An endpoint is added to the port: the first one of BootstrapRules, or another.
LEMMA AddReaches ==
    ASSUME BootstrapMade, NEW addr \in Addr, NEW local \in BOOLEAN, NEW w, ServesAPI(w) \/ (Added(w) /\ addr = APIAddr),
           NEW u, u = addEndpoint(APIPort, addr, local, w)
    PROVE  ServesAPI(u) /\ u.sets = Unrejected(w)
<1> DEFINE ep0 == [addr |-> addr, local |-> local, index |-> Len(w.eps), withAff |-> FALSE, ruleID |-> <<>>]
           c == CreateChain(w.ec[addr])
           used == HandlesOf(c)
           h1 == NewHandle(used)
           h2 == NewHandle(used \cup {h1})
           h3 == NewHandle(used \cup {h1, h2})
           ep == [ep0 EXCEPT !.ruleID = <<h1, h2, h3>>]
           d == c \o EndpointRules(h1, h2, h3)
           v == [w EXCEPT !.ec[addr] = d, !.eps = Append(@, ep)]
<1>1. /\ DOMAIN w = Fields /\ w.svc \in ServiceInfo /\ w.svc # Nil /\ w.svc.withAff = FALSE /\ w.eps \in Seq(EndpointInfo)
      /\ APIKnown(w.svc) /\ DOMAIN w.ec = Addr
  <2>1. DOMAIN w = Fields /\ APIKnown(w.svc) /\ DOMAIN w.ec = Addr
    BY DEF ServesAPI, Added
  <2>2. w.eps = <<>> \/ w.eps \in Seq(EndpointInfo)
    BY DEF ServesAPI, Added, AmongEndpoints
  <2>3. <<>> \in Seq(EndpointInfo)
    OBVIOUS
  <2> QED BY <2>1, <2>2, <2>3, NilAssumption DEF APIKnown
<1>2. h1 \in Handles /\ h2 \in Handles /\ h3 \in Handles
  BY NewHandleType
<1>3. u = updateServiceChain(APIPort, v)
  BY <1>1 DEF addEndpoint
<1> HIDE DEF h1, h2, h3
<1>4. ep \in EndpointInfo /\ ep.addr = addr
  <2>1. Len(w.eps) \in Nat
    BY <1>1, LenProperties
  <2>2. <<h1, h2, h3>> \in Seq(Handles)
    BY <1>2
  <2> DEFINE ids == <<h1, h2, h3>>
  <2>3. ep0 \in EndpointInfo /\ ep0.addr = addr
    BY <2>1 DEF EndpointInfo
  <2> HIDE DEF ids, ep0
  <2>4. [ep0 EXCEPT !.ruleID = ids] \in EndpointInfo /\ [ep0 EXCEPT !.ruleID = ids].addr = addr
    BY <2>2, <2>3 DEF EndpointInfo, ids
  <2> QED BY <2>4 DEF ids
<1> HIDE DEF ep, d
<1>5. /\ DOMAIN v = Fields /\ v.svc = w.svc /\ v.sc = w.sc /\ v.eps = Append(w.eps, ep) /\ DOMAIN v.ec = Addr
      /\ v.ec[addr] = d /\ v.sets = w.sets /\ \A a \in Addr : a # addr => v.ec[a] = w.ec[a]
  BY <1>1 DEF Fields
<1> HIDE DEF v
<1>6. AmongEndpoints(v.eps)
  <2>1. AmongEndpoints(w.eps) \/ ep.addr = APIAddr
    BY <1>4 DEF ServesAPI
  <2> QED BY <1>1, <1>4, <1>5, <2>1, AmongAppended
<1>7. APIAddr \in Addr /\ (addr = APIAddr => w.ec[addr] = Nil \/ w.ec[addr] \in Seq(RuleType))
  BY APITypes DEF ServesAPI, Added, Translates
<1>8. addr = APIAddr => Translates(d) /\ d # Nil
  <2> SUFFICES ASSUME addr = APIAddr PROVE Translates(d) /\ d # Nil
    OBVIOUS
  <2>1. c \in Seq(RuleType)
    BY <1>7 DEF CreateChain
  <2> HIDE DEF c
  <2> QED BY <1>2, <2>1, TranslatesBehind DEF d
<1>9. Translates(v.ec[APIAddr])
  BY <1>5, <1>7, <1>8 DEF ServesAPI, Added
<1>10. PortReady(v) /\ Unrejected(v) = Unrejected(w)
  <2>1. CASE ServesAPI(w)
    <3>1. PortReady(v) /\ Unrejected(v) = w.sets
      BY <1>5, <1>6, <1>9, <2>1, ReachedPrepared
    <3> QED BY <2>1, <3>1 DEF ServesAPI, Unrejected
  <2>2. CASE Added(w) /\ addr = APIAddr
    <3>1. Unrejected(v) = Unrejected(w)
      BY <1>5 DEF Unrejected
    <3>2. TargetsExist(v)
      <4>1. v.eps = <<ep>>
        BY <1>5, <2>2 DEF Added
      <4>2. \A i \in DOMAIN v.eps : v.eps[i].addr = addr
        BY <1>4, <4>1
      <4> QED BY <1>5, <1>8, <2>2, <4>2 DEF TargetsExist
    <3>3. w.sc[APIID] \in Seq(RuleType)
      BY <2>2 DEF Added
    <3> QED BY <1>1, <1>5, <1>6, <1>9, <2>2, <3>1, <3>2, <3>3 DEF PortReady, Added
  <2> QED BY <2>1, <2>2
<1> QED BY <1>3, <1>10, UpdateReaches

\* An endpoint with another address is deleted from the port.
LEMMA DeleteAtReaches ==
    ASSUME BootstrapMade, NEW w, ServesAPI(w), NEW arr, AmongEndpoints(arr), NEW n \in DOMAIN arr,
           arr[n].addr # APIAddr, NEW u, u = DeleteAt(APIPort, w, arr, n)
    PROVE  ServesAPI(u) /\ u.sets = w.sets
<1> DEFINE addr == arr[n].addr
           ids == arr[n].ruleID
           v == [w EXCEPT !.eps = RemoveAt(arr, n)]
           w1 == updateServiceChain(APIPort, v)
           w2 == [w1 EXCEPT !.ec[addr] = DeleteChainRules(@, ids)]
           w3 == [w2 EXCEPT !.res = "error"]
           w4 == [w1 EXCEPT !.ec[addr] = Nil]
<1>1. DOMAIN w = Fields /\ DOMAIN w.ec = Addr /\ Translates(w.ec[APIAddr])
  BY DEF ServesAPI
<1>2. u \in {w1, w3, w4}
  BY DEF DeleteAt
<1>3. AmongEndpoints(RemoveAt(arr, n))
  BY AmongRemoved
<1>4. DOMAIN v = Fields /\ v.svc = w.svc /\ v.sc = w.sc /\ v.ec = w.ec /\ v.sets = w.sets /\ v.eps = RemoveAt(arr, n)
  BY <1>1 DEF Fields
<1> HIDE DEF v
<1>5. PortReady(v) /\ Unrejected(v) = w.sets
  BY <1>1, <1>3, <1>4, ReachedPrepared
<1>6. ServesAPI(w1) /\ w1.sets = w.sets
  BY <1>5, UpdateReaches
<1> HIDE DEF w1
<1>7. APIAddr \in Addr /\ addr # APIAddr
  BY APITypes
<1> HIDE DEF addr, ids
<1>8. ASSUME NEW x \in {w3, w4}
      PROVE  /\ DOMAIN x = Fields /\ x.svc = w1.svc /\ x.eps = w1.eps /\ x.sc = w1.sc /\ DOMAIN x.ec = Addr
             /\ x.ec[APIAddr] = w1.ec[APIAddr] /\ x.sets = w1.sets
  BY <1>6, <1>7 DEF ServesAPI, Fields
<1> HIDE DEF w3, w4
<1> QED BY <1>2, <1>6, <1>8 DEF ServesAPI

\* The loop of deleteEndpoint does not come to the address.
LEMMA DeleteReaches ==
    ASSUME BootstrapMade, NEW addr \in Addr, addr # APIAddr, NEW local, NEW w, ServesAPI(w),
           NEW u, u = deleteEndpointLoop(APIPort, addr, local, w)
    PROVE  ServesAPI(u) /\ u.sets = w.sets
<1> DEFINE matches(eps, from) == {i \in from..Len(eps) : eps[i].addr = addr /\ eps[i].local = local}
           first(S) == CHOOSE i \in S : \A j \in S : i <= j
           n == first(matches(w.eps, 1))
           arr == Append(RemoveAt(w.eps, n), Last(w.eps))
           w1 == DeleteAt(APIPort, w, w.eps, n)
           m == first(matches(arr, n + 1))
           w2 == DeleteAt(APIPort, w1, arr, m)
<1>1. \/ u = w
      \/ matches(w.eps, 1) # {} /\ u = w1
      \/ matches(w.eps, 1) # {} /\ matches(arr, n + 1) # {} /\ u = w2
  BY DEF deleteEndpointLoop
<1>2. ASSUME NEW S \in SUBSET Nat, S # {}
      PROVE  first(S) \in S
  BY <1>2, LeastExists
<1>3. w.eps \in Seq(EndpointInfo) /\ Len(w.eps) \in Nat /\ DOMAIN w.eps = 1..Len(w.eps)
  BY LenProperties DEF ServesAPI, AmongEndpoints
<1>4. ASSUME matches(w.eps, 1) # {}
      PROVE  n \in DOMAIN w.eps /\ w.eps[n].addr # APIAddr
  <2>1. matches(w.eps, 1) \in SUBSET Nat
    BY <1>3
  <2>2. n \in matches(w.eps, 1)
    BY <1>2, <1>4, <2>1
  <2> HIDE DEF n
  <2> QED BY <1>3, <2>2
<1>5. ASSUME matches(w.eps, 1) # {}
      PROVE  AmongEndpoints(arr)
  <2>1. AmongEndpoints(RemoveAt(w.eps, n))
    BY <1>4, <1>5, AmongRemoved DEF ServesAPI
  <2>2. Last(w.eps) \in EndpointInfo
    <3>1. Len(w.eps) \in DOMAIN w.eps
      BY <1>3, <1>4, <1>5
    <3> QED BY <1>3, <3>1, EndpointsType DEF Last
  <2> HIDE DEF n
  <2> QED BY <2>1, <2>2, AmongAppended DEF AmongEndpoints
<1>6. ASSUME matches(w.eps, 1) # {}
      PROVE  ServesAPI(w1) /\ w1.sets = w.sets
  <2>1. n \in DOMAIN w.eps /\ w.eps[n].addr # APIAddr /\ AmongEndpoints(w.eps)
    BY <1>4, <1>6 DEF ServesAPI
  <2> HIDE DEF n
  <2> QED BY <2>1, DeleteAtReaches
<1>7. ASSUME matches(w.eps, 1) # {}, matches(arr, n + 1) # {}
      PROVE  ServesAPI(w2) /\ w2.sets = w.sets
  <2>1. AmongEndpoints(arr) /\ arr \in Seq(EndpointInfo) /\ Len(arr) \in Nat /\ DOMAIN arr = 1..Len(arr) /\ n \in Nat
        /\ n + 1 \in Nat /\ n + 1 >= 1
    <3>1. AmongEndpoints(arr) /\ arr \in Seq(EndpointInfo)
      BY <1>5, <1>7 DEF AmongEndpoints
    <3>2. n \in DOMAIN w.eps
      BY <1>4, <1>7
    <3> HIDE DEF arr, n
    <3> QED BY <1>3, <3>1, <3>2, LenProperties
  <2>2. ServesAPI(w1) /\ w1.sets = w.sets
    BY <1>6, <1>7
  <2> HIDE DEF arr, n, w1
  <2>3. matches(arr, n + 1) \in SUBSET Nat
    BY <2>1
  <2>4. m \in matches(arr, n + 1)
    BY <1>2, <1>7, <2>3
  <2> HIDE DEF m
  <2>5. m \in DOMAIN arr /\ arr[m].addr # APIAddr
    BY <2>1, <2>4
  <2> QED BY <2>1, <2>2, <2>5, DeleteAtReaches
<1> HIDE DEF matches, w1, w2
<1> QED BY <1>1, <1>6, <1>7

(***************************************************************************)
(* The other service ports.                                                *)
(***************************************************************************)
\* The API server's address is served and not rejected.
SetsSafe(elements) == APIElement \in elements /\ APIReject \notin elements

\* The element is none of the API server's cluster IP.
Clear(e) == e.key[2] # Bootstrap.obj.ip

\* Another service port is unknown or has other addresses, and the API server's
\* is safe.
Apart(svc) == svc \in ServiceInfo \cup {Nil} /\ (svc # Nil => Away(svc))
Calm(w) == DOMAIN w = Fields /\ Apart(w.svc) /\ SetsSafe(w.sets)

\* The fields of the two elements.
LEMMA APIElements ==
    ASSUME BootstrapMade
    PROVE  /\ APIElement.set = "cluster" /\ APIElement.key = <<APIPort.proto, APIID[1], APIID[2]>> /\ ~Clear(APIElement)
           /\ APIReject.set = "noendpoints" /\ APIReject.key = <<APIPort.proto, APIID[1], APIID[2]>> /\ ~Clear(APIReject)
BY APITypes DEF APIElement, APIReject, Element, Clear

\* Elements are added that do not reject the API server.
LEMMA AddedSafe ==
    ASSUME BootstrapMade, NEW E, SetsSafe(E), NEW D, \A e \in D : e.set # "noendpoints" \/ Clear(e)
    PROVE  SetsSafe(E \cup D)
BY APIElements DEF SetsSafe

\* Elements are removed by keys that are not the API server's.
LEMMA RemovedSafe ==
    ASSUME BootstrapMade, NEW E, SetsSafe(E), NEW D, \A e \in D : e.set # "cluster" \/ Clear(e)
    PROVE  SetsSafe(RemoveFromSets(E, D))
<1>1. APIReject \notin RemoveFromSets(E, D)
  BY DEF SetsSafe, RemoveFromSets
<1>2. \A e \in D : ~(APIElement.set = e.set /\ APIElement.key = e.key)
  BY APIElements DEF Clear
<1> HIDE DEF BootstrapMade
<1>3. APIElement \in RemoveFromSets(E, D)
  BY <1>2 DEF SetsSafe, RemoveFromSets
<1> QED BY <1>1, <1>3 DEF SetsSafe

\* The no-endpoints elements of a port with other addresses.
LEMMA NoEndpointsClear ==
    ASSUME NEW spn, NEW svc, Away(svc), NEW e \in NoEndpointsElements(spn, svc)
    PROVE  Clear(e)
<1>1. PICK ip \in {svc.ip} \cup Range(svc.ext) \cup Range(svc.lb) : e = Element("noendpoints", spn, ip, svc.port, Nil)
  BY DEF NoEndpointsElements
<1>2. ip # Bootstrap.obj.ip
  BY DEF Away
<1> QED BY <1>1, <1>2 DEF Clear, Element

\* Nothing but rules and affinity changes.
LEMMA LeavesCalm ==
    ASSUME NEW w, Calm(w), w.svc # Nil, NEW u, Leaves(w, u)
    PROVE  Calm(u)
BY DEF Calm, Apart, Leaves, Known, Away

\* The service chain is brought up to date.
LEMMA UpdateCalm ==
    ASSUME BootstrapMade, NEW spn, NEW w, Calm(w)
    PROVE  Calm(updateServiceChain(spn, w))
<1>1. CASE w.svc = Nil
  BY <1>1, UpdateServiceChainNil
<1>2. CASE w.svc # Nil
  <2> DEFINE none == NoEndpointsElements(spn, w.svc)
             w1 == MarkEndpoints(spn, w)
  <2>1. Known(w) /\ Away(w.svc) /\ w.svc \in ServiceInfo /\ DOMAIN w = Fields
    BY <1>2 DEF Calm, Apart, Known
  <2>2. \A e \in none : Clear(e)
    BY <2>1, NoEndpointsClear
  <2>3. SetsSafe(w.sets \cup none) /\ SetsSafe(RemoveFromSets(w.sets, none)) /\ SetsSafe(w.sets)
    BY <2>2, AddedSafe, RemovedSafe DEF Calm
  <2>4. /\ w1.sets \in {w.sets, w.sets \cup none, RemoveFromSets(w.sets, none)}
        /\ \E b \in BOOLEAN : w1.svc = [w.svc EXCEPT !.withEP = b]
        /\ DOMAIN w1 = Fields
    BY <2>1 DEF MarkEndpoints, Fields
  <2> HIDE DEF none, w1
  <2>5. SetsSafe(w1.sets)
    BY <2>3, <2>4
  <2>6. w1.svc \in ServiceInfo /\ Away(w1.svc)
    BY <2>1, <2>4 DEF ServiceInfo, Away
  <2>7. Calm(w1) /\ w1.svc # Nil
    BY <2>4, <2>5, <2>6, NilAssumption DEF Calm, Apart
  <2>8. Leaves(w1, updateServiceChain(spn, w))
    BY <2>1, UpdateServiceChainLeaves DEF w1
  <2> QED BY <2>7, <2>8, LeavesCalm
<1> QED BY <1>1, <1>2

\* The sets and the record stay.
LEMMA SameCalm ==
    ASSUME NEW w, Calm(w), NEW u, DOMAIN u = Fields, u.svc = w.svc, u.sets = w.sets
    PROVE  Calm(u)
BY DEF Calm

\* An endpoint is added to another port.
LEMMA AddEndpointCalm ==
    ASSUME BootstrapMade, NEW spn, NEW addr, NEW local, NEW w, Calm(w)
    PROVE  Calm(addEndpoint(spn, addr, local, w))
<1> DEFINE u == addEndpoint(spn, addr, local, w)
<1>1. EndpointSection(spn, w, u)
  BY EndpointSections DEF Calm
<1> HIDE DEF u
<1>2. PICK v : /\ DOMAIN v = Fields /\ v.svc = w.svc /\ v.sets = w.sets
               /\ \/ u = v
                  \/ u = updateServiceChain(spn, v)
                  \/ \E a, c, r : u = [updateServiceChain(spn, v) EXCEPT !.ec[a] = c, !.res = r]
                  \/ \E a, c : u = [updateServiceChain(spn, v) EXCEPT !.ec[a] = c]
  BY <1>1 DEF EndpointSection
<1>3. Calm(v)
  BY <1>2, SameCalm
<1> DEFINE x == updateServiceChain(spn, v)
<1>4. Calm(x)
  BY <1>3, UpdateCalm
<1> HIDE DEF x
<1>5. u \in {v, x} \/ (DOMAIN u = Fields /\ u.svc = x.svc /\ u.sets = x.sets)
  BY <1>2, <1>4 DEF x, Calm, Fields
<1>6. Calm(u)
  BY <1>3, <1>4, <1>5, SameCalm
<1> QED BY <1>6 DEF u

\* An endpoint of another port is deleted.
LEMMA DeleteAtCalm ==
    ASSUME BootstrapMade, NEW spn, NEW w, Calm(w), NEW arr, NEW n
    PROVE  Calm(DeleteAt(spn, w, arr, n))
<1> DEFINE addr == arr[n].addr
           ids == arr[n].ruleID
           v == [w EXCEPT !.eps = RemoveAt(arr, n)]
           w1 == updateServiceChain(spn, v)
           w2 == [w1 EXCEPT !.ec[addr] = DeleteChainRules(@, ids)]
           w3 == [w2 EXCEPT !.res = "error"]
           w4 == [w1 EXCEPT !.ec[addr] = Nil]
           u == DeleteAt(spn, w, arr, n)
<1>1. u \in {w1, w3, w4}
  BY DEF DeleteAt
<1>2. DOMAIN v = Fields /\ v.svc = w.svc /\ v.sets = w.sets
  BY DEF Calm, Fields
<1> HIDE DEF v
<1>3. Calm(w1)
  BY <1>2, SameCalm, UpdateCalm
<1> HIDE DEF w1, addr, ids, u
<1>4. /\ DOMAIN w3 = Fields /\ w3.svc = w1.svc /\ w3.sets = w1.sets
      /\ DOMAIN w4 = Fields /\ w4.svc = w1.svc /\ w4.sets = w1.sets
  BY <1>3 DEF Calm, Fields
<1> HIDE DEF w3, w4
<1>5. Calm(u)
  BY <1>1, <1>3, <1>4, SameCalm
<1> QED BY <1>5 DEF u

\* The loop of deleteEndpoint on another port.
LEMMA DeleteLoopCalm ==
    ASSUME BootstrapMade, NEW spn, NEW addr, NEW local, NEW w, Calm(w)
    PROVE  Calm(deleteEndpointLoop(spn, addr, local, w))
<1> DEFINE matches(eps, from) == {i \in from..Len(eps) : eps[i].addr = addr /\ eps[i].local = local}
           first(S) == CHOOSE i \in S : \A j \in S : i <= j
           n == first(matches(w.eps, 1))
           arr == Append(RemoveAt(w.eps, n), Last(w.eps))
           w1 == DeleteAt(spn, w, w.eps, n)
           m == first(matches(arr, n + 1))
           w2 == DeleteAt(spn, w1, arr, m)
           u == deleteEndpointLoop(spn, addr, local, w)
<1>1. u \in {w, w1, w2}
  BY DEF deleteEndpointLoop
<1> HIDE DEF u, n, arr, m
<1>2. Calm(w1)
  BY DeleteAtCalm
<1> HIDE DEF w1
<1>3. Calm(w2)
  BY <1>2, DeleteAtCalm
<1> HIDE DEF w2
<1>4. Calm(u)
  BY <1>1, <1>2, <1>3
<1> QED BY <1>4 DEF u

\* deleteServicePort keeps the fields of the state.
LEMMA DeleteServicePortDomain ==
    ASSUME NEW spn, NEW stored, NEW w, DOMAIN w = Fields
    PROVE  DOMAIN deleteServicePort(spn, stored, w) = Fields
<1> DEFINE id == SvcID(w.svc)
           gone == RemovedElements(spn, stored, w.svc)
           w1 == [w EXCEPT !.sets = RemoveFromSets(@, gone),
                           !.sc[id] = DeleteChainRules(@, w.svc.ruleID)]
           w2 == IF w.svc.withEP THEN deleteAffinityEndpoint(w1) ELSE w1
           w3 == IF ~w.svc.withAff THEN w1
                 ELSE IF w2.res # "ok" THEN w2
                 ELSE DeleteServiceAffinityMap(w2, id)
           done == [w3 EXCEPT !.svc = Nil,
                              !.sc[id] = IF SvcChainBusy(w3, <<spn, id>>) THEN @ ELSE Nil]
           u == deleteServicePort(spn, stored, w)
<1>1. u \in {w, w3, done}
  BY DEF deleteServicePort, RemovedElements
<1> HIDE DEF gone, u
<1>2. DOMAIN w1 = Fields
  BY DEF Fields
<1> HIDE DEF w1
<1>3. DOMAIN w2 = Fields
  BY <1>2, AffinityKeeps
<1> HIDE DEF w2
<1>4. DOMAIN w3 = Fields
  BY <1>2, <1>3, AffinityKeeps
<1> HIDE DEF w3
<1>5. DOMAIN done = Fields
  BY <1>4 DEF Fields
<1> HIDE DEF done
<1>6. DOMAIN u = Fields
  BY <1>1, <1>4, <1>5
<1> QED BY <1>6 DEF u

\* Another service port is added, or cannot be added because an element of it
\* leads elsewhere.
LEMMA AddPortCalm ==
    ASSUME BootstrapMade, NEW spn \in ServicePortName, NEW spec \in PortSpec, Away(spec), NEW w, Calm(w)
    PROVE  Calm(addServicePort(spn, spec, w))
<1>1. CASE w.svc # Nil
  BY <1>1 DEF addServicePort
<1>2. CASE w.svc = Nil
  <2> DEFINE svc == NewServiceInfo(spec, w.eps # <<>>)
             id  == SvcID(svc)
             es  == ServicePortElements(spn, svc)
             none == NoEndpointsElements(spn, svc)
             w1  == [w EXCEPT !.svc = svc,
                              !.sc[id] = CreateChain(@),
                              !.sets = IF svc.withEP THEN @ ELSE @ \cup none]
             w2  == AddServiceAffinityMap(w1, id, svc.maxAge)
             w3  == IF ~svc.withAff THEN w1 ELSE IF ~svc.withEP THEN w2 ELSE addAffinityEndpoint(w2)
             w4  == [w3 EXCEPT !.sets = AddAllToSets(@, es)]
             w5  == [w4 EXCEPT !.svc = Nil, !.res = "error"]
             u   == updateServiceChain(spn, w4)
  <2>1. svc \in ServiceInfo /\ Away(svc)
    BY NftAssumption DEF NewServiceInfo, ServiceInfo, PortSpec, Away
  <2>2. es \in Seq(Owned(spn, svc))
    BY <2>1, ServicePortElementsOwned
  <2>3. \A x \in none : Clear(x)
    BY <2>1, NoEndpointsClear
  <2>4. addServicePort(spn, spec, w) = IF ~AddAllToSetsOK(w3.sets, es) THEN w5 ELSE u
    BY <1>2 DEF addServicePort
  <2>5. DOMAIN w = Fields /\ SetsSafe(w.sets)
    BY DEF Calm
  <2> HIDE DEF svc, es, none
  <2>6. DOMAIN w1 = Fields /\ w1.svc = svc /\ w1.sets \in {w.sets, w.sets \cup none}
    BY <2>5 DEF Fields
  <2> HIDE DEF w1
  <2>7. DOMAIN w2 = Fields /\ w2.svc = svc /\ w2.sets = w1.sets
    BY <2>6 DEF AddServiceAffinityMap, Fields
  <2> HIDE DEF w2
  <2>8. DOMAIN w3 = Fields /\ w3.svc = svc /\ w3.sets \in {w.sets, w.sets \cup none}
    BY <2>6, <2>7, AffinityKeeps
  <2> HIDE DEF w3
  <2>9. SetsSafe(w3.sets)
    BY <2>3, <2>5, <2>8, AddedSafe
  <2>10. SetsSafe(AddAllToSets(w3.sets, es))
    <3> DEFINE D == {es[j] : j \in {j \in DOMAIN es : \A k \in 1..j : ~Conflicts(w3.sets, es[k])}}
    <3>1. \A j \in DOMAIN es : es[j].set # "noendpoints"
      <4>1. \A j \in DOMAIN es : es[j] \in Owned(spn, svc)
        BY <2>2, LenProperties, ElementOfSeq
      <4> QED BY <4>1 DEF Owned
    <3>2. \A e \in D : e.set # "noendpoints"
      BY <3>1
    <3>3. AddAllToSets(w3.sets, es) = w3.sets \cup D
      BY DEF AddAllToSets
    <3> HIDE DEF D
    <3> QED BY <2>9, <3>2, <3>3, AddedSafe
  <2>11. /\ DOMAIN w4 = Fields /\ w4.svc = svc /\ w4.sets = AddAllToSets(w3.sets, es)
         /\ DOMAIN w5 = Fields /\ w5.svc = Nil /\ w5.sets = AddAllToSets(w3.sets, es)
    BY <2>8 DEF Fields
  <2> HIDE DEF w4, w5
  <2>12. Calm(w4) /\ Calm(w5)
    BY <2>1, <2>10, <2>11 DEF Calm, Apart
  <2>13. Calm(u)
    BY <2>12, UpdateCalm
  <2> HIDE DEF u
  <2> QED BY <2>4, <2>12, <2>13
<1> QED BY <1>1, <1>2

\* Another service port is deleted, with the addresses of an object that has
\* others than the API server.
LEMMA DeletePortCalm ==
    ASSUME BootstrapMade, NEW spn, NEW stored, stored = Nil \/ Away(stored), NEW w, Calm(w)
    PROVE  Calm(deleteServicePort(spn, stored, w))
<1>1. CASE w.svc = Nil
  BY <1>1 DEF deleteServicePort
<1>2. CASE w.svc # Nil
  <2> DEFINE gone == RemovedElements(spn, stored, w.svc)
             u == deleteServicePort(spn, stored, w)
  <2>1. Known(w) /\ Away(w.svc)
    BY <1>2 DEF Calm, Apart, Known
  <2>2. u.svc \in {w.svc, Nil} /\ u.sets = RemoveFromSets(w.sets, gone)
    BY <2>1, DeleteServicePortSets
  <2>3. \A e \in gone : e.set # "cluster" \/ Clear(e)
    <3>1. \A e \in NoEndpointsElements(spn, w.svc) : Clear(e)
      BY <2>1, NoEndpointsClear
    <3>2. ASSUME NEW e \in StoredElements(spn, w.svc, stored)
          PROVE  e.set # "cluster" \/ Clear(e)
      <4>1. stored # Nil
        BY <3>2 DEF StoredElements
      <4>2. CASE \E np \in stored.nodePorts : e = Element("nodeport", spn, Nil, np, Nil)
        BY <4>2 DEF Element
      <4>3. CASE \E pair \in ({"cluster", "markmasq"} \X ({stored.ip} \ {Nil}))
                             \cup ({"external", "markmasq"} \X Range(stored.ext))
                             \cup ({"loadbalancer", "markmasq"} \X Range(stored.lb)) :
                    e = Element(pair[1], spn, pair[2], w.svc.port, Nil)
        <5>1. PICK pair \in ({"cluster", "markmasq"} \X ({stored.ip} \ {Nil}))
                             \cup ({"external", "markmasq"} \X Range(stored.ext))
                             \cup ({"loadbalancer", "markmasq"} \X Range(stored.lb)) :
                    e = Element(pair[1], spn, pair[2], w.svc.port, Nil)
          BY <4>3
        <5>2. pair[2] \in {stored.ip} \cup Range(stored.ext) \cup Range(stored.lb)
          OBVIOUS
        <5>3. pair[2] # Bootstrap.obj.ip
          BY <4>1, <5>2 DEF Away
        <5> QED BY <5>1, <5>3 DEF Element, Clear
      <4> QED BY <3>2, <4>1, <4>2, <4>3 DEF StoredElements
    <3> QED BY <3>1, <3>2 DEF RemovedElements
  <2>4. SetsSafe(RemoveFromSets(w.sets, gone))
    BY <2>3, RemovedSafe DEF Calm
  <2>5. DOMAIN u = Fields
    BY <1>2, DeleteServicePortDomain DEF Calm
  <2> HIDE DEF u, gone
  <2>6. Calm(u)
    BY <2>2, <2>4, <2>5 DEF Calm, Apart
  <2> QED BY <2>6 DEF u
<1> QED BY <1>1, <1>2

\* Session affinity comes to, or leaves, another service port.
LEMMA AffinityCalm ==
    ASSUME NEW w, Calm(w), NEW u \in {addAffinity(w), removeAffinity(w)}
    PROVE  u.res = "panic" \/ Calm(u)
<1>1. CASE w.svc = Nil
  <2>1. addAffinity(w).res = "panic" /\ removeAffinity(w).res = "panic"
    BY <1>1 DEF addAffinity, removeAffinity, Calm, Fields
  <2> QED BY <2>1
<1>2. CASE w.svc # Nil
  <2>1. Known(w)
    BY <1>2 DEF Calm, Apart, Known
  <2> QED BY <1>2, <2>1, AddAffinityLeaves, RemoveAffinityLeaves, LeavesCalm
<1> QED BY <1>1, <1>2

(***************************************************************************)
(* BootstrapRules.                                                         *)
(***************************************************************************)
\* The service port of the API server before BootstrapRules.
Fresh(w) ==
    /\ DOMAIN w = Fields /\ w.svc = Nil /\ w.eps = <<>> /\ w.sets = {} /\ w.res = "ok"
    /\ DOMAIN w.sc = SvcKey /\ w.sc[APIID] = Nil
    /\ DOMAIN w.ec = Addr /\ \A a \in Addr : w.ec[a] = Nil

\* The first element, whatever follows.
LEMMA FirstStays ==
    ASSUME NEW S, NEW q \in Seq(S), NEW r \in Seq(S), Len(q) >= 1
    PROVE  q \o r \in Seq(S) /\ Len(q \o r) >= 1 /\ (q \o r)[1] = q[1]
<1>1. /\ q \o r \in Seq(S) /\ Len(q) \in Nat /\ Len(r) \in Nat /\ Len(q \o r) = Len(q) + Len(r)
      /\ \A i \in 1..(Len(q) + Len(r)) : (q \o r)[i] = IF i <= Len(q) THEN q[i] ELSE r[i - Len(q)]
  BY ConcatProperties, LenProperties
<1>2. 1 \in 1..(Len(q) + Len(r)) /\ 1 <= Len(q) /\ Len(q) + Len(r) >= 1
  BY <1>1
<1> QED BY <1>1, <1>2

\* BootstrapRules adds the service port.
LEMMA BootstrapAdds ==
    ASSUME BootstrapMade, NEW w, Fresh(w), NEW u, u = addServicePort(APIPort, APISpec, w)
    PROVE  Added(u) /\ APIElement \in u.sets /\ u.res # "panic"
<1> DEFINE svc == NewServiceInfo(APISpec, FALSE)
           es == ServicePortElements(APIPort, svc)
           none == NoEndpointsElements(APIPort, svc)
           w1 == [w EXCEPT !.svc = svc, !.sc[APIID] = CreateChain(@), !.sets = @ \cup none]
           w4 == [w1 EXCEPT !.sets = AddAllToSets(@, es)]
<1>1. APIPort \in ServicePortName /\ APISpec \in PortSpec /\ APISpec.aff = Nil /\ APIID \in SvcKey
  BY APITypes DEF BootstrapMade, APISpec, SpecOf
<1>2. svc \in ServiceInfo /\ svc # Nil /\ svc.ruleID = <<>> /\ svc.withEP = FALSE /\ svc.withAff = FALSE
  BY <1>1, NewServiceInfoType
<1>3. SvcID(svc) = APIID /\ svc.ip = APIID[1] /\ svc.port = APIID[2]
  BY DEF SvcID, NewServiceInfo, APISpec, SpecOf, APIID
<1>4. es \in Seq(Owned(APIPort, svc))
  BY <1>1, <1>2, ServicePortElementsOwned
<1>5. 1 \in DOMAIN es /\ es[1] = APIElement
  <2> DEFINE own == << Element("cluster", APIPort, svc.ip, svc.port, <<APIPort, SvcID(svc)>>),
                       Element("markmasq", APIPort, svc.ip, svc.port, Nil) >>
             ext == AddressElements(APIPort, svc, "external", svc.ext)
             lb == AddressElements(APIPort, svc, "loadbalancer", svc.lb)
             np == IF svc.nodePort = 0 THEN <<>>
                   ELSE <<Element("nodeport", APIPort, Nil, svc.nodePort, <<APIPort, SvcID(svc)>>)>>
             S == {Element(set, APIPort, ip, port, to) : set \in SetNames, ip \in IP \cup {Nil}, port \in Port,
                                                         to \in {Nil, <<APIPort, SvcID(svc)>>}}
  <2>1. es = own \o ext \o lb \o np
    BY DEF ServicePortElements
  <2>2. svc.ip \in IP /\ svc.port \in Port /\ svc.nodePort \in Port \cup {0} /\ svc.ext \in Seq(IP) /\ svc.lb \in Seq(IP)
    BY <1>2, ProxyAssumption DEF ServiceInfo
  <2>3. ext \in Seq(Owned(APIPort, svc)) /\ lb \in Seq(Owned(APIPort, svc))
    BY <1>1, <1>2, <2>2, AddressElementsOwned DEF SetNames
  <2>4. /\ Element("cluster", APIPort, svc.ip, svc.port, <<APIPort, SvcID(svc)>>) \in Owned(APIPort, svc)
        /\ Element("markmasq", APIPort, svc.ip, svc.port, Nil) \in Owned(APIPort, svc)
        /\ svc.nodePort # 0 =>
             Element("nodeport", APIPort, Nil, svc.nodePort, <<APIPort, SvcID(svc)>>) \in Owned(APIPort, svc)
    BY <1>1, <2>2, ElementOwned DEF SetNames
  <2> DEFINE e1 == Element("cluster", APIPort, svc.ip, svc.port, <<APIPort, SvcID(svc)>>)
             e2 == Element("markmasq", APIPort, svc.ip, svc.port, Nil)
             e3 == Element("nodeport", APIPort, Nil, svc.nodePort, <<APIPort, SvcID(svc)>>)
             O == Owned(APIPort, svc)
  <2>5. e1 = APIElement
    BY <1>3 DEF APIElement
  <2>6. own = <<e1, e2>> /\ np = IF svc.nodePort = 0 THEN <<>> ELSE <<e3>>
    OBVIOUS
  <2>7. e1 \in O /\ e2 \in O /\ (svc.nodePort # 0 => e3 \in O) /\ ext \in Seq(O) /\ lb \in Seq(O)
    BY <2>3, <2>4
  <2> HIDE DEF e1, e2, e3, O, own, np, ext, lb, es, svc
  <2>8. own \in Seq(O) /\ np \in Seq(O) /\ Len(own) = 2 /\ own[1] = e1
    BY <2>6, <2>7
  <2> HIDE DEF S
  <2>9. 1 \in DOMAIN (own \o ext \o lb \o np) /\ (own \o ext \o lb \o np)[1] = own[1]
    <3> DEFINE a == own \o ext
               b == a \o lb
    <3>0. Len(own) >= 1
      BY <2>8
    <3>1. a \in Seq(O) /\ Len(a) >= 1 /\ a[1] = own[1]
      BY <2>7, <2>8, <3>0, FirstStays
    <3> HIDE DEF a
    <3>2. b \in Seq(O) /\ Len(b) >= 1 /\ b[1] = a[1]
      BY <2>7, <3>1, FirstStays
    <3> HIDE DEF b
    <3>3. b \o np \in Seq(O) /\ Len(b \o np) >= 1 /\ (b \o np)[1] = b[1]
      BY <2>8, <3>2, FirstStays
    <3>4. own \o ext \o lb \o np = b \o np
      BY DEF a, b
    <3>5. 1 \in DOMAIN (b \o np)
      BY <3>3, LenProperties
    <3> QED BY <3>1, <3>2, <3>3, <3>4, <3>5
  <2> QED BY <2>1, <2>5, <2>8, <2>9
<1>6. \A x \in none : x.to = Nil /\ x.set = "noendpoints"
  BY NoEndpointsLeadNowhere
<1>7. \A j \in DOMAIN es : es[j].set # "noendpoints"
  <2>1. \A j \in DOMAIN es : es[j] \in Owned(APIPort, svc)
    BY <1>4, LenProperties, ElementOfSeq
  <2> QED BY <2>1 DEF Owned
<1>8. /\ DOMAIN w = Fields /\ w.svc = Nil /\ w.eps = <<>> /\ w.sets = {}
      /\ DOMAIN w.sc = SvcKey /\ w.sc[APIID] = Nil /\ DOMAIN w.ec = Addr /\ \A a \in Addr : w.ec[a] = Nil
  BY DEF Fresh
<1>9. u = IF ~AddAllToSetsOK(w1.sets, es) THEN [w4 EXCEPT !.svc = Nil, !.res = "error"]
          ELSE updateServiceChain(APIPort, w4)
  <2> DEFINE new == NewServiceInfo(APISpec, w.eps # <<>>)
             v1 == [w EXCEPT !.svc = new, !.sc[SvcID(new)] = CreateChain(@),
                             !.sets = IF new.withEP THEN @ ELSE @ \cup NoEndpointsElements(APIPort, new)]
             v2 == AddServiceAffinityMap(v1, SvcID(new), new.maxAge)
             v3 == IF ~new.withAff THEN v1 ELSE IF ~new.withEP THEN v2 ELSE addAffinityEndpoint(v2)
             v4 == [v3 EXCEPT !.sets = AddAllToSets(@, ServicePortElements(APIPort, new))]
  <2>1. u = IF ~AddAllToSetsOK(v3.sets, ServicePortElements(APIPort, new)) THEN [v4 EXCEPT !.svc = Nil, !.res = "error"]
            ELSE updateServiceChain(APIPort, v4)
    BY <1>8 DEF addServicePort
  <2>2. new = svc
    <3>1. (w.eps # <<>>) = FALSE
      BY <1>8
    <3> QED BY <3>1
  <2> HIDE DEF new, svc
  <2>3. v1 = w1
    BY <1>2, <1>3, <2>2
  <2> HIDE DEF v1, v2
  <2>4. v3 = w1
    BY <1>2, <2>2, <2>3
  <2> HIDE DEF v3
  <2>5. v4 = w4
    BY <2>2, <2>4
  <2> HIDE DEF v4, w1, w4
  <2> QED BY <2>1, <2>2, <2>4, <2>5
<1> HIDE DEF svc, es, none
<1>10. /\ DOMAIN w1 = Fields /\ w1.svc = svc /\ w1.eps = <<>> /\ w1.sets = none /\ DOMAIN w1.sc = SvcKey
       /\ w1.sc[APIID] = <<>> /\ w1.ec = w.ec /\ w1.res = w.res
  BY <1>1, <1>8 DEF Fields, CreateChain
<1> HIDE DEF w1
<1>11. AddAllToSetsOK(w1.sets, es)
  BY <1>6, <1>7, <1>10 DEF AddAllToSetsOK, Conflicts
<1>12. APIElement \in AddAllToSets(w1.sets, es)
  <2>1. \A k \in 1..1 : ~Conflicts(w1.sets, es[k])
    BY <1>5, <1>11 DEF AddAllToSetsOK
  <2> QED BY <1>5, <2>1 DEF AddAllToSets
<1>13. /\ DOMAIN w4 = Fields /\ w4.svc = svc /\ w4.eps = <<>> /\ DOMAIN w4.sc = SvcKey
       /\ w4.sc[APIID] = <<>> /\ w4.ec = w.ec /\ w4.res = w.res /\ APIElement \in w4.sets
  BY <1>10, <1>12 DEF Fields
<1> HIDE DEF w4
<1> DEFINE w5 == MarkEndpoints(APIPort, w4)
           w6 == WithRules(w5, <<>>, <<>>)
<1>14. w5 = [w4 EXCEPT !.sets = w4.sets, !.svc.withEP = FALSE]
  BY <1>2, <1>13 DEF MarkEndpoints
<1>15. /\ DOMAIN w5 = Fields /\ w5.svc = [svc EXCEPT !.withEP = FALSE] /\ w5.eps = <<>> /\ DOMAIN w5.sc = SvcKey
       /\ w5.ec = w.ec /\ w5.res = w.res /\ w5.sets = w4.sets
  BY <1>13, <1>14 DEF Fields
<1>16. DeleteChainRulesOK(<<>>, <<>>) /\ DeleteChainRules(<<>>, <<>>) = <<>>
  <2>0. <<>> \in Seq(RuleType)
    OBVIOUS
  <2>1. <<>> # Nil
    BY <2>0, NilAssumption
  <2> QED BY <2>1 DEF DeleteChainRulesOK, DeleteChainRules, HandlesOf
<1>17. u = w6
  <2>1. u = updateServiceChain(APIPort, w4)
    BY <1>9, <1>11
  <2> HIDE DEF w5
  <2>2. SvcID(w4.svc) = APIID /\ w4.sc[SvcID(w4.svc)] = <<>> /\ w4.svc.ruleID = <<>> /\ w4.svc # Nil /\ w4.eps = <<>>
    BY <1>2, <1>3, <1>13
  <2> QED BY <1>16, <2>1, <2>2 DEF updateServiceChain, w5
<1> HIDE DEF w5
<1>18. w5.svc \in ServiceInfo /\ SvcID(w5.svc) = APIID /\ w5.svc.withEP = FALSE /\ w5.svc.withAff = FALSE
  BY <1>2, <1>3, <1>15 DEF ServiceInfo, SvcID
<1>19. /\ DOMAIN w6 = Fields /\ w6.svc = [w5.svc EXCEPT !.ruleID = <<>>] /\ w6.eps = <<>> /\ DOMAIN w6.sc = SvcKey
       /\ w6.sc[APIID] = <<>> /\ w6.ec = w.ec /\ w6.sets = w4.sets /\ w6.res = w.res
  BY <1>1, <1>15, <1>18 DEF WithRules, Fields
<1> HIDE DEF w6
<1>20. APIKnown(w6.svc) /\ w6.svc.withEP = FALSE /\ w6.svc.ruleID = <<>>
  <2>1. <<>> \in Seq(Handles)
    OBVIOUS
  <2> QED BY <1>18, <1>19, <2>1 DEF APIKnown, ServiceInfo, SvcID
<1> QED BY <1>8, <1>13, <1>17, <1>19, <1>20 DEF Added, Fresh

\* Then the endpoint, and the API server is no longer rejected.
LEMMA BootstrapSafe ==
    ASSUME BootstrapMade, NEW w, Added(w), APIElement \in w.sets
    PROVE  SetsSafe(Unrejected(w))
<1> DEFINE none == NoEndpointsElements(APIPort, w.svc)
<1>1. w.svc.withEP = FALSE /\ SvcID(w.svc) = APIID
  BY DEF Added, APIKnown
<1>2. w.svc.ip = APIID[1] /\ w.svc.port = APIID[2]
  BY <1>1 DEF SvcID
<1>3. APIReject \in none
  BY <1>2 DEF NoEndpointsElements, APIReject
<1>4. \A e \in none : e.set # "cluster"
  BY NoEndpointsLeadNowhere
<1>5. Unrejected(w) = RemoveFromSets(w.sets, none)
  BY <1>1 DEF Unrejected
<1> HIDE DEF none
<1> QED BY <1>3, <1>4, <1>5, APIElements DEF SetsSafe, RemoveFromSets

\* AddService for the API server adds its service port.
LEMMA APIServiceAdds ==
    ASSUME BootstrapMade
    PROVE  AddServiceOps(Bootstrap.svc, Bootstrap.obj) = <<AddPortOp(APIPort, APISpec)>>
<1>1. Bootstrap # Nil /\ Bootstrap.obj.ip # Nil /\ DOMAIN Bootstrap.obj.ports = {1}
  BY APITypes DEF BootstrapMade
<1>2. AddServiceOps(Bootstrap.svc, Bootstrap.obj)
        = [i \in {1} |-> AddPortOp(getSvcPortName(Bootstrap.svc, Bootstrap.obj.ports[i]),
                                   SpecOf(Bootstrap.obj, Bootstrap.obj.ports[i]))]
  BY <1>1 DEF AddServiceOps
<1>3. [i \in {1} |-> AddPortOp(getSvcPortName(Bootstrap.svc, Bootstrap.obj.ports[i]),
                                   SpecOf(Bootstrap.obj, Bootstrap.obj.ports[i]))]
        = [i \in 1..1 |-> AddPortOp(APIPort, APISpec)]
  BY DEF APIPort, APISpec
<1>4. \A x : [i \in 1..1 |-> x] = <<x>>
  OBVIOUS
<1> QED BY <1>2, <1>3, <1>4

\* The operations of BootstrapRules.
LEMMA BootstrapOpsAre ==
    ASSUME BootstrapMade
    PROVE  BootstrapOps = <<AddPortOp(APIPort, APISpec), AddEpOp(Bootstrap.eps[1], TRUE)>>
<1>1. Bootstrap # Nil /\ Bootstrap.obj.ip # Nil /\ DOMAIN Bootstrap.obj.ports = {1}
  BY APITypes DEF BootstrapMade
<1>2. AddServiceOps(Bootstrap.svc, Bootstrap.obj) = <<AddPortOp(APIPort, APISpec)>>
  BY APIServiceAdds
<1> DEFINE q == Bootstrap.eps
<1>3. q \in Seq(EndpointEntry) /\ Len(q) = 1 /\ DOMAIN q = {1} /\ q[1].ready = TRUE
  <2>1. q \in Seq(EndpointEntry) /\ Len(q) = 1 /\ q[1].ready = TRUE
    BY DEF BootstrapMade
  <2>2. DOMAIN q = 1..1
    BY <2>1, LenProperties
  <2> QED BY <2>1, <2>2
<1> HIDE DEF q
<1>4. Ready(q) = q
  <2>1. {i \in DOMAIN q : q[i].ready} = {1}
    BY <1>3
  <2>2. Cardinality({1}) = 1
    BY FS_Singleton
  <2>3. (CHOOSE i \in {1} : Cardinality({j \in {1} : j <= i}) = 1) = 1
    <3>1. {j \in {1} : j <= 1} = {1}
      OBVIOUS
    <3> QED BY <2>2, <3>1
  <2>4. Picked(q, {1}) = [k \in 1..1 |-> q[1]]
    <3>1. \A k \in 1..1 : k = 1
      OBVIOUS
    <3> QED BY <2>2, <2>3, <3>1 DEF Picked
  <2>5. q = [k \in 1..1 |-> q[1]]
    BY <1>3
  <2> QED BY <2>1, <2>4, <2>5 DEF Ready
<1>5. AddEpOps(q, TRUE) = <<AddEpOp(q[1], TRUE)>>
  <2>1. AddEpOps(q, TRUE) = [i \in 1..1 |-> AddEpOp(q[1], TRUE)]
    BY <1>3 DEF AddEpOps
  <2>2. \A x : [i \in 1..1 |-> x] = <<x>>
    OBVIOUS
  <2> QED BY <2>1, <2>2
<1>6. ~SlicePanics(q)
  BY <1>3, EpAssumption DEF SlicePanics
<1>7. AddOps(q) = <<AddEpOp(q[1], TRUE)>>
  BY <1>4, <1>5, <1>6 DEF AddOps, AddEndpointSliceOps, AddEndpointsOps
<1>8. BootstrapOps = <<AddPortOp(APIPort, APISpec)>> \o <<AddEpOp(q[1], TRUE)>>
  BY <1>1, <1>2, <1>7 DEF BootstrapOps, q
<1>9. ASSUME NEW x, NEW y
      PROVE  <<x>> \o <<y>> = <<x, y>>
  <2> DEFINE a == <<x>>
             b == <<y>>
             S == {x, y}
  <2>1. a \in Seq(S) /\ b \in Seq(S) /\ Len(a) = 1 /\ Len(b) = 1 /\ a[1] = x /\ b[1] = y
    OBVIOUS
  <2> HIDE DEF a, b, S
  <2>2. /\ a \o b \in Seq(S) /\ Len(a \o b) = Len(a) + Len(b)
        /\ \A i \in 1..(Len(a) + Len(b)) : (a \o b)[i] = IF i <= Len(a) THEN a[i] ELSE b[i - Len(a)]
    BY <2>1, ConcatProperties
  <2>3. Len(a \o b) = 2 /\ (a \o b)[1] = x /\ (a \o b)[2] = y
    BY <2>1, <2>2
  <2>4. a \o b = <<(a \o b)[1], (a \o b)[2]>>
    BY <2>2, <2>3, Tuples
  <2>5. a \o b = <<x, y>>
    BY <2>3, <2>4
  <2> QED BY <2>5 DEF a, b
<1> QED BY <1>8, <1>9 DEF q

(***************************************************************************)
(* The operations of the handlers.                                         *)
(***************************************************************************)
\* The service ports of the other services, and the sets a handler changes.
OtherPort == {x \in ServicePortName : x.svc # Bootstrap.svc}
OtherSets == SetNames \ {"noendpoints"}

\* What an operation of the service handlers may be: those on the API server's
\* port add it, and the others are about addresses that are not its own.
HandlerOp ==
         {AddPortOp(APIPort, APISpec), PanicOp}
    \cup {x \in [op : {"addPort"}, spn : OtherPort, spec : PortSpec] : Away(x.spec)}
    \cup [op : {"deletePort"}, spn : OtherPort]
    \cup {x \in [op : {"changePort"}, svc : Service \ {Bootstrap.svc}, new : ServiceObject, i : Nat,
                 stored : ServiceObject] :
             x.new \in Versions(x.svc) /\ x.stored \in Versions(x.svc) /\ x.i \in DOMAIN x.new.ports}
    \cup [op : {"addElement"}, spn : OtherPort, set : OtherSets, ip : IP \cup {Nil}, port : Port \cup {0}]
    \cup [op : {"removeElement"}, spn : OtherPort, set : OtherSets, ip : (IP \cup {Nil}) \ {Bootstrap.obj.ip},
          port : Port \cup {0}]
    \cup [op : {"affinity"}, ports : Seq(OtherPort), aff : Timeout \cup {Nil}]
    \cup {x \in [op : {"store"}, svc : Service \ {Bootstrap.svc}, obj : ServiceObject \cup {Nil}] :
             x.obj \in Versions(x.svc) \cup {Nil}}

\* What an operation of the endpoints handlers may be: none deletes the API
\* server's endpoint.
KeepOp ==
    {PanicEpOp} \cup {x \in EndpointOp : /\ x.op = "delete" => ~(x.spn = APIPort /\ x.addr = APIAddr)
                                         /\ x.op = "store" => x.obj \in EpObjects(x.ep) \cup {Nil}}

\* The fields of an operation of the service handlers.
LEMMA HandlerOpFields ==
    ASSUME NEW x \in HandlerOp
    PROVE  /\ x.op = "addPort" => \/ x.spn = APIPort /\ x.spec = APISpec
                                  \/ x.spn \in OtherPort /\ x.spec \in PortSpec /\ Away(x.spec)
           /\ x.op = "deletePort" => x.spn \in OtherPort
           /\ x.op = "changePort" => /\ x.svc \in Service \ {Bootstrap.svc} /\ x.new \in Versions(x.svc)
                                     /\ x.stored \in Versions(x.svc) /\ x.i \in DOMAIN x.new.ports
           /\ x.op = "addElement" => x.spn \in OtherPort /\ x.set \in OtherSets
           /\ x.op = "removeElement" => x.spn \in OtherPort /\ x.set \in OtherSets /\ x.ip # Bootstrap.obj.ip
           /\ x.op = "affinity" => x.ports \in Seq(OtherPort)
           /\ x.op = "store" => x.svc \in Service \ {Bootstrap.svc} /\ x.obj \in Versions(x.svc) \cup {Nil}
<1>1. CASE x \in {AddPortOp(APIPort, APISpec), PanicOp}
  BY <1>1 DEF AddPortOp, PanicOp
<1>2. CASE x \notin {AddPortOp(APIPort, APISpec), PanicOp}
  BY <1>2 DEF HandlerOp
<1> QED BY <1>1, <1>2

\* One operation for each element of a sequence.
LEMMA ListOf ==
    ASSUME NEW S, NEW q \in Seq(S), NEW T, NEW ops, DOMAIN ops = DOMAIN q,
           ops = [k \in DOMAIN q |-> ops[k]], \A k \in DOMAIN q : ops[k] \in T
    PROVE  ops \in Seq(T)
<1>1. DOMAIN q = 1..Len(q) /\ Len(q) \in Nat
  BY LenProperties
<1>2. ops \in [1..Len(q) -> T]
  BY <1>1
<1> QED BY <1>1, <1>2, SeqDef

\* One list of operations behind another.
LEMMA Joined ==
    ASSUME NEW T, NEW a \in Seq(T), NEW b \in Seq(T)
    PROVE  a \o b \in Seq(T)
BY ConcatProperties

\* The elements that are picked.
LEMMA PickedFrom ==
    ASSUME NEW S, NEW q \in Seq(S), NEW P \in SUBSET DOMAIN q, NEW k \in DOMAIN Picked(q, P)
    PROVE  \E i \in P : Picked(q, P)[k] = q[i]
<1> DEFINE r == Picked(q, P)
<1>1. Range(r) = {q[i] : i \in P}
  BY RangePicked
<1>2. r[k] \in Range(r)
  BY DEF Range
<1> HIDE DEF r
<1> QED BY <1>1, <1>2 DEF r

\* The operations on a port of another service.
LEMMA OpsAllowed ==
    ASSUME NEW spn \in OtherPort
    PROVE  /\ DeletePortOp(spn) \in HandlerOp /\ PanicOp \in HandlerOp
           /\ \A spec \in PortSpec : Away(spec) => AddPortOp(spn, spec) \in HandlerOp
           /\ \A set \in OtherSets, ip \in IP \cup {Nil}, port \in Port \cup {0} :
                 /\ AddElementOp(spn, set, ip, port) \in HandlerOp
                 /\ ip # Bootstrap.obj.ip => RemoveElementOp(spn, set, ip, port) \in HandlerOp
<1>1. DeletePortOp(spn) \in HandlerOp /\ PanicOp \in HandlerOp
  BY DEF HandlerOp, DeletePortOp
<1>2. ASSUME NEW spec \in PortSpec, Away(spec)
      PROVE  AddPortOp(spn, spec) \in HandlerOp
  BY <1>2 DEF HandlerOp, AddPortOp
<1>3. ASSUME NEW set \in OtherSets, NEW ip \in IP \cup {Nil}, NEW port \in Port \cup {0}
      PROVE  AddElementOp(spn, set, ip, port) \in HandlerOp
  BY DEF HandlerOp, AddElementOp
<1>4. ASSUME NEW set \in OtherSets, NEW ip \in IP \cup {Nil}, NEW port \in Port \cup {0}, ip # Bootstrap.obj.ip
      PROVE  RemoveElementOp(spn, set, ip, port) \in HandlerOp
  <2>1. ip \in (IP \cup {Nil}) \ {Bootstrap.obj.ip}
    BY <1>4
  <2> QED BY <2>1 DEF HandlerOp, RemoveElementOp
<1> QED BY <1>1, <1>2, <1>3, <1>4

\* An object of another service, or none, is stored.
LEMMA StoreAllowed ==
    ASSUME NEW s \in Service \ {Bootstrap.svc}, NEW obj \in Versions(s) \cup {Nil}
    PROVE  StoreOp(s, obj) \in HandlerOp
<1>1. obj \in ServiceObject \cup {Nil}
  BY ObjectFields
<1> QED BY <1>1 DEF HandlerOp, StoreOp

\* What an object of another service says of one of its ports.
LEMMA OtherPorts ==
    ASSUME APIServiceStays, NEW s \in Service \ {Bootstrap.svc}, NEW obj \in Versions(s), NEW i \in DOMAIN obj.ports
    PROVE  /\ getSvcPortName(s, obj.ports[i]) \in OtherPort
           /\ obj.ports[i].port \in Port \cup {0} /\ obj.ports[i].nodePort \in Port \cup {0}
           /\ obj.ip # Nil => SpecOf(obj, obj.ports[i]) \in PortSpec /\ Away(SpecOf(obj, obj.ports[i]))
<1>1. /\ obj.ports[i].port \in Port /\ obj.ports[i].nodePort \in Port \cup {0}
      /\ getSvcPortName(s, obj.ports[i]) \in ServicePortName /\ getSvcPortName(s, obj.ports[i]).svc = s
  BY PortFields
<1>2. /\ obj.ip \in IP \cup {Nil} /\ obj.ext \in IPLists /\ obj.lb \in IPLists /\ obj.aff \in Timeout \cup {Nil}
  BY ObjectFields
<1>3. Away(obj)
  BY DEF APIServiceStays
<1>4. Away(SpecOf(obj, obj.ports[i]))
  BY <1>3 DEF Away, SpecOf
<1>5. obj.ip # Nil => SpecOf(obj, obj.ports[i]) \in PortSpec
  BY <1>1, <1>2 DEF SpecOf, PortSpec
<1> QED BY <1>1, <1>4, <1>5 DEF OtherPort

\* AddService for another service.
LEMMA AddServiceAllowed ==
    ASSUME APIServiceStays, NEW s \in Service \ {Bootstrap.svc}, NEW new \in Versions(s)
    PROVE  AddServiceOps(s, new) \in Seq(HandlerOp)
<1> DEFINE ops == AddServiceOps(s, new)
<1>0. <<>> \in Seq(HandlerOp)
  OBVIOUS
<1>1. CASE new.ip = Nil
  BY <1>0, <1>1 DEF AddServiceOps
<1>2. CASE new.ip # Nil
  <2>1. ops = [i \in DOMAIN new.ports |-> AddPortOp(getSvcPortName(s, new.ports[i]), SpecOf(new, new.ports[i]))]
    BY <1>2 DEF AddServiceOps
  <2>2. ASSUME NEW i \in DOMAIN new.ports
        PROVE  AddPortOp(getSvcPortName(s, new.ports[i]), SpecOf(new, new.ports[i])) \in HandlerOp
    BY <1>2, OtherPorts, OpsAllowed
  <2>3. new.ports \in Seq(ServicePort)
    BY ObjectFields
  <2> HIDE DEF ops
  <2>4. \A i \in DOMAIN new.ports : ops[i] \in HandlerOp
    BY <2>1, <2>2
  <2>5. DOMAIN ops = DOMAIN new.ports /\ ops = [i \in DOMAIN new.ports |-> ops[i]]
    BY <2>1
  <2>6. ops \in Seq(HandlerOp)
    BY <2>3, <2>4, <2>5, ListOf
  <2> QED BY <2>6 DEF ops
<1> QED BY <1>1, <1>2

\* DeleteService for another service.
LEMMA DeleteServiceAllowed ==
    ASSUME APIServiceStays, NEW s \in Service \ {Bootstrap.svc}, NEW old \in Versions(s)
    PROVE  DeleteServiceOps(s, old) \in Seq(HandlerOp)
<1> DEFINE ops == [i \in DOMAIN old.ports |-> DeletePortOp(getSvcPortName(s, old.ports[i]))]
           store == StoreOp(s, Nil)
<1>1. ASSUME NEW i \in DOMAIN old.ports
      PROVE  DeletePortOp(getSvcPortName(s, old.ports[i])) \in HandlerOp
  BY OtherPorts, OpsAllowed
<1>2. old.ports \in Seq(ServicePort)
  BY ObjectFields
<1>3. /\ DOMAIN ops = DOMAIN old.ports /\ ops = [i \in DOMAIN old.ports |-> ops[i]]
      /\ \A i \in DOMAIN old.ports : ops[i] \in HandlerOp
  BY <1>1
<1>4. store \in HandlerOp
  BY StoreAllowed
<1>5. DeleteServiceOps(s, old) = ops \o <<store>>
  BY DEF DeleteServiceOps
<1> HIDE DEF ops, store
<1>6. ops \in Seq(HandlerOp)
  BY <1>2, <1>3, ListOf
<1>7. <<store>> \in Seq(HandlerOp)
  BY <1>4
<1> QED BY <1>5, <1>6, <1>7, Joined

\* processClusterIPChanges for another service.
LEMMA ClusterIPAllowed ==
    ASSUME APIServiceStays, NEW s \in Service \ {Bootstrap.svc}, NEW new \in Versions(s), NEW stored \in Versions(s)
    PROVE  ClusterIPOps(s, new, stored) \in Seq(HandlerOp)
<1> DEFINE add == [i \in DOMAIN new.ports |->
                     AddElementOp(getSvcPortName(s, new.ports[i]), "cluster", new.ip, new.ports[i].port)]
           remove == [i \in DOMAIN new.ports |->
                     RemoveElementOp(getSvcPortName(s, new.ports[i]), "cluster", stored.ip, new.ports[i].port)]
           a == IF new.ip = Nil THEN <<>> ELSE add
           b == IF stored.ip = Nil THEN <<>> ELSE remove
<1>1. /\ new.ports \in Seq(ServicePort) /\ new.ip \in IP \cup {Nil} /\ stored.ip \in IP \cup {Nil}
      /\ stored.ip # Bootstrap.obj.ip /\ "cluster" \in OtherSets
  BY ObjectFields DEF APIServiceStays, Away, OtherSets, SetNames
<1>2. ASSUME NEW i \in DOMAIN new.ports
      PROVE  /\ AddElementOp(getSvcPortName(s, new.ports[i]), "cluster", new.ip, new.ports[i].port) \in HandlerOp
             /\ RemoveElementOp(getSvcPortName(s, new.ports[i]), "cluster", stored.ip, new.ports[i].port) \in HandlerOp
  BY <1>1, OtherPorts, OpsAllowed
<1>3. /\ DOMAIN add = DOMAIN new.ports /\ add = [i \in DOMAIN new.ports |-> add[i]]
      /\ \A i \in DOMAIN new.ports : add[i] \in HandlerOp
      /\ DOMAIN remove = DOMAIN new.ports /\ remove = [i \in DOMAIN new.ports |-> remove[i]]
      /\ \A i \in DOMAIN new.ports : remove[i] \in HandlerOp
  BY <1>2
<1>4. <<>> \in Seq(HandlerOp)
  OBVIOUS
<1>5. ClusterIPOps(s, new, stored) = IF new.ip = stored.ip THEN <<>> ELSE a \o b
  BY DEF ClusterIPOps
<1> HIDE DEF add, remove
<1>6. add \in Seq(HandlerOp) /\ remove \in Seq(HandlerOp)
  BY <1>1, <1>3, ListOf
<1>7. a \in Seq(HandlerOp) /\ b \in Seq(HandlerOp)
  BY <1>4, <1>6
<1> HIDE DEF a, b
<1>8. a \o b \in Seq(HandlerOp)
  BY <1>7, Joined
<1> QED BY <1>4, <1>5, <1>8

\* processExternalIPChanges and processLoadBalancerIPChange for another service.
LEMMA AddressesAllowed ==
    ASSUME APIServiceStays, NEW s \in Service \ {Bootstrap.svc}, NEW new \in Versions(s),
           NEW set \in {"external", "loadbalancer"}, NEW newIPs \in Seq(IP), NEW storedIPs \in Seq(IP),
           Bootstrap.obj.ip \notin Range(storedIPs)
    PROVE  AddressOps(s, new, set, newIPs, storedIPs) \in Seq(HandlerOp)
<1> DEFINE ops == AddressOps(s, new, set, newIPs, storedIPs)
<1>1. set \in SetNames /\ set \in OtherSets /\ "markmasq" \in OtherSets
  BY DEF OtherSets, SetNames
<1>2. /\ ops \in Seq(ServiceOp)
      /\ Range(ops) = CallsFor("addElement", s, new, set, Range(newIPs) \ Range(storedIPs))
                      \cup CallsFor("removeElement", s, new, set, Range(storedIPs) \ Range(newIPs))
  BY <1>1, AddressOpsAre
<1> HIDE DEF ops
<1>3. Range(newIPs) \subseteq IP /\ Range(storedIPs) \subseteq IP
  <2>1. \A i \in DOMAIN newIPs : newIPs[i] \in IP
    BY ElementOfSeq, LenProperties
  <2>2. \A i \in DOMAIN storedIPs : storedIPs[i] \in IP
    BY ElementOfSeq, LenProperties
  <2> QED BY <2>1, <2>2 DEF Range
<1>4. ASSUME NEW i \in DOMAIN new.ports, NEW a \in {set, "markmasq"}, NEW ip \in IP
      PROVE  /\ ElementCall("addElement", s, new.ports[i], a, ip) \in HandlerOp
             /\ ip # Bootstrap.obj.ip => ElementCall("removeElement", s, new.ports[i], a, ip) \in HandlerOp
  <2>1. getSvcPortName(s, new.ports[i]) \in OtherPort /\ new.ports[i].port \in Port \cup {0} /\ a \in OtherSets
    BY <1>1, OtherPorts
  <2>2. /\ AddElementOp(getSvcPortName(s, new.ports[i]), a, ip, new.ports[i].port) \in HandlerOp
        /\ ip # Bootstrap.obj.ip =>
             RemoveElementOp(getSvcPortName(s, new.ports[i]), a, ip, new.ports[i].port) \in HandlerOp
    BY <2>1, OpsAllowed
  <2>3. /\ ElementCall("addElement", s, new.ports[i], a, ip)
             = AddElementOp(getSvcPortName(s, new.ports[i]), a, ip, new.ports[i].port)
        /\ ElementCall("removeElement", s, new.ports[i], a, ip)
             = RemoveElementOp(getSvcPortName(s, new.ports[i]), a, ip, new.ports[i].port)
    BY DEF ElementCall, AddElementOp, RemoveElementOp
  <2> QED BY <2>2, <2>3
<1>5. ASSUME NEW x \in Range(ops)
      PROVE  x \in HandlerOp
  <2>1. CASE x \in CallsFor("addElement", s, new, set, Range(newIPs) \ Range(storedIPs))
    <3>1. PICK i \in DOMAIN new.ports, a \in {set, "markmasq"}, ip \in Range(newIPs) \ Range(storedIPs) :
             x = ElementCall("addElement", s, new.ports[i], a, ip)
      BY <2>1 DEF CallsFor
    <3>2. ip \in IP
      BY <1>3
    <3> QED BY <1>4, <3>1, <3>2
  <2>2. CASE x \in CallsFor("removeElement", s, new, set, Range(storedIPs) \ Range(newIPs))
    <3>1. PICK i \in DOMAIN new.ports, a \in {set, "markmasq"}, ip \in Range(storedIPs) \ Range(newIPs) :
             x = ElementCall("removeElement", s, new.ports[i], a, ip)
      BY <2>2 DEF CallsFor
    <3>2. ip \in IP /\ ip # Bootstrap.obj.ip
      BY <1>3
    <3> QED BY <1>4, <3>1, <3>2
  <2> QED BY <1>2, <2>1, <2>2
<1>6. /\ DOMAIN ops = 1..Len(ops) /\ Len(ops) \in Nat /\ ops = [k \in DOMAIN ops |-> ops[k]]
  BY <1>2, LenProperties
<1>7. \A k \in DOMAIN ops : ops[k] \in HandlerOp
  BY <1>5 DEF Range
<1>8. ops \in Seq(HandlerOp)
  BY <1>2, <1>6, <1>7, ListOf
<1> QED BY <1>8 DEF ops

\* UpdateService for another service.
LEMMA UpdateServiceAllowed ==
    ASSUME APIServiceStays, NEW s \in Service \ {Bootstrap.svc}, NEW new \in Versions(s), NEW stored \in Versions(s)
    PROVE  UpdateServiceOps(s, new, stored) \in Seq(HandlerOp)
<1> DEFINE a == [i \in DOMAIN new.ports |-> ChangePortOp(s, new, i, stored)]
           b == DeletedPortOps(s, new, stored)
           c == ClusterIPOps(s, new, stored)
           d == AddressOps(s, new, "external", new.ext, stored.ext)
           e == AddressOps(s, new, "loadbalancer", new.lb, stored.lb)
           f == AffinityOps(s, new, stored)
           store == StoreOp(s, new)
           P == {i \in DOMAIN stored.ports : isServicePortInPorts(new.ports, stored.ports[i]) = 0}
           gone == Picked(stored.ports, P)
<1>0. UpdateServiceOps(s, new, stored) = a \o b \o c \o d \o e \o f \o <<store>>
  BY DEF UpdateServiceOps
<1>1. /\ new \in ServiceObject /\ stored \in ServiceObject /\ new.ports \in Seq(ServicePort)
      /\ stored.ports \in Seq(ServicePort) /\ new.aff \in Timeout \cup {Nil}
      /\ new.ext \in Seq(IP) /\ new.lb \in Seq(IP) /\ stored.ext \in Seq(IP) /\ stored.lb \in Seq(IP)
  BY ObjectFields, ProxyAssumption
<1>2. Bootstrap.obj.ip \notin Range(stored.ext) /\ Bootstrap.obj.ip \notin Range(stored.lb)
  BY DEF APIServiceStays, Away
<1>3. a \in Seq(HandlerOp)
  <2>1. ASSUME NEW i \in DOMAIN new.ports
        PROVE  ChangePortOp(s, new, i, stored) \in HandlerOp
    <3>1. i \in Nat
      BY <1>1, LenProperties
    <3> QED BY <1>1, <3>1 DEF HandlerOp, ChangePortOp
  <2>2. /\ DOMAIN a = DOMAIN new.ports /\ a = [i \in DOMAIN new.ports |-> a[i]]
        /\ \A i \in DOMAIN new.ports : a[i] \in HandlerOp
    BY <2>1
  <2>3. new.ports \in Seq(ServicePort)
    BY <1>1
  <2> HIDE DEF a
  <2> QED BY <2>2, <2>3, ListOf
<1>4. b \in Seq(HandlerOp)
  <2>1. b = [i \in DOMAIN gone |-> DeletePortOp(getSvcPortName(s, gone[i]))]
    BY DEF DeletedPortOps
  <2>2. gone \in Seq(ServicePort) /\ \A k \in DOMAIN gone : \E i \in P : gone[k] = stored.ports[i]
    <3>1. P \in SUBSET DOMAIN stored.ports
      OBVIOUS
    <3>2. stored.ports \in Seq(ServicePort)
      BY <1>1
    <3> HIDE DEF P
    <3>3. gone \in Seq(ServicePort)
      BY <3>1, <3>2, RangePicked
    <3>4. ASSUME NEW k \in DOMAIN gone
          PROVE  \E i \in P : gone[k] = stored.ports[i]
      BY <3>1, <3>2, PickedFrom
    <3> QED BY <3>3, <3>4
  <2> HIDE DEF gone, b
  <2>3. ASSUME NEW k \in DOMAIN gone
        PROVE  DeletePortOp(getSvcPortName(s, gone[k])) \in HandlerOp
    <3>1. PICK i \in DOMAIN stored.ports : gone[k] = stored.ports[i]
      BY <2>2
    <3>2. getSvcPortName(s, stored.ports[i]) \in OtherPort
      BY OtherPorts
    <3> QED BY <3>1, <3>2, OpsAllowed
  <2>4. /\ DOMAIN b = DOMAIN gone /\ b = [i \in DOMAIN gone |-> b[i]]
        /\ \A i \in DOMAIN gone : b[i] \in HandlerOp
    BY <2>1, <2>3
  <2> QED BY <2>2, <2>4, ListOf
<1>5. c \in Seq(HandlerOp)
  BY ClusterIPAllowed
<1>6. d \in Seq(HandlerOp) /\ e \in Seq(HandlerOp)
  BY <1>1, <1>2, AddressesAllowed
<1>7. f \in Seq(HandlerOp)
  <2> DEFINE x == AffinityOp(PortNames(s, new), new.aff)
  <2>1. PortNames(s, new) \in Seq(OtherPort)
    <3>1. new.ports \in Seq(ServicePort)
      BY <1>1, ObjectFields
    <3>2. \A i \in DOMAIN new.ports : getSvcPortName(s, new.ports[i]) \in OtherPort
      BY OtherPorts
    <3> QED BY <3>1, <3>2 DEF PortNames
  <2>2. x \in HandlerOp
    BY <1>1, <2>1 DEF HandlerOp, AffinityOp
  <2> HIDE DEF x
  <2>3. <<x>> \in Seq(HandlerOp) /\ <<>> \in Seq(HandlerOp)
    BY <2>2
  <2>4. f = <<>> \/ f = <<x>>
    BY DEF AffinityOps, x
  <2> QED BY <2>3, <2>4
<1>8. <<store>> \in Seq(HandlerOp)
  <2>1. store \in HandlerOp
    BY StoreAllowed
  <2> HIDE DEF store
  <2> QED BY <2>1
<1> HIDE DEF a, b, c, d, e, f, store
<1>9. a \o b \in Seq(HandlerOp)
  BY <1>3, <1>4, Joined
<1>10. a \o b \o c \in Seq(HandlerOp)
  BY <1>5, <1>9, Joined
<1>11. a \o b \o c \o d \in Seq(HandlerOp)
  BY <1>6, <1>10, Joined
<1>12. a \o b \o c \o d \o e \in Seq(HandlerOp)
  BY <1>6, <1>11, Joined
<1>13. a \o b \o c \o d \o e \o f \in Seq(HandlerOp)
  BY <1>7, <1>12, Joined
<1> QED BY <1>0, <1>8, <1>13, Joined

\* Where isServicePortInPorts finds a port: nowhere, or at a place of its own
\* if no two ports share its name.
LEMMA FoundAt ==
    ASSUME NEW ports \in Seq(ServicePort), NEW p
    PROVE  /\ isServicePortInPorts(ports, p) \in DOMAIN ports \cup {0}
           /\ \A i \in DOMAIN ports :
                 (p = ports[i] /\ \A j \in DOMAIN ports : ports[j].name = p.name => j = i)
                 => isServicePortInPorts(ports, p) = i
<1> DEFINE byName == {i \in DOMAIN ports : ports[i].name = p.name}
           byPort == {i \in DOMAIN ports : ports[i].proto = p.proto /\ ports[i].port = p.port}
           first(S) == CHOOSE i \in S : \A j \in S : i <= j
           found == isServicePortInPorts(ports, p)
<1>1. found = IF byName # {} THEN first(byName) ELSE IF byPort # {} THEN first(byPort) ELSE 0
  BY DEF isServicePortInPorts
<1>2. DOMAIN ports = 1..Len(ports) /\ Len(ports) \in Nat
  BY LenProperties
<1>3. ASSUME NEW S \in SUBSET DOMAIN ports, S # {}
      PROVE  first(S) \in S
  <2>1. S \in SUBSET Nat
    BY <1>2
  <2>2. \E i \in S : \A j \in S : i <= j
    BY <1>3, <2>1, LeastExists
  <2> QED BY <2>2
<1>4. byName \in SUBSET DOMAIN ports /\ byPort \in SUBSET DOMAIN ports
  OBVIOUS
<1> HIDE DEF found, first
<1>5. found \in DOMAIN ports \cup {0} /\ (byName # {} => found \in byName)
  <2> HIDE DEF byName, byPort
  <2>1. byName # {} => first(byName) \in byName
    BY <1>3, <1>4
  <2>2. byPort # {} => first(byPort) \in byPort
    BY <1>3, <1>4
  <2> QED BY <1>1, <1>4, <2>1, <2>2
<1>6. ASSUME NEW i \in DOMAIN ports, p = ports[i], \A j \in DOMAIN ports : ports[j].name = p.name => j = i
      PROVE  found = i
  BY <1>5, <1>6
<1> QED BY <1>5, <1>6 DEF found

\* processServicePortChanges for one port of another service.
LEMMA ChangePortAllowed ==
    ASSUME BootstrapMade, APIServiceStays, NEW s \in Service \ {Bootstrap.svc}, NEW new \in Versions(s),
           NEW stored \in Versions(s), NEW i \in DOMAIN new.ports
    PROVE  ChangePortOps(s, new, i, stored) \in Seq(HandlerOp)
<1> DEFINE p == new.ports[i]
           spn == getSvcPortName(s, p)
           found == isServicePortInPorts(stored.ports, p)
           id == IF found = 0 THEN 1 ELSE found
           old == stored.ports[id]
           add == AddPortOp(spn, SpecOf(new, p))
           del == DeletePortOp(getSvcPortName(s, old))
           np == NodePortOps(s, new, i, stored, id)
           addNP == AddElementOp(spn, "nodeport", Nil, p.nodePort)
           delNP == RemoveElementOp(spn, "nodeport", Nil, old.nodePort)
           ops == ChangePortOps(s, new, i, stored)
<1>0. <<>> \in Seq(HandlerOp)
  OBVIOUS
<1>1. stored.ports \in Seq(ServicePort) /\ new.ports \in Seq(ServicePort)
  BY ObjectFields
<1>2. found \in DOMAIN stored.ports \cup {0}
  BY <1>1, FoundAt
<1>3. /\ spn \in OtherPort /\ p.nodePort \in Port \cup {0}
      /\ new.ip # Nil => SpecOf(new, p) \in PortSpec /\ Away(SpecOf(new, p))
  BY OtherPorts
<1>4. ops = IF found = 0 /\ serviceMap[spn] = Nil THEN <<add>>
            ELSE IF stored.ports = <<>> THEN <<PanicOp>>
            ELSE IF old.name # p.name THEN <<del, add>>
            ELSE (IF old.proto # p.proto \/ old.port # p.port THEN <<del, add>> ELSE <<>>) \o np
  BY DEF ChangePortOps
<1>5. np = IF old.nodePort = p.nodePort THEN <<>>
           ELSE <<addNP>> \o (IF i > Len(stored.ports) THEN <<PanicOp>>
                              ELSE IF stored.ports[i].nodePort = 0 THEN <<>> ELSE <<delNP>>)
  BY DEF NodePortOps
<1> HIDE DEF ops, np
<1>6. CASE new.ip = Nil
  <2>1. stored.ports = new.ports /\ \A k, j \in DOMAIN new.ports : new.ports[k].name = new.ports[j].name => k = j
    BY <1>6 DEF APIServiceStays
  <2>2. found = i
    BY <1>1, <2>1, FoundAt
  <2>3. i # 0 /\ stored.ports # <<>>
    <3>1. DOMAIN new.ports = 1..Len(new.ports) /\ Len(new.ports) \in Nat
      BY <1>1, LenProperties
    <3> QED BY <2>1, <3>1
  <2>4. old = p
    BY <2>1, <2>2, <2>3
  <2>5. ops = <<>> \o <<>>
    <3> HIDE DEF old, p, found, add, del
    <3> QED BY <1>4, <1>5, <2>2, <2>3, <2>4
  <2>6. ops \in Seq(HandlerOp)
    BY <1>0, <2>5, Joined
  <2> QED BY <2>6 DEF ops
<1>7. CASE new.ip # Nil
  <2>1. add \in HandlerOp /\ PanicOp \in HandlerOp
    BY <1>3, <1>7, OpsAllowed
  <2>2. CASE (found = 0 /\ serviceMap[spn] = Nil) \/ stored.ports = <<>>
    <3> HIDE DEF add, del, found, spn, old, p
    <3>1. <<add>> \in Seq(HandlerOp) /\ <<PanicOp>> \in Seq(HandlerOp)
      BY <2>1
    <3>2. ops = <<add>> \/ ops = <<PanicOp>>
      BY <1>4, <2>2
    <3> QED BY <3>1, <3>2 DEF ops
  <2>3. CASE stored.ports # <<>>
    <3>1. id \in DOMAIN stored.ports
      <4>1. DOMAIN stored.ports = 1..Len(stored.ports) /\ Len(stored.ports) \in Nat /\ Len(stored.ports) # 0
        BY <1>1, <2>3, LenProperties, EmptySeq
      <4> HIDE DEF found
      <4> QED BY <1>2, <4>1
    <3>2. getSvcPortName(s, old) \in OtherPort /\ old.nodePort \in Port \cup {0}
      BY <3>1, OtherPorts
    <3>3. del \in HandlerOp
      BY <3>2, OpsAllowed
    <3>4. addNP \in HandlerOp /\ delNP \in HandlerOp
      <4>1. "nodeport" \in OtherSets /\ Nil # Bootstrap.obj.ip
        BY DEF OtherSets, SetNames, BootstrapMade
      <4> QED BY <1>3, <3>2, <4>1, OpsAllowed
    <3> DEFINE pair == <<del, add>>
               rest == IF i > Len(stored.ports) THEN <<PanicOp>>
                       ELSE IF stored.ports[i].nodePort = 0 THEN <<>> ELSE <<delNP>>
               a == IF old.proto # p.proto \/ old.port # p.port THEN pair ELSE <<>>
    <3>5. np = IF old.nodePort = p.nodePort THEN <<>> ELSE <<addNP>> \o rest
      BY <1>5
    <3>6. ops \in {<<add>>, <<PanicOp>>, pair, a \o np}
      BY <1>4
    <3> HIDE DEF add, del, addNP, delNP, found, spn, id, old, p
    <3>7. <<add>> \in Seq(HandlerOp) /\ <<PanicOp>> \in Seq(HandlerOp) /\ <<addNP>> \in Seq(HandlerOp)
          /\ <<delNP>> \in Seq(HandlerOp) /\ pair \in Seq(HandlerOp)
      BY <2>1, <3>3, <3>4
    <3>8. rest \in Seq(HandlerOp) /\ a \in Seq(HandlerOp)
      BY <1>0, <3>7
    <3> HIDE DEF rest, a, pair
    <3>9. np \in Seq(HandlerOp)
      BY <1>0, <3>5, <3>7, <3>8, Joined
    <3>10. a \o np \in Seq(HandlerOp)
      BY <3>8, <3>9, Joined
    <3> QED BY <3>6, <3>7, <3>10 DEF ops
  <2> QED BY <2>2, <2>3
<1> QED BY <1>6, <1>7

\* The objects of one name.
LEMMA EpObjectTypes ==
    ASSUME BootstrapMade, NEW o \in EpObject, NEW obj \in EpObjects(o)
    PROVE  obj \in Seq(EndpointEntry) \cup {Nil}
BY NFAssumption DEF EpObjects, BootstrapMade

\* The operations of an entry, and those that end a handler.
LEMMA EntryKept ==
    ASSUME NEW q \in Seq(EndpointEntry), NEW k \in DOMAIN q, NEW ends \in BOOLEAN
    PROVE  AddEpOp(q[k], ends) \in KeepOp /\ (~IsAPI(q[k]) => DeleteEpOp(q[k]) \in KeepOp)
<1>1. AddEpOp(q[k], ends) \in EndpointOp /\ DeleteEpOp(q[k]) \in EndpointOp
  BY EntryOps
<1>2. AddEpOp(q[k], ends).op = "add" /\ DeleteEpOp(q[k]).op = "delete"
  BY EntryOps
<1>3. DeleteEpOp(q[k]).spn = q[k].name /\ DeleteEpOp(q[k]).addr = q[k].addr
  BY DEF DeleteEpOp
<1>4. AddEpOp(q[k], ends) \in KeepOp
  BY <1>1, <1>2 DEF KeepOp
<1>5. ASSUME ~IsAPI(q[k])
      PROVE  DeleteEpOp(q[k]) \in KeepOp
  BY <1>1, <1>2, <1>3, <1>5 DEF KeepOp, IsAPI
<1> QED BY <1>4, <1>5

\* The last operation of a handler.
LEMMA StoreKept ==
    ASSUME BootstrapMade, NEW o \in EpObject, NEW obj \in EpObjects(o) \cup {Nil}
    PROVE  <<StoreEpOp(o, obj)>> \in Seq(KeepOp) /\ <<PanicEpOp>> \in Seq(KeepOp)
<1> DEFINE x == StoreEpOp(o, obj)
<1>1. obj \in Seq(EndpointEntry) \cup {Nil}
  BY EpObjectTypes
<1>2. x \in EndpointOp /\ x.op = "store" /\ x.obj = obj /\ x.ep = o
  BY <1>1 DEF StoreEpOp, EndpointOp
<1>3. PanicEpOp \in KeepOp
  BY DEF KeepOp
<1> HIDE DEF x
<1>4. x \in KeepOp
  BY <1>2 DEF KeepOp
<1>5. <<x>> \in Seq(KeepOp) /\ <<PanicEpOp>> \in Seq(KeepOp)
  BY <1>3, <1>4
<1> QED BY <1>5 DEF x

\* The lists of calls.
LEMMA ListsKept ==
    ASSUME NEW q \in Seq(EndpointEntry), NEW ends \in BOOLEAN
    PROVE  /\ AddEpOps(q, ends) \in Seq(KeepOp)
           /\ (\A k \in DOMAIN q : ~IsAPI(q[k])) => DeleteEpOps(q) \in Seq(KeepOp)
<1> DEFINE a == AddEpOps(q, ends)
           d == DeleteEpOps(q)
<1>1. a = [k \in DOMAIN q |-> AddEpOp(q[k], ends)] /\ d = [k \in DOMAIN q |-> DeleteEpOp(q[k])]
  BY DEF AddEpOps, DeleteEpOps
<1> HIDE DEF a, d
<1>2. \A k \in DOMAIN q : a[k] \in KeepOp
  BY <1>1, EntryKept
<1>3. ASSUME \A k \in DOMAIN q : ~IsAPI(q[k])
      PROVE  \A k \in DOMAIN q : d[k] \in KeepOp
  BY <1>1, <1>3, EntryKept
<1>4. /\ DOMAIN a = DOMAIN q /\ a = [k \in DOMAIN q |-> a[k]]
      /\ DOMAIN d = DOMAIN q /\ d = [k \in DOMAIN q |-> d[k]]
  BY <1>1
<1>5. a \in Seq(KeepOp)
  BY <1>2, <1>4, ListOf
<1>6. (\A k \in DOMAIN q : ~IsAPI(q[k])) => d \in Seq(KeepOp)
  BY <1>3, <1>4, ListOf
<1> QED BY <1>5, <1>6 DEF a, d

\* The entries that are ready.
LEMMA ReadyFrom ==
    ASSUME NEW q \in Seq(EndpointEntry)
    PROVE  Ready(q) \in Seq(EndpointEntry) /\ \A k \in DOMAIN Ready(q) : \E i \in DOMAIN q : Ready(q)[k] = q[i]
<1> DEFINE P == {i \in DOMAIN q : q[i].ready}
<1>1. P \in SUBSET DOMAIN q /\ Ready(q) = Picked(q, P)
  BY DEF Ready
<1> HIDE DEF P
<1> QED BY <1>1, RangePicked, PickedFrom

\* The entries that are gone: not the API server's, if the new object has it.
LEMMA MissingFrom ==
    ASSUME NEW q \in Seq(EndpointEntry), NEW new, (\E k \in DOMAIN q : IsAPI(q[k])) => HasAPI(new)
    PROVE  Missing(q, new) \in Seq(EndpointEntry) /\ \A k \in DOMAIN Missing(q, new) : ~IsAPI(Missing(q, new)[k])
<1> DEFINE P == {i \in DOMAIN q : ~isPortInSubset(new, q[i])}
           r == Missing(q, new)
<1>1. P \in SUBSET DOMAIN q /\ r = Picked(q, P)
  BY DEF Missing
<1>2. ASSUME NEW i \in P
      PROVE  ~IsAPI(q[i])
  <2> SUFFICES ASSUME IsAPI(q[i]) PROVE FALSE
    OBVIOUS
  <2>1. PICK j \in DOMAIN new : IsAPI(new[j])
    BY DEF HasAPI
  <2>2. SameEndpoint(new[j], q[i])
    BY <2>1 DEF IsAPI, SameEndpoint
  <2> QED BY <2>1, <2>2 DEF isPortInSubset
<1> HIDE DEF P, r
<1>3. r \in Seq(EndpointEntry) /\ \A k \in DOMAIN r : \E i \in P : r[k] = q[i]
  BY <1>1, RangePicked, PickedFrom
<1> QED BY <1>2, <1>3 DEF r

\* AddEndpoints and AddEndpointSlice.
LEMMA AddOpsKept ==
    ASSUME NEW new \in Seq(EndpointEntry)
    PROVE  AddOps(new) \in Seq(KeepOp)
<1>1. <<PanicEpOp>> \in Seq(KeepOp)
  BY DEF KeepOp
<1>2. AddEpOps(new, TRUE) \in Seq(KeepOp)
  BY ListsKept
<1>3. AddEpOps(Ready(new), TRUE) \in Seq(KeepOp)
  BY ReadyFrom, ListsKept
<1> QED BY <1>1, <1>2, <1>3 DEF AddOps, AddEndpointSliceOps, AddEndpointsOps

\* DeleteEndpoints and DeleteEndpointSlice, of an object without the API server.
LEMMA DeleteOpsKept ==
    ASSUME BootstrapMade, NEW o \in EpObject, NEW old \in Seq(EndpointEntry), ~HasAPI(old)
    PROVE  DeleteOps(o, old) \in Seq(KeepOp)
<1>1. <<StoreEpOp(o, Nil)>> \in Seq(KeepOp)
  BY StoreKept
<1>2. \A i \in DOMAIN old : ~IsAPI(old[i])
  BY EpAssumption DEF HasAPI
<1>3. DeleteEpOps(old) \in Seq(KeepOp)
  BY <1>2, ListsKept
<1>4. DeleteEpOps(Ready(old)) \in Seq(KeepOp)
  BY <1>2, ReadyFrom, ListsKept
<1>5. /\ DeleteEpOps(old) \o <<StoreEpOp(o, Nil)>> \in Seq(KeepOp)
      /\ DeleteEpOps(Ready(old)) \o <<StoreEpOp(o, Nil)>> \in Seq(KeepOp)
  BY <1>1, <1>3, <1>4, Joined
<1> QED BY <1>5 DEF DeleteOps, DeleteEndpointSliceOps, DeleteEndpointsOps

\* UpdateEndpoints and UpdateEndpointSlice.
LEMMA UpdateOpsKept ==
    ASSUME BootstrapMade, APIAddressStays, NEW o \in EpObject,
           NEW new \in EpObjects(o), new # Nil, NEW stored \in EpObjects(o), stored # Nil
    PROVE  UpdateOps(o, new, stored) \in Seq(KeepOp)
<1>1. new \in Seq(EndpointEntry) /\ stored \in Seq(EndpointEntry)
  BY EpObjectTypes
<1>2. <<StoreEpOp(o, new)>> \in Seq(KeepOp) /\ <<PanicEpOp>> \in Seq(KeepOp)
  BY StoreKept
<1>3. (\E i \in DOMAIN stored : IsAPI(stored[i])) => HasAPI(new)
  BY DEF APIAddressStays, HasAPI
<1>4. CASE ~EndpointSlice
  <2> DEFINE a == AddEpOps(Missing(new, stored), TRUE)
             d == DeleteEpOps(Missing(stored, new))
  <2>1. Missing(new, stored) \in Seq(EndpointEntry)
    <3>1. {i \in DOMAIN new : ~isPortInSubset(stored, new[i])} \in SUBSET DOMAIN new
      OBVIOUS
    <3> QED BY <1>1, <3>1, RangePicked DEF Missing
  <2>2. a \in Seq(KeepOp)
    BY <2>1, ListsKept
  <2>3. d \in Seq(KeepOp)
    BY <1>1, <1>3, MissingFrom, ListsKept
  <2>4. UpdateOps(o, new, stored) = a \o d \o <<StoreEpOp(o, new)>>
    BY <1>4 DEF UpdateOps, UpdateEndpointsOps
  <2> HIDE DEF a, d
  <2>5. a \o d \in Seq(KeepOp)
    BY <2>2, <2>3, Joined
  <2> QED BY <1>2, <2>4, <2>5, Joined
<1>5. CASE EndpointSlice
  <2> DEFINE P == {i \in DOMAIN new : new[i].ready # WasReady(stored, new[i])}
             q == Picked(new, P)
             a == SliceChangeOps(new, stored)
             r == Ready(stored)
             d == DeleteEpOps(Missing(r, new))
  <2>1. P \in SUBSET DOMAIN new
    OBVIOUS
  <2>2. a = [k \in DOMAIN q |-> IF q[k].ready THEN AddEpOp(q[k], FALSE) ELSE DeleteEpOp(q[k])]
    BY DEF SliceChangeOps
  <2> HIDE DEF P
  <2>3. q \in Seq(EndpointEntry) /\ \A k \in DOMAIN q : \E i \in P : q[k] = new[i]
    BY <1>1, <2>1, RangePicked, PickedFrom
  <2> HIDE DEF q, a
  <2>4. ASSUME NEW k \in DOMAIN q
        PROVE  a[k] \in KeepOp
    <3>1. IsAPI(q[k]) => q[k].ready = TRUE
      BY <2>1, <2>3 DEF APIAddressStays
    <3>2. AddEpOp(q[k], FALSE) \in KeepOp /\ (~IsAPI(q[k]) => DeleteEpOp(q[k]) \in KeepOp)
      BY <2>3, EntryKept
    <3>3. a[k] = IF q[k].ready THEN AddEpOp(q[k], FALSE) ELSE DeleteEpOp(q[k])
      BY <2>2
    <3>4. CASE q[k].ready = TRUE
      BY <3>2, <3>3, <3>4
    <3>5. CASE ~IsAPI(q[k])
      BY <3>2, <3>3, <3>5
    <3> QED BY <3>1, <3>4, <3>5
  <2>5. DOMAIN a = DOMAIN q /\ a = [k \in DOMAIN q |-> a[k]]
    BY <2>2
  <2>6. a \in Seq(KeepOp)
    BY <2>3, <2>4, <2>5, ListOf
  <2>7. r \in Seq(EndpointEntry) /\ ((\E k \in DOMAIN r : IsAPI(r[k])) => HasAPI(new))
    BY <1>1, <1>3, ReadyFrom
  <2> HIDE DEF r
  <2>8. d \in Seq(KeepOp)
    BY <2>7, MissingFrom, ListsKept
  <2>9. UpdateOps(o, new, stored) = IF SlicePanics(new) THEN <<PanicEpOp>> ELSE a \o d \o <<StoreEpOp(o, new)>>
    BY <1>5 DEF UpdateOps, UpdateEndpointSliceOps, a, r
  <2> HIDE DEF d
  <2>10. a \o d \in Seq(KeepOp)
    BY <2>6, <2>8, Joined
  <2>11. a \o d \o <<StoreEpOp(o, new)>> \in Seq(KeepOp)
    BY <1>2, <2>10, Joined
  <2> QED BY <1>2, <2>9, <2>11
<1> QED BY <1>4, <1>5, EpAssumption

(***************************************************************************)
(* The invariant.                                                          *)
(***************************************************************************)
\* The maps have all the service ports, and those of other services have other
\* addresses than the API server.
PortsApart ==
    /\ DOMAIN serviceMap = ServicePortName /\ DOMAIN endpointsMap = ServicePortName
    /\ DOMAIN svcChain = ServicePortName /\ DOMAIN epChain = ServicePortName
    /\ DOMAIN affinityMap = ServicePortName
    /\ \A x \in ServicePortName \ {APIPort} : Apart(serviceMap[x])

\* The API server is balanced and not rejected.
APISafe == ServesAPI(Local(APIPort)) /\ SetsSafe(sets)

\* The objects of the cluster, of the informers and of the caches.  The API
\* server's Service and an object that is always there are never gone again
\* once they have been delivered.
ObjectsHeld ==
    /\ SvcTyped(apiSvc) /\ SvcTyped(seenSvc) /\ SvcTyped(svcCache)
    /\ EpTyped(apiEp) /\ EpTyped(seenEp)
    /\ DOMAIN epCache = EpObject /\ \A o \in EpObject : epCache[o] \in EpObjects(o) \cup {Nil}
    /\ apiSvc[Bootstrap.svc] = Nil => seenSvc[Bootstrap.svc] = Nil
    /\ \A o \in EpObject : apiEp[o] = Nil /\ Nil \notin EpVersions[o] => seenEp[o] = Nil

\* The handlers are called after BootstrapRules only.
NoWork == svcTodo = <<>> /\ epTodo = <<>>
WorkAllowed == svcTodo \in Seq(HandlerOp) /\ epTodo \in Seq(KeepOp)

\* BootstrapRules has added nothing yet, or the service port, or the endpoint
\* as well.
Bootstrapped ==
    \/ boot = BootstrapOps /\ NoWork /\ Fresh(Local(APIPort))
    \/ boot = Tail(BootstrapOps) /\ NoWork /\ Added(Local(APIPort)) /\ APIElement \in sets
    \/ boot = <<>> /\ WorkAllowed /\ APISafe

\* The inductive invariant.
BootInv == ObjectsHeld /\ (proc = "running" => PortsApart /\ Bootstrapped)

\* BootstrapRules has two operations.
LEMMA BootstrapHasTwo ==
    ASSUME BootstrapMade
    PROVE  /\ BootstrapOps # <<>> /\ Head(BootstrapOps) = AddPortOp(APIPort, APISpec)
           /\ Tail(BootstrapOps) # <<>> /\ Head(Tail(BootstrapOps)) = AddEpOp(Bootstrap.eps[1], TRUE)
           /\ Tail(Tail(BootstrapOps)) = <<>>
<1> DEFINE x == AddPortOp(APIPort, APISpec)
           y == AddEpOp(Bootstrap.eps[1], TRUE)
<1>1. BootstrapOps = <<x, y>>
  BY BootstrapOpsAre
<1> HIDE DEF x, y
<1>2. Tail(<<x, y>>) = <<y>> /\ Head(<<x, y>>) = x /\ Head(<<y>>) = y /\ Tail(<<y>>) = <<>>
  OBVIOUS
<1>3. <<x, y>> # <<>> /\ <<y>> # <<>>
  OBVIOUS
<1> QED BY <1>1, <1>2, <1>3 DEF x, y

\* Once BootstrapRules is done.
LEMMA Settled ==
    ASSUME BootstrapMade, BootInv, proc = "running", boot = <<>> \/ svcTodo # <<>> \/ epTodo # <<>>
    PROVE  boot = <<>> /\ PortsApart /\ WorkAllowed /\ APISafe
BY BootstrapHasTwo DEF BootInv, Bootstrapped, NoWork

\* What ServesAPI and Added look at.
LEMMA ReachedOf ==
    ASSUME NEW u, NEW v, DOMAIN v = Fields, v.svc = u.svc, v.eps = u.eps, v.sc = u.sc, v.ec = u.ec
    PROVE  (ServesAPI(u) => ServesAPI(v)) /\ (Added(u) => Added(v))
BY DEF ServesAPI, Added

\* The service port of the API server after a step.
LEMMA ReachedAfter ==
    ASSUME NEW u, Becomes(APIPort, u)
    PROVE  (ServesAPI(u) => ServesAPI(Local(APIPort))') /\ (Added(u) => Added(Local(APIPort))')
<1> DEFINE v == Local(APIPort)'
<1>1. DOMAIN v = Fields /\ v.svc = u.svc /\ v.eps = u.eps /\ v.sc = u.sc /\ v.ec = u.ec
  BY DEF Local, Fields, Becomes, APIPort
<1> HIDE DEF v
<1>2. (ServesAPI(u) => ServesAPI(v)) /\ (Added(u) => Added(v))
  BY <1>1, ReachedOf
<1> QED BY <1>2 DEF v

\* What a critical section leaves behind.
LEMMA CommitLeaves ==
    ASSUME PortsApart, NEW spn \in ServicePortName, NEW u, Commit(spn, u), proc' = "running",
           proc = "running"
    PROVE  /\ Becomes(spn, u) /\ sets' = u.sets /\ \A x \in ServicePortName \ {spn} : Becomes(x, Local(x))
           /\ (spn = APIPort \/ Apart(u.svc)) => PortsApart'
<1>1. /\ serviceMap' = [serviceMap EXCEPT ![spn] = u.svc]
      /\ endpointsMap' = [endpointsMap EXCEPT ![spn] = u.eps]
      /\ svcChain' = [svcChain EXCEPT ![spn] = u.sc]
      /\ epChain' = [epChain EXCEPT ![spn] = u.ec]
      /\ affinityMap' = [affinityMap EXCEPT ![spn] = u.am]
      /\ sets' = u.sets
  BY DEF Commit, Stop
<1>2. /\ DOMAIN serviceMap = ServicePortName /\ DOMAIN endpointsMap = ServicePortName
      /\ DOMAIN svcChain = ServicePortName /\ DOMAIN epChain = ServicePortName
      /\ DOMAIN affinityMap = ServicePortName
  BY DEF PortsApart
<1>3. /\ DOMAIN serviceMap' = ServicePortName /\ DOMAIN endpointsMap' = ServicePortName
      /\ DOMAIN svcChain' = ServicePortName /\ DOMAIN epChain' = ServicePortName
      /\ DOMAIN affinityMap' = ServicePortName
  BY <1>1, <1>2
<1>4. Becomes(spn, u)
  BY <1>1, <1>2 DEF Becomes
<1>5. ASSUME NEW x \in ServicePortName \ {spn}
      PROVE  Becomes(x, Local(x)) /\ serviceMap'[x] = serviceMap[x]
  BY <1>1, <1>2, LocalFields DEF Becomes
<1>6. ASSUME spn = APIPort \/ Apart(u.svc)
      PROVE  PortsApart'
  <2>1. \A x \in ServicePortName \ {APIPort} : Apart(serviceMap'[x])
    BY <1>4, <1>5, <1>6 DEF PortsApart, Becomes
  <2> QED BY <1>3, <2>1 DEF PortsApart, APIPort, Apart, Away
<1> QED BY <1>1, <1>4, <1>5, <1>6

\* A critical section on another service port.
LEMMA CommitOther ==
    ASSUME BootstrapMade, PortsApart, APISafe, NEW spn \in ServicePortName \ {APIPort}, NEW u,
           u.res = "panic" \/ Calm(u), Commit(spn, u), proc = "running", proc' = "running"
    PROVE  PortsApart' /\ APISafe'
<1>1. Calm(u)
  BY DEF Commit, Stop
<1>2. sets' = u.sets /\ Becomes(APIPort, Local(APIPort)) /\ PortsApart'
  BY <1>1, APITypes, CommitLeaves DEF Calm
<1>3. ServesAPI(Local(APIPort))'
  BY <1>2, ReachedAfter DEF APISafe
<1>4. SetsSafe(sets')
  BY <1>1, <1>2 DEF Calm
<1> QED BY <1>2, <1>3, <1>4 DEF APISafe, SetsSafe, APIElement, APIReject

\* A critical section on the API server's.
LEMMA CommitOwn ==
    ASSUME BootstrapMade, PortsApart, NEW u, ServesAPI(u), SetsSafe(u.sets), Commit(APIPort, u),
           proc = "running", proc' = "running"
    PROVE  PortsApart' /\ APISafe'
<1>1. sets' = u.sets /\ Becomes(APIPort, u) /\ PortsApart'
  BY APITypes, CommitLeaves
<1>2. ServesAPI(Local(APIPort))'
  BY <1>1, ReachedAfter
<1> QED BY <1>1, <1>2 DEF APISafe

\* The state a critical section on another service port starts from.
LEMMA OtherCalm ==
    ASSUME PortsApart, APISafe, NEW spn \in ServicePortName \ {APIPort}
    PROVE  Calm(Local(spn))
BY LocalFields DEF PortsApart, APISafe, Calm

(***************************************************************************)
(* The steps of the service handlers.                                      *)
(***************************************************************************)
\* The next state, once BootstrapRules is done.
LEMMA SettledNext ==
    ASSUME ObjectsHeld', boot' = <<>>, WorkAllowed', proc' = "running" => PortsApart' /\ APISafe'
    PROVE  BootInv'
BY DEF BootInv, Bootstrapped

\* The objects stay.
LEMMA ObjectsStay ==
    ASSUME ObjectsHeld, UNCHANGED <<apiSvc, seenSvc, svcCache, apiEp, seenEp, epCache>>
    PROVE  ObjectsHeld'
BY DEF ObjectsHeld, SvcTyped, EpTyped, Versions, EpObjects

\* The work that is left.
LEMMA WorkLeft ==
    ASSUME WorkAllowed, svcTodo # <<>>
    PROVE  Head(svcTodo) \in HandlerOp /\ Tail(svcTodo) \in Seq(HandlerOp) /\ epTodo \in Seq(KeepOp)
BY RangeHeadTail DEF WorkAllowed

\* Its set of operations does not change.
LEMMA WorkNext ==
    ASSUME svcTodo' \in Seq(HandlerOp), epTodo' \in Seq(KeepOp)
    PROVE  WorkAllowed'
BY DEF WorkAllowed

\* Nothing changes in the kernel but the sets.
LEMMA OnlySets ==
    ASSUME BootstrapMade, PortsApart, APISafe, SetsSafe(sets'),
           UNCHANGED <<serviceMap, endpointsMap, svcChain, epChain, affinityMap>>
    PROVE  PortsApart' /\ APISafe'
<1>1. Becomes(APIPort, Local(APIPort))
  BY LocalFields DEF Becomes
<1>2. ServesAPI(Local(APIPort))'
  BY <1>1, ReachedAfter DEF APISafe
<1>3. PortsApart'
  BY DEF PortsApart
<1> QED BY <1>2, <1>3 DEF APISafe

\* The port of another service is another port.
LEMMA OtherIsOther ==
    ASSUME BootstrapMade, NEW spn \in OtherPort
    PROVE  spn \in ServicePortName \ {APIPort} /\ spn.svc \in Service \ {Bootstrap.svc}
BY APITypes DEF OtherPort, ServicePortName

\* AddService adds a service port.
LEMMA StepAddPortSafe ==
    ASSUME BootstrapMade, PortsApart, APISafe, WorkAllowed, StepAddPort, proc' = "running"
    PROVE  PortsApart' /\ APISafe'
<1> DEFINE o == Head(svcTodo)
           w == Local(o.spn)
           u == addServicePort(o.spn, o.spec, w)
<1>1. proc = "running" /\ o.op = "addPort" /\ svcTodo # <<>> /\ Commit(o.spn, u)
  BY DEF StepAddPort, SvcStep
<1>2. \/ o.spn = APIPort /\ o.spec = APISpec
      \/ o.spn \in OtherPort /\ o.spec \in PortSpec /\ Away(o.spec)
  BY <1>1, WorkLeft, HandlerOpFields
<1>3. CASE o.spn = APIPort
  <2>1. ServesAPI(w) /\ w.sets = sets
    BY <1>3, LocalFields DEF APISafe
  <2>2. u = w
    <3>1. w.svc # Nil
      BY <2>1, NilAssumption DEF ServesAPI, APIKnown
    <3> HIDE DEF w
    <3> QED BY <3>1 DEF addServicePort
  <2>3. ServesAPI(u) /\ SetsSafe(u.sets) /\ Commit(APIPort, u)
    BY <1>1, <1>3, <2>1, <2>2 DEF APISafe
  <2> QED BY <1>1, <2>3, CommitOwn
<1>4. CASE o.spn \in OtherPort /\ o.spec \in PortSpec /\ Away(o.spec)
  <2>1. o.spn \in ServicePortName \ {APIPort}
    BY <1>4, OtherIsOther
  <2>2. Calm(w)
    BY <2>1, OtherCalm
  <2>3. Calm(u)
    BY <1>4, <2>1, <2>2, AddPortCalm
  <2> HIDE DEF u
  <2> QED BY <1>1, <2>1, <2>3, CommitOther
<1> QED BY <1>2, <1>3, <1>4

\* DeleteService and UpdateService delete a port of another service.
LEMMA StepDeletePortSafe ==
    ASSUME BootstrapMade, APIServiceStays, SvcTyped(svcCache), PortsApart, APISafe, WorkAllowed, StepDeletePort,
           proc' = "running"
    PROVE  PortsApart' /\ APISafe'
<1> DEFINE o == Head(svcTodo)
           w == Local(o.spn)
           stored == LastKnown(o.spn.svc)
           u == deleteServicePort(o.spn, stored, w)
<1>1. proc = "running" /\ o.op = "deletePort" /\ svcTodo # <<>> /\ Commit(o.spn, u)
  BY DEF StepDeletePort, SvcStep
<1>2. o.spn \in OtherPort
  BY <1>1, WorkLeft, HandlerOpFields
<1>3. o.spn \in ServicePortName \ {APIPort} /\ o.spn.svc \in Service \ {Bootstrap.svc}
  BY <1>2, OtherIsOther
<1>4. Calm(w)
  BY <1>3, OtherCalm
<1>5. stored = Nil \/ Away(stored)
  <2> DEFINE s == o.spn.svc
  <2> HIDE DEF s
  <2>1. s \in Service \ {Bootstrap.svc}
    BY <1>3 DEF s
  <2>2. svcCache[s] = Nil \/ (svcCache[s] \in Versions(s) /\ svcCache[s] # Nil)
    BY <2>1 DEF SvcTyped, Versions
  <2>3. svcCache[s] # Nil => Away(svcCache[s])
    BY <2>1, <2>2 DEF APIServiceStays
  <2>4. LastKnown(s) = Nil \/ Away(LastKnown(s))
    BY <2>3 DEF LastKnown, Away
  <2> QED BY <2>4 DEF s
<1> HIDE DEF stored, w
<1>6. Calm(u)
  BY <1>4, <1>5, DeletePortCalm
<1> HIDE DEF u
<1> QED BY <1>1, <1>3, <1>6, CommitOther

\* An element of another service comes or goes.
LEMMA StepElementSafe ==
    ASSUME BootstrapMade, PortsApart, APISafe, WorkAllowed, StepAddElement \/ StepRemoveElement, proc' = "running"
    PROVE  PortsApart' /\ APISafe'
<1> DEFINE o == Head(svcTodo)
<1>1. SetsSafe(sets) /\ proc = "running" /\ svcTodo # <<>>
  BY DEF APISafe, StepAddElement, StepRemoveElement, SvcStep
<1>2. CASE StepAddElement
  <2> DEFINE to == IF o.set = "markmasq" THEN Nil ELSE <<o.spn, SvcID(serviceMap[o.spn])>>
             e == Element(o.set, o.spn, o.ip, o.port, to)
  <2>1. o.op = "addElement" /\ (UNCHANGED vars \/ AddSetElement(o.spn, o.set, o.ip, o.port))
    BY <1>2 DEF StepAddElement, SvcStep, Stop
  <2>2. o.set \in OtherSets
    BY <1>1, <2>1, WorkLeft, HandlerOpFields
  <2>3. UNCHANGED <<serviceMap, endpointsMap, svcChain, epChain, affinityMap>> /\ (sets' = sets \/ sets' = AddToSet(sets, e))
    BY <2>1 DEF vars, AddSetElement
  <2>4. e.set # "noendpoints"
    BY <2>2 DEF OtherSets, Element
  <2> HIDE DEF e, o
  <2>5. SetsSafe(sets \cup {e})
    BY <1>1, <2>4, AddedSafe
  <2>6. SetsSafe(sets')
    BY <1>1, <2>3, <2>5 DEF AddToSet
  <2> QED BY <2>3, <2>6, OnlySets
<1>3. CASE StepRemoveElement
  <2> DEFINE e == Element(o.set, o.spn, o.ip, o.port, Nil)
  <2>1. o.op = "removeElement" /\ RemoveSetElement(o.spn, o.set, o.ip, o.port)
    BY <1>3 DEF StepRemoveElement, SvcStep, Stop
  <2>2. o.ip # Bootstrap.obj.ip
    BY <1>1, <2>1, WorkLeft, HandlerOpFields
  <2>3. UNCHANGED <<serviceMap, endpointsMap, svcChain, epChain, affinityMap>> /\ sets' = RemoveFromSets(sets, {e})
    BY <2>1 DEF RemoveSetElement
  <2>4. Clear(e)
    BY <2>2 DEF Clear, Element
  <2> HIDE DEF e, o
  <2>5. SetsSafe(sets')
    BY <1>1, <2>3, <2>4, RemovedSafe
  <2> QED BY <2>3, <2>5, OnlySets
<1> QED BY <1>2, <1>3

\* The session affinity of another service changes.
LEMMA StepAffinitySafe ==
    ASSUME BootstrapMade, PortsApart, APISafe, WorkAllowed, StepAffinity, proc' = "running"
    PROVE  PortsApart' /\ APISafe'
<1> DEFINE o == Head(svcTodo)
           after == [spn \in Range(o.ports) |->
                       IF o.aff = Nil THEN removeAffinity(Local(spn)) ELSE addAffinity(Local(spn))]
           ports == PortsReached(o.ports, after)
<1>1. proc = "running" /\ o.op = "affinity" /\ svcTodo # <<>> /\ AffinityChange(ports, after)
  BY DEF StepAffinity, SvcStep
<1>2. ports \subseteq OtherPort /\ ports \subseteq Range(o.ports)
  <2>1. o.ports \in Seq(OtherPort)
    BY <1>1, WorkLeft, HandlerOpFields
  <2> HIDE DEF o, after
  <2> QED BY <2>1 DEF PortsReached, Range
<1>3. ASSUME NEW x \in ports
      PROVE  x \in ServicePortName \ {APIPort} /\ (after[x].res = "panic" \/ Apart(after[x].svc))
  <2>1. x \in ServicePortName \ {APIPort}
    BY <1>2, OtherIsOther
  <2>2. Calm(Local(x))
    BY <2>1, OtherCalm
  <2>3. after[x] \in {addAffinity(Local(x)), removeAffinity(Local(x))}
    BY <1>2
  <2> HIDE DEF after
  <2>4. after[x].res = "panic" \/ Calm(after[x])
    BY <2>2, <2>3, AffinityCalm
  <2> QED BY <2>1, <2>4 DEF Calm
<1> HIDE DEF after, ports
<1>4. /\ ~\E x \in ports : after[x].res = "panic"
      /\ serviceMap' = [x \in ServicePortName |-> IF x \in ports THEN after[x].svc ELSE serviceMap[x]]
      /\ endpointsMap' = [x \in ServicePortName |-> IF x \in ports THEN after[x].eps ELSE endpointsMap[x]]
      /\ svcChain' = [x \in ServicePortName |-> IF x \in ports THEN after[x].sc ELSE svcChain[x]]
      /\ epChain' = [x \in ServicePortName |-> IF x \in ports THEN after[x].ec ELSE epChain[x]]
      /\ affinityMap' = [x \in ServicePortName |-> IF x \in ports THEN after[x].am ELSE affinityMap[x]]
      /\ sets' = sets
  BY <1>1 DEF AffinityChange
<1>5. APIPort \notin ports /\ APIPort \in ServicePortName
  BY <1>3, APITypes
<1>6. Becomes(APIPort, Local(APIPort))
  BY <1>4, <1>5, LocalFields DEF Becomes
<1>7. \A x \in ServicePortName \ {APIPort} : Apart(serviceMap'[x])
  BY <1>3, <1>4 DEF PortsApart
<1>8. /\ DOMAIN serviceMap' = ServicePortName /\ DOMAIN endpointsMap' = ServicePortName
      /\ DOMAIN svcChain' = ServicePortName /\ DOMAIN epChain' = ServicePortName
      /\ DOMAIN affinityMap' = ServicePortName
  BY <1>4
<1>9. PortsApart'
  BY <1>7, <1>8 DEF PortsApart
<1>10. ServesAPI(Local(APIPort))'
  BY <1>6, ReachedAfter DEF APISafe
<1> QED BY <1>4, <1>9, <1>10 DEF APISafe

\* One step of the service handlers.
LEMMA ServiceStepSafe ==
    ASSUME BootstrapMade, APIServiceStays, BootInv, ServiceStep
    PROVE  BootInv'
<1> DEFINE o == Head(svcTodo)
<1>0. /\ proc = "running" /\ svcTodo # <<>> /\ UNCHANGED <<apiSvc, seenSvc, apiEp, seenEp, epCache, epTodo, boot>>
  BY DEF ServiceStep, SvcHandler, SvcStep, StepAddPort, StepDeletePort, StepChangePort, StepAddElement,
         StepRemoveElement, StepAffinity, StepStore, StepPanic, epVars
<1>1. boot = <<>> /\ PortsApart /\ WorkAllowed /\ APISafe /\ ObjectsHeld
  BY <1>0, Settled DEF BootInv
<1>2. o \in HandlerOp /\ Tail(svcTodo) \in Seq(HandlerOp) /\ epTodo \in Seq(KeepOp)
  BY <1>0, <1>1, WorkLeft
<1>3. SvcTyped(svcCache)
  BY <1>1 DEF ObjectsHeld
<1>4. ASSUME svcTodo' \in Seq(HandlerOp), UNCHANGED svcCache, proc' = "running" => PortsApart' /\ APISafe'
      PROVE  BootInv'
  <2>1. ObjectsHeld'
    BY <1>0, <1>1, <1>4, ObjectsStay
  <2>2. WorkAllowed'
    BY <1>0, <1>2, <1>4, WorkNext
  <2> QED BY <1>0, <1>1, <1>4, <2>1, <2>2, SettledNext
<1>5. CASE StepAddPort
  BY <1>1, <1>2, <1>4, <1>5, StepAddPortSafe DEF StepAddPort
<1>6. CASE StepDeletePort
  BY <1>1, <1>2, <1>3, <1>4, <1>6, StepDeletePortSafe DEF StepDeletePort
<1>7. CASE StepAddElement \/ StepRemoveElement
  <2>1. svcTodo' = Tail(svcTodo) /\ UNCHANGED svcCache
    BY <1>7 DEF StepAddElement, StepRemoveElement
  <2>2. proc' = "running" => PortsApart' /\ APISafe'
    BY <1>1, <1>7, StepElementSafe
  <2> QED BY <1>2, <1>4, <2>1, <2>2
<1>8. CASE StepAffinity
  BY <1>1, <1>2, <1>4, <1>8, StepAffinitySafe DEF StepAffinity
<1>9. CASE StepChangePort
  <2>1. o.op = "changePort" /\ UNCHANGED <<vars, svcCache>>
        /\ svcTodo' = ChangePortOps(o.svc, o.new, o.i, o.stored) \o Tail(svcTodo)
    BY <1>9 DEF StepChangePort, SvcStep
  <2>2. /\ o.svc \in Service \ {Bootstrap.svc} /\ o.new \in Versions(o.svc)
        /\ o.stored \in Versions(o.svc) /\ o.i \in DOMAIN o.new.ports
    BY <1>2, <2>1, HandlerOpFields
  <2> HIDE DEF o
  <2>3. ChangePortOps(o.svc, o.new, o.i, o.stored) \in Seq(HandlerOp)
    BY <2>2, ChangePortAllowed
  <2>4. svcTodo' \in Seq(HandlerOp)
    BY <1>2, <2>1, <2>3, Joined
  <2>5. PortsApart' /\ APISafe'
    <3>1. UNCHANGED <<serviceMap, endpointsMap, svcChain, epChain, affinityMap, sets>>
      BY <2>1 DEF vars
    <3>2. SetsSafe(sets')
      BY <1>1, <3>1 DEF APISafe
    <3> QED BY <1>1, <3>1, <3>2, OnlySets
  <2> QED BY <1>4, <2>1, <2>4, <2>5
<1>10. CASE StepStore
  <2>1. /\ o.op = "store" /\ UNCHANGED vars /\ svcTodo' = Tail(svcTodo)
        /\ svcCache' = [svcCache EXCEPT ![o.svc] = o.obj]
    BY <1>10 DEF StepStore, SvcStep
  <2>2. o.svc \in Service /\ o.obj \in Versions(o.svc) \cup {Nil}
    BY <1>2, <2>1, HandlerOpFields
  <2> HIDE DEF o
  <2>3. SvcTyped(svcCache')
    BY <1>3, <2>1, <2>2, SvcTypedExcept
  <2>4. ObjectsHeld'
    BY <1>0, <1>1, <2>3 DEF ObjectsHeld, SvcTyped, EpTyped, Versions, EpObjects
  <2>5. WorkAllowed'
    BY <1>0, <1>2, <2>1, WorkNext
  <2>6. PortsApart' /\ APISafe'
    <3>1. UNCHANGED <<serviceMap, endpointsMap, svcChain, epChain, affinityMap, sets>>
      BY <2>1 DEF vars
    <3>2. SetsSafe(sets')
      BY <1>1, <3>1 DEF APISafe
    <3> QED BY <1>1, <3>1, <3>2, OnlySets
  <2> QED BY <1>0, <1>1, <2>4, <2>5, <2>6, SettledNext
<1>11. CASE StepPanic
  <2>1. proc' # "running" /\ UNCHANGED <<svcTodo, svcCache>>
    BY <1>11 DEF StepPanic, Stop
  <2> QED BY <1>1, <1>4, <2>1 DEF WorkAllowed
<1> QED BY <1>5, <1>6, <1>7, <1>8, <1>9, <1>10, <1>11 DEF ServiceStep, SvcHandler

(***************************************************************************)
(* The steps of the endpoints handlers and of BootstrapRules.              *)
(***************************************************************************)
\* The fields of an operation of the endpoints handlers.
LEMMA KeepOpFields ==
    ASSUME NEW x \in KeepOp
    PROVE  /\ x.op \in {"add", "delete"} => x.spn \in ServicePortName /\ x.addr \in Addr /\ x.local \in BOOLEAN
           /\ x.op = "delete" => ~(x.spn = APIPort /\ x.addr = APIAddr)
           /\ x.op = "store" => x.ep \in EpObject /\ x.obj \in EpObjects(x.ep) \cup {Nil}
<1>1. CASE x = PanicEpOp
  BY <1>1 DEF PanicEpOp
<1>2. CASE x \in EndpointOp /\ x \in KeepOp
  <2>1. x # PanicEpOp
    BY <1>2 DEF PanicEpOp, EndpointOp
  <2> QED BY <1>2, <2>1, EndpointOpFields DEF KeepOp, IsCall
<1> QED BY <1>1, <1>2 DEF KeepOp

\* An endpoint is added, to the API server or elsewhere.
LEMMA AddedEndpointSafe ==
    ASSUME BootstrapMade, PortsApart, APISafe, NEW spn \in ServicePortName, NEW addr \in Addr, NEW local \in BOOLEAN,
           NEW u, u = addEndpoint(spn, addr, local, Local(spn)), Commit(spn, u), proc = "running", proc' = "running"
    PROVE  PortsApart' /\ APISafe'
<1> DEFINE w == Local(spn)
<1>1. CASE spn = APIPort
  <2>1. ServesAPI(w) /\ w.sets = sets /\ SetsSafe(sets)
    BY <1>1, LocalFields DEF APISafe
  <2> HIDE DEF w
  <2>2. ServesAPI(u) /\ u.sets = Unrejected(w)
    BY <1>1, <2>1, AddReaches DEF w
  <2>3. Unrejected(w) = sets
    BY <2>1 DEF Unrejected, ServesAPI
  <2> QED BY <1>1, <2>1, <2>2, <2>3, CommitOwn
<1>2. CASE spn # APIPort
  <2>1. Calm(w)
    BY <1>2, OtherCalm
  <2>2. Calm(u)
    BY <2>1, AddEndpointCalm
  <2> QED BY <1>2, <2>2, CommitOther
<1> QED BY <1>1, <1>2

\* An endpoint is deleted, but not the API server's.
LEMMA DeletedEndpointSafe ==
    ASSUME BootstrapMade, PortsApart, APISafe, NEW spn \in ServicePortName, NEW addr \in Addr, NEW local \in BOOLEAN,
           ~(spn = APIPort /\ addr = APIAddr),
           NEW u, u = deleteEndpointLoop(spn, addr, local, Local(spn)), Commit(spn, u),
           proc = "running", proc' = "running"
    PROVE  PortsApart' /\ APISafe'
<1> DEFINE w == Local(spn)
<1>1. CASE spn = APIPort
  <2>1. ServesAPI(w) /\ w.sets = sets /\ SetsSafe(sets)
    BY <1>1, LocalFields DEF APISafe
  <2> HIDE DEF w
  <2>2. ServesAPI(u) /\ u.sets = w.sets
    BY <1>1, <2>1, DeleteReaches DEF w
  <2> QED BY <1>1, <2>1, <2>2, CommitOwn
<1>2. CASE spn # APIPort
  <2>1. Calm(w)
    BY <1>2, OtherCalm
  <2>2. Calm(u)
    BY <2>1, DeleteLoopCalm
  <2> QED BY <1>2, <2>2, CommitOther
<1> QED BY <1>1, <1>2

\* One step of the endpoints handlers.
LEMMA EndpointsStepSafe ==
    ASSUME BootstrapMade, BootInv, EndpointsStep
    PROVE  BootInv'
<1> DEFINE o == Head(epTodo)
<1>0. /\ proc = "running" /\ epTodo # <<>> /\ UNCHANGED <<apiEp, seenEp, apiSvc, seenSvc, svcCache, svcTodo, boot>>
  BY DEF EndpointsStep, EpHandler, EpStep, StepAddEndpoint, StepDeleteEndpoint, StepStoreEndpoints,
         StepPanicEndpoints, svcVars
<1>1. boot = <<>> /\ PortsApart /\ WorkAllowed /\ APISafe /\ ObjectsHeld
  BY <1>0, Settled DEF BootInv
<1>2. o \in KeepOp /\ Tail(epTodo) \in Seq(KeepOp) /\ <<>> \in Seq(KeepOp) /\ svcTodo \in Seq(HandlerOp)
  BY <1>0, <1>1, RangeHeadTail DEF WorkAllowed
<1>3. ASSUME epTodo' \in Seq(KeepOp), UNCHANGED epCache, proc' = "running" => PortsApart' /\ APISafe'
      PROVE  BootInv'
  <2>1. ObjectsHeld'
    BY <1>0, <1>1, <1>3, ObjectsStay
  <2>2. WorkAllowed'
    BY <1>0, <1>2, <1>3, WorkNext
  <2> QED BY <1>0, <1>1, <1>3, <2>1, <2>2, SettledNext
<1>4. CASE StepAddEndpoint
  <2> DEFINE u == addEndpoint(o.spn, o.addr, o.local, Local(o.spn))
  <2>1. /\ o.op = "add" /\ Commit(o.spn, u) /\ UNCHANGED epCache
        /\ epTodo' = IF u.res # "ok" /\ o.ends THEN <<>> ELSE Tail(epTodo)
    BY <1>4 DEF StepAddEndpoint, EpStep
  <2>2. o.spn \in ServicePortName /\ o.addr \in Addr /\ o.local \in BOOLEAN
    BY <1>2, <2>1, KeepOpFields
  <2>3. proc' = "running" => PortsApart' /\ APISafe'
    BY <1>0, <1>1, <2>1, <2>2, AddedEndpointSafe
  <2>4. epTodo' \in Seq(KeepOp)
    BY <1>2, <2>1
  <2> QED BY <1>3, <2>1, <2>3, <2>4
<1>5. CASE StepDeleteEndpoint
  <2> DEFINE u == deleteEndpointLoop(o.spn, o.addr, o.local, Local(o.spn))
  <2>1. o.op = "delete" /\ Commit(o.spn, u) /\ UNCHANGED epCache /\ epTodo' = Tail(epTodo)
    BY <1>5 DEF StepDeleteEndpoint, EpStep
  <2>2. /\ o.spn \in ServicePortName /\ o.addr \in Addr /\ o.local \in BOOLEAN
        /\ ~(o.spn = APIPort /\ o.addr = APIAddr)
    BY <1>2, <2>1, KeepOpFields
  <2>3. proc' = "running" => PortsApart' /\ APISafe'
    BY <1>0, <1>1, <2>1, <2>2, DeletedEndpointSafe
  <2> QED BY <1>2, <1>3, <2>1, <2>3
<1>6. CASE StepStoreEndpoints
  <2>1. o.op = "store" /\ UNCHANGED vars /\ epTodo' = Tail(epTodo) /\ epCache' = [epCache EXCEPT ![o.ep] = o.obj]
    BY <1>6 DEF StepStoreEndpoints, EpStep
  <2>2. o.ep \in EpObject /\ o.obj \in EpObjects(o.ep) \cup {Nil}
    BY <1>2, <2>1, KeepOpFields
  <2> HIDE DEF o
  <2>3. DOMAIN epCache' = EpObject /\ \A p \in EpObject : epCache'[p] \in EpObjects(p) \cup {Nil}
    BY <1>1, <2>1, <2>2 DEF ObjectsHeld
  <2>4. ObjectsHeld'
    BY <1>0, <1>1, <2>3 DEF ObjectsHeld, SvcTyped, EpTyped, Versions, EpObjects
  <2>5. WorkAllowed'
    BY <1>0, <1>2, <2>1, WorkNext
  <2>6. PortsApart' /\ APISafe'
    <3>1. UNCHANGED <<serviceMap, endpointsMap, svcChain, epChain, affinityMap, sets>>
      BY <2>1 DEF vars
    <3>2. SetsSafe(sets')
      BY <1>1, <3>1 DEF APISafe
    <3> QED BY <1>1, <3>1, <3>2, OnlySets
  <2> QED BY <1>0, <1>1, <2>4, <2>5, <2>6, SettledNext
<1>7. CASE StepPanicEndpoints
  <2>1. proc' # "running" /\ UNCHANGED <<epTodo, epCache>>
    BY <1>7 DEF StepPanicEndpoints, Stop
  <2> QED BY <1>1, <1>3, <2>1 DEF WorkAllowed
<1> QED BY <1>4, <1>5, <1>6, <1>7 DEF EndpointsStep, EpHandler

\* BootstrapRules adds the service port, then the endpoint.
LEMMA BootstrapStepSafe ==
    ASSUME BootstrapMade, BootInv, StepBootstrap
    PROVE  BootInv'
<1> DEFINE o == Head(boot)
           w == Local(APIPort)
<1>0. /\ proc = "running" /\ boot # <<>> /\ boot' = Tail(boot)
      /\ UNCHANGED <<apiSvc, seenSvc, svcCache, svcTodo, apiEp, seenEp, epCache, epTodo>>
      /\ \E u \in {IF o.op = "addPort" THEN addServicePort(o.spn, o.spec, Local(o.spn))
                   ELSE addEndpoint(o.spn, o.addr, o.local, Local(o.spn))} : Commit(o.spn, u)
  BY DEF StepBootstrap, svcVars, epVars
<1>1. ObjectsHeld' /\ PortsApart /\ NoWork' /\ NoWork
  <2>1. PortsApart /\ NoWork /\ ObjectsHeld
    BY <1>0 DEF BootInv, Bootstrapped
  <2>2. NoWork'
    BY <1>0, <2>1 DEF NoWork
  <2> QED BY <1>0, <2>1, <2>2, ObjectsStay
<1>2. SUFFICES ASSUME proc' = "running" PROVE PortsApart' /\ Bootstrapped'
  BY <1>1 DEF BootInv
<1>3. APIPort \in ServicePortName /\ BootstrapOps # <<>> /\ Tail(BootstrapOps) # <<>>
  BY APITypes, BootstrapHasTwo
<1>4. CASE boot = BootstrapOps /\ Fresh(w)
  <2> DEFINE u == addServicePort(APIPort, APISpec, w)
  <2>1. o.op = "addPort" /\ o.spn = APIPort /\ o.spec = APISpec
    BY <1>4, BootstrapHasTwo DEF AddPortOp
  <2>2. Commit(APIPort, u)
    BY <1>0, <2>1
  <2>3. Added(u) /\ APIElement \in u.sets
    BY <1>4, BootstrapAdds
  <2> HIDE DEF u, w, o
  <2>4. PortsApart' /\ Becomes(APIPort, u) /\ sets' = u.sets
    BY <1>0, <1>1, <1>2, <1>3, <2>2, CommitLeaves
  <2>5. Added(Local(APIPort))'
    BY <2>3, <2>4, ReachedAfter
  <2>6. boot' = Tail(BootstrapOps)
    BY <1>0, <1>4
  <2>7. APIElement \in sets'
    BY <2>3, <2>4
  <2> QED BY <1>1, <2>4, <2>5, <2>6, <2>7 DEF Bootstrapped
<1>5. CASE boot = Tail(BootstrapOps) /\ Added(w) /\ APIElement \in sets
  <2> DEFINE e == Bootstrap.eps[1]
             u == addEndpoint(APIPort, APIAddr, e.local, w)
  <2>0. e.name = APIPort /\ e.local \in BOOLEAN /\ APIAddr \in Addr
    <3>1. Bootstrap.eps \in Seq(EndpointEntry) /\ Len(Bootstrap.eps) = 1 /\ e.name = APIPort
      BY DEF BootstrapMade
    <3>2. 1 \in DOMAIN Bootstrap.eps
      BY <3>1, LenProperties
    <3> QED BY <3>1, <3>2, EntryFields, APITypes
  <2>1. o.op = "add" /\ o.spn = APIPort /\ o.addr = APIAddr /\ o.local = e.local
    BY <1>5, <2>0, BootstrapHasTwo DEF AddEpOp, APIAddr
  <2>2. Commit(APIPort, u)
    BY <1>0, <2>1
  <2> HIDE DEF e, o
  <2>3. ServesAPI(u) /\ u.sets = Unrejected(w)
    BY <1>5, <2>0, AddReaches
  <2>4. w.sets = sets
    BY LocalFields
  <2> HIDE DEF u, w
  <2>5. SetsSafe(u.sets)
    BY <1>5, <2>3, <2>4, BootstrapSafe
  <2>6. PortsApart' /\ APISafe'
    BY <1>0, <1>1, <1>2, <2>2, <2>3, <2>5, CommitOwn
  <2>7. boot' = <<>>
    BY <1>0, <1>5, BootstrapHasTwo
  <2>8. WorkAllowed'
    <3>1. <<>> \in Seq(HandlerOp) /\ <<>> \in Seq(KeepOp)
      OBVIOUS
    <3> QED BY <1>1, <3>1 DEF NoWork, WorkAllowed
  <2> QED BY <2>6, <2>7, <2>8 DEF Bootstrapped
<1> QED BY <1>0, <1>4, <1>5 DEF BootInv, Bootstrapped

(***************************************************************************)
(* Events, changes of the cluster, crashes and restarts.                   *)
(***************************************************************************)
\* The kernel and the process stay, once BootstrapRules is done.
LEMMA EventSafe ==
    ASSUME BootstrapMade, PortsApart, APISafe, boot = <<>>, boot' = <<>>, WorkAllowed', ObjectsHeld',
           UNCHANGED vars \/ proc' # "running"
    PROVE  BootInv'
<1>1. ASSUME UNCHANGED vars
      PROVE  PortsApart' /\ APISafe'
  <2>1. UNCHANGED <<serviceMap, endpointsMap, svcChain, epChain, affinityMap, sets>>
    BY <1>1 DEF vars
  <2>2. SetsSafe(sets')
    BY <2>1 DEF APISafe
  <2> QED BY <2>1, <2>2, OnlySets
<1> QED BY <1>1, SettledNext

\* An event of the Service informer.
LEMMA ServiceEventSafe ==
    ASSUME BootstrapMade, APIServiceStays, BootInv, NEW s \in Service, ServiceEvent(s)
    PROVE  BootInv'
<1>0. /\ boot = <<>> /\ boot' = <<>> /\ proc = "running"
      /\ UNCHANGED <<apiSvc, apiEp, seenEp, epCache, epTodo>> /\ (DeliverService(s) \/ DeliverServiceTombstone(s))
  BY DEF ServiceEvent, DeliverService, DeliverServiceTombstone, epVars, svcVars
<1>1. PortsApart /\ WorkAllowed /\ APISafe /\ ObjectsHeld
  BY <1>0, Settled DEF BootInv
<1>2. SvcTyped(apiSvc) /\ SvcTyped(seenSvc) /\ SvcTyped(svcCache)
  BY <1>1 DEF ObjectsHeld
<1>3. CASE DeliverServiceTombstone(s)
  <2>1. proc' # "running" /\ UNCHANGED <<seenSvc, svcCache, svcTodo>>
    BY <1>3 DEF DeliverServiceTombstone, Stop, svcVars
  <2>2. ObjectsHeld' /\ WorkAllowed'
    BY <1>0, <1>1, <2>1, ObjectsStay DEF WorkAllowed
  <2> QED BY <1>0, <1>1, <2>1, <2>2, EventSafe
<1>4. CASE DeliverService(s)
  <2> DEFINE old == seenSvc[s]
             new == apiSvc[s]
             stored == IF svcCache[s] = Nil THEN old ELSE svcCache[s]
  <2>1. /\ old # new /\ UNCHANGED vars /\ seenSvc' = [seenSvc EXCEPT ![s] = new]
        /\ svcCache' = IF old = Nil THEN [svcCache EXCEPT ![s] = new] ELSE svcCache
        /\ svcTodo' = IF old = Nil THEN AddServiceOps(s, new)
                      ELSE IF new = Nil THEN DeleteServiceOps(s, old)
                      ELSE UpdateServiceOps(s, new, stored)
    BY <1>4 DEF DeliverService
  <2>2. /\ old \in Versions(s) \cup {Nil} /\ new \in Versions(s) \cup {Nil} /\ svcCache[s] \in Versions(s) \cup {Nil}
        /\ Nil \notin Versions(s)
    BY <1>2 DEF SvcTyped, Versions
  <2>3. SvcTyped(seenSvc') /\ SvcTyped(svcCache') /\ seenSvc'[s] = new
        /\ \A r \in Service : r # s => seenSvc'[r] = seenSvc[r]
    <3>1. SvcTyped([seenSvc EXCEPT ![s] = new]) /\ SvcTyped([svcCache EXCEPT ![s] = new])
      BY <1>2, <2>2, SvcTypedExcept
    <3>2. seenSvc \in [Service -> ServiceObject \cup {Nil}]
      BY <1>2 DEF SvcTyped
    <3>3. seenSvc'[s] = new /\ \A r \in Service : r # s => seenSvc'[r] = seenSvc[r]
      BY <2>1, <3>2
    <3> QED BY <1>2, <2>1, <3>1, <3>3
  <2>4. Bootstrap.svc \in Service /\ (apiSvc'[Bootstrap.svc] = Nil => seenSvc'[Bootstrap.svc] = Nil)
    <3>1. Bootstrap.svc \in Service
      BY DEF BootstrapMade
    <3> QED BY <1>0, <1>1, <2>3, <3>1 DEF ObjectsHeld
  <2>5. ObjectsHeld'
    BY <1>0, <1>1, <2>3, <2>4 DEF ObjectsHeld, SvcTyped, EpTyped, Versions, EpObjects
  <2>6. svcTodo' \in Seq(HandlerOp)
    <3>1. CASE s = Bootstrap.svc
      <4>1. Versions(s) = {Bootstrap.obj}
        BY <3>1, APITypes DEF Versions, APIServiceStays
      <4>2. old = Nil /\ new = Bootstrap.obj
        BY <1>1, <2>1, <2>2, <3>1, <4>1 DEF ObjectsHeld
      <4> DEFINE x == AddPortOp(APIPort, APISpec)
      <4>3. svcTodo' = <<x>>
        BY <2>1, <3>1, <4>2, APIServiceAdds
      <4>4. x \in HandlerOp
        BY DEF HandlerOp
      <4> HIDE DEF x
      <4> QED BY <4>3, <4>4
    <3>2. CASE s # Bootstrap.svc
      <4>1. s \in Service \ {Bootstrap.svc}
        BY <3>2
      <4>2. CASE old = Nil
        BY <2>1, <2>2, <4>1, <4>2, AddServiceAllowed
      <4>3. CASE old # Nil /\ new = Nil
        BY <2>1, <2>2, <4>1, <4>3, DeleteServiceAllowed
      <4>4. CASE old # Nil /\ new # Nil
        <5>1. stored \in Versions(s) /\ new \in Versions(s)
          BY <2>2, <4>4
        <5> HIDE DEF stored
        <5> QED BY <2>1, <4>1, <4>4, <5>1, UpdateServiceAllowed
      <4> QED BY <4>2, <4>3, <4>4
    <3> QED BY <3>1, <3>2
  <2>7. WorkAllowed'
    BY <1>0, <1>1, <2>6 DEF WorkAllowed
  <2> QED BY <1>0, <1>1, <2>1, <2>5, <2>7, EventSafe
<1> QED BY <1>0, <1>3, <1>4

\* An event of the Endpoints or EndpointSlice informer.
LEMMA EndpointsEventSafe ==
    ASSUME BootstrapMade, APIAddressStays, BootInv, NEW o \in EpObject, EndpointsEvent(o)
    PROVE  BootInv'
<1>0. /\ boot = <<>> /\ boot' = <<>> /\ proc = "running"
      /\ UNCHANGED <<apiEp, apiSvc, seenSvc, svcCache, svcTodo>>
      /\ (DeliverEndpoints(o) \/ DeliverEndpointsTombstone(o))
  BY DEF EndpointsEvent, DeliverEndpoints, DeliverEndpointsTombstone, epVars, svcVars
<1>1. PortsApart /\ WorkAllowed /\ APISafe /\ ObjectsHeld
  BY <1>0, Settled DEF BootInv
<1>2. /\ EpTyped(apiEp) /\ EpTyped(seenEp) /\ \A p \in EpObject : epCache[p] \in EpObjects(p) \cup {Nil}
      /\ DOMAIN epCache = EpObject
  BY <1>1 DEF ObjectsHeld
<1>3. ASSUME NEW obj \in EpVersions[o] \cup {Nil}, apiEp[o] = Nil => obj = Nil, seenEp' = [seenEp EXCEPT ![o] = obj],
             DOMAIN epCache' = EpObject, \A p \in EpObject : epCache'[p] \in EpObjects(p) \cup {Nil}
      PROVE  ObjectsHeld'
  <2>1. EpTyped(seenEp') /\ seenEp'[o] = obj /\ \A p \in EpObject : p # o => seenEp'[p] = seenEp[p]
    <3>1. EpTyped(seenEp')
      BY <1>2, <1>3, EpTypedExcept
    <3>2. seenEp \in [EpObject -> Seq(EndpointEntry) \cup {Nil}]
      BY <1>2 DEF EpTyped
    <3>3. seenEp'[o] = obj /\ \A p \in EpObject : p # o => seenEp'[p] = seenEp[p]
      BY <1>3, <3>2
    <3> QED BY <3>1, <3>3
  <2>2. \A p \in EpObject : apiEp'[p] = Nil /\ Nil \notin EpVersions[p] => seenEp'[p] = Nil
    BY <1>0, <1>1, <1>3, <2>1 DEF ObjectsHeld
  <2> QED BY <1>0, <1>1, <1>3, <2>1, <2>2 DEF ObjectsHeld, SvcTyped, EpTyped, Versions, EpObjects
<1>4. CASE DeliverEndpointsTombstone(o)
  <2>1. UNCHANGED <<epCache, epTodo>>
    BY <1>4 DEF DeliverEndpointsTombstone
  <2>2. seenEp' = [seenEp EXCEPT ![o] = Nil] /\ (UNCHANGED vars \/ proc' # "running")
    BY <1>4 DEF DeliverEndpointsTombstone, Stop
  <2>3. ObjectsHeld'
    BY <1>2, <1>3, <2>1, <2>2
  <2>4. WorkAllowed'
    BY <1>0, <1>1, <2>1 DEF WorkAllowed
  <2> QED BY <1>0, <1>1, <2>2, <2>3, <2>4, EventSafe
<1>5. CASE DeliverEndpoints(o)
  <2> DEFINE old == seenEp[o]
             new == apiEp[o]
             stored == IF epCache[o] = Nil THEN old ELSE epCache[o]
  <2>1. /\ old # new /\ UNCHANGED vars /\ seenEp' = [seenEp EXCEPT ![o] = new]
        /\ epCache' = IF old = Nil THEN [epCache EXCEPT ![o] = new] ELSE epCache
        /\ epTodo' = IF old = Nil THEN AddOps(new)
                     ELSE IF new = Nil THEN DeleteOps(o, old)
                     ELSE UpdateOps(o, new, stored)
    BY <1>5 DEF DeliverEndpoints
  <2>2. /\ old \in EpVersions[o] \cup {Nil} /\ new \in EpVersions[o] \cup {Nil} /\ epCache[o] \in EpObjects(o) \cup {Nil}
        /\ old \in Seq(EndpointEntry) \cup {Nil} /\ new \in Seq(EndpointEntry) \cup {Nil}
        /\ EpVersions[o] \subseteq EpObjects(o)
    BY <1>2 DEF EpTyped, EpObjects
  <2> HIDE DEF old, new
  <2>3. DOMAIN epCache' = EpObject /\ \A p \in EpObject : epCache'[p] \in EpObjects(p) \cup {Nil}
    BY <1>2, <2>1, <2>2
  <2>4. ObjectsHeld'
    BY <1>3, <2>1, <2>2, <2>3 DEF new
  <2>5. epTodo' \in Seq(KeepOp)
    <3>1. CASE old = Nil
      <4>1. new \in Seq(EndpointEntry)
        BY <2>1, <2>2, <3>1
      <4> QED BY <2>1, <3>1, <4>1, AddOpsKept
    <3>2. CASE old # Nil /\ new = Nil
      <4>1. Nil \in EpVersions[o]
        BY <1>1, <3>2 DEF ObjectsHeld, old, new
      <4>2. ~HasAPI(Nil) /\ Nil \in EpObjects(o) /\ old \in EpObjects(o)
        BY <2>2, <3>2, <4>1 DEF HasAPI
      <4>3. ~HasAPI(old)
        BY <4>2 DEF APIAddressStays
      <4>4. old \in Seq(EndpointEntry)
        BY <2>2, <3>2
      <4> QED BY <2>1, <3>2, <4>3, <4>4, DeleteOpsKept
    <3>3. CASE old # Nil /\ new # Nil
      <4>1. new \in EpObjects(o) /\ stored \in EpObjects(o) /\ stored # Nil
        BY <2>2, <3>3
      <4> HIDE DEF stored
      <4> QED BY <2>1, <3>3, <4>1, UpdateOpsKept
    <3> QED BY <3>1, <3>2, <3>3
  <2>6. WorkAllowed'
    BY <1>0, <1>1, <2>5 DEF WorkAllowed
  <2> QED BY <1>0, <1>1, <2>1, <2>4, <2>6, EventSafe
<1> QED BY <1>0, <1>4, <1>5

\* Steps of the cluster, or of nobody.
LEMMA ClusterSafe ==
    ASSUME BootInv, ObjectsHeld', UNCHANGED <<vars, svcTodo, epTodo, boot>>
    PROVE  BootInv'
<1>1. /\ UNCHANGED <<serviceMap, endpointsMap, svcChain, epChain, affinityMap, sets, proc>>
  BY DEF vars
<1>2. Local(APIPort)' = Local(APIPort)
  BY <1>1 DEF Local, APIPort
<1>3. ASSUME PortsApart
      PROVE  PortsApart'
  BY <1>1, <1>3 DEF PortsApart
<1>4. ASSUME Bootstrapped
      PROVE  Bootstrapped'
  BY <1>1, <1>2, <1>4 DEF Bootstrapped, NoWork, WorkAllowed, APISafe
<1> QED BY <1>1, <1>3, <1>4 DEF BootInv

\* A Service object changes.
LEMMA ChangeServiceSafe ==
    ASSUME BootstrapMade, APIServiceStays, BootInv, NEW s \in Service, ChangeService(s)
    PROVE  BootInv'
<1>1. PICK obj \in SvcVersions[s] : apiSvc' = [apiSvc EXCEPT ![s] = obj]
  BY DEF ChangeService
<1>2. ObjectsHeld /\ SvcTyped(apiSvc) /\ Bootstrap.svc \in Service
  BY DEF BootInv, ObjectsHeld, BootstrapMade
<1>3. obj \in Versions(s) \cup {Nil}
  BY DEF Versions
<1>4. SvcTyped(apiSvc') /\ apiSvc'[s] = obj /\ \A r \in Service : r # s => apiSvc'[r] = apiSvc[r]
  <2>1. SvcTyped(apiSvc')
    BY <1>1, <1>2, <1>3, SvcTypedExcept
  <2>2. apiSvc \in [Service -> ServiceObject \cup {Nil}]
    BY <1>2 DEF SvcTyped
  <2>3. apiSvc'[s] = obj /\ \A r \in Service : r # s => apiSvc'[r] = apiSvc[r]
    BY <1>1, <2>2
  <2> QED BY <2>1, <2>3
<1>5. s = Bootstrap.svc => obj # Nil
  BY APITypes DEF APIServiceStays
<1>6. UNCHANGED <<vars, seenSvc, svcCache, svcTodo, apiEp, seenEp, epCache, epTodo, boot>>
  BY DEF ChangeService, epVars
<1>7. apiSvc'[Bootstrap.svc] = Nil => seenSvc'[Bootstrap.svc] = Nil
  BY <1>2, <1>4, <1>5, <1>6 DEF ObjectsHeld
<1>8. ObjectsHeld'
  BY <1>2, <1>4, <1>6, <1>7 DEF ObjectsHeld, SvcTyped, EpTyped, Versions, EpObjects
<1> QED BY <1>6, <1>8, ClusterSafe

\* An Endpoints object or slice changes.
LEMMA ChangeEndpointsSafe ==
    ASSUME BootInv, NEW o \in EpObject, ChangeEndpoints(o)
    PROVE  BootInv'
<1>1. PICK obj \in EpVersions[o] : apiEp' = [apiEp EXCEPT ![o] = obj]
  BY DEF ChangeEndpoints
<1>2. ObjectsHeld /\ EpTyped(apiEp)
  BY DEF BootInv, ObjectsHeld
<1>3. EpTyped(apiEp') /\ apiEp'[o] = obj /\ \A p \in EpObject : p # o => apiEp'[p] = apiEp[p]
  <2>1. EpTyped(apiEp')
    BY <1>1, <1>2, EpTypedExcept
  <2>2. apiEp \in [EpObject -> Seq(EndpointEntry) \cup {Nil}]
    BY <1>2 DEF EpTyped
  <2>3. apiEp'[o] = obj /\ \A p \in EpObject : p # o => apiEp'[p] = apiEp[p]
    BY <1>1, <2>2
  <2> QED BY <2>1, <2>3
<1>4. UNCHANGED <<vars, seenSvc, svcCache, svcTodo, apiSvc, seenEp, epCache, epTodo, boot>>
  BY DEF ChangeEndpoints, svcVars
<1>5. \A p \in EpObject : apiEp'[p] = Nil /\ Nil \notin EpVersions[p] => seenEp'[p] = Nil
  BY <1>2, <1>3, <1>4 DEF ObjectsHeld
<1>6. ObjectsHeld'
  BY <1>2, <1>3, <1>4, <1>5 DEF ObjectsHeld, SvcTyped, EpTyped, Versions, EpObjects
<1> QED BY <1>4, <1>6, ClusterSafe

\* The caches after BootstrapRules, and the objects before the first event.
LEMMA FirstObjects ==
    ASSUME BootstrapMade, APIServiceStays
    PROVE  /\ SvcTyped(FirstSvcCache) /\ SvcTyped([s \in Service |-> Nil]) /\ EpTyped([o \in EpObject |-> Nil])
           /\ DOMAIN FirstEpCache = EpObject /\ \A o \in EpObject : FirstEpCache[o] \in EpObjects(o) \cup {Nil}
<1>1. Bootstrap.obj \in ServiceObject /\ Bootstrap.obj # Nil /\ Bootstrap.obj \in Versions(Bootstrap.svc)
  BY APITypes DEF BootstrapMade, APIServiceStays, Versions
<1>2. SvcTyped(FirstSvcCache)
  BY <1>1 DEF SvcTyped, FirstSvcCache
<1>3. DOMAIN FirstEpCache = EpObject /\ \A o \in EpObject : FirstEpCache[o] \in EpObjects(o) \cup {Nil}
  BY DEF FirstEpCache, EpObjects
<1>4. SvcTyped([s \in Service |-> Nil]) /\ EpTyped([o \in EpObject |-> Nil])
  BY DEF SvcTyped, EpTyped
<1> QED BY <1>2, <1>3, <1>4

\* The first state.
LEMMA BootInitially ==
    ASSUME BootstrapMade, APIServiceStays, NFInit
    PROVE  BootInv
<1>1. /\ apiSvc = [s \in Service |-> Nil] /\ seenSvc = [s \in Service |-> Nil]
      /\ apiEp = [o \in EpObject |-> Nil] /\ seenEp = [o \in EpObject |-> Nil]
      /\ svcCache = FirstSvcCache /\ epCache = FirstEpCache
      /\ svcTodo = <<>> /\ epTodo = <<>> /\ boot = BootstrapOps
  BY DEF NFInit
<1>2. Bootstrap.svc \in Service
  BY DEF BootstrapMade
<1>3. ObjectsHeld
  BY <1>1, <1>2, FirstObjects DEF ObjectsHeld
<1>4. /\ serviceMap = [spn \in ServicePortName |-> Nil]
      /\ endpointsMap = [spn \in ServicePortName |-> <<>>]
      /\ svcChain = [spn \in ServicePortName |-> [id \in SvcKey |-> Nil]]
      /\ epChain = [spn \in ServicePortName |-> [a \in Addr |-> Nil]]
      /\ affinityMap = [spn \in ServicePortName |-> [id \in SvcKey |-> Nil]]
      /\ sets = {}
  BY DEF NFInit, Init
<1>5. PortsApart
  BY <1>4 DEF PortsApart, Apart
<1>6. Fresh(Local(APIPort))
  <2> DEFINE w == Local(APIPort)
  <2>1. /\ DOMAIN w = Fields /\ w.svc = Nil /\ w.eps = <<>> /\ w.sets = {} /\ w.res = "ok"
        /\ w.sc = [id \in SvcKey |-> Nil] /\ w.ec = [a \in Addr |-> Nil]
    BY <1>4, APITypes, LocalFields
  <2> HIDE DEF w
  <2>2. Fresh(w)
    BY <2>1, APITypes DEF Fresh
  <2> QED BY <2>2 DEF w
<1> QED BY <1>1, <1>3, <1>5, <1>6 DEF BootInv, Bootstrapped, NoWork

\* The state after a restart.
LEMMA RestartSafe ==
    ASSUME BootstrapMade, APIServiceStays, BootInv, RestartProcess
    PROVE  BootInv'
<1>1. /\ seenSvc' = [s \in Service |-> Nil] /\ seenEp' = [o \in EpObject |-> Nil]
      /\ svcCache' = FirstSvcCache /\ epCache' = FirstEpCache
      /\ svcTodo' = <<>> /\ epTodo' = <<>> /\ boot' = BootstrapOps /\ UNCHANGED <<apiSvc, apiEp>>
  BY DEF RestartProcess
<1>2. Bootstrap.svc \in Service /\ SvcTyped(apiSvc) /\ EpTyped(apiEp)
  BY DEF BootstrapMade, BootInv, ObjectsHeld
<1>3. ObjectsHeld'
  <2>1. SvcTyped(apiSvc') /\ SvcTyped(seenSvc') /\ SvcTyped(svcCache') /\ EpTyped(apiEp') /\ EpTyped(seenEp')
    BY <1>1, <1>2, FirstObjects
  <2>2. DOMAIN epCache' = EpObject /\ \A o \in EpObject : epCache'[o] \in EpObjects(o) \cup {Nil}
    BY <1>1, FirstObjects
  <2>3. seenSvc'[Bootstrap.svc] = Nil /\ \A o \in EpObject : seenEp'[o] = Nil
    BY <1>1, <1>2
  <2> QED BY <2>1, <2>2, <2>3 DEF ObjectsHeld, SvcTyped, EpTyped, Versions, EpObjects
<1>4. /\ serviceMap' = [spn \in ServicePortName |-> Nil]
      /\ endpointsMap' = [spn \in ServicePortName |-> <<>>]
      /\ svcChain' = [spn \in ServicePortName |-> [id \in SvcKey |-> Nil]]
      /\ epChain' = [spn \in ServicePortName |-> [a \in Addr |-> Nil]]
      /\ affinityMap' = [spn \in ServicePortName |-> [id \in SvcKey |-> Nil]]
      /\ sets' = {}
  BY DEF RestartProcess, Restart
<1>5. PortsApart'
  BY <1>4 DEF PortsApart, Apart
<1>6. Fresh(Local(APIPort))'
  <2> DEFINE w == Local(APIPort)'
  <2>1. /\ DOMAIN w = Fields /\ w.svc = Nil /\ w.eps = <<>> /\ w.sets = {} /\ w.res = "ok"
        /\ w.sc = [id \in SvcKey |-> Nil] /\ w.ec = [a \in Addr |-> Nil]
    BY <1>4, APITypes DEF Local, Fields, APIPort
  <2> HIDE DEF w
  <2>2. Fresh(w)
    BY <2>1, APITypes DEF Fresh
  <2> QED BY <2>2 DEF w
<1> QED BY <1>1, <1>3, <1>5, <1>6 DEF BootInv, Bootstrapped, NoWork

\* Every step keeps the invariant.
LEMMA BootInvStep ==
    ASSUME BootstrapMade, APIServiceStays, APIAddressStays, BootInv, NFNext
    PROVE  BootInv'
<1>1. ASSUME NEW s \in Service, ChangeService(s) \/ ServiceEvent(s)
      PROVE  BootInv'
  BY <1>1, ChangeServiceSafe, ServiceEventSafe
<1>2. ASSUME NEW o \in EpObject, ChangeEndpoints(o) \/ EndpointsEvent(o)
      PROVE  BootInv'
  BY <1>2, ChangeEndpointsSafe, EndpointsEventSafe
<1>3. CASE ServiceStep
  BY <1>3, ServiceStepSafe
<1>4. CASE EndpointsStep
  BY <1>4, EndpointsStepSafe
<1>5. CASE StepBootstrap
  BY <1>5, BootstrapStepSafe
<1>6. CASE KillProcess
  <2>1. proc' # "running" /\ UNCHANGED <<apiSvc, seenSvc, svcCache, apiEp, seenEp, epCache>>
    BY <1>6 DEF KillProcess, Kill, Stop, svcVars, epVars
  <2> QED BY <2>1, ObjectsStay DEF BootInv
<1>7. CASE RestartProcess
  BY <1>7, RestartSafe
<1>8. CASE Done
  <2>1. UNCHANGED <<vars, svcTodo, epTodo, boot, apiSvc, seenSvc, svcCache, apiEp, seenEp, epCache>>
    BY <1>8 DEF Done, nfVars, svcVars, epVars
  <2>2. ObjectsHeld'
    BY <2>1, ObjectsStay DEF BootInv
  <2> QED BY <2>1, <2>2, ClusterSafe
<1> QED BY <1>1, <1>2, <1>3, <1>4, <1>5, <1>6, <1>7, <1>8 DEF NFNext

\* So does no step.
LEMMA BootInvStutters ==
    ASSUME BootInv, UNCHANGED nfVars
    PROVE  BootInv'
<1>1. UNCHANGED <<vars, svcTodo, epTodo, boot, apiSvc, seenSvc, svcCache, apiEp, seenEp, epCache>>
  BY DEF nfVars, svcVars, epVars
<1>2. ObjectsHeld'
  BY <1>1, ObjectsStay DEF BootInv
<1> QED BY <1>1, <1>2, ClusterSafe

\* The API server's address is served and not rejected.
LEMMA ReachableThen ==
    ASSUME BootstrapMade, BootInv
    PROVE  APIServerReachable
<1> SUFFICES ASSUME proc = "running", boot = <<>>, NEW i \in DOMAIN Bootstrap.obj.ports
             PROVE  LET spn == getSvcPortName(Bootstrap.svc, Bootstrap.obj.ports[i])
                        ref == <<spn, <<Bootstrap.obj.ip, Bootstrap.obj.ports[i].port>>>>
                    IN  /\ ServedAddresses(spn) # {}
                        /\ Element("cluster", spn, ref[2][1], ref[2][2], ref) \in sets
                        /\ Element("noendpoints", spn, ref[2][1], ref[2][2], Nil) \notin sets
  BY DEF APIServerReachable
<1>1. i = 1 /\ APIAddr \in Addr
  BY APITypes
<1>2. APISafe
  BY Settled
<1> DEFINE w == Local(APIPort)
<1>3. ServesAPI(w) /\ w.svc = serviceMap[APIPort] /\ w.sc = svcChain[APIPort] /\ w.ec = epChain[APIPort]
  BY <1>2, LocalFields DEF APISafe
<1> HIDE DEF w
<1>4. serviceMap[APIPort] # Nil /\ SvcID(serviceMap[APIPort]) = APIID
  BY <1>3, NilAssumption DEF ServesAPI, APIKnown
<1>5. JumpsTo(svcChain[APIPort][APIID], APIAddr)
  BY <1>3 DEF ServesAPI, Leads
<1>6. /\ epChain[APIPort][APIAddr] # Nil
      /\ \E k \in DOMAIN epChain[APIPort][APIAddr] : epChain[APIPort][APIAddr][k].kind = "dnat"
  BY <1>3, NilAssumption DEF ServesAPI, Translates
<1>7. APIAddr \in ServedAddresses(APIPort)
  BY <1>1, <1>4, <1>5, <1>6 DEF ServedAddresses
<1>8. APIElement \in sets /\ APIReject \notin sets
  BY <1>2 DEF APISafe, SetsSafe
<1> QED BY <1>1, <1>7, <1>8 DEF APIElement, APIReject, APIID, APIPort

\* From the end of BootstrapRules on, connections to the API server are
\* balanced and never rejected: through the informers' own adds and updates of
\* the kubernetes objects, which find their work done, while other services and
\* endpoints come and go, panics included, and after every restart.  The API
\* server must stay where main was told it is.
THEOREM APIServerAlwaysReachable ==
    ASSUME BootstrapMade, APIServiceStays, APIAddressStays
    PROVE  NFSpec => []APIServerReachable
<1>1. NFInit => BootInv
  BY BootInitially
<1>2. BootInv /\ [NFNext]_nfVars => BootInv'
  BY BootInvStep, BootInvStutters
<1>3. BootInv => APIServerReachable
  BY ReachableThen
<1> QED BY <1>1, <1>2, <1>3, PTL DEF NFSpec
=============================================================================
