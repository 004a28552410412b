------------------------------ MODULE MCNFProxy ------------------------------
(***************************************************************************)
(* Small clusters for NFProxy: one service "s1", the Service and Endpoints *)
(* objects it may have in turn.                                            *)
(***************************************************************************)
EXTENDS NFProxy, Refinement

CONSTANTS ip1, ip2, ip3

P(name, port, nodePort) == [name |-> name, proto |-> "TCP", port |-> port, nodePort |-> nodePort]
Obj(ports, ext, lb, aff) == [ip |-> ip1, ports |-> ports, ext |-> ext, lb |-> lb, aff |-> aff]
EP(name, addr, local, ready) ==
    [name |-> [svc |-> "s1", port |-> name, proto |-> "TCP"],
     addr |-> addr, local |-> local, ready |-> ready]
E(name, addr) == EP(name, addr, FALSE, TRUE)

MCLists == {<<>>, <<ip2>>, <<ip3>>, <<ip2, ip3>>}
MCUpdatedSets == SetNames \ {"noendpoints"}

\* A second port comes and goes, the port is renumbered, renamed, gets and
\* loses a node port; external and load balancer addresses come and go.
ServiceVersions ==
    "s1" :> {Nil, Obj(<<P("http", 80, 0)>>, <<>>, <<>>, Nil),
             Obj(<<P("http", 80, 0), P("https", 443, 0)>>, <<>>, <<>>, Nil),
             Obj(<<P("http", 8080, 0)>>, <<>>, <<>>, Nil),
             Obj(<<P("web", 80, 0)>>, <<>>, <<>>, Nil),
             Obj(<<P("http", 80, 8080)>>, <<>>, <<>>, Nil),
             Obj(<<P("http", 80, 0), P("https", 443, 0)>>, <<ip2>>, <<>>, Nil),
             Obj(<<P("http", 80, 0), P("https", 443, 0)>>, <<>>, <<ip3>>, Nil),
             Obj(<<P("http", 80, 0)>>, <<ip2>>, <<ip3>>, Nil),
             Obj(<<P("http", 80, 8080)>>, <<ip2>>, <<ip3>>, Nil)}
ServiceEndpoints ==
    "s1" :> {Nil, <<E("https", "a1"), E("http", "a1")>>, <<E("http", "a2"), E("https", "a1")>>}

\* Session affinity comes and goes.
AffinityVersions ==
    "s1" :> {Nil, Obj(<<P("http", 80, 0), P("https", 443, 0)>>, <<>>, <<>>, Nil),
             Obj(<<P("http", 80, 0), P("https", 443, 0)>>, <<>>, <<>>, 10)}
AffinityEndpoints ==
    "s1" :> {Nil, <<E("http", "a1"), E("https", "a1")>>,
             <<E("http", "a1"), E("http", "a2"), E("https", "a2")>>}

\* With an update that makes the proxy panic: a port gets a node port while
\* it moves to a place the stored object does not have.  So does session
\* affinity that comes before the first endpoint.
CrashVersions ==
    "s1" :> AffinityVersions["s1"] \cup
            {Obj(<<P("web", 8080, 0), P("http", 80, 0), P("https", 443, 8080)>>, <<>>, <<>>, Nil)}

\* A service without a cluster IP gets one.
AddressLaterVersions ==
    "s1" :> {Obj(<<P("http", 80, 0)>>, <<>>, <<>>, Nil),
             [Obj(<<P("http", 80, 0)>>, <<>>, <<>>, Nil) EXCEPT !.ip = Nil]}

\* Session affinity comes together with a second port.
StickyVersions ==
    "s1" :> {Nil, Obj(<<P("http", 80, 0)>>, <<>>, <<>>, Nil),
             Obj(<<P("http", 80, 0), P("https", 443, 0)>>, <<>>, <<>>, 10),
             Obj(<<P("http", 80, 0), P("https", 443, 0)>>, <<>>, <<>>, Nil)}

\* The first port takes the number of the second one, which is dropped.
TakenVersions ==
    "s1" :> {Nil, Obj(<<P("http", 80, 0), P("https", 443, 0)>>, <<>>, <<>>, Nil),
             Obj(<<P("http", 443, 0)>>, <<>>, <<>>, Nil)}

\* The port is renumbered.
RenumberedVersions ==
    "s1" :> {Nil, Obj(<<P("http", 80, 0)>>, <<>>, <<>>, Nil),
             Obj(<<P("http", 8080, 0)>>, <<>>, <<>>, Nil)}

\* One port with a node port, one of two ports is dropped.
SiblingVersions ==
    "s1" :> {Nil, Obj(<<P("http", 80, 8080), P("https", 443, 0)>>, <<>>, <<>>, Nil),
             Obj(<<P("http", 80, 8080)>>, <<>>, <<>>, Nil)}

\* Two services that keep to what the proofs ask of a cluster (ServicesApart,
\* EntriesApart): the ports and external addresses of one come and go, the
\* other has a node port and session affinity; they share an endpoint address.
TwoVersions ==
    ("s1" :> {Nil, Obj(<<P("http", 80, 0)>>, <<>>, <<>>, Nil),
              Obj(<<P("http", 80, 0), P("https", 443, 0)>>, <<ip3>>, <<>>, Nil)})
    @@ ("s2" :> {Nil, [Obj(<<P("web", 80, 8080)>>, <<>>, <<>>, 10) EXCEPT !.ip = ip2]})
TwoEndpoints ==
    ("s1" :> {Nil, <<E("http", "a1")>>, <<E("http", "a2"), E("https", "a1")>>})
    @@ ("s2" :> {Nil, <<[E("web", "a1") EXCEPT !.name.svc = "s2"]>>})

\* One port, that of the service or that of the API server.
OnePort == "s1" :> {Nil, Obj(<<P("http", 80, 0)>>, <<>>, <<>>, Nil)}
NoEndpoints == "s1" :> {Nil}

\* A pod is moved to the node of the proxy and keeps its address.
MovingEndpoints ==
    "s1" :> {Nil, <<E("http", "a1")>>, <<EP("http", "a1", TRUE, TRUE)>>}

\* Two slices of one service: the addresses of each come and go, become ready
\* and not ready, and lose their Ready condition.
SliceVersions ==
    [sl1 |-> {Nil, <<E("http", "a1")>>, <<EP("http", "a1", FALSE, FALSE), E("http", "a2")>>,
              <<E("http", "a1"), EP("http", "a2", FALSE, FALSE)>>},
     sl2 |-> {Nil, <<E("http", "a3")>>, <<EP("http", "a3", FALSE, Nil)>>}]

\* An address moves from one slice to the other and is in both for a while.
MovingSlices ==
    [sl1 |-> {<<E("http", "a1")>>, <<>>}, sl2 |-> {<<E("http", "a1")>>}]

\* An endpoint without the Ready condition.
UnknownSlices == [sl1 |-> {<<E("http", "a1")>>, <<EP("http", "a1", FALSE, Nil)>>}]
OneSlice == [sl1 |-> {Nil, <<E("http", "a1")>>}]

\* The API server, at the address the environment gives, moves to others.
APIServerVersions == "s1" :> {Obj(<<P("http", 80, 0)>>, <<>>, <<>>, Nil)}
APIServerEndpoints ==
    "s1" :> {<<E("http", "a1")>>, <<E("http", "a2")>>, <<E("http", "a1"), E("http", "a3")>>}
MCBootstrap ==
    [svc |-> "s1", obj |-> Obj(<<P("http", 80, 0)>>, <<>>, <<>>, Nil),
     ep |-> "s1", eps |-> <<E("http", "a1")>>]
\* Two services, of which the first is the API server's and stays as main was
\* told of it; its first address stays, others come and go.  The second loses
\* its cluster IP at times.
BootVersions ==
    ("s1" :> {Obj(<<P("http", 80, 0)>>, <<>>, <<>>, Nil)})
    @@ ("s2" :> {Nil, [Obj(<<P("http", 80, 8080), P("https", 443, 0)>>, <<>>, <<>>, Nil) EXCEPT !.ip = Nil],
                 [Obj(<<P("http", 80, 8080), P("https", 443, 0)>>, <<ip3>>, <<>>, 10) EXCEPT !.ip = ip2]})
BootEndpoints ==
    ("s1" :> {<<E("http", "a1")>>, <<E("http", "a2"), E("http", "a1")>>})
    @@ ("s2" :> {Nil, <<[E("http", "a1") EXCEPT !.name.svc = "s2"]>>})
=============================================================================
