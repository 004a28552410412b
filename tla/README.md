# nfproxy in TLA+

nfproxy is a kube-proxy replacement that programs nftables instead of iptables. It watches
Service and Endpoints (or EndpointSlice) objects and keeps two nftables tables in step with them.
This directory models the part of it that carries state, checks it with TLC on small clusters, and
proves what matters most with TLAPS for clusters of any size.

## 1. The system

| part | source | state it keeps | operations |
|---|---|---|---|
| proxy | `pkg/proxy/proxy.go`, `proxy_service.go`, `proxy_endpoints.go` | `serviceMap`, `endpointsMap`, one mutex | `addServicePort`, `deleteServicePort`, `addEndpoint`, `deleteEndpoint`, `processAffinityChange`, `updateServiceChain` |
| nftables programming | `pkg/nftables/nftables.go` | the rule handles in `RuleID`; in the kernel, chains, affinity maps and set elements | `ProgramServiceEndpoints`, `AddEndpointRules`, `AddEndpointUpdateRule`, `AddServiceAffinityMap`, `AddServiceMatchActRule`, the deletes |
| common sets | `pkg/proxy/sets.go` | six sets: cluster IP, external IP, load balancer, node port, masquerade, no endpoints | fill and clear the sets for a service port |
| service handlers | `proxy_service.go` | the cached Service object | `AddService`, `UpdateService` (ports, cluster IP, external, load balancer, affinity), `DeleteService` |
| endpoints handlers | `proxy_endpoints.go` | the cached Endpoints object | `AddEndpoints`, `UpdateEndpoints`, `DeleteEndpoints` |
| EndpointSlice handlers | `proxy_endpointslice.go` | the cached slices | add, update, delete |
| object cache | `cache.go` | three maps, each with its own mutex | store, remove, get |
| informer handlers | `pkg/controller` | last resource version (logged only) | add, update, delete, tombstones |
| bootstrap rules | `tools.go` | - | the Service and the endpoint of the API server, before the informers start |
| process | `cmd/nfproxy.go` | - | start, bootstrap, end, restart |
| static chains | `pkg/nftables/common.go` | none after start | the path of a packet through the tables |
| endpoints generator | `cmd/endpointsgen`, `pkg/endpointsgen` | none | a separate tool: makes Services and Endpoints for stress tests |

Two goroutines run at once: the service informer's and the endpoints informer's. Each handles its
events one after the other. A handler is a sequence of critical sections (`p.mu` held) with
unprotected code in between; `processAffinityChange` holds the mutex over all ports of a service.
The handlers communicate through `serviceMap`, `endpointsMap` and the kernel. A panic in a handler
ends the process; the DaemonSet starts it again, `InitNFTables` deletes the tables, and both
informers list everything anew.

What is hard here:

* a service port may be added before, between or after its endpoints, and each side must complete
  what the other could not do yet (the service chain, the Update rules of the affinity map, the
  no-endpoints set);
* rules are found by handles the code remembers by position in `RuleID`, and five operations
  insert, delete or replace at these positions;
* the kernel refuses to delete what is still referred to, so the order of deletes matters, and an
  early return leaves the rest undone;
* updates are computed from a cached object and the `serviceMap` records of the time a port was
  added, either of which may be stale;
* endpoints are found by service port and address, while the API gives them in several slices, with
  a node and a readiness that change on their own, and the bootstrap rules add one of them before
  the informer does;
* informers coalesce changes, hand over missed deletes as tombstones, and the process may die
  between any two steps;
* whether a connection is translated, masqueraded or rejected is decided by the order of rules in
  several chains that are written by different functions.

`PROJECT.json` lists these hazards line by line, with the properties that cover each one.

## 2. The modules

**`Nftables`** - rules, chains, set elements and the kernel operations on them. A chain is `Nil`
(does not exist) or the sequence of its rules; a rule is its handle, its kind, the endpoints it
jumps to and the affinity map it names. `deleteChainRules` stops at the first missing handle;
`AddToSet` refuses an element that is there with another verdict; `RemoveFromSet` goes by key.
`MaxHandle` bounds the handles one chain can use at once; at most four are ever in use.

**`Proxy`** - one variable per map of the code (`serviceMap`, `endpointsMap`) and per kernel object
(`svcChain`, `epChain`, `affinityMap`, `sets`), and `proc`, the state of the process. Every
critical section is an operator on the state of one service port (the record `w`; `Local` reads
it, `Commit` writes it back) that follows the code call by call: `w.res` is `"error"` after an
error return and `"panic"` where Go panics (an index out of range, a type assertion on a missing map
entry); either way what was done before stays, in the maps and in the kernel. The loop of
`processAffinityChange` over the ports of a service ends with the port that panics (`PortsReached`): the
ports before it are changed, that one has its new affinity map and no rule that uses it, the rest are as
they were. The actions
`AddServicePort`, `DeleteServicePort`, `AddEndpoint`, `DeleteEndpoint`, `AddAffinity`,
`RemoveAffinity`, `AddSetElement` and `RemoveSetElement` run one critical section each, in any
order; `Kill` and `Restart` may come between any two of them. Their guards are the contract of the
callers (no address claimed twice, the cache knows the elements of a deleted port, no endpoint
added twice, affinity added only to a port with endpoints and without affinity).

**`ServiceHandlers`** and **`EndpointHandlers`** - extend `Proxy` with the informers, the caches and
the handlers, one module for each of the two goroutines. `DeliverService` and `DeliverEndpoints`
compare the last delivered object with the current one and turn the difference into the list of
operations the handler will perform (`AddServiceOps`, `UpdateServiceOps`, `UpdateEndpointSliceOps`,
...); each operation is one step. An operation that depends on the state at the time it runs is
expanded when it runs (`ChangePortOps`). A delivery may skip versions, as after a broken watch, and
`DeliverServiceTombstone` and `DeliverEndpointsTombstone` are the deletes that were missed. A process
works on Endpoints or on EndpointSlices (`EndpointSlice`, the flag of the command line); both kinds of
object are the sequence of the service ports, addresses, localities and readinesses the handlers
extract from them (`processEpSubsets`, `processEpSlice`), and share the variables of the cache. An
unknown readiness is `Nil`. `ServiceObject` and `EndpointEntry` are the types of what the handlers read of
the objects.

**`NFProxy`** - composes the two with the cluster (`ChangeService`, `ChangeEndpoints`), the bootstrap
rules (`StepBootstrap`, before any event is delivered) and the life of the process. The steps of the
two handlers interleave freely. `ServiceCallsAllowed` and `EndpointCallsAllowed` say of a step of a
handler that it is one `Proxy` allows; `KeepsContract` is both.

**`Packets`** - extends `Proxy` with what the static chains of `common.go` do to the first packet of a
connection: the sets it is looked up in and in which order (`NatVerdicts`), the two places that mark
it (`MarkedOutside`, `MarkedHairpin`), `Masqueraded`, and the filter chains (`FilterVerdict`). These are
functions of the state of the kernel; the actions are those of `Proxy`.

**`ServiceTable`** - the abstract specification: a table that says for every service port whether it is
exposed, which backends it has, which of them connections are routed to and which ones remember
their clients; one operation changes one entry (or the stickiness of all ports of a service) in one
step. A crash leaves the table as it is; only a crash in the middle of a change of stickiness
(`CrashOnTheWay`) leaves some of the ports of the service changed and the others not. A restart empties
the table.

**`Refinement`** - the mapping, `Table == INSTANCE ServiceTable WITH ...`. The table is read off the
kernel, not off the maps of the proxy (`KernelEntry`): a service port is exposed when it has a chain,
sticky when it has an affinity map, a backend is an endpoint chain, a route is a jump of the load
balancing rule to a chain with its DNAT rule, and a pinned backend is a chain with an Update rule.
`ServesAsTable == Table!Spec`. It says that chains, rules and maps, which the code changes by a dozen
calls, change together: a critical section that forgot one of them is no step of the table.

**`EndpointsGen`** - the generator: the check of the starting address, one step per address
generated, one step per object created in the API server, each of which may fail.

**`MCProxy`, `MCNFProxy`, `MCEndpointsGen`** - instances for TLC.

**`ProxyProofs`** - the proofs about `Proxy`; **`KernelProofs`** extends them with packets and
the refinement. **`NFProxyProofs`** is about the endpoints handlers, **`ServiceProofs`** about the service
handlers, **`ClusterProofs`** about the whole proxy, **`BootProofs`** about the bootstrap rules, and
**`GenProofs`** about the generator; **`FlattenProofs`** has the lemmas on sequences of sequences the last
four need (section 4).

Operators whose comment says "Mutant of" are deliberate errors: with one of them in place of the
operator it names, TLC reports the property `PROJECT.json` pairs it with.

Abstractions: IPv4 and IPv6 tables are alike and one is modelled; the hash that names chains is
injective, so a chain is named by what is hashed (service port, IP, port); an address is a model
value and stands for an endpoint's ip:port; netlink calls fail only for a reason visible in the
kernel state (missing, busy, conflicting); a kill falls between two critical sections. What a panic
inside of one has written to the kernel by then stays there, and is read by packets, until the restart
wipes the tables. `withEP` and `ruleID` of a service port are as in the code; health check ports, source
ranges and topology keys are stored by the code and never read, so they are left out.

## 3. The runs

| run | question | bound |
|---|---|---|
| `core_one_port` | do the chains, maps and sets follow the two Go maps, and implement the service table, whatever the order of critical sections? Does every packet go where the service says, in every state between two of them? | one service port, two endpoint addresses, two IPs, an external address; every packet of the instance; no bound on the number of steps |
| `handlers_services` | do ports that come, go, are renamed, renumbered or get a node port, and addresses that come and go, end up as asked, within the contract of `Proxy`, and never without endpoints on the way? | 5 changes, 10 Service versions, 3 Endpoints versions |
| `handlers_sessions` | does session affinity end up as asked, with current rules at every step? Does the proxy come to rest after panics, tombstones and kills? Do handlers, panics and restarts implement the service table? | 4 changes, 2 or 3 ports, 1 kill, any number of panics |
| `handlers_slices` | are exactly the ready endpoints of two slices served, and is the service table implemented? | 6 changes, 2 slices, 3 addresses, an unknown readiness |
| `bootstrap` | is the API server reachable from the bootstrap rules on? | 5 changes, 1 kill |
| `endpointsgen` | are the addresses distinct and the objects complete? | 32 starting addresses around the byte boundaries, up to 260 addresses |
| `sticky_index` | has every endpoint an index of its own? **no** | as `core_one_port` |
| `forward_not_rejected` | is every connection to a service without endpoints rejected? **no** | as `core_one_port` |
| `reject_stale` | does the no-endpoints set follow the addresses? **no** | 4 changes, versions of `handlers_services` |
| `port_takes_number` | can a port take the number of one that is dropped? **no** | 4 changes |
| `locality_stale` | is an endpoint that changed its node removed when it goes? **no** | 4 changes |
| `slice_move` | does an address stay in service when it moves to another slice? **no** | 5 changes |

Ten more configurations have an answer of **no** and differ from these in the objects of the cluster.
They are not in `PROJECT.json`; run them with `tlc -config <name>.cfg MCNFProxy` (`MCEndpointsGen` for
the last one):

| configuration | question |
|---|---|
| `affinity_panic` | does affinity on a port without endpoints work? |
| `affinity_stays` | can affinity that came with a new port be removed? |
| `affinity_timeout` | has the affinity map the timeout asked for? |
| `port_change_gap` | is a renumbered port added before the old one is deleted? |
| `sibling_nodeports` | does dropping a port leave the node ports of the others alone? |
| `cluster_ip_panic` | can a service get its cluster IP later? |
| `slice_tombstone` | are the endpoints of a slice removed when its delete was missed? |
| `slice_not_known` | does the proxy survive an endpoint of unknown readiness? |
| `bootstrap_duplicate` | is the API server's old address removed? |
| `addresses_wrap` | are the addresses of the generator sequential? |

`two_services` (module `MCNFProxy`, 5 changes) passes: two services that meet the hypotheses of section 4,
`Orderly`, `NoFatalEvents` and `HavePorts`, so that the theorems about the whole proxy are about something.
`affinity_changes` (`MCNFProxy`, 4 changes, a kill and missed deletes) passes: a service that meets `Orderly`
and gets and loses session affinity, with the panics this leads to.
Of the runs, `handlers_slices` meets `Orderly` and `AddressesStay` too. `bootstrap_stays` (`MCNFProxy`, 4
changes, a kill and missed deletes) passes: an instance that meets the hypotheses of the theorem about
the API server, with a second service that loses its cluster IP at times.

The critical sections touch only the state of their own service port and the shared sets, so one
port with two addresses shows every interleaving on a chain, and a second IP gives a second
identity (`SvcID`) for a port deleted and added again. Two endpoints are the smallest number with a
first, a last and a middle position after a delete and an add. Four or five changes are enough for
an add, two different updates of the service and one of the endpoints, and a delete, in any order,
delivered one by one or together.

Properties of the state after every step: `ServiceRulesCurrent`, `EndpointRulesCurrent` (rules,
order, handles and `RuleID` agree with the maps), `NothingLeftBehind` (no chain or map without its
owner), `VerdictsLead` (no element jumps to a chain that is gone), `NeverPanics`, `CacheInStep`,
`APIServerReachable`, and, for every packet, `ConnectionsServed` (a connection goes to a current
endpoint of its service), `RefusedWithoutEndpoints` and `AnswersComeBack` (what has to be masqueraded
is). `EndpointsUndisturbed`, `NeverEmptied` and `KeepsContract` are about steps: the rules and the index
of an endpoint that stays do not change (which does not mean that its clients stay with it: where the
MatchAct rule sends the index is `StickyToOwner`, see `sticky_index`), an update of endpoints never passes through a port without
any, and the handlers call the critical sections only as `Proxy` allows. `ServesAsTable` is the
refinement. The `...AsAsked` properties compare the state with the API objects whenever everything
has been handled (`Quiet`); `ServedAsAsked` does so for the addresses that connections really reach.
`ComesToRest` is the liveness property.

The runs of the handlers use one service: the critical sections of different services share nothing
but the sets, and an address that passes from one service to another is delivered as a delete and an
add. Whether the two could overtake each other after a broken watch is not asked: the missed
delete of a Service is a tombstone, which ends the process (`handlers_sessions`).

Fairness (`NFProxy!Fairness`): main runs the bootstrap rules to their end, a goroutine with work left
takes steps, informers deliver what they have listed or watched, and the DaemonSet controller
restarts a pod that died. Nothing is assumed of
the API server's changes or of kills. The fairness of the handlers is written with `SvcBusy` and
`EpBusy`, which say when a handler has work, instead of `ENABLED`; the first operation in the list
always has an action.

### Where code and comments disagree

1. `sticky_index`: `EpIndex` is the number of endpoints at the time of the add, not "a unique
   index" (`nftables.go:59`); delete the first of two endpoints, add another, and both have index 1.
   Clients pinned to one of them are sent to the other.
2. `affinity_panic`: `processAffinityChange` reads `RuleID[1]` before it looks at whether the port
   has endpoints; a port without endpoints has no rules.
3. `affinity_stays`: a port created by the update that brings affinity gets two MatchAct rules, and
   the affinity map can never be deleted.
4. `reject_stale`: the no-endpoints set follows the addresses a port had when it was added.
5. `port_takes_number`: the element is still owned by the dropped port when the renumbered one
   claims it, and the dropped one is found again by its number and kept.
6. `affinity_timeout`: the affinity map of a port that gets affinity with an update has the timeout
   of the time the port was added, 0.
7. `port_change_gap`: a comment promises to add before deleting; the code deletes first, and in between
   the service has no port.
8. `sibling_nodeports`: `removeServicePortFromSets` removes the node ports of all ports of the service,
   under the protocol of the port that is deleted.
9. `cluster_ip_panic`: a service without a cluster IP is not in `serviceMap`, where
   `processClusterIPChanges` takes it for granted.
10. `locality_stale`: updates compare endpoints without their node, deletes with it.
11. `slice_tombstone`: the tombstone of a slice is expected to hold a Service and is dropped.
12. `slice_move`: the endpoint is added with its new slice, and gone with the old one.
13. `slice_not_known`: the optional `Ready` condition is dereferenced; the slice is listed again after
    every restart, so that the proxy never comes to rest.
14. `bootstrap_duplicate`: the informer adds the API server's endpoint a second time; one delete does
    not remove both.
15. `forward_not_rejected`: packets from outside are marked, and marked packets are accepted in the
    forward chain before the reject rule is reached; they are rejected on the other paths
    (`RefusedWithoutEndpoints` in `core_one_port`).
16. `addresses_wrap`: the check of the starting address counts room in the first byte that the
    generator never uses; the addresses wrap round below the starting address. They stay distinct up to
    254^3 addresses (`GenProofs!AddressesAlwaysDistinct`), of which the check lets more through.

The passing runs stay clear of these cases through the versions in `MCNFProxy` (or through the
contract in `Proxy`), except `handlers_sessions` and `handlers_slices`, which go through the panics. `bootstrap`
goes through the duplicate endpoint too: the API server stays reachable.

## 4. What is proved

The theorems hold for every set of services, ports, protocols, addresses and timeouts and any number of
endpoints and objects, from `NftAssumption` (ports and timeouts are positive numbers, `Nil` is none of the
values it stands next to), `ProxyAssumption` (address lists are sequences of addresses), `NilAssumption`,
for the handlers, `SvcAssumption`, `EpAssumption` and `NFAssumption` (the objects have their types), and for
the generator `GenAssumption` (bytes are bytes, the numbers on the command line are positive). TLC evaluates these assumptions in every run.

### The critical sections

In these theorems the contract of the callers is in the guards of the actions of `Proxy`, so it is part
of what they assume.

| theorem | states |
|---|---|
| `ProxyProofs!VerdictInvariant` | `Spec => []VerdictInv` |
| `ProxyProofs!VerdictsAlwaysLead` | `Spec => []VerdictsLead` |
| `ProxyProofs!PortInvariant` | `Spec => []PortInv` |
| `ProxyProofs!PanicsNever` | `Spec => []NeverPanics` |
| `ProxyProofs!ServiceRulesAlwaysCurrent` | `Spec => []ServiceRulesCurrent` |
| `ProxyProofs!EndpointRulesAlwaysCurrent` | `Spec => []EndpointRulesCurrent` |
| `ProxyProofs!NothingEverLeftBehind` | `Spec => []NothingLeftBehind` |
| `ProxyProofs!TypesHold` | `Spec => []TypeOK` |
| `ProxyProofs!EndpointsNeverDisturbed` | `Spec => EndpointsUndisturbed` |
| `KernelProofs!ConnectionsAlwaysServed` | `Spec => []ConnectionsServed` |
| `KernelProofs!AnswersAlwaysComeBack` | `Spec => []AnswersComeBack` |
| `KernelProofs!RejectsAlwaysFounded` | `Spec => []RejectsFounded` |
| `KernelProofs!RefusalInvariant` | `Spec /\ []AddressesApart => []RefusalInv` |
| `KernelProofs!AlwaysRefusedWithoutEndpoints` | `Spec /\ []AddressesApart => []RefusedWithoutEndpoints` |
| `KernelProofs!ProxyServesAsTable` | `Spec => ServesAsTable`: `Proxy` implements `ServiceTable` |

**The rules.** None of the five about the maps and their rules is inductive alone. A chain is up to date after the next update
only if `RuleID` names the rules to replace and delete; the endpoint chains must exist for the service
chain to jump to them; a map or chain can be deleted only if nothing refers to it, which depends on
what all the chains contain; and no handle remembered may be given to another rule. `PortInv` is the
conjunction of all of this: `TypeOK`, no panic so far, and for every service port `PortOK`, whose
parts are

* `ChainOK`: the identifiers in `RuleID` are, in order and without repetition, the handles of the
  rules of the service chain (`Remembers`), and the rules are those of the endpoints and the affinity
  of the port;
* `EndpointsOK`: the same for every endpoint chain, no address twice, no endpoint chain without its
  endpoint;
* no service chain and no affinity map but those of the port in `serviceMap`.

The proof goes from the kernel up:

1. What `ReplaceRule`, `InsertBefore`, `DeleteRule` and `DeleteChainRules` do to a
   remembered chain, that a fresh handle exists, and what `RemoveAt`, `InsertAt` and `ReplaceAt` do
   to any sequence.
2. `updateServiceChain` succeeds and ends in `ChainOK` from any chain of the right
   `Shape`, that is, whatever endpoints it was last programmed for (`UpdateServiceChainOK`).
3. The Update rules come and go in front of every endpoint chain
   (`AddAffinityEndpointOK`, `DeleteAffinityEndpointOK`), and `addAffinity`, `removeAffinity`,
   `addEndpoint` and `deleteEndpoint` preserve `PortOK` without an error. Two facts carry the
   deletes: a service chain that is up to date jumps to no address but those of the endpoints
   (`ChainJumps`), and without MatchAct and Update rules nothing refers to the map (`MapFree`).
4. `addServicePort` (with the endpoints that came first) and `deleteServicePort`.
5. A critical section touches one port and the shared sets, so the other ports stay
   in step; Init and Restart; the theorems.

Each of these lemmas proves more than the invariant: called within the contract, a critical section
never takes one of its error returns. `EndpointsNeverDisturbed`, which is about steps, follows from what
the same lemmas say of the endpoints a critical section is not about.

**The verdicts.** `VerdictsLead` needs little of this. `VerdictInv` adds the type of
`serviceMap` and says of each verdict which service port it belongs to. `Keeps(w, u)`: every operation
below a critical section leaves the IP and port of the service port alone and adds no verdict.
`Follows(spn, w, u)`: what each critical section as a whole owes to the invariant. `addServicePort` is
the interesting one: its elements are proved to be outside the no-endpoints set and to lead to its
own chain, so that the elements it adds itself cannot make its own claim fail; `deleteServicePort`
removes every verdict that the contract says the cache knows.

**The packets.** `ConnectionsAlwaysServed` and `AnswersAlwaysComeBack` follow from `PortInv` and
`VerdictsLead`, without an induction of their own. An element of a set leads to the chain of a port in
`serviceMap` (`SetsLead`); a chain that is up to date has a load balancing rule exactly when there are
endpoints, and jumps to the chains of these endpoints only (`ServiceChainsLead`); each of those has its
masquerade rule in front of its DNAT rule (`EndpointChainShape`). So no lookup of a port with endpoints
falls through to the next set. Rejected connections need two inductions about the no-endpoints set.
`RefusalInv`: it has every address of a service port that is not marked as having endpoints; this is lost
when another port with the same address gets endpoints, so the theorem takes `AddressesApart` as a
hypothesis. `RejectsFounded`: it has no other elements; this needs no hypothesis.

**The refinement.** First, `PortInv` makes the table of the kernel the table of the maps (`EntryInv`,
lemma `KernelAsMaps`): the entry read off the chains and maps equals the one read off `serviceMap` and
`endpointsMap`. Then only what a critical section does to its entry of the maps counts (`Effect`, proved
along with `PortOK` in `ProxyProofs`, where it is also proved that within the
contract no error return is taken): `ExposeStep`, `WithdrawStep`, `AddBackendStep`, `RemoveBackendStep` and
`StickyStep` turn each effect into the operation of the table, or into a stutter when the service port
is already there or the endpoint is not found. Set updates leave the table alone; a kill is
`Crash`, and within the contract there is no panic. `StepsAreTableSteps` puts them together.

### The endpoints handlers

`NFProxyProofs` takes it as a hypothesis that the service handlers keep to the contract in the steps the
process survives (`ServiceCallsSurvived == proc' = "running" => ServiceCallsAllowed`, and for `ContractKept`
in all of them). It is needed even for the endpoints: an error return of `updateServiceChain` ends the loop
that adds them. After a panic nothing is asked of the maps, since the restart empties them.

| theorem | states, of `NFSpec` |
|---|---|
| `EpInvariant` | `[]EpInv` |
| `EndpointsAlwaysAsAsked` | `[]EndpointsAsAsked` |
| `ContractKept` | `KeepsContract` |
| `AlwaysServedAsAsked` | `[]ServedAsAsked`, if the service ports are known |
| `EndpointsNeverEmptied` | `NeverEmptied`, for Endpoints objects |

`EndpointsAsAsked` speaks of states in which everything is handled, and nothing carries it from one such
state to the next but the work in between. `EpInv` says, at every step: the entries the proxy has, without
those the handler still has to delete, with those it still has to add, are those of the delivered objects
(`AllBalanced`); each of them is in the list of work once, an entry to be added is not there and one to be
deleted is (`Once`, `Balanced`), so that no address is added twice and each loop of `deleteEndpoint` ends
with its first match; the cache is the delivered object or will be with the last operation (`InHand`). For
Endpoints objects all adds come before all deletes (`AddsFirst`), which is what `NeverEmptied` rests on. The
delivery of an event is where the invariant is established anew: `Turns(ops, o, old, new)` is proved for each
of the lists `AddEndpointsOps`, `UpdateEndpointsOps`, `DeleteEndpointsOps` and their counterparts for slices.

### The whole proxy

`ServiceProofs` has the invariant of the service handlers and `ClusterProofs` puts both sides together. The
hypothesis of the theorems is `Orderly`, on the objects the cluster may have, not on the proxy:

| theorem of `ClusterProofs` | states, of `NFSpec` | also assumes |
|---|---|---|
| `ClusterInvariant` | `[](EpInv /\ SvcInv /\ AffInv)` and `[][ServiceCallsSurvived]_nfVars` | |
| `PortsAlwaysAsAsked` | `[]ServicePortsAsAsked` | |
| `SetsAlwaysAsAsked` | `[]SetsAsAsked` | |
| `AffinityAlwaysAsAsked` | `[]AffinityAsAsked` | |
| `CachesAlwaysInStep` | `[]CacheInStep` | |
| `ContractAlwaysKept` | `KeepsContract` | `AffinityKept` |
| `ClusterServed` | `[](EndpointsAsAsked /\ ServedAsAsked)` | |
| `ClusterNeverEmptied` | `NeverEmptied` | Endpoints objects, not slices |
| `ServiceStaysServed` | `ServiceNeverGone` | `HavePorts` |
| `ImplementsProxy` | `Spec` | `NoFatalEvents` |
| `ClusterInStep` | `[]` of `ServiceRulesCurrent`, `EndpointRulesCurrent`, `NothingLeftBehind`, `VerdictsLead`, `NeverPanics`; `EndpointsUndisturbed` | `NoFatalEvents` |
| `ClusterConnects` | `[](ConnectionsServed /\ AnswersComeBack)` | `NoFatalEvents` |
| `ClusterServesAsTable` | `ServesAsTable` | `NoFatalEvents` |
| `PortsStayApart` | `[]AddressesApart` | `NoFatalEvents` |
| `ClusterRefuses` | `[]RefusedWithoutEndpoints` | `NoFatalEvents` |
| `RejectsAlwaysAsAsked` | `[]RejectsAsAsked` | `NoFatalEvents`, `AddressesStay` |

What each hypothesis rules out is something the code does not follow, shown by a configuration:

| hypothesis | says | without it |
|---|---|---|
| `EntriesApart` | an address of a service port is in one object at most, once, and stays on its node | `slice_move`, `locality_stale` |
| `ServicesApart` | a port keeps its number and node port; a number or name is not taken over by another port | `port_takes_number`, `port_change_gap` |
| | a service with node ports keeps its ports | `sibling_nodeports` |
| | a service has its cluster IP from the start and keeps it | `cluster_ip_panic` |
| | affinity comes and goes only with the ports unchanged | `affinity_stays` |
| | an address is external or of the load balancer, never both, and no other service port's | see below |
| `Bootstrap = Nil` | no bootstrap rules | `bootstrap_duplicate` |
| `EndpointSlice => ~Tombstones` | no missed deletes of slices | `slice_tombstone` |
| `AffinityKept` | a service keeps having affinity, or not having it | `affinity_panic` |
| `NoFatalEvents` | no missed deletes at all, every slice endpoint has its Ready condition, `AffinityKept` | `handlers_sessions`, `slice_not_known`, `affinity_panic` |
| `AddressesStay` | a service keeps its external and load balancer addresses | `reject_stale` |

`Orderly` also fixes the constant `UpdatedSets` to the sets the code updates. `ServicesApart` is stronger than
the cases shown to fail: `handlers_services` renames and renumbers ports one at a time and passes. Two more cases came up in the
proof, both from an update that is computed list by list and port by port: an address that moves from the load
balancer list to the external list is added to the masquerade set with the one and removed with the other; and
when ports and addresses change in one update, the old addresses are removed with the new ports, elements that
were never there unless another service port has them.

**`SvcInv`.** As on the other side, the invariant speaks of the work in hand: for the known ports, the elements
of the sets and the operations left in `svcTodo`,

* a port that is asked for is known or will be added (`Announced`), a known one that is not will be deleted
  (`Withdrawn`);
* an element that is asked for is there or will be added (`Filled`); an element that is there belongs to a
  known port and is asked for, or the cached object has it and it will be removed, with its port or alone
  (`Accounted`). That the cached object has it is what `deleteServicePort` needs, which removes the elements of
  the cached object: the element would stay for ever otherwise;
* each operation is called for by the delivered object (`Fits`), adds come before deletes and before the
  elements, no port is added twice, and the object is stored last (`Ordered`, `CacheNext`);
* the record of every known port has its IP and number (`Recorded`).

**`AffInv`.** The affinity of a known port is that of the delivered object, or an operation of
`processAffinityChange` for it is still in `svcTodo` (`AffinityDue`) and it is that of the cached object
(`StickyAs`). While such an operation waits, the endpoints handler adds and deletes endpoints of the port, which
must not change its affinity; and an update that brings affinity must not meet a port that was added with it
already, which is why ports may not change along with it (`ServicesApart`, clause `Fits` of the operation). When
the operation runs and no port panics, all of them are reached (`AllReached`) and each ends with the affinity of
the object (`OnePortSticky`, by the lemmas on `addAffinity` and `removeAffinity` of `ProxyProofs`). When one
panics, `AffInv` asks nothing until the restart, after which ports are added with the affinity of their object.

`ChangePortOps` is expanded when it runs, against the `serviceMap` of that time; `Fits` says what it will find. The
lists of operations are concatenations over the ports of an object, so their elements are described by induction
on the number of ports (`SetInduction` in `FlattenProofs`, from the library's theorem that a non-empty set of numbers has a least
one).

**`ImplementsProxy`.** With both invariants every step of `NFProxy` is an action of `Proxy` with its guard, or leaves
`vars` unchanged. So the theorems about the critical sections hold for the whole proxy without their contract
as an assumption, and `ClusterServesAsTable` is two refinements in a row. Missed deletes and unknown readiness are
excluded here, because the panic of a handler outside of any critical section is no step of `Proxy`, and so is
affinity that comes later, because `AddAffinity` asks for endpoints; the theorems without `NoFatalEvents` hold
through all of these panics.

### The API server

`BootProofs` proves `NFSpec => []APIServerReachable` (`APIServerAlwaysReachable`): from the end of
`BootstrapRules` on, connections to the API server's cluster IP are balanced and never rejected, while the
handlers add, update and delete everything else, through kills, missed deletes, slices of unknown
readiness and panics. The hypotheses are about what main is told and about the objects:

| hypothesis | says |
|---|---|
| `BootstrapMade` | what `BootstrapRules` makes up from the arguments of main: a Service with one port and without affinity, with one ready endpoint |
| `APIServiceStays` | the API server has that Service, and no other service has its cluster IP; a service that is at times without a cluster IP keeps its ports, with distinct names |
| `APIAddressStays` | the API server stays at its address, and is ready there; other addresses come and go |

The last part of `APIServiceStays` is there for the update of a service to one without a cluster IP: with
a new port it calls `addServicePort` with an empty IP. The run `bootstrap` also moves the API server to other
addresses; the theorem leaves this out, since its invariant rests on no handler deleting that endpoint.

This is apart from the other theorems about the whole proxy, which take `Bootstrap = Nil`: the informer
delivers the endpoint that `BootstrapRules` has added, it is added a second time (`bootstrap_duplicate`), and
then neither the balance of `EpInv` nor `EndpointsOK` holds. `BootInv` asks for less and does not need the
endpoints to be distinct. It follows `BootstrapRules` through its two operations (`Fresh`, then `Added`), and
afterwards says (`APISafe`) that the API server's address is among the endpoints of its service port, that its
service chain jumps there and its endpoint chain translates, that its cluster IP element is there and its
no-endpoints element is not. Three things keep it: `KeepOp`, no pending operation deletes that endpoint;
`HandlerOp`, pending operations on the service side only add the API server's port, or are about other ports
and other addresses; and `PortsApart`, no other known port has its cluster IP. So no critical section for
another port can take an element of the API server out of the shared sets or reject its address. The chain
is the delicate part: `updateServiceChain` rewrites it with every endpoint that comes and goes, may fail half
way because of the duplicate, and must still lead to the address (`UpdateReaches`).

### The generator

| theorem of `GenProofs` | states |
|---|---|
| `GenInvariant` | `GenSpec => []GenInv` |
| `ObjectsAlwaysAsRequested` | `GenSpec => []ObjectsAsRequested` |
| `AddressesAlwaysDistinct` | `GenSpec => [](Number <= Round => AddressesDistinct)`, `Round` = 254^3 |

`GenInv` counts: the complete subsets have the number of addresses asked for, their flattening has as many
as were generated (`FlattenPieces`), and the objects are created in order, services first. For the
addresses the last three bytes are read as digits: bytes run from 1 to 254, so `Rank` is a number below
`Round`, and `NextAddressRank` says that the carry, with its resets to 1, adds one modulo `Round`. Two
addresses fewer than `Round` steps apart have different ranks (`SameRound`). The bound is needed:
`checkStartingIP` also counts room in the first byte, which `generateSusbsets` never changes.

### Only model-checked

* Liveness (`ComesToRest`): fairness and `ENABLED` are out of reach of the prover.
* `APIServerReachable` when the API server moves to another address (`bootstrap`).
* Ports that are renamed, renumbered or get a node port (`handlers_services`): `SvcInv` would have to follow the
  old and the new number of a port at once.
* What packets and the service table see of an affinity change in the whole proxy, panics included
  (`ServesAsTable`, `ServiceRulesCurrent` and `EndpointRulesCurrent` in `handlers_sessions`): the theorems carry
  over through `ImplementsProxy`, which assumes `AffinityKept`.

## 5. Plan

1. `ImplementsProxy` for services whose session affinity changes, with the panic of `AddAffinity` as an action of
   `Proxy`.
2. `APIServerReachable` for an API server that moves.
3. Packets between the kernel calls of one critical section (a chain is reprogrammed by an insert
   and a delete), where now only the states between critical sections are looked at.
4. Two services that share an address in turn.

## 6. Not modelled

* `topology.go`: it has no caller.
* `clientset.go`, the flags and the signal handling of `cmd/nfproxy.go`: configuration, and an end of the
  process like any other (`Kill`).
* The clean up of the endpoints generator, which deletes what carries its label, its namespace, and the
  formatting of names.
* Netlink encoding and the layout of the rules' expressions belong to the library.
* Health check ports, source ranges and topology keys of the service and endpoint records: stored and
  never read.
