---------------------------- MODULE EndpointsGen ----------------------------
(***************************************************************************)
(* The generator of stress tests (pkg/endpointsgen): from a starting       *)
(* address it makes svcNumber services, each with an Endpoints object of   *)
(* subsetNumber subsets of ipInSubset addresses, and creates them in the   *)
(* API server.                                                             *)
(*                                                                         *)
(* An address is the sequence of its 4 or 16 bytes.  Left out: the clean   *)
(* up before and after, which deletes whatever carries the label of the    *)
(* tests, and the formatting of names and addresses.                       *)
(***************************************************************************)
EXTENDS Integers, Sequences, SequencesExt

CONSTANTS
    StartIPs,   \* the starting addresses
    Requests,   \* what is asked for: [svcs, subsets, ips]
    PortBase    \* the first port

ASSUME GenAssumption ==
    /\ \A ip \in StartIPs : ip \in Seq(0..255) /\ Len(ip) \in {4, 16}
    /\ Requests \subseteq [svcs : Nat \ {0}, subsets : Nat \ {0}, ips : Nat \ {0}]
    /\ PortBase \in Nat

VARIABLES
    phase,      \* "check", "generate", "create", "done", "refused" or "failed"
    startIP, request,
    genAddr,    \* the last address generated
    subset,     \* the subset in the making: a sequence of <<address, port>>
    subsets,    \* the subsets that are complete
    services, endpoints     \* how many of each the API server has

genVars == <<phase, startIP, request, genAddr, subset, subsets, services, endpoints>>

Number == request.svcs * request.subsets * request.ips
Generated == FlattenSeq(subsets) \o subset

(***************************************************************************)
(* The addresses.                                                          *)
(***************************************************************************)
\* The room above the address, in its last k + 1 bytes; the subtraction is
\* one of bytes.
Room(addr) ==
    LET room[k \in 0..(Len(addr) - 2)] ==
            IF k = 0 THEN (254 - Last(addr)) % 256
            ELSE room[k - 1] + (255 - addr[Len(addr) - k]) * room[k - 1]
    IN  room

\* checkStartingIP: enough room below the first byte, or with what is left of
\* the first byte (223.X.X.X, 20XX::X).
checkStartingIP(addr, number) ==
    LET limit == IF Len(addr) = 16 THEN 32 ELSE 223
        total == Room(addr)[Len(addr) - 2]
    IN  \/ \E k \in 1..(Len(addr) - 2) : Room(addr)[k] > number
        \/ number <= total + (IF addr[1] < limit THEN (limit - addr[1]) * total ELSE 0)

\* Mutant of NextAddress: a byte that is full does not carry.
NextAddressNoCarry(addr) ==
    [addr EXCEPT ![Len(addr)] = IF (@ + 1) % 256 = 255 THEN 1 ELSE (@ + 1) % 256]

\* The inner loop of generateSusbsets: from the last byte on, a byte that is
\* full starts from 1 again, the first that is not is incremented; the first
\* byte of the address stays.
NextAddress(addr) ==
    LET full(e) == (addr[e] + 1) % 256 = 255
        carried(e) == \A f \in (e + 1)..Len(addr) : full(f)
    IN  [e \in DOMAIN addr |->
           IF e = 1 \/ ~carried(e) THEN addr[e] ELSE IF full(e) THEN 1 ELSE (addr[e] + 1) % 256]

(***************************************************************************)
(* The objects.                                                            *)
(***************************************************************************)
\* Mutant of generateEndpoints: an object takes one subset too many.
generateEndpointsLate(all, n) ==
    [k \in 1..(Len(all) \div (n + 1)) |-> SubSeq(all, (k - 1) * (n + 1) + 1, k * (n + 1))]

\* generateEndpoints: the subsets, n to an object; what is left over is lost.
generateEndpoints(all, n) ==
    [k \in 1..(Len(all) \div n) |-> SubSeq(all, (k - 1) * n + 1, k * n)]

\* generateServices: for every Endpoints object a Service with its ports.
generateServices(eps) ==
    [k \in DOMAIN eps |-> LET all == FlattenSeq(eps[k]) IN [i \in DOMAIN all |-> all[i][2]]]

Endpoints == generateEndpoints(subsets, request.subsets)
Services == generateServices(Endpoints)

(***************************************************************************)
(* The steps of GenerateTestObjects.                                       *)
(***************************************************************************)
GenInit ==
    /\ phase = "check"
    /\ startIP \in StartIPs /\ request \in Requests
    /\ genAddr = startIP
    /\ subset = <<>> /\ subsets = <<>>
    /\ services = 0 /\ endpoints = 0

CheckStart ==
    /\ phase = "check"
    /\ phase' = IF checkStartingIP(startIP, Number) THEN "generate" ELSE "refused"
    /\ UNCHANGED <<startIP, request, genAddr, subset, subsets, services, endpoints>>

\* One address of generateSusbsets, which completes its subset or not.
GenerateAddress ==
    /\ phase = "generate"
    /\ Len(Generated) < Number
    /\ genAddr' = NextAddress(genAddr)
    /\ LET more == Append(subset, <<genAddr', (PortBase + Len(Generated)) % 65536>>)
       IN  IF Len(more) = request.ips
           THEN subsets' = Append(subsets, more) /\ subset' = <<>>
           ELSE subset' = more /\ UNCHANGED subsets
    /\ UNCHANGED <<phase, startIP, request, services, endpoints>>

EndGenerate ==
    /\ phase = "generate"
    /\ Len(Generated) = Number
    /\ phase' = "create"
    /\ UNCHANGED <<startIP, request, genAddr, subset, subsets, services, endpoints>>

\* CreateService, CreateEndPoint: the API server takes the next object, or
\* refuses it, which ends the program.
CreateService ==
    /\ phase = "create"
    /\ services < Len(Services)
    /\ \/ services' = services + 1 /\ UNCHANGED phase
       \/ phase' = "failed" /\ UNCHANGED services
    /\ UNCHANGED <<startIP, request, genAddr, subset, subsets, endpoints>>

\* Mutant of CreateEndPoint: the Endpoints objects do not wait for the services.
CreateEndPointAtOnce ==
    /\ phase = "create"
    /\ endpoints < Len(Endpoints)
    /\ endpoints' = endpoints + 1
    /\ UNCHANGED <<phase, startIP, request, genAddr, subset, subsets, services>>

CreateEndPoint ==
    /\ phase = "create"
    /\ services = Len(Services) /\ endpoints < Len(Endpoints)
    /\ \/ endpoints' = endpoints + 1 /\ UNCHANGED phase
       \/ phase' = "failed" /\ UNCHANGED endpoints
    /\ UNCHANGED <<startIP, request, genAddr, subset, subsets, services>>

EndCreate ==
    /\ phase = "create"
    /\ services = Len(Services) /\ endpoints = Len(Endpoints)
    /\ phase' = "done"
    /\ UNCHANGED <<startIP, request, genAddr, subset, subsets, services, endpoints>>

GenNext ==
    CheckStart \/ GenerateAddress \/ EndGenerate \/ CreateService \/ CreateEndPoint \/ EndCreate

GenSpec == GenInit /\ [][GenNext]_genVars

(***************************************************************************)
(* Correctness.                                                            *)
(***************************************************************************)
\* No address is generated twice, across the carries of generateSusbsets and
\* whatever bytes the starting address has: an address that is there twice in
\* a service port is what deleteEndpoint of the proxy cannot cope with.
AddressesDistinct == IsInjective([i \in DOMAIN Generated |-> Generated[i][1]])

\* "does not allow generating of %d sequential addresses": the addresses
\* checkStartingIP lets through are in ascending order.
AddressesSequential ==
    \A i \in 1..(Len(Generated) - 1) :
        LET a == Generated[i][1]
            b == Generated[i + 1][1]
        IN  \E e \in DOMAIN a : a[e] < b[e] /\ \A f \in 1..(e - 1) : a[f] = b[f]

\* When all objects are created there are as many as were asked for, with
\* every address generated in exactly one of them and its port in the Service
\* of the same name; a run that fails leaves no Endpoints object without its
\* Service.
ObjectsAsRequested ==
    /\ endpoints > 0 => endpoints <= services
    /\ phase = "done" =>
         /\ services = request.svcs /\ endpoints = request.svcs
         /\ \A k \in 1..request.svcs : Len(Services[k]) = request.subsets * request.ips
         /\ FlattenSeq(FlattenSeq(Endpoints)) = Generated
=============================================================================
