----------------------------- MODULE GenProofs ------------------------------
(***************************************************************************)
(* The generator of stress tests makes the objects it is asked for and no  *)
(* address twice, for every starting address and every request.            *)
(*                                                                         *)
(* The objects: GenInv follows the subsets while they grow.  All but the   *)
(* one in the making have the number of addresses asked for, so that the   *)
(* number of addresses determines the number of subsets, and cutting these *)
(* into objects loses none (FlattenPieces).                                *)
(*                                                                         *)
(* The addresses: the last three bytes are the digits of a number in base  *)
(* 254 (Rank), which NextAddress increments; it comes round after 254^3    *)
(* addresses (Round).                                                      *)
(***************************************************************************)
EXTENDS EndpointsGen, FlattenProofs

(***************************************************************************)
(* The type of what is generated.                                          *)
(***************************************************************************)
Byte == 0..255
IPAddress == {a \in Seq(Byte) : Len(a) \in {4, 16}}
AddressAndPort == IPAddress \X Nat

\* The next address is one.
LEMMA NextAddressType ==
    ASSUME NEW a \in IPAddress
    PROVE  NextAddress(a) \in IPAddress /\ Len(NextAddress(a)) = Len(a)
<1>1. a \in Seq(Byte) /\ Len(a) \in {4, 16}
  BY DEF IPAddress
<1>2. DOMAIN a = 1..Len(a) /\ Len(a) \in Nat /\ \A e \in 1..Len(a) : a[e] \in Byte
  BY <1>1
<1> DEFINE full(e) == (a[e] + 1) % 256 = 255
           carried(e) == \A f \in (e + 1)..Len(a) : full(f)
           b == [e \in DOMAIN a |->
                   IF e = 1 \/ ~carried(e) THEN a[e] ELSE IF full(e) THEN 1 ELSE (a[e] + 1) % 256]
<1>3. NextAddress(a) = b
  BY DEF NextAddress
<1>4. ASSUME NEW e \in 1..Len(a) PROVE b[e] \in Byte
  <2>1. \A x \in Byte : (x + 1) % 256 \in Byte
    BY DEF Byte
  <2>2. a[e] \in Byte
    BY <1>2
  <2>3. (a[e] + 1) % 256 \in Byte /\ 1 \in Byte
    <3>1. 1 \in Byte
      BY DEF Byte
    <3> QED BY <2>1, <2>2, <3>1
  <2> HIDE DEF carried, full
  <2> QED BY <1>2, <2>3
<1>5. b \in Seq(Byte) /\ Len(b) = Len(a)
  <2>1. b \in [1..Len(a) -> Byte]
    <3>1. DOMAIN b = 1..Len(a) /\ b = [e \in DOMAIN a |-> b[e]]
      BY <1>2
    <3> HIDE DEF b
    <3> QED BY <1>2, <1>4, <3>1
  <2> HIDE DEF b
  <2> QED BY <1>2, <2>1
<1> QED BY <1>1, <1>3, <1>5 DEF IPAddress

(***************************************************************************)
(* The objects.                                                            *)
(***************************************************************************)
\* What is generated so far, phase by phase.
GenTyped ==
    /\ startIP \in IPAddress /\ request \in Requests
    /\ genAddr \in IPAddress /\ Len(genAddr) = Len(startIP)
    /\ subsets \in Seq(Seq(AddressAndPort)) /\ \A i \in DOMAIN subsets : Len(subsets[i]) = request.ips
    /\ subset \in Seq(AddressAndPort) /\ Len(subset) < request.ips
    /\ services \in Nat /\ endpoints \in Nat

GenInv ==
    /\ GenTyped
    /\ Len(subsets) * request.ips + Len(subset) <= Number
    /\ phase \in {"create", "failed", "done"} => Len(subsets) * request.ips + Len(subset) = Number
    /\ phase \notin {"create", "failed", "done"} => services = 0 /\ endpoints = 0
    /\ services <= Len(Services)
    /\ endpoints > 0 => services = Len(Services)
    /\ endpoints <= Len(Endpoints)
    /\ phase = "done" => services = Len(Services) /\ endpoints = Len(Endpoints)

\* A multiple, and the number of times it contains the factor.
LEMMA Multiples ==
    ASSUME NEW n \in Nat \ {0}, NEW k \in Nat
    PROVE  (k * n) \div n = k
OBVIOUS

\* The multiples of a number, one by one.
LEMMA OneMore ==
    \A m, c \in Nat : m * c \in Nat /\ (m + 1) * c = m * c + c
OBVIOUS

\* So many sequences of c elements and less than c more are a multiple of c
\* only when nothing is left over.
LEMMA NothingLeftOver ==
    ASSUME NEW c \in Nat \ {0}, NEW m \in Nat, NEW k \in Nat, NEW r \in Nat, r < c, k * c + r = m * c
    PROVE  k = m /\ r = 0
<1>1. k * c \in Nat /\ m * c \in Nat
  OBVIOUS
<1>2. ASSUME k < m PROVE FALSE
  <2>1. m - k - 1 \in Nat
    BY <1>2
  <2>2. (m - k - 1) * c \in Nat
    BY <2>1
  <2>3. (m - k - 1) * c = m * c - k * c - c
    OBVIOUS
  <2> QED BY <1>1, <2>2, <2>3
<1>3. ASSUME m < k PROVE FALSE
  <2>1. k - m - 1 \in Nat
    BY <1>3
  <2>2. (k - m - 1) * c \in Nat
    BY <2>1
  <2>3. (k - m - 1) * c = k * c - m * c - c
    OBVIOUS
  <2> QED BY <1>1, <2>2, <2>3
<1>4. k = m
  BY <1>2, <1>3
<1> QED BY <1>1, <1>4

\* What is generated, and how much it is.
LEMMA GeneratedLength ==
    ASSUME GenTyped
    PROVE  /\ Generated \in Seq(AddressAndPort)
           /\ Len(Generated) = Len(subsets) * request.ips + Len(subset)
           /\ request.svcs \in Nat \ {0} /\ request.subsets \in Nat \ {0} /\ request.ips \in Nat \ {0}
           /\ Number \in Nat /\ Number = (request.svcs * request.subsets) * request.ips
<1>1. request.svcs \in Nat \ {0} /\ request.subsets \in Nat \ {0} /\ request.ips \in Nat \ {0}
  BY GenAssumption DEF GenTyped
<1>2. Number \in Nat /\ Number = (request.svcs * request.subsets) * request.ips
  BY <1>1 DEF Number
<1>3. subsets \in Seq(Seq(AddressAndPort)) /\ subset \in Seq(AddressAndPort)
  BY DEF GenTyped
<1>4. /\ FlattenSeq(subsets) \in Seq(AddressAndPort)
      /\ Len(FlattenSeq(subsets)) = Len(subsets) * request.ips
  <2>1. request.ips \in Nat /\ \A i \in DOMAIN subsets : Len(subsets[i]) = request.ips
    BY <1>1 DEF GenTyped
  <2> QED BY <1>3, <2>1, FlattenLength
<1>5. Generated \in Seq(AddressAndPort) /\ Len(Generated) = Len(FlattenSeq(subsets)) + Len(subset)
  BY <1>3, <1>4, ConcatProperties DEF Generated
<1> QED BY <1>1, <1>2, <1>4, <1>5

\* The objects: as many as the subsets make, and none of the subsets is lost
\* when their number is a multiple.
LEMMA EndpointsOf ==
    ASSUME GenTyped
    PROVE  /\ Len(Endpoints) = Len(subsets) \div request.subsets /\ Len(Endpoints) \in Nat
           /\ Len(Services) = Len(Endpoints)
           /\ DOMAIN Services = 1..Len(Endpoints)
<1>1. request.subsets \in Nat \ {0} /\ Len(subsets) \in Nat
  BY GeneratedLength DEF GenTyped
<1>2. Len(subsets) \div request.subsets \in Nat
  BY <1>1
<1>3. DOMAIN Endpoints = 1..(Len(subsets) \div request.subsets)
  BY DEF Endpoints, generateEndpoints
<1>4. Len(Endpoints) = Len(subsets) \div request.subsets
  BY <1>2, <1>3
<1>5. DOMAIN Services = DOMAIN Endpoints
  BY DEF Services, generateServices
<1>6. Len(Services) = Len(Endpoints)
  BY <1>2, <1>3, <1>4, <1>5
<1> QED BY <1>2, <1>3, <1>4, <1>5, <1>6

\* One more address.
LEMMA AddressAdded ==
    ASSUME GenTyped, GenerateAddress
    PROVE  /\ GenTyped'
           /\ Len(subsets') * request.ips + Len(subset') = Len(subsets) * request.ips + Len(subset) + 1
           /\ Generated' = Append(Generated, <<genAddr', (PortBase + Len(Generated)) % 65536>>)
           /\ Number' = Number
<1> DEFINE new == <<genAddr', (PortBase + Len(Generated)) % 65536>>
           more == Append(subset, new)
<1>1. /\ genAddr' = NextAddress(genAddr) /\ startIP' = startIP /\ request' = request
      /\ services' = services /\ endpoints' = endpoints
      /\ IF Len(more) = request.ips
         THEN subsets' = Append(subsets, more) /\ subset' = <<>>
         ELSE subset' = more /\ subsets' = subsets
  BY DEF GenerateAddress
<1>2. genAddr' \in IPAddress /\ Len(genAddr') = Len(startIP)
  BY <1>1, NextAddressType DEF GenTyped
<1>3. /\ Generated \in Seq(AddressAndPort) /\ Len(Generated) \in Nat
      /\ request.ips \in Nat \ {0}
  BY GeneratedLength
<1>4. new \in AddressAndPort
  <2>1. \A x \in Nat : x % 65536 \in Nat
    OBVIOUS
  <2>2. PortBase + Len(Generated) \in Nat
    BY <1>3, GenAssumption
  <2> QED BY <1>2, <2>1, <2>2 DEF AddressAndPort
<1>5. /\ subsets \in Seq(Seq(AddressAndPort)) /\ \A i \in DOMAIN subsets : Len(subsets[i]) = request.ips
      /\ subset \in Seq(AddressAndPort) /\ Len(subset) < request.ips
      /\ Len(subset) \in Nat /\ Len(subsets) \in Nat
  BY DEF GenTyped
<1> HIDE DEF new
<1>6. more \in Seq(AddressAndPort) /\ Len(more) = Len(subset) + 1
  BY <1>4, <1>5, AppendProperties
<1>7. Append(Generated, new) = FlattenSeq(subsets) \o more
  <2>1. FlattenSeq(subsets) \in Seq(AddressAndPort)
    BY <1>5, FlattenElements
  <2>2. \A p, q \in Seq(AddressAndPort), x \in AddressAndPort : Append(p \o q, x) = p \o Append(q, x)
    OBVIOUS
  <2> QED BY <1>4, <1>5, <2>1, <2>2 DEF Generated
<1>8. Number' = Number
  BY <1>1 DEF Number
<1> HIDE DEF more
<1>9. CASE Len(more) = request.ips
  <2>1. subsets' = Append(subsets, more) /\ subset' = <<>>
    BY <1>1, <1>9
  <2>2. /\ subsets' \in Seq(Seq(AddressAndPort)) /\ Len(subsets') = Len(subsets) + 1
        /\ \A i \in DOMAIN subsets' : Len(subsets'[i]) = request.ips
    BY <1>5, <1>6, <1>9, <2>1
  <2>3. subset' \in Seq(AddressAndPort) /\ Len(subset') = 0
    BY <2>1
  <2>4. GenTyped'
    BY <1>1, <1>2, <1>3, <2>2, <2>3 DEF GenTyped
  <2>5. Len(subsets') * request.ips = Len(subsets) * request.ips + request.ips
    BY <1>3, <1>5, <2>2, OneMore
  <2>6. Len(subsets') * request.ips + Len(subset') = Len(subsets) * request.ips + Len(subset) + 1
    <3> DEFINE total == Len(subsets) * request.ips
    <3>1. total \in Nat
      BY <1>3, <1>5, OneMore
    <3>2. Len(subsets') * request.ips = total + request.ips
      BY <2>5
    <3> HIDE DEF total
    <3>3. total + request.ips + 0 = total + Len(subset) + 1
      <4>1. request.ips = Len(subset) + 1
        BY <1>6, <1>9
      <4>2. \A x, y \in Nat : x + (y + 1) + 0 = x + y + 1
        OBVIOUS
      <4> QED BY <1>5, <3>1, <4>1, <4>2
    <3>4. Len(subsets') * request.ips + Len(subset') = total + Len(subset) + 1
      BY <2>3, <3>2, <3>3
    <3> QED BY <3>4 DEF total
  <2>7. Generated' = FlattenSeq(subsets) \o more
    <3>1. FlattenSeq(subsets') = FlattenSeq(subsets) \o more
      BY <1>5, <1>6, <2>1, FlattenAppend
    <3>2. FlattenSeq(subsets) \o more \in Seq(AddressAndPort)
      BY <1>5, <1>6, FlattenElements, ConcatProperties
    <3>3. \A q \in Seq(AddressAndPort) : q \o <<>> = q
      OBVIOUS
    <3> QED BY <2>1, <3>1, <3>2, <3>3 DEF Generated
  <2> QED BY <1>7, <1>8, <2>4, <2>6, <2>7 DEF new
<1>10. CASE Len(more) # request.ips
  <2>1. subset' = more /\ subsets' = subsets
    BY <1>1, <1>10
  <2>2. Len(subset') < request.ips
    BY <1>3, <1>5, <1>6, <1>10, <2>1
  <2>3. GenTyped'
    BY <1>1, <1>2, <1>6, <2>1, <2>2 DEF GenTyped
  <2>4. Len(subsets') * request.ips + Len(subset') = Len(subsets) * request.ips + Len(subset) + 1
    <3>1. Len(subsets) * request.ips \in Nat
      BY <1>3, <1>5
    <3> QED BY <1>5, <1>6, <2>1, <3>1
  <2>5. Generated' = FlattenSeq(subsets) \o more
    BY <2>1 DEF Generated
  <2> QED BY <1>7, <1>8, <2>3, <2>4, <2>5 DEF new
<1> QED BY <1>9, <1>10

\* The inductive invariant of the generator: the subsets that are complete
\* have the number of addresses asked for, no more addresses are generated
\* than asked for and the objects are created when there are as many; no
\* Endpoints object is created before all of the services are.
THEOREM GenInvariant == GenSpec => []GenInv
<1>1. GenInit => GenInv
  <2> SUFFICES ASSUME GenInit PROVE GenInv
    OBVIOUS
  <2>1. startIP \in IPAddress /\ request \in Requests /\ genAddr = startIP
    BY GenAssumption DEF GenInit, IPAddress, Byte
  <2>2. request.ips \in Nat \ {0}
    BY <2>1, GenAssumption
  <2>3. /\ subsets = <<>> /\ subset = <<>> /\ phase = "check" /\ services = 0 /\ endpoints = 0
        /\ Len(subsets) = 0 /\ Len(subset) = 0 /\ DOMAIN subsets = {}
    BY DEF GenInit
  <2>4. GenTyped
    BY <2>1, <2>2, <2>3 DEF GenTyped
  <2>5. Number \in Nat /\ Len(Services) = Len(Endpoints) /\ Len(Endpoints) \in Nat
    BY <2>4, GeneratedLength, EndpointsOf
  <2> QED BY <2>2, <2>3, <2>4, <2>5 DEF GenInv
<1>2. GenInv /\ [GenNext]_genVars => GenInv'
  <2> SUFFICES ASSUME GenInv, [GenNext]_genVars PROVE GenInv'
    OBVIOUS
  <2>0. GenTyped
    BY DEF GenInv
  <2>a. /\ Len(Services) = Len(Endpoints) /\ Len(Endpoints) \in Nat /\ services \in Nat /\ endpoints \in Nat
        /\ Len(Generated) = Len(subsets) * request.ips + Len(subset) /\ Number \in Nat
        /\ Len(subsets) * request.ips + Len(subset) \in Nat
    <3>1. Len(Generated) \in Nat
      BY <2>0, GeneratedLength
    <3> QED BY <2>0, <3>1, EndpointsOf, GeneratedLength DEF GenTyped
  <2>b. ASSUME UNCHANGED <<startIP, request, genAddr, subset, subsets>>
        PROVE  /\ Number' = Number /\ Endpoints' = Endpoints /\ Services' = Services
               /\ (services' \in Nat /\ endpoints' \in Nat) => GenTyped'
    BY <2>0, <2>b DEF GenTyped, Number, Endpoints, Services
  <2>1. CASE CheckStart
    BY <2>0, <2>a, <2>b, <2>1 DEF CheckStart, GenInv
  <2>2. CASE GenerateAddress
    <3>1. /\ phase = "generate" /\ phase' = phase /\ services' = services /\ endpoints' = endpoints
          /\ Len(Generated) < Number /\ request' = request
      BY <2>2 DEF GenerateAddress
    <3>2. services = 0 /\ endpoints = 0
      BY <3>1 DEF GenInv
    <3>3. /\ GenTyped' /\ Number' = Number
          /\ Len(subsets') * request.ips + Len(subset') = Len(subsets) * request.ips + Len(subset) + 1
      BY <2>0, <2>2, AddressAdded
    <3>4. Len(Services)' = Len(Endpoints)' /\ Len(Endpoints)' \in Nat
      <4>1. (GenTyped => Len(Services) = Len(Endpoints) /\ Len(Endpoints) \in Nat)'
        BY EndpointsOf, PTL
      <4> QED BY <3>3, <4>1
    <3> QED BY <2>a, <3>1, <3>2, <3>3, <3>4 DEF GenInv
  <2>3. CASE EndGenerate
    BY <2>0, <2>a, <2>b, <2>3 DEF EndGenerate, GenInv
  <2>4. CASE CreateService
    BY <2>0, <2>a, <2>b, <2>4 DEF CreateService, GenInv
  <2>5. CASE CreateEndPoint
    BY <2>0, <2>a, <2>b, <2>5 DEF CreateEndPoint, GenInv
  <2>6. CASE EndCreate
    BY <2>0, <2>a, <2>b, <2>6 DEF EndCreate, GenInv
  <2>7. CASE UNCHANGED genVars
    BY <2>0, <2>a, <2>b, <2>7 DEF genVars, GenInv
  <2> QED BY <2>1, <2>2, <2>3, <2>4, <2>5, <2>6, <2>7 DEF GenNext
<1> QED BY <1>1, <1>2, PTL DEF GenSpec

\* When all objects are created there are as many as were asked for, with
\* every address generated in exactly one of them and its port in the Service
\* of the same name; a run that fails leaves no Endpoints object without its
\* Service.
THEOREM ObjectsAlwaysAsRequested == GenSpec => []ObjectsAsRequested
<1>1. GenInv => ObjectsAsRequested
  <2> SUFFICES ASSUME GenInv PROVE ObjectsAsRequested
    OBVIOUS
  <2>1. GenTyped
    BY DEF GenInv
  <2> DEFINE n == request.subsets
             c == request.ips
             s == request.svcs
  <2>2. n \in Nat \ {0} /\ c \in Nat \ {0} /\ s \in Nat \ {0} /\ Number = (s * n) * c
    BY <2>1, GeneratedLength
  <2>3. /\ Len(Endpoints) = Len(subsets) \div n /\ Len(Endpoints) \in Nat
        /\ Len(Services) = Len(Endpoints)
    BY <2>1, EndpointsOf
  <2>4. endpoints > 0 => endpoints <= services
    BY <2>3 DEF GenInv
  <2>5. ASSUME phase = "done"
        PROVE  /\ services = s /\ endpoints = s
               /\ \A k \in 1..s : Len(Services[k]) = n * c
               /\ FlattenSeq(FlattenSeq(Endpoints)) = Generated
    <3>1. Len(subsets) * c + Len(subset) = (s * n) * c
      BY <2>2, <2>5 DEF GenInv
    <3>2. /\ Len(subsets) \in Nat /\ Len(subset) \in Nat /\ Len(subset) < c
          /\ subsets \in Seq(Seq(AddressAndPort)) /\ subset \in Seq(AddressAndPort)
          /\ \A i \in DOMAIN subsets : Len(subsets[i]) = c
      BY <2>1 DEF GenTyped
    <3>3. Len(subsets) = s * n /\ Len(subset) = 0
      <4>1. s * n \in Nat
        BY <2>2
      <4> HIDE DEF s, n, c
      <4> QED BY <2>2, <3>1, <3>2, <4>1, NothingLeftOver
    <3>4. Len(Endpoints) = s
      <4> HIDE DEF s, n, c
      <4> QED BY <2>2, <2>3, <3>3, Multiples
    <3>5. services = s /\ endpoints = s
      BY <2>3, <2>5, <3>4 DEF GenInv
    <3>6. Endpoints = [k \in 1..s |-> SubSeq(subsets, (k - 1) * n + 1, k * n)]
      BY <2>3, <3>4 DEF Endpoints, generateEndpoints
    <3>7. FlattenSeq(Endpoints) = SubSeq(subsets, 1, s * n)
      <4>1. s * n <= Len(subsets) /\ s \in Nat /\ n \in Nat
        BY <2>2, <3>2, <3>3
      <4> HIDE DEF s, n, c
      <4> QED BY <3>2, <3>6, <4>1, FlattenPieces
    <3>8. FlattenSeq(Endpoints) = subsets
      BY <3>2, <3>3, <3>7
    <3>9. Generated = FlattenSeq(subsets)
      <4>1. subset = <<>>
        BY <3>2, <3>3
      <4>2. FlattenSeq(subsets) \in Seq(AddressAndPort)
        BY <3>2, FlattenElements
      <4> QED BY <4>1, <4>2 DEF Generated
    <3>10. ASSUME NEW k \in 1..s PROVE Len(Services[k]) = n * c
      <4>1. /\ k * n <= Len(subsets) /\ (k - 1) * n \in Nat /\ k * n = (k - 1) * n + n
        <5>1. k \in Nat /\ k - 1 \in Nat /\ s - k \in Nat
          BY <2>2
        <5> HIDE DEF s, n, c
        <5>2. (k - 1) * n \in Nat /\ (s - k) * n \in Nat
          BY <2>2, <5>1
        <5>3. k * n = (k - 1) * n + n /\ (s - k) * n = s * n - k * n
          BY <2>2, <5>1
        <5> QED BY <2>2, <3>3, <5>1, <5>2, <5>3
      <4> DEFINE piece == SubSeq(subsets, (k - 1) * n + 1, k * n)
      <4>2. piece \in Seq(Seq(AddressAndPort)) /\ Len(piece) = n /\ \A i \in DOMAIN piece : Len(piece[i]) = c
        <5> DEFINE lo == (k - 1) * n
                   hi == k * n
        <5>1. lo \in Nat /\ hi = lo + n /\ hi <= Len(subsets) /\ n \in Nat
          BY <2>2, <4>1
        <5> HIDE DEF s, n, c, lo, hi
        <5>2. /\ SubSeq(subsets, lo + 1, hi) \in Seq(Seq(AddressAndPort)) /\ Len(SubSeq(subsets, lo + 1, hi)) = n
              /\ DOMAIN SubSeq(subsets, lo + 1, hi) = 1..n
              /\ \A i \in 1..n : SubSeq(subsets, lo + 1, hi)[i] = subsets[lo + i] /\ lo + i \in DOMAIN subsets
          BY <3>2, <5>1
        <5>3. \A i \in 1..n : Len(SubSeq(subsets, lo + 1, hi)[i]) = c
          BY <3>2, <5>2
        <5> QED BY <5>2, <5>3 DEF lo, hi
      <4>3. Endpoints[k] = piece
        BY <3>6
      <4>4. FlattenSeq(piece) \in Seq(AddressAndPort) /\ Len(FlattenSeq(piece)) = n * c
        <5> HIDE DEF piece, s, n, c
        <5> QED BY <2>2, <4>2, FlattenLength
      <4>5. Services[k] = [i \in DOMAIN FlattenSeq(piece) |-> FlattenSeq(piece)[i][2]]
        <5>1. k \in DOMAIN Endpoints
          BY <3>6
        <5> QED BY <4>3, <5>1 DEF Services, generateServices
      <4> QED
        <5> HIDE DEF piece, s, n, c
        <5>1. n * c \in Nat
          BY <2>2
        <5> QED BY <4>4, <4>5, <5>1
    <3> QED BY <3>5, <3>8, <3>9, <3>10
  <2> QED BY <2>4, <2>5 DEF ObjectsAsRequested
<1> QED BY <1>1, GenInvariant, PTL

(***************************************************************************)
(* The addresses.                                                          *)
(***************************************************************************)
\* A byte as a digit in base 254: the full byte 254 is followed by 1; 255 and
\* 0, which only a starting address has, come before 1.
Digit(x) == IF x = 255 THEN -2 ELSE x - 1
NextByte(x) == IF x = 254 THEN 1 ELSE IF x = 255 THEN 0 ELSE x + 1

\* The last three bytes as a number, and how many addresses they can tell
\* apart: 254^3.
Rank(a) == 64516 * Digit(a[Len(a) - 2]) + 254 * Digit(a[Len(a) - 1]) + Digit(a[Len(a)])
Round == 16387064

\* The next byte is the next digit, or the first one.
LEMMA NextByteDigit ==
    \A x \in Byte : /\ Digit(x) \in Int /\ NextByte(x) \in Byte
                    /\ x # 254 => Digit(NextByte(x)) = Digit(x) + 1
                    /\ x = 254 => Digit(x) = 253 /\ Digit(NextByte(x)) = 0
                    /\ (x + 1) % 256 = 255 <=> x = 254
                    /\ x # 254 => NextByte(x) = (x + 1) % 256
BY DEF Digit, NextByte, Byte

\* What NextAddress does to the last three bytes: a byte changes when those
\* after it are full.
LEMMA NextAddressBytes ==
    ASSUME NEW a \in IPAddress
    PROVE  LET L == Len(a)
               b == NextAddress(a)
           IN  /\ L \in Nat /\ L >= 4
               /\ a[L] \in Byte /\ a[L - 1] \in Byte /\ a[L - 2] \in Byte
               /\ b[L] = NextByte(a[L])
               /\ b[L - 1] = IF a[L] = 254 THEN NextByte(a[L - 1]) ELSE a[L - 1]
               /\ b[L - 2] = IF a[L] = 254 /\ a[L - 1] = 254 THEN NextByte(a[L - 2]) ELSE a[L - 2]
<1> DEFINE L == Len(a)
           full(e) == (a[e] + 1) % 256 = 255
           carried(e) == \A f \in (e + 1)..L : full(f)
           next(e) == IF full(e) THEN 1 ELSE (a[e] + 1) % 256
           b == [e \in DOMAIN a |->
                   IF e = 1 \/ ~carried(e) THEN a[e] ELSE IF full(e) THEN 1 ELSE (a[e] + 1) % 256]
<1>1. /\ L \in Nat /\ L >= 4 /\ DOMAIN a = 1..L
      /\ L \in 1..L /\ L - 1 \in 1..L /\ L - 2 \in 1..L
      /\ L # 1 /\ L - 1 # 1 /\ L - 2 # 1
      /\ \A e \in 1..L : a[e] \in Byte
  <2>1. a \in Seq(Byte) /\ L \in {4, 16}
    BY DEF IPAddress
  <2>2. DOMAIN a = 1..L /\ \A e \in 1..L : a[e] \in Byte
    BY <2>1
  <2> HIDE DEF L
  <2>3. /\ L \in Nat /\ L >= 4
        /\ L \in 1..L /\ L - 1 \in 1..L /\ L - 2 \in 1..L
        /\ L # 1 /\ L - 1 # 1 /\ L - 2 # 1
    BY <2>1
  <2> QED BY <2>2, <2>3
<1>2. \A e \in 1..L : (full(e) <=> a[e] = 254) /\ next(e) = NextByte(a[e])
  BY <1>1, NextByteDigit DEF NextByte
<1>3. \A e \in 1..L : b[e] = IF e = 1 \/ ~carried(e) THEN a[e] ELSE next(e)
  BY <1>1
<1>4. /\ carried(L)
      /\ carried(L - 1) <=> full(L)
      /\ carried(L - 2) <=> full(L) /\ full(L - 1)
  <2>1. (L + 1)..L = {} /\ (L - 1 + 1)..L = {L} /\ (L - 2 + 1)..L = {L - 1, L}
    BY <1>1
  <2> HIDE DEF full
  <2> QED BY <2>1
<1> HIDE DEF b, carried, next
<1>5. /\ b[L] = NextByte(a[L])
      /\ b[L - 1] = IF a[L] = 254 THEN NextByte(a[L - 1]) ELSE a[L - 1]
      /\ b[L - 2] = IF a[L] = 254 /\ a[L - 1] = 254 THEN NextByte(a[L - 2]) ELSE a[L - 2]
  <2> HIDE DEF full, L
  <2> QED BY <1>1, <1>2, <1>3, <1>4
<1>6. NextAddress(a) = b
  BY DEF NextAddress, b, carried, full
<1> QED BY <1>1, <1>5, <1>6

\* The next address has the next rank, or the rank a round before it.
LEMMA NextAddressRank ==
    ASSUME NEW a \in IPAddress
    PROVE  /\ Rank(a) \in Int
           /\ Rank(NextAddress(a)) = Rank(a) + 1 \/ Rank(NextAddress(a)) = Rank(a) + 1 - Round
<1> DEFINE b == NextAddress(a)
           x == a[Len(a) - 2]
           y == a[Len(a) - 1]
           z == a[Len(a)]
<1>1. Len(b) = Len(a)
  BY NextAddressType
<1>2. /\ x \in Byte /\ y \in Byte /\ z \in Byte
      /\ b[Len(b)] = NextByte(z)
      /\ b[Len(b) - 1] = IF z = 254 THEN NextByte(y) ELSE y
      /\ b[Len(b) - 2] = IF z = 254 /\ y = 254 THEN NextByte(x) ELSE x
  BY <1>1, NextAddressBytes
<1>3. Rank(a) = 64516 * Digit(x) + 254 * Digit(y) + Digit(z)
  BY DEF Rank
<1>4. Rank(b) = 64516 * Digit(IF z = 254 /\ y = 254 THEN NextByte(x) ELSE x)
                  + 254 * Digit(IF z = 254 THEN NextByte(y) ELSE y) + Digit(NextByte(z))
  BY <1>2 DEF Rank
<1>5. Digit(x) \in Int /\ Digit(y) \in Int /\ Digit(z) \in Int
  BY <1>2, NextByteDigit
<1>6. Rank(a) \in Int
  BY <1>3, <1>5
<1> HIDE DEF x, y, z, b
<1>7. CASE z # 254
  <2>1. Digit(NextByte(z)) = Digit(z) + 1
    BY <1>2, <1>7, NextByteDigit
  <2> QED BY <1>3, <1>4, <1>5, <1>6, <1>7, <2>1 DEF b
<1>8. CASE z = 254 /\ y # 254
  <2>1. Digit(z) = 253 /\ Digit(NextByte(z)) = 0 /\ Digit(NextByte(y)) = Digit(y) + 1
    BY <1>2, <1>8, NextByteDigit
  <2>2. Rank(b) = 64516 * Digit(x) + 254 * (Digit(y) + 1) + 0
    BY <1>4, <1>8, <2>1
  <2> QED BY <1>3, <1>5, <1>6, <2>1, <2>2 DEF b
<1>9. CASE z = 254 /\ y = 254 /\ x # 254
  <2>1. /\ Digit(z) = 253 /\ Digit(NextByte(z)) = 0 /\ Digit(y) = 253 /\ Digit(NextByte(y)) = 0
        /\ Digit(NextByte(x)) = Digit(x) + 1
    BY <1>2, <1>9, NextByteDigit
  <2>2. Rank(b) = 64516 * (Digit(x) + 1) + 254 * 0 + 0
    BY <1>4, <1>9, <2>1
  <2> QED BY <1>3, <1>5, <1>6, <2>1, <2>2 DEF b
<1>10. CASE z = 254 /\ y = 254 /\ x = 254
  <2>1. /\ Digit(z) = 253 /\ Digit(NextByte(z)) = 0 /\ Digit(y) = 253 /\ Digit(NextByte(y)) = 0
        /\ Digit(x) = 253 /\ Digit(NextByte(x)) = 0
    BY <1>2, <1>10, NextByteDigit
  <2>2. Rank(b) = 0 /\ Rank(a) = 16387063
    BY <1>3, <1>4, <1>10, <2>1
  <2> QED BY <1>6, <2>2 DEF b, Round
<1> QED BY <1>6, <1>7, <1>8, <1>9, <1>10

\* The i-th address is i after the starting one, but for whole rounds.
RanksFollow ==
    /\ \A i \in 1..Len(Generated) :
         \E w \in Int : Rank(Generated[i][1]) = Rank(startIP) + i + w * Round
    /\ \E w \in Int : Rank(genAddr) = Rank(startIP) + Len(Generated) + w * Round

\* Two numbers that are closer than a round and whole rounds apart are the same.
LEMMA SameRound ==
    ASSUME NEW i \in Nat, NEW j \in Nat, NEW v \in Int, NEW w \in Int,
           i - j < Round, j - i < Round, i + v * Round = j + w * Round
    PROVE  i = j
BY DEF Round

\* No address is generated twice, however the bytes of the starting address
\* are carried, as long as no more than 254^3 are asked for.  (More of them
\* pass checkStartingIP when the first byte has room, which generateSusbsets
\* never changes.)
THEOREM AddressesAlwaysDistinct == GenSpec => [](Number <= Round => AddressesDistinct)
<1>1. GenInit => RanksFollow
  <2> SUFFICES ASSUME GenInit PROVE RanksFollow
    OBVIOUS
  <2>1. startIP \in IPAddress /\ genAddr = startIP /\ subsets = <<>> /\ subset = <<>>
    BY GenAssumption DEF GenInit, IPAddress, Byte
  <2>2. Generated = <<>>
    <3>1. FlattenSeq(subsets) = <<>>
      BY <2>1, FlattenEmpty
    <3> QED BY <2>1, <3>1 DEF Generated
  <2>3. Len(Generated) = 0
    BY <2>2
  <2>4. Rank(startIP) \in Int
    BY <2>1, NextAddressRank
  <2>5. Rank(genAddr) = Rank(startIP) + Len(Generated) + 0 * Round
    BY <2>1, <2>3, <2>4 DEF Round
  <2> QED BY <2>3, <2>5 DEF RanksFollow
<1>2. GenInv /\ RanksFollow /\ [GenNext]_genVars => RanksFollow'
  <2> SUFFICES ASSUME GenInv, RanksFollow, [GenNext]_genVars PROVE RanksFollow'
    OBVIOUS
  <2>1. GenTyped
    BY DEF GenInv
  <2>2. CASE GenerateAddress
    <3> DEFINE new == <<genAddr', (PortBase + Len(Generated)) % 65536>>
               n == Len(Generated)
    <3>1. Generated' = Append(Generated, new)
      BY <2>1, <2>2, AddressAdded
    <3>2. genAddr' = NextAddress(genAddr) /\ startIP' = startIP
      BY <2>2 DEF GenerateAddress
    <3>3. Generated \in Seq(AddressAndPort) /\ n \in Nat
      BY <2>1, GeneratedLength
    <3>4. /\ Len(Generated') = n + 1
          /\ \A i \in 1..n : Generated'[i] = Generated[i]
          /\ Generated'[n + 1] = new
      <4> HIDE DEF new
      <4>1. new \in {new} \cup AddressAndPort /\ Generated \in Seq({new} \cup AddressAndPort)
        BY <3>3
      <4> QED BY <3>1, <3>3, <4>1, AppendProperties
    <3>5. Rank(genAddr) \in Int /\ Rank(startIP) \in Int
      BY <2>1, NextAddressRank DEF GenTyped
    <3>6. PICK w \in Int : Rank(genAddr) = Rank(startIP) + n + w * Round
      BY DEF RanksFollow
    <3>7. \E v \in Int : Rank(genAddr') = Rank(startIP) + (n + 1) + v * Round
      <4>1. Rank(genAddr') = Rank(genAddr) + 1 \/ Rank(genAddr') = Rank(genAddr) + 1 - Round
        BY <2>1, <3>2, NextAddressRank DEF GenTyped
      <4> HIDE DEF n
      <4>2. \/ Rank(genAddr') = Rank(startIP) + (n + 1) + w * Round
            \/ Rank(genAddr') = Rank(startIP) + (n + 1) + (w - 1) * Round
        BY <3>3, <3>5, <3>6, <4>1 DEF Round
      <4> QED BY <4>2
    <3>8. ASSUME NEW i \in 1..(n + 1)
          PROVE  \E v \in Int : Rank(Generated'[i][1]) = Rank(startIP) + i + v * Round
      <4>1. CASE i = n + 1
        BY <3>4, <3>7, <4>1
      <4>2. CASE i # n + 1
        <5>1. i \in 1..n
          BY <3>3, <4>2
        <5> QED BY <3>4, <5>1 DEF RanksFollow
      <4> QED BY <4>1, <4>2
    <3> QED BY <3>2, <3>4, <3>7, <3>8 DEF RanksFollow
  <2>3. CASE UNCHANGED <<startIP, genAddr, subset, subsets>>
    BY <2>3 DEF RanksFollow, Generated
  <2> QED BY <2>2, <2>3
      DEF GenNext, CheckStart, EndGenerate, CreateService, CreateEndPoint, EndCreate, genVars
<1>3. GenInv /\ RanksFollow => (Number <= Round => AddressesDistinct)
  <2> SUFFICES ASSUME GenInv, RanksFollow, Number <= Round PROVE AddressesDistinct
    OBVIOUS
  <2>1. GenTyped
    BY DEF GenInv
  <2> DEFINE n == Len(Generated)
             addrs == [i \in DOMAIN Generated |-> Generated[i][1]]
  <2>2. n \in Nat /\ n <= Round /\ DOMAIN Generated = 1..n
    <3>1. n \in Nat /\ DOMAIN Generated = 1..n
      BY <2>1, GeneratedLength
    <3>2. n <= Number /\ Number \in Nat
      BY <2>1, GeneratedLength DEF GenInv
    <3> QED BY <3>1, <3>2 DEF Round
  <2>3. Rank(startIP) \in Int
    BY <2>1, NextAddressRank DEF GenTyped
  <2>4. ASSUME NEW i \in 1..n, NEW j \in 1..n, Generated[i][1] = Generated[j][1] PROVE i = j
    <3>1. PICK v \in Int : Rank(Generated[i][1]) = Rank(startIP) + i + v * Round
      BY DEF RanksFollow
    <3>2. PICK w \in Int : Rank(Generated[j][1]) = Rank(startIP) + j + w * Round
      BY DEF RanksFollow
    <3>3. i \in Nat /\ j \in Nat /\ i - j < Round /\ j - i < Round
      BY <2>2 DEF Round
    <3>4. Rank(startIP) + i + v * Round = Rank(startIP) + j + w * Round
      BY <2>4, <3>1, <3>2
    <3>5. i + v * Round = j + w * Round
      BY <2>3, <3>3, <3>4 DEF Round
    <3> QED BY <3>3, <3>5, SameRound
  <2>5. IsInjective(addrs)
    BY <2>2, <2>4 DEF IsInjective
  <2> QED BY <2>5 DEF AddressesDistinct
<1> QED BY <1>1, <1>2, <1>3, GenInvariant, PTL DEF GenSpec
=============================================================================
