---------------------------- MODULE NFProxyProofs ----------------------------
(***************************************************************************)
(* The whole proxy: the invariant of Proxy carries over to the handlers,   *)
(* and the endpoints handlers bring the proxy in step with the cluster.    *)
(*                                                                         *)
(* EpInv says of every service port that the endpoints it has, less those  *)
(* still to be deleted, plus those still to be added, are those of the     *)
(* objects delivered (Balanced), each of those operations being about an   *)
(* entry of its own (InHand).  That an operation removes what it is to     *)
(* remove, and that no error ends a loop early, needs the chains in step   *)
(* with the maps (InStep), which needs the service handlers to keep to the *)
(* contract of Proxy in the steps the process survives: the hypothesis     *)
(* ServiceCallsSurvived.                                                   *)
(*                                                                         *)
(* The hypotheses on the objects of the cluster (EntriesApart, no          *)
(* bootstrap, no tombstones of slices) rule out the cases in which the     *)
(* handlers do not follow the cluster: each has a configuration that shows *)
(* it.                                                                     *)
(***************************************************************************)
EXTENDS NFProxy, ProxyProofs, FiniteSetTheorems

(***************************************************************************)
(* Sequences.                                                              *)
(***************************************************************************)
\* q lists the elements of s at the positions P, f[k] being the position of q[k].
Lists(q, s, P, f) ==
    /\ f \in [DOMAIN q -> P]
    /\ \A k \in DOMAIN q : q[k] = s[f[k]]
    /\ \A k, l \in DOMAIN q : f[k] = f[l] => k = l
    /\ \A i \in P : \E k \in DOMAIN q : f[k] = i

\* Picked takes each of the positions once.
LEMMA PickedOf ==
    ASSUME NEW S, NEW s \in Seq(S), NEW P \in SUBSET DOMAIN s
    PROVE  Picked(s, P) \in Seq(S) /\ \E f : Lists(Picked(s, P), s, P, f)
<1> DEFINE n == Cardinality(P)
           below(i) == {j \in P : j <= i}
           rank == [i \in P |-> Cardinality(below(i))]
           f == [k \in 1..n |-> CHOOSE i \in P : rank[i] = k]
<1>1. IsFiniteSet(P) /\ P \subseteq Nat /\ n \in Nat
  <2>1. DOMAIN s = 1..Len(s) /\ Len(s) \in Nat
    BY LenProperties
  <2>2. IsFiniteSet(DOMAIN s)
    BY <2>1, FS_Interval
  <2> QED BY <2>1, <2>2, FS_Subset, FS_CardinalityType
<1>2. ASSUME NEW i \in P
      PROVE  IsFiniteSet(below(i)) /\ rank[i] \in 1..n
  <2>1. below(i) \in SUBSET P /\ i \in below(i)
    BY <1>1
  <2>2. IsFiniteSet(below(i)) /\ Cardinality(below(i)) <= n /\ Cardinality(below(i)) \in Nat
    BY <1>1, <2>1, FS_Subset, FS_CardinalityType
  <2>3. Cardinality(below(i)) # 0
    BY <2>1, <2>2, FS_EmptySet
  <2> QED BY <1>1, <2>2, <2>3
<1>3. ASSUME NEW i \in P, NEW j \in P, rank[i] = rank[j], i <= j
      PROVE  i = j
  <2>1. below(i) \in SUBSET below(j) /\ j \in below(j)
    BY <1>1, <1>3
  <2>2. Cardinality(below(i)) = Cardinality(below(j))
    BY <1>3
  <2> HIDE DEF below
  <2>3. below(i) = below(j)
    BY <1>2, <2>1, <2>2, FS_Subset
  <2> QED BY <1>1, <1>3, <2>1, <2>3 DEF below
<1>4. rank \in Injection(P, 1..n)
  <2>1. rank \in [P -> 1..n]
    BY <1>2
  <2>2. \A i, j \in P : rank[i] = rank[j] => i = j
    <3> HIDE DEF rank
    <3> QED BY <1>1, <1>3
  <2> QED BY <2>1, <2>2 DEF Injection, IsInjective
<1>5. rank \in Surjection(P, 1..n)
  <2>1. IsFiniteSet(1..n) /\ Cardinality(1..n) = n
    BY <1>1, FS_Interval
  <2> HIDE DEF rank
  <2> QED BY <1>4, <2>1, FS_Injection
<1> HIDE DEF rank
<1>6. ASSUME NEW k \in 1..n
      PROVE  f[k] \in P /\ rank[f[k]] = k
  <2>1. \E i \in P : rank[i] = k
    BY <1>5 DEF Surjection
  <2> QED BY <2>1
<1>7. f \in [1..n -> P]
  BY <1>6
<1>8. ASSUME NEW k \in 1..n
      PROVE  Picked(s, P)[k] = s[f[k]]
  <2>1. f[k] = CHOOSE i \in P : Cardinality({j \in P : j <= i}) = k
    BY DEF rank
  <2> QED BY <2>1 DEF Picked
<1>9. Picked(s, P) \in Seq(S) /\ Len(Picked(s, P)) = n
  <2>1. DOMAIN Picked(s, P) = 1..n /\ Picked(s, P) = [k \in 1..n |-> Picked(s, P)[k]]
    BY DEF Picked
  <2>2. \A k \in 1..n : Picked(s, P)[k] \in S
    <3>1. \A i \in P : s[i] \in S
      BY ElementOfSeq, LenProperties
    <3> HIDE DEF f
    <3> QED BY <1>7, <1>8, <3>1
  <2>3. Picked(s, P) \in [1..n -> S]
    BY <2>1, <2>2
  <2> QED BY <1>1, <2>1, <2>3, SeqDef, LenProperties
<1>10. \A k, l \in 1..n : f[k] = f[l] => k = l
  <2> HIDE DEF f
  <2> QED BY <1>6
<1>11. ASSUME NEW i \in P
       PROVE  \E k \in 1..n : f[k] = i
  <2>1. rank[i] \in 1..n
    BY <1>4 DEF Injection
  <2>2. f[rank[i]] \in P /\ rank[f[rank[i]]] = rank[i]
    BY <1>6, <2>1
  <2>3. f[rank[i]] = i
    <3> HIDE DEF f
    <3> QED BY <1>4, <2>2 DEF Injection, IsInjective
  <2> QED BY <2>1, <2>3
<1>12. DOMAIN Picked(s, P) = 1..n
  BY DEF Picked
<1> HIDE DEF f, n
<1>13. Lists(Picked(s, P), s, P, f)
  BY <1>7, <1>8, <1>10, <1>11, <1>12 DEF Lists
<1> QED BY <1>9, <1>13

(***************************************************************************)
(* Where the endpoints are: nothing the service side does changes it.      *)
(***************************************************************************)
\* The address of every endpoint, and whether it is local.
Places(eps) == {<<eps[i].addr, eps[i].local>> : i \in DOMAIN eps}

\* A critical section on the way from w to u leaves the endpoints in place.
KeepsPlaces(w, u) ==
    /\ DOMAIN u = Fields /\ DOMAIN u.eps = DOMAIN w.eps
    /\ \A i \in DOMAIN w.eps : u.eps[i].addr = w.eps[i].addr /\ u.eps[i].local = w.eps[i].local

\* The records of the endpoints have the fields of EPRule, whatever they hold.
Placed(w) ==
    DOMAIN w = Fields /\ \A i \in DOMAIN w.eps : {"addr", "local"} \subseteq DOMAIN w.eps[i]

\* Rules are programmed without a look at the endpoints.
LEMMA ReplaceKeepsEndpoints ==
    ASSUME NEW w, DOMAIN w = Fields, NEW n, NEW kind
    PROVE  LET u == ReplaceRemembered(w, n, kind) IN
           DOMAIN u = Fields /\ u.eps = w.eps /\ u.ec = w.ec
BY DEF ReplaceRemembered, WithRules, Fields

\* So the service chain is brought up to date without touching them.
LEMMA UpdateKeepsEndpoints ==
    ASSUME NEW spn, NEW w, DOMAIN w = Fields
    PROVE  LET u == updateServiceChain(spn, w) IN
           DOMAIN u = Fields /\ u.eps = w.eps /\ u.ec = w.ec
<1> DEFINE w1 == MarkEndpoints(spn, w)
           u == updateServiceChain(spn, w)
<1>1. DOMAIN w1 = Fields /\ w1.eps = w.eps /\ w1.ec = w.ec
  BY DEF MarkEndpoints, Fields
<1> HIDE DEF w1
<1>2. LET v == ProgramServiceEndpoints(w1) IN DOMAIN v = Fields /\ v.eps = w1.eps /\ v.ec = w1.ec
  <2> DEFINE v == ProgramServiceEndpoints(w1)
             w2 == ReplaceRemembered(w1, 2, "matchact")
             w3 == ReplaceRemembered(w2, 3, "lb")
             w4 == ReplaceRemembered(w1, 2, "lb")
             w5 == ProgramFirst(w1)
  <2>1. DOMAIN w2 = Fields /\ w2.eps = w1.eps /\ w2.ec = w1.ec
    BY <1>1, ReplaceKeepsEndpoints
  <2>2. DOMAIN w4 = Fields /\ w4.eps = w1.eps /\ w4.ec = w1.ec
    BY <1>1, ReplaceKeepsEndpoints
  <2>3. DOMAIN w5 = Fields /\ w5.eps = w1.eps /\ w5.ec = w1.ec
    BY <1>1 DEF ProgramFirst, WithRules, Fields
  <2> HIDE DEF w2
  <2>4. DOMAIN w3 = Fields /\ w3.eps = w2.eps /\ w3.ec = w2.ec
    BY <2>1, ReplaceKeepsEndpoints
  <2>5. v \in {[w1 EXCEPT !.res = "error"], w5, w4, w2, w3}
    <3> HIDE DEF w3, w4, w5
    <3> QED BY DEF ProgramServiceEndpoints, w2, w3, w4, w5
  <2> HIDE DEF w3, w4, w5, v
  <2> QED BY <1>1, <2>1, <2>2, <2>3, <2>4, <2>5 DEF Fields, v
<1>3. \/ u = w \/ u = ProgramServiceEndpoints(w1)
      \/ \E c, ids : u = WithRules(w1, c, ids) \/ \E id : u = [w1 EXCEPT !.sc[id] = c, !.res = "error"]
  BY DEF updateServiceChain, w1
<1> HIDE DEF u
<1>4. CASE u = w \/ u = ProgramServiceEndpoints(w1)
  BY <1>1, <1>2, <1>4 DEF u
<1>5. CASE \E c, ids : u = WithRules(w1, c, ids)
  BY <1>1, <1>5 DEF WithRules, Fields, u
<1>6. CASE \E c, id : u = [w1 EXCEPT !.sc[id] = c, !.res = "error"]
  BY <1>1, <1>6 DEF Fields, u
<1> QED BY <1>3, <1>4, <1>5, <1>6

\* An Update rule more does not move an endpoint.
LEMMA AddAffinityEndpointKeepsPlaces ==
    ASSUME NEW w, Placed(w)
    PROVE  KeepsPlaces(w, addAffinityEndpoint(w))
BY DEF Placed, KeepsPlaces, addAffinityEndpoint, RememberUpdateRule, Fields

\* Nor does an Update rule less.
LEMMA DeleteAffinityEndpointKeepsPlaces ==
    ASSUME NEW w, Placed(w)
    PROVE  KeepsPlaces(w, deleteAffinityEndpoint(w))
BY DEF Placed, KeepsPlaces, deleteAffinityEndpoint, Fields

\* Steps that leave the endpoints in place follow one another.
LEMMA KeepsPlacesTrans ==
    ASSUME NEW w, NEW v, NEW u, KeepsPlaces(w, v), KeepsPlaces(v, u)
    PROVE  KeepsPlaces(w, u)
BY DEF KeepsPlaces

\* Endpoints that stay where they are.
LEMMA SameEndpointsKeepPlaces ==
    ASSUME NEW w, NEW u, DOMAIN u = Fields, u.eps = w.eps
    PROVE  KeepsPlaces(w, u)
BY DEF KeepsPlaces

\* addServicePort leaves the endpoints in place.
LEMMA AddServicePortKeepsPlaces ==
    ASSUME NEW spn, NEW spec, NEW w, Placed(w)
    PROVE  KeepsPlaces(w, addServicePort(spn, spec, w))
<1> DEFINE svc == NewServiceInfo(spec, w.eps # <<>>)
           id  == SvcID(svc)
           es  == ServicePortElements(spn, svc)
           all == IF svc.withEP THEN w.sets ELSE w.sets \cup NoEndpointsElements(spn, svc)
           w1  == [w EXCEPT !.svc = svc, !.sc[id] = CreateChain(@), !.sets = all]
           w2  == AddServiceAffinityMap(w1, id, svc.maxAge)
           w3  == IF ~svc.withAff THEN w1 ELSE IF ~svc.withEP THEN w2 ELSE addAffinityEndpoint(w2)
           w4  == [w3 EXCEPT !.sets = AddAllToSets(@, es)]
           w5  == [w4 EXCEPT !.svc = Nil, !.res = "error"]
           u   == addServicePort(spn, spec, w)
<1>0. DOMAIN w = Fields
  BY DEF Placed
<1>1. u \in {w, w5, updateServiceChain(spn, w4)}
  <2>1. w1 = [w EXCEPT !.svc = svc, !.sc[id] = CreateChain(@),
                       !.sets = IF svc.withEP THEN @ ELSE @ \cup NoEndpointsElements(spn, svc)]
    BY <1>0 DEF Fields
  <2> HIDE DEF es, svc, id, w1
  <2> QED BY <2>1 DEF addServicePort, es, svc, id
<1> HIDE DEF svc, id, es, all, u
<1>2. DOMAIN w1 = Fields /\ w1.eps = w.eps
  BY <1>0 DEF Fields
<1> HIDE DEF w1
<1>3. DOMAIN w2 = Fields /\ w2.eps = w.eps
  BY <1>2 DEF AddServiceAffinityMap, Fields
<1> HIDE DEF w2
<1>4. KeepsPlaces(w, w1) /\ KeepsPlaces(w, w2) /\ Placed(w2)
  BY <1>2, <1>3, SameEndpointsKeepPlaces DEF Placed
<1>5. KeepsPlaces(w, addAffinityEndpoint(w2))
  BY <1>4, AddAffinityEndpointKeepsPlaces, KeepsPlacesTrans
<1>6. KeepsPlaces(w, w3)
  BY <1>4, <1>5
<1> HIDE DEF w3
<1>7. DOMAIN w3 = Fields
  BY <1>6 DEF KeepsPlaces
<1>8. DOMAIN w4 = Fields /\ w4.eps = w3.eps
  BY <1>7 DEF Fields
<1> HIDE DEF w4
<1>9. DOMAIN w5 = Fields /\ w5.eps = w3.eps
  BY <1>8 DEF Fields
<1> HIDE DEF w5
<1>10. KeepsPlaces(w3, w5) /\ KeepsPlaces(w3, updateServiceChain(spn, w4))
  BY <1>8, <1>9, UpdateKeepsEndpoints, SameEndpointsKeepPlaces
<1>11. KeepsPlaces(w, w)
  BY <1>0, SameEndpointsKeepPlaces
<1> QED BY <1>1, <1>6, <1>10, <1>11, KeepsPlacesTrans DEF u

\* So does deleteServicePort.
LEMMA DeleteServicePortKeepsPlaces ==
    ASSUME NEW spn, NEW stored, NEW w, Placed(w)
    PROVE  KeepsPlaces(w, deleteServicePort(spn, stored, w))
<1> DEFINE id == SvcID(w.svc)
           gone == StoredElements(spn, w.svc, stored)
                   \cup IF w.svc.withEP THEN {} ELSE NoEndpointsElements(spn, w.svc)
           w1 == [w EXCEPT !.sets = RemoveFromSets(@, gone), !.sc[id] = DeleteChainRules(@, w.svc.ruleID)]
           w2 == IF w.svc.withEP THEN deleteAffinityEndpoint(w1) ELSE w1
           w3 == IF ~w.svc.withAff THEN w1
                 ELSE IF w2.res # "ok" THEN w2
                 ELSE DeleteServiceAffinityMap(w2, id)
           w4 == [w3 EXCEPT !.svc = Nil, !.sc[id] = IF SvcChainBusy(w3, <<spn, id>>) THEN @ ELSE Nil]
           u  == deleteServicePort(spn, stored, w)
<1>0. DOMAIN w = Fields
  BY DEF Placed
<1>1. u \in {w, w3, w4}
  BY DEF deleteServicePort
<1> HIDE DEF id, gone, u
<1>2. DOMAIN w1 = Fields /\ w1.eps = w.eps
  BY <1>0 DEF Fields
<1> HIDE DEF w1
<1>3. KeepsPlaces(w, w1) /\ Placed(w1)
  BY <1>2, SameEndpointsKeepPlaces DEF Placed
<1>4. KeepsPlaces(w, w2)
  BY <1>3, DeleteAffinityEndpointKeepsPlaces, KeepsPlacesTrans
<1> HIDE DEF w2
<1>5. DOMAIN w2 = Fields
  BY <1>4 DEF KeepsPlaces
<1>6. LET v == DeleteServiceAffinityMap(w2, id) IN DOMAIN v = Fields /\ v.eps = w2.eps
  BY <1>5 DEF DeleteServiceAffinityMap, Fields
<1>7. KeepsPlaces(w, w3)
  BY <1>3, <1>4, <1>6, SameEndpointsKeepPlaces, KeepsPlacesTrans
<1> HIDE DEF w3
<1>8. DOMAIN w3 = Fields
  BY <1>7 DEF KeepsPlaces
<1>9. DOMAIN w4 = Fields /\ w4.eps = w3.eps
  BY <1>8 DEF Fields
<1> HIDE DEF w4
<1>10. KeepsPlaces(w, w4) /\ KeepsPlaces(w, w)
  BY <1>0, <1>7, <1>9, SameEndpointsKeepPlaces, KeepsPlacesTrans
<1> QED BY <1>1, <1>7, <1>10 DEF u

\* And session affinity that is added.
LEMMA AddAffinityKeepsPlaces ==
    ASSUME NEW w, Placed(w)
    PROVE  KeepsPlaces(w, addAffinity(w))
<1> DEFINE id == SvcID(w.svc)
           w1 == AddServiceAffinityMap(w, id, w.svc.maxAge)
           c  == w.sc[id]
           h  == NewHandle(UsedHandles(c, w.svc.ruleID))
           w2 == WithRules(w1, InsertBefore(c, w.svc.ruleID[2], MatchActRule(h, id, w.eps)),
                           InsertAt(w.svc.ruleID, 2, h))
           w3 == addAffinityEndpoint(w2)
           w4 == [w3 EXCEPT !.svc.withAff = TRUE]
           u  == addAffinity(w)
<1>0. DOMAIN w = Fields
  BY DEF Placed
<1>1. u \in {[w EXCEPT !.res = "panic"], [w1 EXCEPT !.res = "panic"], [w1 EXCEPT !.res = "error"], w2, w4}
  BY DEF addAffinity
<1> HIDE DEF c, h, u
<1>2. DOMAIN w1 = Fields /\ w1.eps = w.eps
  BY <1>0 DEF AddServiceAffinityMap, Fields
<1> HIDE DEF w1, id
<1>3. DOMAIN w2 = Fields /\ w2.eps = w.eps
  BY <1>2 DEF WithRules, Fields
<1> HIDE DEF w2
<1>4. KeepsPlaces(w, w2) /\ Placed(w2)
  BY <1>3, SameEndpointsKeepPlaces DEF Placed
<1>5. KeepsPlaces(w, w3)
  BY <1>4, AddAffinityEndpointKeepsPlaces, KeepsPlacesTrans
<1> HIDE DEF w3
<1>6. DOMAIN w3 = Fields
  BY <1>5 DEF KeepsPlaces
<1>7. DOMAIN w4 = Fields /\ w4.eps = w3.eps
  BY <1>6 DEF Fields
<1> HIDE DEF w4
<1>8. KeepsPlaces(w, w4)
  BY <1>5, <1>7, SameEndpointsKeepPlaces, KeepsPlacesTrans
<1>9. KeepsPlaces(w, [w EXCEPT !.res = "panic"])
  BY <1>0, SameEndpointsKeepPlaces DEF Fields
<1>10. KeepsPlaces(w, [w1 EXCEPT !.res = "error"]) /\ KeepsPlaces(w, [w1 EXCEPT !.res = "panic"])
  BY <1>2, SameEndpointsKeepPlaces DEF Fields
<1> QED BY <1>1, <1>4, <1>8, <1>9, <1>10 DEF u

\* And session affinity that is removed.
LEMMA RemoveAffinityKeepsPlaces ==
    ASSUME NEW w, Placed(w)
    PROVE  KeepsPlaces(w, removeAffinity(w))
<1> DEFINE id == SvcID(w.svc)
           ids == w.svc.ruleID
           w1 == [w EXCEPT !.sc[id] = DeleteRule(@, ids[2])]
           w2 == deleteAffinityEndpoint(w1)
           w3 == IF w.svc.withEP THEN [w2 EXCEPT !.svc.ruleID = RemoveAt(@, 2)] ELSE w
           w4 == DeleteServiceAffinityMap(w3, id)
           w5 == [w4 EXCEPT !.svc.withAff = FALSE]
           u  == removeAffinity(w)
<1>0. DOMAIN w = Fields
  BY DEF Placed
<1>1. u \in {[w EXCEPT !.res = "panic"], [w EXCEPT !.res = "error"], w2, w4, w5}
  BY DEF removeAffinity
<1> HIDE DEF id, ids, u
<1>2. DOMAIN w1 = Fields /\ w1.eps = w.eps
  BY <1>0 DEF Fields
<1> HIDE DEF w1
<1>3. KeepsPlaces(w, w1) /\ Placed(w1) /\ KeepsPlaces(w, w)
  BY <1>0, <1>2, SameEndpointsKeepPlaces DEF Placed
<1>4. KeepsPlaces(w, w2)
  BY <1>3, DeleteAffinityEndpointKeepsPlaces, KeepsPlacesTrans
<1> HIDE DEF w2
<1>5. DOMAIN w2 = Fields
  BY <1>4 DEF KeepsPlaces
<1>6. KeepsPlaces(w2, [w2 EXCEPT !.svc.ruleID = RemoveAt(@, 2)])
  BY <1>5, SameEndpointsKeepPlaces DEF Fields
<1>7. KeepsPlaces(w, w3)
  BY <1>3, <1>4, <1>6, KeepsPlacesTrans
<1> HIDE DEF w3
<1>8. DOMAIN w3 = Fields
  BY <1>7 DEF KeepsPlaces
<1>9. DOMAIN w4 = Fields /\ w4.eps = w3.eps
  BY <1>8 DEF DeleteServiceAffinityMap, Fields
<1> HIDE DEF w4
<1>10. DOMAIN w5 = Fields /\ w5.eps = w3.eps
  BY <1>9 DEF Fields
<1> HIDE DEF w5
<1>11. KeepsPlaces(w, w4) /\ KeepsPlaces(w, w5)
  BY <1>7, <1>9, <1>10, SameEndpointsKeepPlaces, KeepsPlacesTrans
<1>12. KeepsPlaces(w, [w EXCEPT !.res = "panic"]) /\ KeepsPlaces(w, [w EXCEPT !.res = "error"])
  BY <1>0, SameEndpointsKeepPlaces DEF Fields
<1> QED BY <1>1, <1>4, <1>11, <1>12 DEF u

(***************************************************************************)
(* The loop of deleteEndpoint.                                             *)
(***************************************************************************)
\* On endpoints with different addresses the loop of the code, which goes on
\* over the array it is shifting, is the critical section of Proxy.
LEMMA LoopEndsWithFirstMatch ==
    ASSUME NEW spn, NEW addr, NEW local, NEW w, DOMAIN w = Fields, w.eps \in Seq(EndpointInfo),
           \A i, j \in DOMAIN w.eps : w.eps[i].addr = w.eps[j].addr => i = j
    PROVE  deleteEndpointLoop(spn, addr, local, w) = deleteEndpoint(spn, addr, local, w)
<1> DEFINE eps == w.eps
           matches(e, from) == {i \in from..Len(e) : e[i].addr = addr /\ e[i].local = local}
           first(S) == CHOOSE i \in S : \A j \in S : i <= j
           M == {i \in DOMAIN eps : eps[i].addr = addr /\ eps[i].local = local}
           n == first(M)
           arr == Append(RemoveAt(eps, n), Last(eps))
           v == [w EXCEPT !.eps = RemoveAt(eps, n)]
           w1 == updateServiceChain(spn, v)
           ids == eps[n].ruleID
           c == DeleteChainRules(w.ec[addr], ids)
           ok == DeleteChainRulesOK(w.ec[addr], ids)
           u == IF w1.res # "ok" THEN w1
                ELSE IF ~ok THEN [w1 EXCEPT !.ec[addr] = c, !.res = "error"]
                ELSE IF EpChainBusy(w1, addr) THEN [w1 EXCEPT !.ec[addr] = c, !.res = "error"]
                ELSE [w1 EXCEPT !.ec[addr] = Nil]
<1>1. DOMAIN eps = 1..Len(eps) /\ Len(eps) \in Nat /\ matches(eps, 1) = M
  BY LenProperties
<1>2. CASE M = {}
  BY <1>1, <1>2 DEF deleteEndpointLoop, deleteEndpoint
<1>3. CASE M # {}
  <2>1. n \in 1..Len(eps) /\ eps[n].addr = addr /\ M = {n}
    <3>1. PICK m \in M : TRUE
      BY <1>3
    <3>2. M = {m} /\ m \in Nat
      BY <1>1, <3>1
    <3>3. n = m
      BY <3>2
    <3> HIDE DEF n
    <3> QED BY <1>1, <3>2, <3>3
  <2>2. deleteEndpoint(spn, addr, local, w) = u
    BY <1>3 DEF deleteEndpoint, WithoutEndpoint
  <2> HIDE DEF n
  <2>3. DOMAIN w1 = Fields /\ w1.ec = w.ec
    <3>1. DOMAIN v = Fields /\ v.ec = w.ec
      BY DEF Fields
    <3> HIDE DEF v
    <3> QED BY <3>1, UpdateKeepsEndpoints
  <2> HIDE DEF v, M
  <2>4. DeleteAt(spn, w, eps, n) = u
    <3> DEFINE w2 == [w1 EXCEPT !.ec[addr] = DeleteChainRules(@, ids)]
    <3>0. DeleteAt(spn, w, eps, n) =
            IF w1.res # "ok" THEN w1
            ELSE IF ~ok \/ EpChainBusy(w1, addr) THEN [w2 EXCEPT !.res = "error"]
            ELSE [w1 EXCEPT !.ec[addr] = Nil]
      <4> HIDE DEF w1
      <4> QED BY <2>1 DEF DeleteAt, w1, v
    <3> HIDE DEF w1, ids
    <3>1. w2 = [w1 EXCEPT !.ec[addr] = c]
      BY <2>3 DEF Fields
    <3> HIDE DEF c, w2
    <3>2. [w2 EXCEPT !.res = "error"] = [w1 EXCEPT !.ec[addr] = c, !.res = "error"]
      BY <2>3, <3>1 DEF Fields
    <3> HIDE DEF ok
    <3> QED BY <3>0, <3>2
  <2>5. matches(arr, n + 1) = {}
    <3>0. RemoveAt(eps, n) \in Seq(EndpointInfo) /\ Len(RemoveAt(eps, n)) = Len(eps) - 1
          /\ \A i \in 1..(Len(eps) - 1) : RemoveAt(eps, n)[i] = IF i < n THEN eps[i] ELSE eps[i + 1]
      BY <2>1, RemoveAtProperties
    <3>1. Last(eps) = eps[Len(eps)] /\ Last(eps) \in EndpointInfo
      BY <1>1, <2>1, ElementOfSeq DEF Last
    <3> DEFINE r == RemoveAt(eps, n)
    <3> HIDE DEF r
    <3>2. Len(arr) = Len(eps) /\ arr[Len(eps)] = eps[Len(eps)]
          /\ \A i \in 1..(Len(eps) - 1) : arr[i] = r[i]
      <4>1. r \in Seq(EndpointInfo) /\ Len(r) = Len(eps) - 1
        BY <3>0 DEF r
      <4> QED BY <1>1, <3>1, <4>1, AppendProperties DEF r
    <3> HIDE DEF arr
    <3>3. ASSUME NEW i \in (n + 1)..Len(eps)
          PROVE  arr[i].addr # addr
      <4>1. CASE i = Len(eps)
        BY <1>1, <2>1, <3>2, <4>1
      <4>2. CASE i < Len(eps)
        <5>1. arr[i] = eps[i + 1] /\ i + 1 \in 1..Len(eps) /\ i + 1 # n
          BY <1>1, <2>1, <3>0, <3>2, <4>2 DEF r
        <5> QED BY <1>1, <2>1, <5>1
      <4> QED BY <1>1, <2>1, <4>1, <4>2
    <3> QED BY <3>2, <3>3
  <2>6. deleteEndpointLoop(spn, addr, local, w) = DeleteAt(spn, w, eps, n)
    <3>1. matches(w.eps, 1) # {} /\ n = first(matches(w.eps, 1))
      BY <1>1, <1>3 DEF n
    <3> DEFINE m == first(matches(w.eps, 1))
               d == DeleteAt(spn, w, w.eps, m)
               brr == Append(RemoveAt(w.eps, m), Last(w.eps))
    <3>2. deleteEndpointLoop(spn, addr, local, w) =
            IF matches(w.eps, 1) = {} THEN w
            ELSE IF d.res # "ok" \/ matches(brr, m + 1) = {} THEN d
            ELSE DeleteAt(spn, d, brr, first(matches(brr, m + 1)))
      BY DEF deleteEndpointLoop
    <3>3. m = n /\ brr = arr
      BY <3>1
    <3> HIDE DEF m, brr, arr
    <3>4. matches(brr, m + 1) = {}
      BY <2>5, <3>3
    <3> HIDE DEF matches
    <3> QED BY <3>1, <3>2, <3>3, <3>4
  <2> HIDE DEF u
  <2> QED BY <2>2, <2>4, <2>6
<1> QED BY <1>2, <1>3

(***************************************************************************)
(* The invariant of Proxy, with the handlers.                              *)
(***************************************************************************)
\* Every service port is in step with the kernel.
InStep ==
    /\ TypeOK
    /\ \A spn \in ServicePortName : PortOK(Local(spn))

\* A step that leaves the endpoints of every port in place.
PlacesStay ==
    \A spn \in ServicePortName : Places(endpointsMap'[spn]) = Places(endpointsMap[spn])

\* While the process runs, the invariant is that of Proxy.
LEMMA InStepRunning ==
    ASSUME InStep, proc = "running"
    PROVE  PortInv
BY DEF InStep, PortInv

\* The same for the next state.
LEMMA InStepNext ==
    ASSUME PortInv'
    PROVE  InStep' /\ proc' # "panicked"
BY DEF InStep, PortInv

\* A step that changes the process only.
LEMMA StopKeepsStep ==
    ASSUME InStep, proc' \in {"running", "panicked", "killed"},
           UNCHANGED <<serviceMap, endpointsMap, svcChain, epChain, affinityMap, sets>>
    PROVE  InStep' /\ PlacesStay
<1>1. TypeOK'
  BY DEF InStep, TypeOK
<1>2. ASSUME NEW s \in ServicePortName
      PROVE  PortOK(Local(s))'
  <2>1. Becomes(s, Local(s)) /\ PortOK(Local(s)) /\ sets' \subseteq SetElement
    BY LocalFields DEF Becomes, InStep, TypeOK
  <2> QED BY <2>1, PortAfter
<1> QED BY <1>1, <1>2 DEF InStep, PlacesStay

\* The endpoints of a port that is in step have their places.
LEMMA InStepPlaced ==
    ASSUME NEW w, PortOK(w)
    PROVE  Placed(w)
<1>1. DOMAIN w = Fields /\ w.eps \in Seq(EndpointInfo)
  BY DEF PortOK, Typed
<1>2. ASSUME NEW i \in DOMAIN w.eps
      PROVE  {"addr", "local"} \subseteq DOMAIN w.eps[i]
  <2>1. w.eps[i] \in EndpointInfo
    BY <1>1, EndpointsType
  <2> QED BY <2>1 DEF EndpointInfo
<1> QED BY <1>1, <1>2 DEF Placed

\* Endpoints that are kept in place are in the same places.
LEMMA PlacesKept ==
    ASSUME NEW w, NEW u, KeepsPlaces(w, u)
    PROVE  Places(u.eps) = Places(w.eps)
BY DEF KeepsPlaces, Places

\* A critical section that keeps the endpoints of its port in place keeps all.
LEMMA CommitKeepsPlaces ==
    ASSUME InStep, NEW spn, NEW u, Commit(spn, u),
           spn \in ServicePortName => Places(u.eps) = Places(endpointsMap[spn])
    PROVE  PlacesStay
<1>1. \/ endpointsMap' = endpointsMap
      \/ endpointsMap' = [endpointsMap EXCEPT ![spn] = u.eps]
  BY DEF Commit, Stop
<1>2. endpointsMap \in [ServicePortName -> Seq(EndpointInfo)]
  BY DEF InStep, TypeOK
<1> QED BY <1>1, <1>2 DEF PlacesStay

\* processAffinityChange does so with those of all its ports.
LEMMA AffinityChangeKeepsPlaces ==
    ASSUME InStep, NEW ports, NEW after, AffinityChange(ports, after),
           \A s \in ports \cap ServicePortName : Places(after[s].eps) = Places(endpointsMap[s])
    PROVE  PlacesStay
<1>1. \/ endpointsMap' = endpointsMap
      \/ endpointsMap' = [s \in ServicePortName |-> IF s \in ports THEN after[s].eps ELSE endpointsMap[s]]
  BY DEF AffinityChange, Stop
<1> QED BY <1>1 DEF PlacesStay

\* What the endpoints side asks of the service handlers: in a step that the
\* process survives, the calls are those Proxy allows.
ServiceCallsSurvived == proc' = "running" => ServiceCallsAllowed

\* Such service handlers keep every port in step and leave the endpoints in place.
LEMMA ServiceHandlersKeepStep ==
    ASSUME InStep, SvcHandler, ServiceCallsSurvived, proc' = "running"
    PROVE  InStep' /\ PlacesStay
<1> DEFINE o == Head(svcTodo)
           ports == Range(o.ports)
<1>0. ServiceCallsAllowed
  BY DEF ServiceCallsSurvived
<1>1. proc = "running" /\ PortInv
  BY InStepRunning DEF SvcHandler, SvcStep, StepAddPort, StepDeletePort, StepChangePort, StepAddElement,
     StepRemoveElement, StepAffinity, StepStore, StepPanic
<1>2. ASSUME NEW spn \in ServicePortName
      PROVE  Placed(Local(spn)) /\ Local(spn).eps = endpointsMap[spn]
  BY InStepPlaced, LocalFields DEF InStep
<1>3. CASE StepAddPort
  <2>1. o.spn \in ServicePortName /\ o.spec \in PortSpec /\ AddServicePort(o.spn, o.spec)
    BY <1>0, <1>3 DEF ServiceCallsAllowed
  <2>2. InStep'
    BY <1>1, <2>1, SectionsKeepStep, InStepNext
  <2>3. Commit(o.spn, addServicePort(o.spn, o.spec, Local(o.spn)))
    BY <2>1 DEF AddServicePort
  <2>4. Places(addServicePort(o.spn, o.spec, Local(o.spn)).eps) = Places(endpointsMap[o.spn])
    BY <1>2, <2>1, AddServicePortKeepsPlaces, PlacesKept
  <2> QED BY <2>2, <2>3, <2>4, CommitKeepsPlaces
<1>4. CASE StepDeletePort
  <2> DEFINE k == LastKnown(o.spn.svc)
  <2>1. o.spn \in ServicePortName /\ DeleteServicePort(o.spn, k)
    BY <1>0, <1>4 DEF ServiceCallsAllowed
  <2> HIDE DEF k
  <2>2. InStep'
    BY <1>1, <2>1, SectionsKeepStep, InStepNext
  <2>3. Commit(o.spn, deleteServicePort(o.spn, k, Local(o.spn)))
    BY <2>1 DEF DeleteServicePort
  <2>4. Places(deleteServicePort(o.spn, k, Local(o.spn)).eps) = Places(endpointsMap[o.spn])
    BY <1>2, <2>1, DeleteServicePortKeepsPlaces, PlacesKept
  <2> QED BY <2>2, <2>3, <2>4, CommitKeepsPlaces
<1>5. CASE StepAffinity
  <2>0. ports \subseteq ServicePortName
    BY <1>0, <1>5 DEF ServiceCallsAllowed
  <2>1. CASE o.aff # Nil
    <3> DEFINE after == [s \in ports |-> addAffinity(Local(s))]
    <3>1. AddAffinity(ports) /\ AffinityChange(ports, after)
      BY <1>0, <1>5, <2>1 DEF ServiceCallsAllowed, AddAffinity
    <3>2. InStep'
      BY <1>1, <2>0, <3>1, SectionsKeepStep, InStepNext
    <3>3. ASSUME NEW s \in ports \cap ServicePortName
          PROVE  Places(after[s].eps) = Places(endpointsMap[s])
      <4>1. Places(addAffinity(Local(s)).eps) = Places(endpointsMap[s])
        BY <1>2, AddAffinityKeepsPlaces, PlacesKept
      <4> QED BY <4>1
    <3> HIDE DEF after
    <3> QED BY <3>1, <3>2, <3>3, AffinityChangeKeepsPlaces
  <2>2. CASE o.aff = Nil
    <3> DEFINE after == [s \in ports |-> removeAffinity(Local(s))]
    <3>1. RemoveAffinity(ports) /\ AffinityChange(ports, after)
      BY <1>0, <1>5, <2>2 DEF ServiceCallsAllowed, RemoveAffinity
    <3>2. InStep'
      BY <1>1, <2>0, <3>1, SectionsKeepStep, InStepNext
    <3>3. ASSUME NEW s \in ports \cap ServicePortName
          PROVE  Places(after[s].eps) = Places(endpointsMap[s])
      <4>1. Places(removeAffinity(Local(s)).eps) = Places(endpointsMap[s])
        BY <1>2, RemoveAffinityKeepsPlaces, PlacesKept
      <4> QED BY <4>1
    <3> HIDE DEF after
    <3> QED BY <3>1, <3>2, <3>3, AffinityChangeKeepsPlaces
  <2> QED BY <2>1, <2>2
<1>6. CASE Stop("panicked") \/ UNCHANGED vars
  BY <1>1, <1>6, StopKeepsStep DEF Stop, vars
<1>7. CASE StepAddElement
  <2>1. CASE proc' = "running" /\ o.port # 0 /\ serviceMap[o.spn] # Nil
    <3>1. /\ o.spn \in ServicePortName /\ o.set \in UpdatedSets
          /\ o.ip \in AddressesOf(o.set) /\ o.port \in Port
      BY <1>0, <1>7, <2>1 DEF ServiceCallsAllowed
    <3>2. AddSetElement(o.spn, o.set, o.ip, o.port)
      BY <1>7, <2>1 DEF StepAddElement
    <3>3. InStep'
      BY <1>1, <3>1, <3>2, SetElementKeepsStep, InStepNext
    <3> QED BY <3>2, <3>3 DEF AddSetElement, PlacesStay
  <2>2. CASE ~(proc' = "running" /\ o.port # 0 /\ serviceMap[o.spn] # Nil)
    <3>1. Stop("panicked") \/ UNCHANGED vars
      BY <1>1, <1>7, <2>2 DEF StepAddElement, AddSetElement
    <3> QED BY <1>6, <3>1
  <2> QED BY <2>1, <2>2
<1>8. CASE StepRemoveElement
  <2>1. CASE RemoveSetElement(o.spn, o.set, o.ip, o.port)
    <3>1. sets' \subseteq SetElement
      BY <2>1 DEF RemoveSetElement, RemoveFromSets, InStep, TypeOK
    <3>2. InStep'
      BY <1>1, <2>1, <3>1, OthersKeepStep, InStepNext DEF RemoveSetElement
    <3> QED BY <2>1, <3>2 DEF RemoveSetElement, PlacesStay
  <2> QED BY <1>6, <1>8, <2>1 DEF StepRemoveElement
<1>9. CASE StepChangePort \/ StepStore \/ StepPanic
  BY <1>6, <1>9 DEF StepChangePort, StepStore, StepPanic
<1> QED BY <1>3, <1>4, <1>5, <1>7, <1>8, <1>9 DEF SvcHandler

\* addEndpoint adds a place at the end.
LEMMA AddEndpointPlaces ==
    ASSUME NEW spn, NEW addr, NEW local, NEW w, DOMAIN w = Fields, w.eps \in Seq(EndpointInfo),
           addEndpoint(spn, addr, local, w).res = "ok"
    PROVE  Places(addEndpoint(spn, addr, local, w).eps) = Places(w.eps) \cup {<<addr, local>>}
<1> DEFINE u == addEndpoint(spn, addr, local, w)
<1>1. \E v, e : /\ u = updateServiceChain(spn, v) /\ DOMAIN v = Fields /\ v.eps = Append(w.eps, e)
                /\ e.addr = addr /\ e.local = local
  <2> DEFINE withAff == w.svc # Nil /\ w.svc.withAff
             ep0  == [addr |-> addr, local |-> local, index |-> Len(w.eps),
                      withAff |-> withAff, ruleID |-> <<>>]
             id   == SvcID(w.svc)
             c    == CreateChain(w.ec[addr])
             used == HandlesOf(c)
             h1   == NewHandle(used)
             h2   == NewHandle(used \cup {h1})
             h3   == NewHandle(used \cup {h1, h2})
             h4   == NewHandle(used \cup {h1, h2, h3})
             e1   == [ep0 EXCEPT !.ruleID = <<h1, h2, h3>>]
             e2   == [ep0 EXCEPT !.ruleID = <<h4, h1, h2, h3>>]
             d1   == c \o EndpointRules(h1, h2, h3)
             d2   == <<UpdateRule(h4, id, ep0)>> \o c \o EndpointRules(h1, h2, h3)
             plain  == [w EXCEPT !.ec[addr] = d1, !.eps = Append(@, e1)]
             sticky == [w EXCEPT !.ec[addr] = d2, !.eps = Append(@, e2)]
  <2>1. u = IF ~withAff THEN updateServiceChain(spn, plain)
            ELSE IF w.am[id] = Nil THEN [w EXCEPT !.res = "error"]
            ELSE updateServiceChain(spn, sticky)
    BY DEF addEndpoint
  <2>2. e1.addr = addr /\ e1.local = local /\ e2.addr = addr /\ e2.local = local
    OBVIOUS
  <2> HIDE DEF e1, e2, d1, d2
  <2>3. DOMAIN plain = Fields /\ plain.eps = Append(w.eps, e1)
    BY DEF Fields
  <2>4. DOMAIN sticky = Fields /\ sticky.eps = Append(w.eps, e2)
    BY DEF Fields
  <2>5. [w EXCEPT !.res = "error"].res # "ok"
    BY DEF Fields
  <2> HIDE DEF plain, sticky, withAff
  <2>6. u = updateServiceChain(spn, plain) \/ u = updateServiceChain(spn, sticky)
    BY <2>1, <2>5
  <2> QED BY <2>2, <2>3, <2>4, <2>6
<1>2. PICK v, e : /\ u = updateServiceChain(spn, v) /\ DOMAIN v = Fields /\ v.eps = Append(w.eps, e)
                  /\ e.addr = addr /\ e.local = local
  BY <1>1
<1> HIDE DEF u
<1>3. u.eps = Append(w.eps, e)
  BY <1>2, UpdateKeepsEndpoints
<1> DEFINE S == EndpointInfo \cup {e}
<1>4. w.eps \in Seq(S) /\ e \in S
  <2>1. EndpointInfo \subseteq S
    OBVIOUS
  <2> QED BY <2>1, LenProperties, ElementOfSeq, SeqDef
<1> HIDE DEF S
<1>5. /\ DOMAIN w.eps = 1..Len(w.eps) /\ Len(w.eps) \in Nat
      /\ DOMAIN u.eps = 1..(Len(w.eps) + 1) /\ u.eps[Len(w.eps) + 1] = e
      /\ \A i \in 1..Len(w.eps) : u.eps[i] = w.eps[i]
  BY <1>3, <1>4, AppendProperties, LenProperties
<1>6. \A i \in DOMAIN u.eps : i \in DOMAIN w.eps \/ i = Len(w.eps) + 1
  BY <1>5
<1>7. Len(w.eps) + 1 \in DOMAIN u.eps /\ \A i \in DOMAIN w.eps : i \in DOMAIN u.eps
  BY <1>5
<1> QED BY <1>2, <1>5, <1>6, <1>7 DEF Places, u

\* deleteEndpoint takes one away, if it is there.
LEMMA DeleteEndpointPlaces ==
    ASSUME NEW spn, NEW addr, NEW local, NEW w, DOMAIN w = Fields, w.eps \in Seq(EndpointInfo),
           \A i, j \in DOMAIN w.eps : w.eps[i].addr = w.eps[j].addr => i = j
    PROVE  Places(deleteEndpoint(spn, addr, local, w).eps) = Places(w.eps) \ {<<addr, local>>}
<1> DEFINE eps == w.eps
           M == {i \in DOMAIN eps : eps[i].addr = addr /\ eps[i].local = local}
           n == CHOOSE i \in M : \A j \in M : i <= j
           v == [w EXCEPT !.eps = RemoveAt(eps, n)]
           w1 == updateServiceChain(spn, v)
           u == deleteEndpoint(spn, addr, local, w)
<1>1. DOMAIN eps = 1..Len(eps) /\ Len(eps) \in Nat
  BY LenProperties
<1>2. CASE M = {}
  <2>1. u = w
    BY <1>2 DEF deleteEndpoint
  <2>2. <<addr, local>> \notin Places(w.eps)
    BY <1>2 DEF Places
  <2> QED BY <2>1, <2>2
<1>3. CASE M # {}
  <2>1. n \in 1..Len(eps) /\ eps[n].addr = addr /\ eps[n].local = local
    <3>1. PICK m \in M : TRUE
      BY <1>3
    <3>2. M = {m} /\ m \in Nat
      BY <1>1, <3>1
    <3>3. n = m
      BY <3>2
    <3> HIDE DEF n
    <3> QED BY <1>1, <3>2, <3>3
  <2>2. \E c : u \in {w1, [w1 EXCEPT !.ec[addr] = c, !.res = "error"], [w1 EXCEPT !.ec[addr] = Nil]}
    BY <1>3 DEF deleteEndpoint, WithoutEndpoint
  <2> HIDE DEF n, M, u
  <2>3. DOMAIN w1 = Fields /\ w1.eps = RemoveAt(eps, n)
    <3>1. DOMAIN v = Fields /\ v.eps = RemoveAt(eps, n)
      BY DEF Fields
    <3> HIDE DEF v
    <3> QED BY <3>1, UpdateKeepsEndpoints
  <2> HIDE DEF w1
  <2>4. u.eps = RemoveAt(eps, n)
    BY <2>2, <2>3 DEF Fields
  <2>5. /\ DOMAIN u.eps = 1..(Len(eps) - 1)
        /\ \A i \in 1..(Len(eps) - 1) : u.eps[i] = IF i < n THEN eps[i] ELSE eps[i + 1]
    <3> DEFINE r == RemoveAt(eps, n)
    <3>1. /\ r \in Seq(EndpointInfo) /\ Len(r) = Len(eps) - 1
          /\ \A i \in 1..(Len(eps) - 1) : r[i] = IF i < n THEN eps[i] ELSE eps[i + 1]
      BY <2>1, RemoveAtProperties
    <3> HIDE DEF r
    <3>2. DOMAIN r = 1..Len(r)
      BY <3>1, LenProperties
    <3> QED BY <2>4, <3>1, <3>2 DEF r
  <2>6. ASSUME NEW i \in DOMAIN u.eps
        PROVE  \E j \in DOMAIN eps : j # n /\ u.eps[i] = eps[j]
    <3>1. CASE i < n
      BY <1>1, <2>1, <2>5, <3>1
    <3>2. CASE ~(i < n)
      <4>1. i + 1 \in DOMAIN eps /\ i + 1 # n /\ u.eps[i] = eps[i + 1]
        BY <1>1, <2>1, <2>5, <3>2
      <4> QED BY <4>1
    <3> QED BY <3>1, <3>2
  <2>7. ASSUME NEW j \in DOMAIN eps, j # n
        PROVE  \E i \in DOMAIN u.eps : u.eps[i] = eps[j]
    <3>1. CASE j < n
      <4>1. j \in 1..(Len(eps) - 1) /\ u.eps[j] = eps[j]
        BY <1>1, <2>1, <2>5, <3>1
      <4> QED BY <2>5, <4>1
    <3>2. CASE ~(j < n)
      <4>1. j - 1 \in 1..(Len(eps) - 1) /\ ~(j - 1 < n) /\ (j - 1) + 1 = j
        BY <1>1, <2>1, <2>7, <3>2
      <4>2. u.eps[j - 1] = eps[j]
        BY <2>5, <4>1
      <4> QED BY <2>5, <4>1, <4>2
    <3> QED BY <3>1, <3>2
  <2>8. \A j \in DOMAIN eps : eps[j].addr = addr => j = n
    BY <1>1, <2>1
  <2>9. Places(u.eps) \subseteq Places(eps) \ {<<addr, local>>}
    BY <2>6, <2>8 DEF Places
  <2>10. Places(eps) \ {<<addr, local>>} \subseteq Places(u.eps)
    <3> SUFFICES ASSUME NEW j \in DOMAIN eps, <<eps[j].addr, eps[j].local>> # <<addr, local>>
                 PROVE  <<eps[j].addr, eps[j].local>> \in Places(u.eps)
      BY DEF Places
    <3>1. j # n
      BY <2>1
    <3>2. PICK i \in DOMAIN u.eps : u.eps[i] = eps[j]
      BY <2>7, <3>1
    <3> QED BY <3>2 DEF Places
  <2> QED BY <2>9, <2>10 DEF u
<1> QED BY <1>2, <1>3 DEF u

\* No two endpoints of a port that is in step have the same address.
LEMMA InStepAddresses ==
    ASSUME InStep, NEW spn \in ServicePortName
    PROVE  /\ PortOK(Local(spn)) /\ Local(spn).eps = endpointsMap[spn]
           /\ DOMAIN Local(spn) = Fields /\ Local(spn).eps \in Seq(EndpointInfo)
           /\ Local(spn).res = "ok"
           /\ \A i, j \in DOMAIN Local(spn).eps : Local(spn).eps[i].addr = Local(spn).eps[j].addr => i = j
<1> DEFINE w == Local(spn)
<1>1. PortOK(w) /\ w.eps = endpointsMap[spn] /\ w.res = "ok"
  BY LocalFields DEF InStep
<1> HIDE DEF w
<1>2. DOMAIN w = Fields /\ w.eps \in Seq(EndpointInfo)
  BY <1>1 DEF PortOK, Typed
<1>3. \A i, j \in DOMAIN w.eps : w.eps[i].addr = w.eps[j].addr => i = j
  BY <1>1 DEF PortOK, EndpointsOK
<1> QED BY <1>1, <1>2, <1>3 DEF w

\* The endpoints of spn are in these places after a step, those of the other
\* ports where they were.
PlacesBecome(spn, places) ==
    /\ Places(endpointsMap'[spn]) = places
    /\ \A s \in ServicePortName : s # spn => Places(endpointsMap'[s]) = Places(endpointsMap[s])

\* A critical section that succeeds leaves its port in the places of its result.
LEMMA CommitPlaces ==
    ASSUME InStep, NEW spn \in ServicePortName, NEW u, u.res # "panic", Commit(spn, u)
    PROVE  PlacesBecome(spn, Places(u.eps)) /\ proc' = proc
<1>1. endpointsMap' = [endpointsMap EXCEPT ![spn] = u.eps] /\ proc' = proc
  BY DEF Commit
<1>2. endpointsMap \in [ServicePortName -> Seq(EndpointInfo)]
  BY DEF InStep, TypeOK
<1> QED BY <1>1, <1>2 DEF PlacesBecome

\* The add step of an endpoints handler, for an address that is not there.
LEMMA AddStepKeepsStep ==
    ASSUME InStep, StepAddEndpoint, NEW o, o = Head(epTodo),
           o.spn \in ServicePortName, o.addr \in Addr, o.local \in BOOLEAN,
           \A i \in DOMAIN endpointsMap[o.spn] : endpointsMap[o.spn][i].addr # o.addr
    PROVE  /\ InStep' /\ proc' = proc /\ epTodo' = Tail(epTodo)
           /\ AddEndpoint(o.spn, o.addr, o.local)
           /\ PlacesBecome(o.spn, Places(endpointsMap[o.spn]) \cup {<<o.addr, o.local>>})
<1> DEFINE w == Local(o.spn)
           u == addEndpoint(o.spn, o.addr, o.local, w)
<1>0. proc = "running" /\ PortInv
  BY InStepRunning DEF StepAddEndpoint, EpStep
<1>1. Commit(o.spn, u) /\ epTodo' = IF u.res # "ok" /\ o.ends THEN <<>> ELSE Tail(epTodo)
  BY DEF StepAddEndpoint
<1>2. AddEndpoint(o.spn, o.addr, o.local)
  BY <1>0, <1>1 DEF AddEndpoint
<1>3. InStep'
  BY <1>0, <1>2, SectionsKeepStep, InStepNext
<1>4. /\ PortOK(w) /\ w.eps = endpointsMap[o.spn] /\ w.res = "ok" /\ DOMAIN w = Fields
      /\ w.eps \in Seq(EndpointInfo)
  BY InStepAddresses
<1>5. u.res = "ok"
  <2>1. \A i \in DOMAIN w.eps : w.eps[i].addr # o.addr
    BY <1>4
  <2> HIDE DEF w
  <2> QED BY <1>4, <2>1, AddEndpointOK
<1> HIDE DEF w
<1>6. Places(u.eps) = Places(w.eps) \cup {<<o.addr, o.local>>}
  BY <1>4, <1>5, AddEndpointPlaces
<1> HIDE DEF u
<1> QED BY <1>1, <1>2, <1>3, <1>4, <1>5, <1>6, CommitPlaces

\* The delete step of an endpoints handler.
LEMMA DeleteStepKeepsStep ==
    ASSUME InStep, StepDeleteEndpoint, NEW o, o = Head(epTodo),
           o.spn \in ServicePortName, o.addr \in Addr, o.local \in BOOLEAN
    PROVE  /\ InStep' /\ proc' = proc /\ epTodo' = Tail(epTodo)
           /\ DeleteEndpoint(o.spn, o.addr, o.local)
           /\ PlacesBecome(o.spn, Places(endpointsMap[o.spn]) \ {<<o.addr, o.local>>})
<1> DEFINE w == Local(o.spn)
           u == deleteEndpoint(o.spn, o.addr, o.local, w)
<1>0. proc = "running" /\ PortInv
  BY InStepRunning DEF StepDeleteEndpoint, EpStep
<1>1. Commit(o.spn, deleteEndpointLoop(o.spn, o.addr, o.local, w)) /\ epTodo' = Tail(epTodo)
  BY DEF StepDeleteEndpoint
<1>2. /\ PortOK(w) /\ w.eps = endpointsMap[o.spn] /\ w.res = "ok" /\ DOMAIN w = Fields
      /\ w.eps \in Seq(EndpointInfo)
      /\ \A i, j \in DOMAIN w.eps : w.eps[i].addr = w.eps[j].addr => i = j
  BY InStepAddresses
<1>3. Commit(o.spn, u)
  <2> HIDE DEF w
  <2> QED BY <1>1, <1>2, LoopEndsWithFirstMatch
<1>4. DeleteEndpoint(o.spn, o.addr, o.local)
  BY <1>0, <1>3 DEF DeleteEndpoint
<1>5. InStep'
  BY <1>0, <1>4, SectionsKeepStep, InStepNext
<1> HIDE DEF w
<1>6. u.res = "ok"
  BY <1>2, DeleteEndpointOK
<1>7. Places(u.eps) = Places(w.eps) \ {<<o.addr, o.local>>}
  BY <1>2, DeleteEndpointPlaces
<1> HIDE DEF u
<1> QED BY <1>1, <1>2, <1>3, <1>4, <1>5, <1>6, <1>7, CommitPlaces

(***************************************************************************)
(* The work of an endpoints handler.                                       *)
(***************************************************************************)
\* What an operation of an endpoints handler may be.
EndpointOp ==
         [op : {"add"}, spn : ServicePortName, addr : Addr, local : BOOLEAN, ends : BOOLEAN]
    \cup [op : {"delete"}, spn : ServicePortName, addr : Addr, local : BOOLEAN]
    \cup [op : {"store"}, ep : EpObject, obj : Seq(EndpointEntry) \cup {Nil}]

IsCall(x) == x.op \in {"add", "delete"}

\* The places of spn the operations ops are still to add or to delete.
Pending(ops, kind, spn) ==
    {<<ops[i].addr, ops[i].local>> : i \in {i \in DOMAIN ops : ops[i].op = kind /\ ops[i].spn = spn}}

\* No two operations are about the same endpoint.
Once(ops) ==
    \A i, j \in DOMAIN ops :
        /\ IsCall(ops[i]) /\ IsCall(ops[j]) /\ ops[i].spn = ops[j].spn /\ ops[i].addr = ops[j].addr
        => i = j

\* The fields of an operation.
LEMMA EndpointOpFields ==
    ASSUME NEW x \in EndpointOp
    PROVE  /\ x.op \in {"add", "delete", "store"}
           /\ IsCall(x) => x.spn \in ServicePortName /\ x.addr \in Addr /\ x.local \in BOOLEAN
           /\ x.op = "store" => x.ep \in EpObject /\ x.obj \in Seq(EndpointEntry) \cup {Nil}
BY DEF EndpointOp, IsCall

\* The work of two parts of a handler.
LEMMA PendingConcat ==
    ASSUME NEW a \in Seq(EndpointOp), NEW b \in Seq(EndpointOp)
    PROVE  /\ a \o b \in Seq(EndpointOp)
           /\ \A kind, spn : Pending(a \o b, kind, spn) = Pending(a, kind, spn) \cup Pending(b, kind, spn)
<1> DEFINE c == a \o b
<1>1. /\ c \in Seq(EndpointOp) /\ Len(c) = Len(a) + Len(b) /\ Len(a) \in Nat /\ Len(b) \in Nat
      /\ \A i \in 1..(Len(a) + Len(b)) : c[i] = IF i <= Len(a) THEN a[i] ELSE b[i - Len(a)]
  BY ConcatProperties, LenProperties
<1>2. DOMAIN a = 1..Len(a) /\ DOMAIN b = 1..Len(b) /\ DOMAIN c = 1..(Len(a) + Len(b))
  BY <1>1, LenProperties
<1> HIDE DEF c
<1>3. \A i \in DOMAIN c : (i \in DOMAIN a /\ c[i] = a[i]) \/ (i - Len(a) \in DOMAIN b /\ c[i] = b[i - Len(a)])
  BY <1>1, <1>2
<1>4. \A i \in DOMAIN a : i \in DOMAIN c /\ c[i] = a[i]
  BY <1>1, <1>2
<1>5. ASSUME NEW i \in DOMAIN b
      PROVE  i + Len(a) \in DOMAIN c /\ c[i + Len(a)] = b[i]
  <2>1. i + Len(a) \in 1..(Len(a) + Len(b)) /\ ~(i + Len(a) <= Len(a)) /\ (i + Len(a)) - Len(a) = i
    BY <1>1, <1>2
  <2> QED BY <1>1, <1>2, <2>1
<1>6. ASSUME NEW kind, NEW spn
      PROVE  Pending(c, kind, spn) = Pending(a, kind, spn) \cup Pending(b, kind, spn)
  <2>1. Pending(c, kind, spn) \subseteq Pending(a, kind, spn) \cup Pending(b, kind, spn)
    BY <1>3 DEF Pending
  <2>2. Pending(a, kind, spn) \subseteq Pending(c, kind, spn)
    BY <1>4 DEF Pending
  <2>3. Pending(b, kind, spn) \subseteq Pending(c, kind, spn)
    BY <1>5 DEF Pending
  <2> QED BY <2>1, <2>2, <2>3
<1> QED BY <1>1, <1>6 DEF c

\* Two parts that are about different endpoints.
LEMMA OnceConcat ==
    ASSUME NEW a \in Seq(EndpointOp), NEW b \in Seq(EndpointOp), Once(a), Once(b),
           \A i \in DOMAIN a, j \in DOMAIN b : IsCall(a[i]) /\ IsCall(b[j]) =>
               a[i].spn # b[j].spn \/ a[i].addr # b[j].addr
    PROVE  Once(a \o b)
<1> DEFINE c == a \o b
<1>1. /\ c \in Seq(EndpointOp) /\ Len(c) = Len(a) + Len(b) /\ Len(a) \in Nat /\ Len(b) \in Nat
      /\ \A i \in 1..(Len(a) + Len(b)) : c[i] = IF i <= Len(a) THEN a[i] ELSE b[i - Len(a)]
  BY ConcatProperties, LenProperties
<1>2. DOMAIN a = 1..Len(a) /\ DOMAIN b = 1..Len(b) /\ DOMAIN c = 1..(Len(a) + Len(b))
  BY <1>1, LenProperties
<1> HIDE DEF c
<1>3. \A i \in DOMAIN c : (i \in DOMAIN a /\ c[i] = a[i])
                          \/ (i \notin DOMAIN a /\ i - Len(a) \in DOMAIN b /\ c[i] = b[i - Len(a)])
  BY <1>1, <1>2
<1> SUFFICES ASSUME NEW i \in DOMAIN c, NEW j \in DOMAIN c, IsCall(c[i]), IsCall(c[j]),
                    c[i].spn = c[j].spn, c[i].addr = c[j].addr
             PROVE  i = j
  BY DEF Once, c
<1>4. CASE i \in DOMAIN a /\ j \in DOMAIN a
  BY <1>1, <1>2, <1>4 DEF Once
<1>5. CASE i \notin DOMAIN a /\ j \notin DOMAIN a
  <2>1. i - Len(a) \in DOMAIN b /\ c[i] = b[i - Len(a)] /\ j - Len(a) \in DOMAIN b /\ c[j] = b[j - Len(a)]
    BY <1>3, <1>5
  <2>2. i - Len(a) = j - Len(a)
    BY <2>1 DEF Once
  <2> QED BY <1>1, <1>2, <2>2
<1>6. CASE i \in DOMAIN a /\ j \notin DOMAIN a
  BY <1>3, <1>6
<1>7. CASE i \notin DOMAIN a /\ j \in DOMAIN a
  BY <1>3, <1>7
<1> QED BY <1>4, <1>5, <1>6, <1>7

\* The work that is left when the first operation is done.
LEMMA PendingTail ==
    ASSUME NEW ops \in Seq(EndpointOp), ops # <<>>, Once(ops)
    PROVE  LET x == Head(ops)
               t == Tail(ops)
           IN  /\ x \in EndpointOp /\ t \in Seq(EndpointOp) /\ Once(t)
               /\ 1 \in DOMAIN ops /\ ops[1] = x
               /\ \A i \in DOMAIN t : i + 1 \in DOMAIN ops /\ t[i] = ops[i + 1]
               /\ \A kind, spn : Pending(ops, kind, spn) =
                    Pending(t, kind, spn) \cup
                    IF x.op = kind /\ x.spn = spn THEN {<<x.addr, x.local>>} ELSE {}
               /\ IsCall(x) => \A kind \in {"add", "delete"} : \A local :
                    <<x.addr, local>> \notin Pending(t, kind, x.spn)
<1> DEFINE x == Head(ops)
           t == Tail(ops)
<1>1. /\ Len(ops) \in Nat /\ Len(ops) > 0 /\ DOMAIN ops = 1..Len(ops) /\ x = ops[1]
      /\ t \in Seq(EndpointOp) /\ Len(t) = Len(ops) - 1 /\ \A i \in 1..Len(t) : t[i] = ops[i + 1]
  BY HeadTailProperties, LenProperties, EmptySeq
<1>2. DOMAIN t = 1..Len(t)
  BY <1>1, LenProperties
<1>3. x \in EndpointOp
  BY <1>1, ElementOfSeq
<1> HIDE DEF x, t
<1>4. \A i \in DOMAIN t : i + 1 \in DOMAIN ops /\ i + 1 # 1 /\ t[i] = ops[i + 1]
  BY <1>1, <1>2
<1>5. ASSUME NEW i \in DOMAIN ops, i # 1
      PROVE  i - 1 \in DOMAIN t /\ t[i - 1] = ops[i]
  <2>1. i - 1 \in 1..Len(t) /\ (i - 1) + 1 = i
    BY <1>1, <1>5
  <2> QED BY <1>1, <1>2, <2>1
<1>6. Once(t)
  <2> SUFFICES ASSUME NEW i \in DOMAIN t, NEW j \in DOMAIN t, IsCall(t[i]), IsCall(t[j]),
                      t[i].spn = t[j].spn, t[i].addr = t[j].addr
               PROVE  i = j
    BY DEF Once
  <2>1. i + 1 = j + 1
    BY <1>4 DEF Once
  <2> QED BY <1>2, <2>1
<1>7. ASSUME NEW kind, NEW spn
      PROVE  Pending(ops, kind, spn) = Pending(t, kind, spn) \cup
               IF x.op = kind /\ x.spn = spn THEN {<<x.addr, x.local>>} ELSE {}
  <2> DEFINE head == IF x.op = kind /\ x.spn = spn THEN {<<x.addr, x.local>>} ELSE {}
  <2>1. Pending(t, kind, spn) \subseteq Pending(ops, kind, spn)
    BY <1>4 DEF Pending
  <2>2. head \subseteq Pending(ops, kind, spn)
    <3>1. 1 \in DOMAIN ops
      BY <1>1
    <3> QED BY <1>1, <3>1 DEF Pending
  <2>3. ASSUME NEW i \in DOMAIN ops, ops[i].op = kind, ops[i].spn = spn
        PROVE  <<ops[i].addr, ops[i].local>> \in Pending(t, kind, spn) \cup head
    <3>1. CASE i = 1
      BY <1>1, <2>3, <3>1
    <3>2. CASE i # 1
      BY <1>5, <2>3, <3>2 DEF Pending
    <3> QED BY <3>1, <3>2
  <2> HIDE DEF head
  <2>4. Pending(ops, kind, spn) \subseteq Pending(t, kind, spn) \cup head
    BY <2>3 DEF Pending
  <2> QED BY <2>1, <2>2, <2>4 DEF head
<1>8. ASSUME IsCall(x), NEW kind \in {"add", "delete"}, NEW local,
             <<x.addr, local>> \in Pending(t, kind, x.spn)
      PROVE  FALSE
  <2>1. PICK i \in DOMAIN t : t[i].op = kind /\ t[i].spn = x.spn /\ <<x.addr, local>> = <<t[i].addr, t[i].local>>
    BY <1>8 DEF Pending
  <2>2. i + 1 \in DOMAIN ops /\ i + 1 # 1 /\ t[i] = ops[i + 1] /\ 1 \in DOMAIN ops /\ x = ops[1]
    BY <1>1, <1>4
  <2>3. ops[i + 1].addr = ops[1].addr /\ ops[i + 1].spn = ops[1].spn /\ IsCall(ops[i + 1]) /\ IsCall(ops[1])
    BY <1>8, <2>1, <2>2 DEF IsCall
  <2> QED BY <2>2, <2>3 DEF Once
<1> QED BY <1>1, <1>3, <1>4, <1>6, <1>7, <1>8 DEF x, t

(***************************************************************************)
(* Lists of entries and the operations made of them.                       *)
(***************************************************************************)
\* No two entries of an object name the same endpoint.
Single(es) ==
    \A i, j \in DOMAIN es : es[i].name = es[j].name /\ es[i].addr = es[j].addr => i = j

\* q has the entries of obj at the positions P, each of them once.
Selects(q, obj, P) ==
    /\ q \in Seq(EndpointEntry) /\ Single(q)
    /\ \A k \in DOMAIN q : \E i \in P : q[k] = obj[i]
    /\ \A i \in P : \E k \in DOMAIN q : q[k] = obj[i]

\* The places of spn among the entries at the positions P.
Chosen(obj, P, spn) == {<<obj[i].addr, obj[i].local>> : i \in {i \in P : obj[i].name = spn}}

\* The operation x is about the entry e.
About(x, e) == IsCall(x) /\ x.spn = e.name /\ x.addr = e.addr /\ x.local = e.local

\* The operations are about entries at the positions P, each about another.
WorkOn(ops, obj, P) ==
    /\ ops \in Seq(EndpointOp) /\ Once(ops)
    /\ \A k \in DOMAIN ops : \E i \in P : About(ops[k], obj[i])

\* Picked selects.
LEMMA PickedSelects ==
    ASSUME NEW obj \in Seq(EndpointEntry), Single(obj), NEW P \in SUBSET DOMAIN obj
    PROVE  Selects(Picked(obj, P), obj, P)
<1> DEFINE q == Picked(obj, P)
<1>1. PICK f : Lists(q, obj, P, f)
  BY PickedOf
<1>2. q \in Seq(EndpointEntry) /\ DOMAIN f = DOMAIN q
  BY <1>1, PickedOf DEF Lists
<1> HIDE DEF q
<1>3. Single(q)
  <2> SUFFICES ASSUME NEW k \in DOMAIN q, NEW l \in DOMAIN q, q[k].name = q[l].name, q[k].addr = q[l].addr
               PROVE  k = l
    BY DEF Single
  <2>1. f[k] \in DOMAIN obj /\ f[l] \in DOMAIN obj /\ q[k] = obj[f[k]] /\ q[l] = obj[f[l]]
    BY <1>1 DEF Lists
  <2>2. f[k] = f[l]
    BY <2>1 DEF Single
  <2> QED BY <1>1, <2>2 DEF Lists
<1>4. \A k \in DOMAIN q : \E i \in P : q[k] = obj[i]
  BY <1>1 DEF Lists
<1>5. ASSUME NEW i \in P
      PROVE  \E k \in DOMAIN q : q[k] = obj[i]
  <2>1. PICK k \in DOMAIN q : f[k] = i
    BY <1>1 DEF Lists
  <2>2. q[k] = obj[f[k]]
    BY <1>1 DEF Lists
  <2> QED BY <2>1, <2>2
<1> QED BY <1>2, <1>3, <1>4, <1>5 DEF Selects, q

\* So does the whole object.
LEMMA WholeSelects ==
    ASSUME NEW obj \in Seq(EndpointEntry), Single(obj)
    PROVE  Selects(obj, obj, DOMAIN obj)
BY DEF Selects

\* The fields of an entry.
LEMMA EntryFields ==
    ASSUME NEW q \in Seq(EndpointEntry), NEW k \in DOMAIN q
    PROVE  /\ q[k] \in EndpointEntry /\ q[k].name \in ServicePortName /\ q[k].addr \in Addr
           /\ q[k].local \in BOOLEAN /\ q[k].ready \in BOOLEAN \cup {Nil}
<1>1. q[k] \in EndpointEntry
  BY ElementOfSeq, LenProperties
<1> QED BY <1>1 DEF EndpointEntry

\* The two calls an entry can make.
LEMMA EntryOps ==
    ASSUME NEW q \in Seq(EndpointEntry), NEW k \in DOMAIN q, NEW ends \in BOOLEAN
    PROVE  /\ AddEpOp(q[k], ends) \in EndpointOp /\ About(AddEpOp(q[k], ends), q[k])
           /\ AddEpOp(q[k], ends).op = "add"
           /\ DeleteEpOp(q[k]) \in EndpointOp /\ About(DeleteEpOp(q[k]), q[k])
           /\ DeleteEpOp(q[k]).op = "delete"
<1>1. q[k].name \in ServicePortName /\ q[k].addr \in Addr /\ q[k].local \in BOOLEAN
  BY EntryFields
<1> QED BY <1>1 DEF AddEpOp, DeleteEpOp, EndpointOp, About, IsCall

\* A list with one operation for each selected entry.
LEMMA CallList ==
    ASSUME NEW q, NEW obj, NEW P, Selects(q, obj, P), NEW ops, DOMAIN ops = DOMAIN q,
           ops = [k \in DOMAIN q |-> ops[k]],
           \A k \in DOMAIN q : ops[k] \in EndpointOp /\ About(ops[k], q[k])
    PROVE  WorkOn(ops, obj, P)
<1>1. DOMAIN q = 1..Len(q) /\ Len(q) \in Nat
  BY LenProperties DEF Selects
<1>2. ops \in [1..Len(q) -> EndpointOp]
  BY <1>1
<1>3. ops \in Seq(EndpointOp)
  BY <1>1, <1>2, SeqDef
<1>4. Once(ops)
  BY DEF Once, Selects, Single, About
<1>5. \A k \in DOMAIN ops : \E i \in P : About(ops[k], obj[i])
  BY DEF Selects
<1> QED BY <1>3, <1>4, <1>5 DEF WorkOn

\* Of the operations on the entries q, those on the positions Q are of this kind.
Marks(ops, kind, q, obj, P, Q) ==
    /\ DOMAIN ops = DOMAIN q /\ Q \subseteq P
    /\ \A k \in DOMAIN q : About(ops[k], q[k])
    /\ \A k \in DOMAIN q : \A i \in P : q[k] = obj[i] => (ops[k].op = kind <=> i \in Q)

\* What a list of operations on selected entries is to add, or to delete.
LEMMA PendingChosen ==
    ASSUME NEW q, NEW obj, NEW P, Selects(q, obj, P), NEW ops, NEW kind, NEW Q,
           Marks(ops, kind, q, obj, P, Q), NEW spn
    PROVE  Pending(ops, kind, spn) = Chosen(obj, Q, spn)
<1>1. ASSUME NEW k \in DOMAIN ops, ops[k].op = kind, ops[k].spn = spn
      PROVE  <<ops[k].addr, ops[k].local>> \in Chosen(obj, Q, spn)
  <2>1. PICK i \in P : q[k] = obj[i]
    BY DEF Selects, Marks
  <2>2. i \in Q
    BY <1>1, <2>1 DEF Marks
  <2>3. obj[i].name = spn /\ ops[k].addr = obj[i].addr /\ ops[k].local = obj[i].local
    BY <1>1, <2>1 DEF About, Marks
  <2> QED BY <2>2, <2>3 DEF Chosen
<1>2. ASSUME NEW i \in Q, obj[i].name = spn
      PROVE  <<obj[i].addr, obj[i].local>> \in Pending(ops, kind, spn)
  <2>1. PICK k \in DOMAIN q : q[k] = obj[i]
    BY DEF Selects, Marks
  <2>2. ops[k].op = kind /\ ops[k].spn = spn /\ ops[k].addr = obj[i].addr /\ ops[k].local = obj[i].local
    BY <1>2, <2>1 DEF About, Marks
  <2> QED BY <2>1, <2>2 DEF Pending, Marks
<1>3. Pending(ops, kind, spn) \subseteq Chosen(obj, Q, spn)
  BY <1>1 DEF Pending
<1>4. Chosen(obj, Q, spn) \subseteq Pending(ops, kind, spn)
  BY <1>2 DEF Chosen
<1> QED BY <1>3, <1>4

\* The selected entries are added.
LEMMA AddList ==
    ASSUME NEW q, NEW obj, NEW P, Selects(q, obj, P), NEW ends \in BOOLEAN
    PROVE  LET ops == AddEpOps(q, ends) IN
           /\ WorkOn(ops, obj, P) /\ \A k \in DOMAIN ops : ops[k].op = "add"
           /\ \A spn : /\ Pending(ops, "add", spn) = Chosen(obj, P, spn)
                       /\ Pending(ops, "delete", spn) = {}
<1> DEFINE ops == AddEpOps(q, ends)
<1>1. q \in Seq(EndpointEntry)
  BY DEF Selects
<1>2. DOMAIN ops = DOMAIN q /\ ops = [k \in DOMAIN q |-> AddEpOp(q[k], ends)]
  BY DEF AddEpOps
<1> HIDE DEF ops
<1>3. ASSUME NEW k \in DOMAIN q
      PROVE  ops[k] \in EndpointOp /\ About(ops[k], q[k]) /\ ops[k].op = "add"
  BY <1>1, <1>2, EntryOps
<1>4. WorkOn(ops, obj, P)
  <2>1. ops = [k \in DOMAIN q |-> ops[k]]
    BY <1>2
  <2> QED BY <1>2, <1>3, <2>1, CallList
<1>5. ASSUME NEW spn
      PROVE  Pending(ops, "add", spn) = Chosen(obj, P, spn) /\ Pending(ops, "delete", spn) = {}
  <2>1. Pending(ops, "delete", spn) = {}
    BY <1>2, <1>3 DEF Pending
  <2>2. Pending(ops, "add", spn) = Chosen(obj, P, spn)
    BY <1>2, <1>3, PendingChosen DEF Marks
  <2> QED BY <2>1, <2>2
<1> QED BY <1>2, <1>3, <1>4, <1>5 DEF ops

\* The selected entries are deleted.
LEMMA DeleteList ==
    ASSUME NEW q, NEW obj, NEW P, Selects(q, obj, P)
    PROVE  LET ops == DeleteEpOps(q) IN
           /\ WorkOn(ops, obj, P) /\ \A k \in DOMAIN ops : ops[k].op = "delete"
           /\ \A spn : /\ Pending(ops, "add", spn) = {}
                       /\ Pending(ops, "delete", spn) = Chosen(obj, P, spn)
<1> DEFINE ops == DeleteEpOps(q)
<1>1. q \in Seq(EndpointEntry)
  BY DEF Selects
<1>2. DOMAIN ops = DOMAIN q /\ ops = [k \in DOMAIN q |-> DeleteEpOp(q[k])]
  BY DEF DeleteEpOps
<1> HIDE DEF ops
<1>3. ASSUME NEW k \in DOMAIN q
      PROVE  ops[k] \in EndpointOp /\ About(ops[k], q[k]) /\ ops[k].op = "delete"
  BY <1>1, <1>2, EntryOps
<1>4. WorkOn(ops, obj, P)
  <2>1. ops = [k \in DOMAIN q |-> ops[k]]
    BY <1>2
  <2> QED BY <1>2, <1>3, <2>1, CallList
<1>5. ASSUME NEW spn
      PROVE  Pending(ops, "delete", spn) = Chosen(obj, P, spn) /\ Pending(ops, "add", spn) = {}
  <2>1. Pending(ops, "add", spn) = {}
    BY <1>2, <1>3 DEF Pending
  <2>2. Pending(ops, "delete", spn) = Chosen(obj, P, spn)
    BY <1>2, <1>3, PendingChosen DEF Marks
  <2> QED BY <2>1, <2>2
<1> QED BY <1>2, <1>3, <1>4, <1>5 DEF ops

\* The operations on the entries of a slice that changed.
ChangeOps(q) == [k \in DOMAIN q |-> IF q[k].ready THEN AddEpOp(q[k], FALSE) ELSE DeleteEpOp(q[k])]

\* The entries are added or deleted, as they are ready or not.
LEMMA ChangeList ==
    ASSUME NEW q, NEW obj, NEW P, Selects(q, obj, P), \A i \in P : obj[i].ready \in BOOLEAN,
           NEW ops, ops = ChangeOps(q)
    PROVE  /\ WorkOn(ops, obj, P) /\ \A k \in DOMAIN ops : IsCall(ops[k])
           /\ \A spn : /\ Pending(ops, "add", spn) = Chosen(obj, {i \in P : obj[i].ready}, spn)
                       /\ Pending(ops, "delete", spn) = Chosen(obj, {i \in P : ~obj[i].ready}, spn)
<1>1. q \in Seq(EndpointEntry)
  BY DEF Selects
<1>2. DOMAIN ops = DOMAIN q
  BY DEF ChangeOps
<1>3. ASSUME NEW k \in DOMAIN q
      PROVE  /\ ops[k] \in EndpointOp /\ About(ops[k], q[k])
             /\ ops[k].op = IF q[k].ready THEN "add" ELSE "delete"
  <2>1. ops[k] = IF q[k].ready THEN AddEpOp(q[k], FALSE) ELSE DeleteEpOp(q[k])
    BY DEF ChangeOps
  <2>2. PICK i \in P : q[k] = obj[i]
    BY DEF Selects
  <2>3. q[k].ready \in BOOLEAN
    BY <2>2
  <2>4. CASE q[k].ready
    <3>1. ops[k] = AddEpOp(q[k], FALSE)
      BY <2>1, <2>4
    <3> QED BY <1>1, <2>4, <3>1, EntryOps
  <2>5. CASE ~q[k].ready
    <3>1. ops[k] = DeleteEpOp(q[k])
      BY <2>1, <2>5
    <3> QED BY <1>1, <2>5, <3>1, EntryOps
  <2> QED BY <2>3, <2>4, <2>5
<1>4. WorkOn(ops, obj, P)
  <2>1. ops = [k \in DOMAIN q |-> ops[k]]
    BY DEF ChangeOps
  <2> QED BY <1>2, <1>3, <2>1, CallList
<1>5. ASSUME NEW spn
      PROVE  /\ Pending(ops, "add", spn) = Chosen(obj, {i \in P : obj[i].ready}, spn)
             /\ Pending(ops, "delete", spn) = Chosen(obj, {i \in P : ~obj[i].ready}, spn)
  <2> DEFINE Q == {i \in P : obj[i].ready}
             R == {i \in P : ~obj[i].ready}
  <2>0. \A k \in DOMAIN q : About(ops[k], q[k])
    BY <1>3
  <2>1. \A k \in DOMAIN q : \A i \in P : q[k] = obj[i] => (ops[k].op = "add" <=> i \in Q)
    BY <1>3
  <2>5. \A k \in DOMAIN q : \A i \in P : q[k] = obj[i] => (ops[k].op = "delete" <=> i \in R)
    BY <1>3
  <2>2. Q \in SUBSET P /\ R \in SUBSET P
    OBVIOUS
  <2> HIDE DEF Q, R
  <2>3. Pending(ops, "add", spn) = Chosen(obj, Q, spn)
    <3>1. Marks(ops, "add", q, obj, P, Q)
      BY <1>2, <2>0, <2>1, <2>2 DEF Marks
    <3> QED BY <3>1, PendingChosen
  <2>4. Pending(ops, "delete", spn) = Chosen(obj, R, spn)
    <3>1. Marks(ops, "delete", q, obj, P, R)
      BY <1>2, <2>0, <2>5, <2>2 DEF Marks
    <3> QED BY <3>1, PendingChosen
  <2> QED BY <2>3, <2>4 DEF Q, R
<1> QED BY <1>2, <1>3, <1>4, <1>5 DEF About

(***************************************************************************)
(* The whole list of a handler.                                            *)
(***************************************************************************)
\* The endpoint is an entry of an object the cluster may have.
IsEntry(spn, addr, local) ==
    \E o \in EpObject : \E obj \in EpVersions[o] \ {Nil} : \E i \in DOMAIN obj :
        obj[i].name = spn /\ obj[i].addr = addr /\ obj[i].local = local

\* The calls are about entries.
OnEntries(ops) ==
    \A k \in DOMAIN ops : IsCall(ops[k]) => IsEntry(ops[k].spn, ops[k].addr, ops[k].local)

\* Everything is added before anything else is done.
AddsFirst(ops) == \A i, j \in DOMAIN ops : i < j /\ ops[j].op = "add" => ops[i].op = "add"

\* A list of calls about different entries.
CallsOnly(ops) ==
    /\ ops \in Seq(EndpointOp) /\ Once(ops) /\ OnEntries(ops)
    /\ \A k \in DOMAIN ops : IsCall(ops[k])

\* The operation at the end of ops stores obj under the name o.
StoresLast(ops, o, obj) ==
    ops # <<>> /\ ops[Len(ops)].op = "store" /\ ops[Len(ops)].ep = o /\ ops[Len(ops)].obj = obj

\* Only the operation at the end may store.
StoresNoneBefore(ops) == \A k \in DOMAIN ops : ops[k].op = "store" => k = Len(ops)

\* Operations on entries of an object the cluster may have.
LEMMA WorkCalls ==
    ASSUME NEW o \in EpObject, NEW obj \in EpVersions[o] \ {Nil}, NEW P \in SUBSET DOMAIN obj,
           NEW ops, WorkOn(ops, obj, P)
    PROVE  CallsOnly(ops)
<1>1. ASSUME NEW k \in DOMAIN ops
      PROVE  IsCall(ops[k]) /\ IsEntry(ops[k].spn, ops[k].addr, ops[k].local)
  <2>1. PICK i \in P : About(ops[k], obj[i])
    BY DEF WorkOn
  <2> QED BY <2>1 DEF About, IsEntry
<1> QED BY <1>1 DEF CallsOnly, WorkOn, OnEntries

\* Where the elements of two lists are in their concatenation.
LEMMA ConcatElements ==
    ASSUME NEW a \in Seq(EndpointOp), NEW b \in Seq(EndpointOp)
    PROVE  /\ a \o b \in Seq(EndpointOp) /\ Len(a \o b) = Len(a) + Len(b)
           /\ Len(a) \in Nat /\ Len(b) \in Nat /\ DOMAIN a = 1..Len(a) /\ DOMAIN b = 1..Len(b)
           /\ DOMAIN (a \o b) = 1..(Len(a) + Len(b))
           /\ \A i \in DOMAIN (a \o b) :
                \/ i \in DOMAIN a /\ (a \o b)[i] = a[i]
                \/ i > Len(a) /\ i - Len(a) \in DOMAIN b /\ (a \o b)[i] = b[i - Len(a)]
<1>1. /\ a \o b \in Seq(EndpointOp) /\ Len(a \o b) = Len(a) + Len(b) /\ Len(a) \in Nat /\ Len(b) \in Nat
      /\ \A i \in 1..(Len(a) + Len(b)) : (a \o b)[i] = IF i <= Len(a) THEN a[i] ELSE b[i - Len(a)]
  BY ConcatProperties, LenProperties
<1>2. DOMAIN a = 1..Len(a) /\ DOMAIN b = 1..Len(b) /\ DOMAIN (a \o b) = 1..(Len(a) + Len(b))
  BY <1>1, LenProperties
<1>3. ASSUME NEW i \in DOMAIN (a \o b)
      PROVE  \/ i \in DOMAIN a /\ (a \o b)[i] = a[i]
             \/ i > Len(a) /\ i - Len(a) \in DOMAIN b /\ (a \o b)[i] = b[i - Len(a)]
  BY <1>1, <1>2
<1> QED BY <1>1, <1>2, <1>3

\* Two lists of calls about different endpoints.
LEMMA CallsConcat ==
    ASSUME NEW a, NEW b, CallsOnly(a), CallsOnly(b),
           \A i \in DOMAIN a, j \in DOMAIN b : a[i].spn # b[j].spn \/ a[i].addr # b[j].addr
    PROVE  CallsOnly(a \o b)
<1> DEFINE c == a \o b
<1>1. a \in Seq(EndpointOp) /\ b \in Seq(EndpointOp) /\ Once(a) /\ Once(b)
  BY DEF CallsOnly
<1>2. c \in Seq(EndpointOp) /\ \A i \in DOMAIN c : (\E k \in DOMAIN a : c[i] = a[k]) \/ (\E k \in DOMAIN b : c[i] = b[k])
  BY <1>1, ConcatElements
<1>3. Once(c)
  BY <1>1, OnceConcat
<1> HIDE DEF c
<1>4. ASSUME NEW i \in DOMAIN c
      PROVE  IsCall(c[i]) /\ IsEntry(c[i].spn, c[i].addr, c[i].local)
  BY <1>2 DEF CallsOnly, OnEntries
<1> QED BY <1>2, <1>3, <1>4 DEF CallsOnly, OnEntries, c

\* Adds in front of deletes.
LEMMA AddsConcat ==
    ASSUME NEW a \in Seq(EndpointOp), NEW b \in Seq(EndpointOp), \A k \in DOMAIN a : a[k].op = "add",
           \A k \in DOMAIN b : b[k].op # "add"
    PROVE  AddsFirst(a \o b)
<1> DEFINE c == a \o b
<1>1. /\ DOMAIN a = 1..Len(a) /\ Len(a) \in Nat /\ Len(b) \in Nat /\ DOMAIN c = 1..(Len(a) + Len(b))
      /\ \A i \in DOMAIN c : \/ i \in DOMAIN a /\ c[i] = a[i]
                             \/ i > Len(a) /\ i - Len(a) \in DOMAIN b /\ c[i] = b[i - Len(a)]
  BY ConcatElements
<1> HIDE DEF c
<1>2. ASSUME NEW i \in DOMAIN c, NEW j \in DOMAIN c, i < j, c[j].op = "add"
      PROVE  c[i].op = "add"
  <2>1. j \in DOMAIN a
    BY <1>1, <1>2
  <2>2. i \in DOMAIN a /\ ~(i > Len(a))
    BY <1>1, <1>2, <2>1
  <2> QED BY <1>1, <2>2
<1> QED BY <1>2 DEF AddsFirst, c

\* A list of calls and the store at its end.
LEMMA StoreAtEnd ==
    ASSUME NEW a, CallsOnly(a), NEW o \in EpObject, NEW obj \in Seq(EndpointEntry) \cup {Nil}
    PROVE  LET c == a \o <<StoreEpOp(o, obj)>> IN
           /\ c \in Seq(EndpointOp) /\ Once(c) /\ OnEntries(c)
           /\ StoresLast(c, o, obj) /\ StoresNoneBefore(c)
           /\ \A kind \in {"add", "delete"} : \A spn : Pending(c, kind, spn) = Pending(a, kind, spn)
           /\ AddsFirst(a) => AddsFirst(c)
<1> DEFINE st == StoreEpOp(o, obj)
           b == <<st>>
           c == a \o b
<1>1. st \in EndpointOp /\ st.op = "store" /\ st.ep = o /\ st.obj = obj
  BY DEF StoreEpOp, EndpointOp
<1> HIDE DEF st
<1>2. b \in Seq(EndpointOp) /\ Len(b) = 1 /\ DOMAIN b = {1} /\ b[1] = st
  BY <1>1
<1>3. a \in Seq(EndpointOp) /\ Once(a)
  BY DEF CallsOnly
<1> HIDE DEF b
<1>4. /\ c \in Seq(EndpointOp) /\ Len(c) = Len(a) + 1 /\ Len(a) \in Nat /\ DOMAIN a = 1..Len(a)
      /\ DOMAIN c = 1..(Len(a) + 1)
      /\ \A i \in DOMAIN c : \/ i \in DOMAIN a /\ c[i] = a[i]
                             \/ i > Len(a) /\ c[i] = st
  <2>1. /\ c \in Seq(EndpointOp) /\ Len(c) = Len(a) + Len(b) /\ Len(a) \in Nat /\ DOMAIN a = 1..Len(a)
        /\ DOMAIN c = 1..(Len(a) + Len(b))
        /\ \A i \in DOMAIN c : \/ i \in DOMAIN a /\ c[i] = a[i]
                               \/ i > Len(a) /\ i - Len(a) \in DOMAIN b /\ c[i] = b[i - Len(a)]
    BY <1>2, <1>3, ConcatElements
  <2> HIDE DEF c
  <2> QED BY <1>2, <2>1
<1>5. Once(c)
  <2>1. Once(b)
    BY <1>2 DEF Once
  <2>2. \A i \in DOMAIN a, j \in DOMAIN b : IsCall(a[i]) /\ IsCall(b[j]) =>
          a[i].spn # b[j].spn \/ a[i].addr # b[j].addr
    BY <1>1, <1>2 DEF IsCall
  <2> QED BY <1>2, <1>3, <2>1, <2>2, OnceConcat
<1>6. ASSUME NEW kind \in {"add", "delete"}, NEW spn
      PROVE  Pending(c, kind, spn) = Pending(a, kind, spn)
  <2>1. Pending(b, kind, spn) = {}
    BY <1>1, <1>2 DEF Pending
  <2>2. Pending(c, kind, spn) = Pending(a, kind, spn) \cup Pending(b, kind, spn)
    BY <1>2, <1>3, PendingConcat
  <2> QED BY <2>1, <2>2
<1> HIDE DEF c
<1>7. \A i \in DOMAIN c : (i \in DOMAIN a /\ c[i] = a[i] /\ IsCall(c[i])) \/ (i = Len(c) /\ c[i] = st)
  <2>1. \A i \in DOMAIN a : IsCall(a[i])
    BY DEF CallsOnly
  <2> QED BY <1>4, <2>1
<1>8. OnEntries(c)
  BY <1>1, <1>7 DEF OnEntries, CallsOnly, IsCall
<1>9. StoresLast(c, o, obj)
  <2>1. Len(c) \in DOMAIN c /\ Len(c) \notin DOMAIN a
    BY <1>4
  <2>2. c[Len(c)] = st
    BY <1>7, <2>1
  <2>3. c # <<>>
    BY <1>4
  <2> QED BY <1>1, <2>2, <2>3 DEF StoresLast
<1>10. StoresNoneBefore(c)
  BY <1>7 DEF StoresNoneBefore, IsCall
<1>11. ASSUME AddsFirst(a), NEW i \in DOMAIN c, NEW j \in DOMAIN c, i < j, c[j].op = "add"
       PROVE  c[i].op = "add"
  <2>1. j \in DOMAIN a /\ c[j] = a[j]
    BY <1>1, <1>7, <1>11
  <2>2. i \in DOMAIN a /\ c[i] = a[i]
    BY <1>4, <1>7, <1>11, <2>1
  <2> QED BY <1>11, <2>1, <2>2 DEF AddsFirst
<1>12. AddsFirst(a) => AddsFirst(c)
  BY <1>11 DEF AddsFirst
<1> QED BY <1>4, <1>5, <1>6, <1>8, <1>9, <1>10, <1>12 DEF c, b, st

(***************************************************************************)
(* What the handlers are to do: from one object to another.                *)
(***************************************************************************)
\* What the API server and its controllers keep to: the objects of one name
\* are all about one service, an address is in one object at most and there
\* once for a service port, and it stays on its node.
EntriesApart ==
    \A o, p \in EpObject : \A obj \in EpVersions[o] \ {Nil}, other \in EpVersions[p] \ {Nil} :
        \A i \in DOMAIN obj, j \in DOMAIN other :
            /\ o = p => obj[i].name.svc = other[j].name.svc
            /\ obj[i].name = other[j].name /\ obj[i].addr = other[j].addr =>
                 o = p /\ obj[i].local = other[j].local /\ (obj = other => i = j)

\* The entries the cluster asks for: the ready ones, when they come from slices.
LiveIn(obj) == {i \in DOMAIN obj : EndpointSlice => obj[i].ready}

\* The places of spn an object asks for.
Live(obj, spn) == IF obj = Nil THEN {} ELSE Chosen(obj, LiveIn(obj), spn)

\* Every endpoint of obj says whether it is ready.
Conditioned(obj) == EndpointSlice => obj = Nil \/ ~SlicePanics(obj)

\* The operations ops turn the object old of o into new.
Turns(ops, o, old, new) ==
    /\ ops \in Seq(EndpointOp) /\ Once(ops) /\ OnEntries(ops) /\ StoresNoneBefore(ops)
    /\ StoresLast(ops, o, new) \/ (old = Nil /\ \A k \in DOMAIN ops : IsCall(ops[k]))
    /\ ~EndpointSlice => AddsFirst(ops)
    /\ \A spn : /\ Pending(ops, "add", spn) = Live(new, spn) \ Live(old, spn)
                /\ Pending(ops, "delete", spn) = Live(old, spn) \ Live(new, spn)

\* What EntriesApart says of one object.
LEMMA VersionFields ==
    ASSUME EntriesApart, NEW o \in EpObject, NEW obj \in EpVersions[o] \ {Nil}
    PROVE  obj \in Seq(EndpointEntry) /\ Single(obj) /\ obj # Nil
<1>1. obj \in Seq(EndpointEntry) /\ obj # Nil
  BY NFAssumption
<1>2. Single(obj)
  BY DEF EntriesApart, Single
<1> QED BY <1>1, <1>2

\* The handlers compare ports and addresses only: for two objects of one name
\* that is to compare the endpoints.
LEMMA MatchIsSame ==
    ASSUME EntriesApart, NEW o \in EpObject, NEW obj \in EpVersions[o] \ {Nil},
           NEW other \in EpVersions[o] \ {Nil}, NEW i \in DOMAIN obj, NEW j \in DOMAIN other
    PROVE  /\ SameEndpoint(other[j], obj[i]) <=> other[j].name = obj[i].name /\ other[j].addr = obj[i].addr
           /\ SameEndpoint(other[j], obj[i]) => other[j].local = obj[i].local
<1>1. obj[i].name.svc = other[j].name.svc
  BY DEF EntriesApart
<1>2. obj[i].name \in ServicePortName /\ other[j].name \in ServicePortName
  BY VersionFields, EntryFields
<1>3. SameEndpoint(other[j], obj[i]) <=> other[j].name = obj[i].name /\ other[j].addr = obj[i].addr
  BY <1>1, <1>2 DEF SameEndpoint, ServicePortName
<1>4. obj[i].name = other[j].name /\ obj[i].addr = other[j].addr => obj[i].local = other[j].local
  BY DEF EntriesApart
<1> QED BY <1>3, <1>4

\* The entries of obj that another object of its name does not have.
LEMMA GoneEntries ==
    ASSUME EntriesApart, NEW o \in EpObject, NEW obj \in EpVersions[o] \ {Nil},
           NEW other \in EpVersions[o] \ {Nil}, NEW i \in DOMAIN obj
    PROVE  /\ isPortInSubset(other, obj[i]) \in BOOLEAN
           /\ isPortInSubset(other, obj[i]) <=> \E j \in DOMAIN other :
                other[j].name = obj[i].name /\ other[j].addr = obj[i].addr /\ other[j].local = obj[i].local
           /\ \A j \in DOMAIN other : other[j].name = obj[i].name /\ other[j].addr = obj[i].addr
                => isPortInSubset(other, obj[i])
BY MatchIsSame DEF isPortInSubset

\* A slice had an endpoint ready.
LEMMA WasReadyMeans ==
    ASSUME EntriesApart, NEW o \in EpObject, NEW obj \in EpVersions[o] \ {Nil},
           NEW other \in EpVersions[o] \ {Nil}, ~SlicePanics(other), NEW i \in DOMAIN obj
    PROVE  /\ WasReady(other, obj[i]) \in BOOLEAN
           /\ WasReady(other, obj[i]) <=> \E j \in DOMAIN other :
                /\ other[j].name = obj[i].name /\ other[j].addr = obj[i].addr
                /\ other[j].local = obj[i].local /\ other[j].ready
<1>1. other \in Seq(EndpointEntry) /\ DOMAIN other = 1..Len(other) /\ Len(other) \in Nat
  BY VersionFields, LenProperties
<1>2. ASSUME WasReady(other, obj[i])
      PROVE  \E j \in DOMAIN other : /\ other[j].name = obj[i].name /\ other[j].addr = obj[i].addr
                                     /\ other[j].local = obj[i].local /\ other[j].ready
  <2>1. PICK j \in DOMAIN other : SameEndpoint(other[j], obj[i]) /\ other[j].ready
    BY <1>2 DEF WasReady
  <2> QED BY <2>1, MatchIsSame
<1>3. ASSUME NEW j \in DOMAIN other, other[j].name = obj[i].name, other[j].addr = obj[i].addr, other[j].ready
      PROVE  WasReady(other, obj[i])
  <2>1. SameEndpoint(other[j], obj[i])
    BY <1>3, MatchIsSame
  <2>2. ASSUME NEW k \in 1..(j - 1), SameEndpoint(other[k], obj[i])
        PROVE  FALSE
    <3>1. k \in DOMAIN other /\ k # j
      BY <1>1
    <3>2. other[k].name = other[j].name /\ other[k].addr = other[j].addr
      BY <1>3, <2>2, <3>1, MatchIsSame
    <3> QED BY <3>1, <3>2, VersionFields DEF Single
  <2> QED BY <1>3, <2>1, <2>2 DEF WasReady
<1>4. WasReady(other, obj[i]) \in BOOLEAN
  BY DEF WasReady
<1> QED BY <1>2, <1>3, <1>4

\* AddEndpoints and AddEndpointSlice.
LEMMA AddOpsTurn ==
    ASSUME EntriesApart, NEW o \in EpObject, NEW new \in EpVersions[o] \ {Nil}, Conditioned(new)
    PROVE  Turns(AddOps(new), o, Nil, new)
<1>1. new \in Seq(EndpointEntry) /\ Single(new) /\ new # Nil
  BY VersionFields
<1>2. PICK q : Selects(q, new, LiveIn(new)) /\ AddOps(new) = AddEpOps(q, TRUE)
  <2>1. CASE EndpointSlice
    <3>1. LiveIn(new) = {i \in DOMAIN new : new[i].ready}
      BY <2>1 DEF LiveIn
    <3>2. Selects(Ready(new), new, LiveIn(new))
      BY <1>1, <3>1, PickedSelects DEF Ready
    <3>3. AddOps(new) = AddEpOps(Ready(new), TRUE)
      BY <1>1, <2>1 DEF AddOps, AddEndpointSliceOps, Conditioned
    <3> QED BY <3>2, <3>3
  <2>2. CASE ~EndpointSlice
    <3>1. LiveIn(new) = DOMAIN new
      BY <2>2 DEF LiveIn
    <3>2. AddOps(new) = AddEpOps(new, TRUE)
      BY <2>2 DEF AddOps, AddEndpointsOps
    <3> QED BY <1>1, <3>1, <3>2, WholeSelects
  <2> QED BY <2>1, <2>2
<1> DEFINE ops == AddEpOps(q, TRUE)
<1>3. /\ WorkOn(ops, new, LiveIn(new)) /\ \A k \in DOMAIN ops : ops[k].op = "add"
      /\ \A spn : /\ Pending(ops, "add", spn) = Chosen(new, LiveIn(new), spn)
                  /\ Pending(ops, "delete", spn) = {}
  BY <1>2, AddList
<1> HIDE DEF ops
<1>4. CallsOnly(ops)
  BY <1>3, WorkCalls DEF LiveIn
<1>5. AddsFirst(ops) /\ StoresNoneBefore(ops)
  BY <1>3 DEF AddsFirst, StoresNoneBefore
<1>6. \A spn : /\ Pending(ops, "add", spn) = Live(new, spn) \ Live(Nil, spn)
               /\ Pending(ops, "delete", spn) = Live(Nil, spn) \ Live(new, spn)
  BY <1>1, <1>3 DEF Live
<1>7. Turns(ops, o, Nil, new)
  BY <1>4, <1>5, <1>6 DEF Turns, CallsOnly
<1> QED BY <1>2, <1>7 DEF ops

\* DeleteEndpoints and DeleteEndpointSlice.
LEMMA DeleteOpsTurn ==
    ASSUME EntriesApart, NEW o \in EpObject, NEW old \in EpVersions[o] \ {Nil}
    PROVE  Turns(DeleteOps(o, old), o, old, Nil)
<1>1. old \in Seq(EndpointEntry) /\ Single(old) /\ old # Nil
  BY VersionFields
<1>2. PICK q : Selects(q, old, LiveIn(old)) /\ DeleteOps(o, old) = DeleteEpOps(q) \o <<StoreEpOp(o, Nil)>>
  <2>1. CASE EndpointSlice
    <3>1. LiveIn(old) = {i \in DOMAIN old : old[i].ready}
      BY <2>1 DEF LiveIn
    <3>2. Selects(Ready(old), old, LiveIn(old))
      BY <1>1, <3>1, PickedSelects DEF Ready
    <3>3. DeleteOps(o, old) = DeleteEpOps(Ready(old)) \o <<StoreEpOp(o, Nil)>>
      BY <2>1 DEF DeleteOps, DeleteEndpointSliceOps
    <3> QED BY <3>2, <3>3
  <2>2. CASE ~EndpointSlice
    <3>1. LiveIn(old) = DOMAIN old
      BY <2>2 DEF LiveIn
    <3>2. DeleteOps(o, old) = DeleteEpOps(old) \o <<StoreEpOp(o, Nil)>>
      BY <2>2 DEF DeleteOps, DeleteEndpointsOps
    <3> QED BY <1>1, <3>1, <3>2, WholeSelects
  <2> QED BY <2>1, <2>2
<1> DEFINE del == DeleteEpOps(q)
           ops == del \o <<StoreEpOp(o, Nil)>>
<1>3. /\ WorkOn(del, old, LiveIn(old)) /\ \A k \in DOMAIN del : del[k].op = "delete"
      /\ \A spn : /\ Pending(del, "add", spn) = {}
                  /\ Pending(del, "delete", spn) = Chosen(old, LiveIn(old), spn)
  BY <1>2, DeleteList
<1> HIDE DEF del
<1>4. CallsOnly(del)
  BY <1>3, WorkCalls DEF LiveIn
<1>5. /\ ops \in Seq(EndpointOp) /\ Once(ops) /\ OnEntries(ops)
      /\ StoresLast(ops, o, Nil) /\ StoresNoneBefore(ops)
      /\ \A kind \in {"add", "delete"} : \A spn : Pending(ops, kind, spn) = Pending(del, kind, spn)
      /\ AddsFirst(del) => AddsFirst(ops)
  BY <1>4, StoreAtEnd
<1> HIDE DEF ops
<1>6. AddsFirst(del)
  BY <1>3 DEF AddsFirst
<1>7. \A spn : /\ Pending(ops, "add", spn) = Live(Nil, spn) \ Live(old, spn)
               /\ Pending(ops, "delete", spn) = Live(old, spn) \ Live(Nil, spn)
  BY <1>1, <1>3, <1>5 DEF Live
<1>8. Turns(ops, o, old, Nil)
  BY <1>5, <1>6, <1>7 DEF Turns
<1> QED BY <1>2, <1>8 DEF ops, del

\* Calls on entries of two objects of one name, none of them in both parts.
LEMMA PartsApart ==
    ASSUME EntriesApart, NEW o \in EpObject, NEW obj \in EpVersions[o] \ {Nil},
           NEW other \in EpVersions[o] \ {Nil}, NEW P \in SUBSET DOMAIN obj, NEW Q \in SUBSET DOMAIN other,
           NEW a, NEW b, WorkOn(a, obj, P), WorkOn(b, other, Q),
           \A j \in Q : ~isPortInSubset(obj, other[j])
    PROVE  CallsOnly(a \o b)
<1>1. CallsOnly(a) /\ CallsOnly(b)
  BY WorkCalls
<1>2. ASSUME NEW k \in DOMAIN a, NEW l \in DOMAIN b, a[k].spn = b[l].spn, a[k].addr = b[l].addr
      PROVE  FALSE
  <2>1. PICK i \in P : About(a[k], obj[i])
    BY DEF WorkOn
  <2>2. PICK j \in Q : About(b[l], other[j])
    BY DEF WorkOn
  <2>3. obj[i].name = other[j].name /\ obj[i].addr = other[j].addr
    BY <1>2, <2>1, <2>2 DEF About
  <2> QED BY <2>3, GoneEntries
<1> QED BY <1>1, <1>2, CallsConcat

\* The places of the entries another object of the same name does not have.
LEMMA MissingPlaces ==
    ASSUME EntriesApart, NEW o \in EpObject, NEW obj \in EpVersions[o] \ {Nil},
           NEW other \in EpVersions[o] \ {Nil}, ~EndpointSlice, NEW spn
    PROVE  Chosen(obj, {i \in DOMAIN obj : ~isPortInSubset(other, obj[i])}, spn) = Live(obj, spn) \ Live(other, spn)
<1> DEFINE P == {i \in DOMAIN obj : ~isPortInSubset(other, obj[i])}
<1>1. Live(obj, spn) = Chosen(obj, DOMAIN obj, spn) /\ Live(other, spn) = Chosen(other, DOMAIN other, spn)
  BY VersionFields DEF Live, LiveIn
<1>2. ASSUME NEW i \in P, obj[i].name = spn
      PROVE  <<obj[i].addr, obj[i].local>> \in Chosen(obj, DOMAIN obj, spn) \ Chosen(other, DOMAIN other, spn)
  BY <1>2, GoneEntries DEF Chosen
<1>3. ASSUME NEW i \in DOMAIN obj, obj[i].name = spn,
             <<obj[i].addr, obj[i].local>> \notin Chosen(other, DOMAIN other, spn)
      PROVE  <<obj[i].addr, obj[i].local>> \in Chosen(obj, P, spn)
  <2>1. ~isPortInSubset(other, obj[i])
    <3>1. SUFFICES ASSUME isPortInSubset(other, obj[i]) PROVE FALSE
      OBVIOUS
    <3>2. PICK j \in DOMAIN other :
            other[j].name = obj[i].name /\ other[j].addr = obj[i].addr /\ other[j].local = obj[i].local
      BY <3>1, GoneEntries
    <3> QED BY <1>3, <3>2 DEF Chosen
  <2> QED BY <1>3, <2>1 DEF Chosen
<1> HIDE DEF P
<1>4. Chosen(obj, P, spn) \subseteq Chosen(obj, DOMAIN obj, spn) \ Chosen(other, DOMAIN other, spn)
  <2>1. Chosen(obj, P, spn) = {<<obj[i].addr, obj[i].local>> : i \in {i \in P : obj[i].name = spn}}
    BY DEF Chosen
  <2> QED BY <1>2, <2>1
<1>5. Chosen(obj, DOMAIN obj, spn) \ Chosen(other, DOMAIN other, spn) \subseteq Chosen(obj, P, spn)
  <2>1. Chosen(obj, DOMAIN obj, spn) = {<<obj[i].addr, obj[i].local>> : i \in {i \in DOMAIN obj : obj[i].name = spn}}
    BY DEF Chosen
  <2> QED BY <1>3, <2>1
<1> QED BY <1>1, <1>4, <1>5 DEF P

\* UpdateEndpoints.
LEMMA UpdateEndpointsTurns ==
    ASSUME EntriesApart, NEW o \in EpObject, NEW old \in EpVersions[o] \ {Nil},
           NEW new \in EpVersions[o] \ {Nil}, ~EndpointSlice
    PROVE  Turns(UpdateEndpointsOps(o, new, old), o, old, new)
<1> DEFINE P == {i \in DOMAIN new : ~isPortInSubset(old, new[i])}
           Q == {i \in DOMAIN old : ~isPortInSubset(new, old[i])}
           add == AddEpOps(Missing(new, old), TRUE)
           del == DeleteEpOps(Missing(old, new))
           calls == add \o del
           ops == calls \o <<StoreEpOp(o, new)>>
<1>1. /\ new \in Seq(EndpointEntry) /\ Single(new) /\ new # Nil
      /\ old \in Seq(EndpointEntry) /\ Single(old) /\ old # Nil
  BY VersionFields
<1>2. Selects(Missing(new, old), new, P) /\ Selects(Missing(old, new), old, Q)
  BY <1>1, PickedSelects DEF Missing
<1>0. P \in SUBSET DOMAIN new /\ Q \in SUBSET DOMAIN old /\ \A j \in Q : ~isPortInSubset(new, old[j])
  OBVIOUS
<1>3. \A spn : Chosen(new, P, spn) = Live(new, spn) \ Live(old, spn)
  BY MissingPlaces
<1>4. \A spn : Chosen(old, Q, spn) = Live(old, spn) \ Live(new, spn)
  BY MissingPlaces
<1> HIDE DEF P, Q
<1>5. /\ WorkOn(add, new, P) /\ \A k \in DOMAIN add : add[k].op = "add"
      /\ \A spn : Pending(add, "add", spn) = Chosen(new, P, spn) /\ Pending(add, "delete", spn) = {}
  BY <1>2, AddList
<1>6. /\ WorkOn(del, old, Q) /\ \A k \in DOMAIN del : del[k].op = "delete"
      /\ \A spn : Pending(del, "add", spn) = {} /\ Pending(del, "delete", spn) = Chosen(old, Q, spn)
  BY <1>2, DeleteList
<1>7. UpdateEndpointsOps(o, new, old) = ops
  BY DEF UpdateEndpointsOps
<1> HIDE DEF add, del
<1>8. CallsOnly(calls)
  BY <1>0, <1>5, <1>6, PartsApart
<1>9. add \in Seq(EndpointOp) /\ del \in Seq(EndpointOp)
  BY <1>5, <1>6 DEF WorkOn
<1>10. AddsFirst(calls)
  <2>1. \A k \in DOMAIN del : del[k].op # "add"
    BY <1>6
  <2> QED BY <1>5, <1>9, <2>1, AddsConcat
<1>11. \A kind, spn : Pending(calls, kind, spn) = Pending(add, kind, spn) \cup Pending(del, kind, spn)
  BY <1>9, PendingConcat
<1> HIDE DEF calls
<1>12. new \in Seq(EndpointEntry) \cup {Nil}
  BY <1>1
<1>13. /\ ops \in Seq(EndpointOp) /\ Once(ops) /\ OnEntries(ops)
       /\ StoresLast(ops, o, new) /\ StoresNoneBefore(ops)
       /\ \A kind \in {"add", "delete"} : \A spn : Pending(ops, kind, spn) = Pending(calls, kind, spn)
       /\ AddsFirst(calls) => AddsFirst(ops)
  BY <1>8, <1>12, StoreAtEnd
<1> HIDE DEF ops
<1>14. ASSUME NEW spn
       PROVE  /\ Pending(ops, "add", spn) = Live(new, spn) \ Live(old, spn)
              /\ Pending(ops, "delete", spn) = Live(old, spn) \ Live(new, spn)
  BY <1>3, <1>4, <1>5, <1>6, <1>11, <1>13
<1> QED BY <1>7, <1>10, <1>13, <1>14 DEF Turns

\* A selection from a selection.
LEMMA SelectsTwice ==
    ASSUME NEW q, NEW obj, NEW P, Selects(q, obj, P), NEW r, NEW R \in SUBSET DOMAIN q, Selects(r, q, R),
           NEW Q \in SUBSET P, \A k \in DOMAIN q : \A i \in P : q[k] = obj[i] => (k \in R <=> i \in Q)
    PROVE  Selects(r, obj, Q)
<1>1. ASSUME NEW l \in DOMAIN r
      PROVE  \E i \in Q : r[l] = obj[i]
  <2>1. PICK k \in R : r[l] = q[k]
    BY DEF Selects
  <2>2. PICK i \in P : q[k] = obj[i]
    BY DEF Selects
  <2> QED BY <2>1, <2>2
<1>2. ASSUME NEW i \in Q
      PROVE  \E l \in DOMAIN r : r[l] = obj[i]
  <2>1. PICK k \in DOMAIN q : q[k] = obj[i]
    BY DEF Selects
  <2>2. PICK l \in DOMAIN r : r[l] = q[k]
    BY <2>1 DEF Selects
  <2> QED BY <2>1, <2>2
<1> QED BY <1>1, <1>2 DEF Selects

\* UpdateEndpointSlice, of a slice that does not panic.
LEMMA UpdateSliceTurns ==
    ASSUME EntriesApart, NEW o \in EpObject, NEW old \in EpVersions[o] \ {Nil},
           NEW new \in EpVersions[o] \ {Nil}, EndpointSlice, ~SlicePanics(old), ~SlicePanics(new)
    PROVE  Turns(UpdateEndpointSliceOps(o, new, old), o, old, new)
<1> DEFINE P == {i \in DOMAIN new : new[i].ready # WasReady(old, new[i])}
           Padd == {i \in P : new[i].ready}
           Pdel == {i \in P : ~new[i].ready}
           L == {i \in DOMAIN old : old[i].ready}
           Q == {i \in L : ~isPortInSubset(new, old[i])}
           chg == SliceChangeOps(new, old)
           del == DeleteEpOps(Missing(Ready(old), new))
           calls == chg \o del
           ops == calls \o <<StoreEpOp(o, new)>>
<1>1. /\ new \in Seq(EndpointEntry) /\ Single(new) /\ new # Nil
      /\ old \in Seq(EndpointEntry) /\ Single(old) /\ old # Nil
  BY VersionFields
<1>2. /\ \A i \in DOMAIN new : new[i].ready \in BOOLEAN
      /\ \A i \in DOMAIN old : old[i].ready \in BOOLEAN
  BY <1>1, EntryFields DEF SlicePanics
<1>0. P \in SUBSET DOMAIN new /\ Q \in SUBSET DOMAIN old /\ \A j \in Q : ~isPortInSubset(new, old[j])
  OBVIOUS
<1>3. Selects(Missing(Ready(old), new), old, Q)
  <2> DEFINE r == Ready(old)
             R == {k \in DOMAIN r : ~isPortInSubset(new, r[k])}
  <2>1. Selects(r, old, L)
    BY <1>1, PickedSelects DEF Ready
  <2> HIDE DEF r
  <2>2. r \in Seq(EndpointEntry) /\ Single(r)
    BY <2>1 DEF Selects
  <2>3. Selects(Missing(r, new), r, R)
    BY <2>2, PickedSelects DEF Missing
  <2>4. \A k \in DOMAIN r : \A i \in L : r[k] = old[i] => (k \in R <=> i \in Q)
    OBVIOUS
  <2>5. R \in SUBSET DOMAIN r /\ Q \in SUBSET L
    OBVIOUS
  <2> HIDE DEF R, Q, L
  <2> QED BY <2>1, <2>3, <2>4, <2>5, SelectsTwice DEF r
<1>4. ASSUME NEW spn
      PROVE  Live(new, spn) = Chosen(new, {i \in DOMAIN new : new[i].ready}, spn) /\ Live(old, spn) = Chosen(old, L, spn)
  BY <1>1 DEF Live, LiveIn
<1>5. ASSUME NEW i \in DOMAIN new
      PROVE  /\ WasReady(old, new[i]) \in BOOLEAN
             /\ WasReady(old, new[i]) <=> <<new[i].addr, new[i].local>> \in Live(old, new[i].name)
  <2>1. Live(old, new[i].name) = {<<old[j].addr, old[j].local>> : j \in {j \in L : old[j].name = new[i].name}}
    BY <1>4 DEF Chosen
  <2> QED BY <2>1, WasReadyMeans
<1>6. ASSUME NEW spn
      PROVE  Chosen(new, Padd, spn) = Live(new, spn) \ Live(old, spn)
  <2>1. Chosen(new, Padd, spn) \subseteq Live(new, spn) \ Live(old, spn)
    BY <1>2, <1>4, <1>5 DEF Chosen
  <2>2. Live(new, spn) \ Live(old, spn) \subseteq Chosen(new, Padd, spn)
    BY <1>2, <1>4, <1>5 DEF Chosen
  <2> QED BY <2>1, <2>2
<1>7. ASSUME NEW spn
      PROVE  Chosen(new, Pdel, spn) \cup Chosen(old, Q, spn) = Live(old, spn) \ Live(new, spn)
  <2>1. ASSUME NEW i \in Pdel, new[i].name = spn
        PROVE  <<new[i].addr, new[i].local>> \in Live(old, spn) \ Live(new, spn)
    <3>1. <<new[i].addr, new[i].local>> \in Live(old, spn)
      BY <1>2, <1>5, <2>1
    <3>2. ASSUME NEW k \in DOMAIN new, new[k].ready, new[k].name = spn, new[k].addr = new[i].addr
          PROVE  FALSE
      <4>1. k = i
        BY <1>1, <2>1, <3>2 DEF Single
      <4> QED BY <3>2, <4>1
    <3>3. <<new[i].addr, new[i].local>> \notin Live(new, spn)
      BY <1>4, <3>2 DEF Chosen
    <3> QED BY <3>1, <3>3
  <2>2. ASSUME NEW j \in Q, old[j].name = spn
        PROVE  <<old[j].addr, old[j].local>> \in Live(old, spn) \ Live(new, spn)
    <3>1. <<old[j].addr, old[j].local>> \in Live(old, spn)
      BY <1>4, <2>2 DEF Chosen
    <3>2. <<old[j].addr, old[j].local>> \notin Live(new, spn)
      BY <1>4, <2>2, GoneEntries DEF Chosen
    <3> QED BY <3>1, <3>2
  <2>3. ASSUME NEW j \in L, old[j].name = spn, <<old[j].addr, old[j].local>> \notin Live(new, spn)
        PROVE  <<old[j].addr, old[j].local>> \in Chosen(new, Pdel, spn) \cup Chosen(old, Q, spn)
    <3>1. CASE isPortInSubset(new, old[j])
      <4>1. PICK i \in DOMAIN new : new[i].name = old[j].name /\ new[i].addr = old[j].addr /\ new[i].local = old[j].local
        BY <3>1, GoneEntries
      <4>2. ~new[i].ready
        BY <1>4, <2>3, <4>1 DEF Chosen
      <4>3. <<old[j].addr, old[j].local>> \in Live(old, spn)
        BY <1>4, <2>3 DEF Chosen
      <4>4. WasReady(old, new[i])
        BY <1>5, <2>3, <4>1, <4>3
      <4>5. i \in Pdel
        BY <1>2, <4>2, <4>4
      <4> QED BY <2>3, <4>1, <4>5 DEF Chosen
    <3>2. CASE ~isPortInSubset(new, old[j])
      BY <2>3, <3>2 DEF Chosen
    <3> QED BY <3>1, <3>2
  <2>4. Chosen(new, Pdel, spn) \subseteq Live(old, spn) \ Live(new, spn)
    BY <2>1 DEF Chosen
  <2>5. Chosen(old, Q, spn) \subseteq Live(old, spn) \ Live(new, spn)
    BY <2>2 DEF Chosen
  <2>6. Live(old, spn) \ Live(new, spn) \subseteq Chosen(new, Pdel, spn) \cup Chosen(old, Q, spn)
    <3>1. Live(old, spn) = {<<old[j].addr, old[j].local>> : j \in {j \in L : old[j].name = spn}}
      BY <1>4 DEF Chosen
    <3> HIDE DEF L, Pdel, Q
    <3> QED BY <2>3, <3>1
  <2> QED BY <2>4, <2>5, <2>6
<1>8. /\ WorkOn(chg, new, P) /\ \A k \in DOMAIN chg : IsCall(chg[k])
      /\ \A spn : Pending(chg, "add", spn) = Chosen(new, Padd, spn) /\ Pending(chg, "delete", spn) = Chosen(new, Pdel, spn)
  <2> DEFINE q == Picked(new, P)
  <2>1. Selects(q, new, P)
    BY <1>0, <1>1, PickedSelects
  <2>2. chg = ChangeOps(q)
    BY DEF SliceChangeOps, ChangeOps
  <2>3. \A i \in P : new[i].ready \in BOOLEAN
    BY <1>2
  <2> HIDE DEF q, chg, P
  <2>4. /\ WorkOn(chg, new, P) /\ \A k \in DOMAIN chg : IsCall(chg[k])
        /\ \A spn : /\ Pending(chg, "add", spn) = Chosen(new, {i \in P : new[i].ready}, spn)
                    /\ Pending(chg, "delete", spn) = Chosen(new, {i \in P : ~new[i].ready}, spn)
    BY <2>1, <2>2, <2>3, ChangeList
  <2> QED BY <2>4
<1> HIDE DEF P, Padd, Pdel, L, Q
<1>9. /\ WorkOn(del, old, Q) /\ \A k \in DOMAIN del : del[k].op = "delete"
      /\ \A spn : Pending(del, "add", spn) = {} /\ Pending(del, "delete", spn) = Chosen(old, Q, spn)
  BY <1>3, DeleteList
<1>10. UpdateEndpointSliceOps(o, new, old) = ops
  BY DEF UpdateEndpointSliceOps
<1> HIDE DEF chg, del
<1>11. CallsOnly(calls)
  BY <1>0, <1>8, <1>9, PartsApart
<1>12. chg \in Seq(EndpointOp) /\ del \in Seq(EndpointOp)
  BY <1>8, <1>9 DEF WorkOn
<1>13. \A kind, spn : Pending(calls, kind, spn) = Pending(chg, kind, spn) \cup Pending(del, kind, spn)
  BY <1>12, PendingConcat
<1> HIDE DEF calls
<1>14. new \in Seq(EndpointEntry) \cup {Nil}
  BY <1>1
<1>15. /\ ops \in Seq(EndpointOp) /\ Once(ops) /\ OnEntries(ops)
       /\ StoresLast(ops, o, new) /\ StoresNoneBefore(ops)
       /\ \A kind \in {"add", "delete"} : \A spn : Pending(ops, kind, spn) = Pending(calls, kind, spn)
  BY <1>11, <1>14, StoreAtEnd
<1> HIDE DEF ops
<1>16. ASSUME NEW spn
       PROVE  /\ Pending(ops, "add", spn) = Live(new, spn) \ Live(old, spn)
              /\ Pending(ops, "delete", spn) = Live(old, spn) \ Live(new, spn)
  BY <1>6, <1>7, <1>8, <1>9, <1>13, <1>15
<1> QED BY <1>10, <1>15, <1>16 DEF Turns

\* UpdateEndpoints or UpdateEndpointSlice.
LEMMA UpdateOpsTurn ==
    ASSUME EntriesApart, NEW o \in EpObject, NEW old \in EpVersions[o] \ {Nil},
           NEW new \in EpVersions[o] \ {Nil}, Conditioned(old), Conditioned(new)
    PROVE  Turns(UpdateOps(o, new, old), o, old, new)
BY UpdateEndpointsTurns, UpdateSliceTurns DEF UpdateOps, Conditioned

(***************************************************************************)
(* The inductive invariant of the endpoints side.                          *)
(***************************************************************************)
\* The objects of the cluster, as far as they are seen or stored.
EpTyped(objs) ==
    /\ objs \in [EpObject -> Seq(EndpointEntry) \cup {Nil}]
    /\ \A o \in EpObject : objs[o] \in EpVersions[o] \cup {Nil}

\* The places of spn the objects ask for.
Asked(objs, spn) == UNION {Live(objs[o], spn) : o \in EpObject}

\* Once the operations are done, the endpoints of spn are where they are asked
\* for, and nothing is added that is there.
Balanced(places, ops, asked, spn) ==
    /\ (places \cup Pending(ops, "add", spn)) \ Pending(ops, "delete", spn) = asked
    /\ places \cap Pending(ops, "add", spn) = {}

\* The endpoints are entries of objects of the cluster.
AreEntries(spn, places) == \A p \in places : IsEntry(spn, p[1], p[2])

\* Every service port is balanced.
AllBalanced(eps, ops, seen) ==
    \A spn \in ServicePortName : /\ Balanced(Places(eps[spn]), ops, Asked(seen, spn), spn)
                                 /\ AreEntries(spn, Places(eps[spn]))

\* The work in hand: every call is about another entry, and the cache is, or
\* will be in the end, what the informer delivered.
InHand(ops, seen, cache) ==
    /\ ops \in Seq(EndpointOp) /\ Once(ops) /\ OnEntries(ops) /\ StoresNoneBefore(ops)
    /\ ~EndpointSlice => AddsFirst(ops)
    /\ \A k \in DOMAIN ops : ops[k].op = "store" => ops[k].obj = seen[ops[k].ep]
    /\ \A o \in EpObject : cache[o] = seen[o] \/ StoresLast(ops, o, seen[o])
    /\ \A o \in EpObject : Conditioned(seen[o])

\* The inductive invariant: while the process runs, every port is in step with
\* the kernel, and, unless the handler is about to panic, the endpoints together
\* with the work in hand are what the delivered objects ask for.
EpInv ==
    /\ boot = <<>>
    /\ EpTyped(apiEp) /\ EpTyped(seenEp) /\ EpTyped(epCache)
    /\ proc = "running" => /\ InStep
                           /\ \/ epTodo = <<PanicEpOp>>
                              \/ InHand(epTodo, seenEp, epCache) /\ AllBalanced(endpointsMap, epTodo, seenEp)

\* An object is replaced.
LEMMA EpTypedExcept ==
    ASSUME NEW objs, EpTyped(objs), NEW o \in EpObject, NEW obj \in EpVersions[o] \cup {Nil}
    PROVE  /\ EpTyped([objs EXCEPT ![o] = obj]) /\ [objs EXCEPT ![o] = obj][o] = obj
           /\ \A p \in EpObject : p # o => [objs EXCEPT ![o] = obj][p] = objs[p]
<1>1. obj \in Seq(EndpointEntry) \cup {Nil}
  BY NFAssumption
<1> QED BY <1>1 DEF EpTyped

\* No endpoint is asked for by two objects.
LEMMA LiveApart ==
    ASSUME EntriesApart, NEW o \in EpObject, NEW p \in EpObject, o # p,
           NEW obj \in EpVersions[o] \cup {Nil}, NEW other \in EpVersions[p] \cup {Nil}, NEW spn
    PROVE  Live(obj, spn) \cap Live(other, spn) = {}
<1>1. ASSUME NEW x \in Live(obj, spn), x \in Live(other, spn)
      PROVE  FALSE
  <2>1. obj # Nil /\ other # Nil
    BY <1>1 DEF Live
  <2>2. PICK i \in DOMAIN obj : obj[i].name = spn /\ x = <<obj[i].addr, obj[i].local>>
    BY <1>1, <2>1 DEF Live, LiveIn, Chosen
  <2>3. PICK j \in DOMAIN other : other[j].name = spn /\ x = <<other[j].addr, other[j].local>>
    BY <1>1, <2>1 DEF Live, LiveIn, Chosen
  <2>4. obj[i].name = other[j].name /\ obj[i].addr = other[j].addr
    BY <2>2, <2>3
  <2> QED BY <2>1, <2>4 DEF EntriesApart
<1> QED BY <1>1

\* What is asked for when an object is replaced.
LEMMA AskedExcept ==
    ASSUME EntriesApart, NEW seen, EpTyped(seen), NEW o \in EpObject,
           NEW new \in EpVersions[o] \cup {Nil}, NEW spn
    PROVE  LET add == Live(new, spn) \ Live(seen[o], spn)
               del == Live(seen[o], spn) \ Live(new, spn)
           IN  /\ (Asked(seen, spn) \cup add) \ del = Asked([seen EXCEPT ![o] = new], spn)
               /\ Asked(seen, spn) \cap add = {}
<1> DEFINE seen2 == [seen EXCEPT ![o] = new]
           add == Live(new, spn) \ Live(seen[o], spn)
           del == Live(seen[o], spn) \ Live(new, spn)
<1>1. seen2[o] = new /\ \A p \in EpObject : p # o => seen2[p] = seen[p]
  BY DEF EpTyped
<1>2. /\ \A p \in EpObject : p # o => Live(seen[p], spn) \cap Live(new, spn) = {}
      /\ \A p \in EpObject : p # o => Live(seen[p], spn) \cap Live(seen[o], spn) = {}
  BY LiveApart DEF EpTyped
<1> HIDE DEF seen2
<1>3. \A x : x \in Asked(seen, spn) <=> \E p \in EpObject : x \in Live(seen[p], spn)
  BY DEF Asked
<1>4. \A x : x \in Asked(seen2, spn) <=> \E p \in EpObject : x \in Live(seen2[p], spn)
  BY DEF Asked
<1>5. Asked(seen, spn) \cap add = {}
  BY <1>2, <1>3
<1>6. ASSUME NEW x \in Asked(seen, spn) \cup add, x \notin del
      PROVE  x \in Asked(seen2, spn)
  BY <1>1, <1>3, <1>4, <1>6
<1>7. ASSUME NEW x \in Asked(seen2, spn)
      PROVE  x \in Asked(seen, spn) \cup add /\ x \notin del
  <2>1. PICK p \in EpObject : x \in Live(seen2[p], spn)
    BY <1>4
  <2>2. CASE p = o
    BY <1>1, <1>3, <2>1, <2>2
  <2>3. CASE p # o
    BY <1>1, <1>2, <1>3, <2>1, <2>3
  <2> QED BY <2>2, <2>3
<1> QED BY <1>5, <1>6, <1>7 DEF seen2

\* An event that a handler turns into operations.
LEMMA TurnBalances ==
    ASSUME EntriesApart, NEW seen, EpTyped(seen), NEW eps, AllBalanced(eps, <<>>, seen),
           NEW o \in EpObject, NEW new \in EpVersions[o] \cup {Nil}, NEW ops, Turns(ops, o, seen[o], new)
    PROVE  AllBalanced(eps, ops, [seen EXCEPT ![o] = new])
<1> SUFFICES ASSUME NEW spn \in ServicePortName
             PROVE  /\ Balanced(Places(eps[spn]), ops, Asked([seen EXCEPT ![o] = new], spn), spn)
                    /\ AreEntries(spn, Places(eps[spn]))
  BY DEF AllBalanced
<1>1. Balanced(Places(eps[spn]), <<>>, Asked(seen, spn), spn) /\ AreEntries(spn, Places(eps[spn]))
  BY DEF AllBalanced
<1>2. Pending(<<>>, "add", spn) = {} /\ Pending(<<>>, "delete", spn) = {}
  BY DEF Pending
<1>3. Places(eps[spn]) = Asked(seen, spn)
  BY <1>1, <1>2 DEF Balanced
<1>4. /\ Pending(ops, "add", spn) = Live(new, spn) \ Live(seen[o], spn)
      /\ Pending(ops, "delete", spn) = Live(seen[o], spn) \ Live(new, spn)
  BY DEF Turns
<1>5. /\ (Asked(seen, spn) \cup Pending(ops, "add", spn)) \ Pending(ops, "delete", spn)
           = Asked([seen EXCEPT ![o] = new], spn)
      /\ Asked(seen, spn) \cap Pending(ops, "add", spn) = {}
  BY <1>4, AskedExcept
<1> QED BY <1>1, <1>3, <1>5 DEF Balanced

\* The work is done one call after the other.
LEMMA InHandTail ==
    ASSUME NEW ops, NEW seen, NEW cache, InHand(ops, seen, cache), ops # <<>>, IsCall(Head(ops))
    PROVE  InHand(Tail(ops), seen, cache)
<1> DEFINE x == Head(ops)
           t == Tail(ops)
<1>0. ops \in Seq(EndpointOp) /\ Once(ops)
  BY DEF InHand
<1>1. /\ t \in Seq(EndpointOp) /\ Once(t) /\ 1 \in DOMAIN ops /\ ops[1] = x
      /\ \A i \in DOMAIN t : i + 1 \in DOMAIN ops /\ t[i] = ops[i + 1]
  BY <1>0, PendingTail
<1>2. /\ Len(ops) \in Nat /\ Len(ops) > 0 /\ DOMAIN ops = 1..Len(ops)
      /\ Len(t) = Len(ops) - 1 /\ DOMAIN t = 1..Len(t) /\ IsCall(x)
  BY <1>0, <1>1, HeadTailProperties, LenProperties, EmptySeq
<1> HIDE DEF x, t
<1>3. OnEntries(t)
  BY <1>1 DEF OnEntries, InHand
<1>4. StoresNoneBefore(t)
  <2>1. ASSUME NEW k \in DOMAIN t, t[k].op = "store"
        PROVE  k = Len(t)
    <3>1. k + 1 = Len(ops)
      BY <1>1, <2>1 DEF StoresNoneBefore, InHand
    <3> QED BY <1>2, <3>1
  <2> QED BY <2>1 DEF StoresNoneBefore
<1>5. ~EndpointSlice => AddsFirst(t)
  <2>1. ASSUME AddsFirst(ops), NEW i \in DOMAIN t, NEW j \in DOMAIN t, i < j, t[j].op = "add"
        PROVE  t[i].op = "add"
    <3>1. i + 1 \in DOMAIN ops /\ j + 1 \in DOMAIN ops /\ i + 1 < j + 1 /\ t[i] = ops[i + 1] /\ t[j] = ops[j + 1]
      BY <1>1, <1>2, <2>1
    <3> QED BY <2>1, <3>1 DEF AddsFirst
  <2> QED BY <2>1 DEF AddsFirst, InHand
<1>6. \A k \in DOMAIN t : t[k].op = "store" => t[k].obj = seen[t[k].ep]
  BY <1>1 DEF InHand
<1>7. ASSUME NEW o, NEW obj, StoresLast(ops, o, obj)
      PROVE  StoresLast(t, o, obj)
  <2>1. Len(ops) # 1
    BY <1>1, <1>2, <1>7 DEF StoresLast, IsCall
  <2>2. Len(t) \in DOMAIN t /\ Len(t) + 1 = Len(ops)
    BY <1>2, <2>1
  <2>3. t[Len(t)] = ops[Len(ops)] /\ t # <<>>
    BY <1>1, <2>2
  <2> QED BY <1>7, <2>3 DEF StoresLast
<1>8. \A o \in EpObject : cache[o] = seen[o] \/ StoresLast(t, o, seen[o])
  BY <1>7 DEF InHand
<1> QED BY <1>1, <1>3, <1>4, <1>5, <1>6, <1>8 DEF InHand, t

\* An endpoint is added.
LEMMA BalancedAfterAdd ==
    ASSUME NEW ops \in Seq(EndpointOp), ops # <<>>, Once(ops), Head(ops).op = "add",
           NEW places, NEW asked, NEW spn, Balanced(places, ops, asked, spn)
    PROVE  IF spn = Head(ops).spn
           THEN Balanced(places \cup {<<Head(ops).addr, Head(ops).local>>}, Tail(ops), asked, spn)
           ELSE Balanced(places, Tail(ops), asked, spn)
<1> DEFINE x == Head(ops)
           t == Tail(ops)
           new == IF x.op = "add" /\ x.spn = spn THEN {<<x.addr, x.local>>} ELSE {}
           gone == IF x.op = "delete" /\ x.spn = spn THEN {<<x.addr, x.local>>} ELSE {}
<1>1. IsCall(x)
  BY DEF IsCall
<1>2. /\ Pending(ops, "add", spn) = Pending(t, "add", spn) \cup new
      /\ Pending(ops, "delete", spn) = Pending(t, "delete", spn) \cup gone
      /\ \A kind \in {"add", "delete"} : <<x.addr, x.local>> \notin Pending(t, kind, x.spn)
  BY <1>1, PendingTail
<1> HIDE DEF t
<1>3. gone = {}
  OBVIOUS
<1>4. CASE spn = x.spn
  <2>1. new = {<<x.addr, x.local>>} /\ <<x.addr, x.local>> \notin Pending(t, "add", spn)
    BY <1>2, <1>4
  <2> HIDE DEF new, gone
  <2>2. Balanced(places \cup {<<x.addr, x.local>>}, t, asked, spn)
    BY <1>2, <1>3, <2>1 DEF Balanced
  <2> QED BY <1>4, <2>2 DEF t
<1>5. CASE spn # x.spn
  <2>1. new = {}
    BY <1>5
  <2> HIDE DEF new, gone
  <2>2. Balanced(places, t, asked, spn)
    BY <1>2, <1>3, <2>1 DEF Balanced
  <2> QED BY <1>5, <2>2 DEF t
<1> QED BY <1>4, <1>5

\* An endpoint is deleted.
LEMMA BalancedAfterDelete ==
    ASSUME NEW ops \in Seq(EndpointOp), ops # <<>>, Once(ops), Head(ops).op = "delete",
           NEW places, NEW asked, NEW spn, Balanced(places, ops, asked, spn)
    PROVE  IF spn = Head(ops).spn
           THEN Balanced(places \ {<<Head(ops).addr, Head(ops).local>>}, Tail(ops), asked, spn)
           ELSE Balanced(places, Tail(ops), asked, spn)
<1> DEFINE x == Head(ops)
           t == Tail(ops)
           new == IF x.op = "add" /\ x.spn = spn THEN {<<x.addr, x.local>>} ELSE {}
           gone == IF x.op = "delete" /\ x.spn = spn THEN {<<x.addr, x.local>>} ELSE {}
<1>1. IsCall(x)
  BY DEF IsCall
<1>2. /\ Pending(ops, "add", spn) = Pending(t, "add", spn) \cup new
      /\ Pending(ops, "delete", spn) = Pending(t, "delete", spn) \cup gone
      /\ \A kind \in {"add", "delete"} : <<x.addr, x.local>> \notin Pending(t, kind, x.spn)
  BY <1>1, PendingTail
<1> HIDE DEF t
<1>3. new = {}
  OBVIOUS
<1>4. CASE spn = x.spn
  <2>1. gone = {<<x.addr, x.local>>} /\ <<x.addr, x.local>> \notin Pending(t, "add", spn)
    BY <1>2, <1>4
  <2> HIDE DEF new, gone
  <2>2. Balanced(places \ {<<x.addr, x.local>>}, t, asked, spn)
    BY <1>2, <1>3, <2>1 DEF Balanced
  <2> QED BY <1>4, <2>2 DEF t
<1>5. CASE spn # x.spn
  <2>1. gone = {}
    BY <1>5
  <2> HIDE DEF new, gone
  <2>2. Balanced(places, t, asked, spn)
    BY <1>2, <1>3, <2>1 DEF Balanced
  <2> QED BY <1>5, <2>2 DEF t
<1> QED BY <1>4, <1>5

\* The add and delete steps of an endpoints handler keep to the contract of
\* Proxy and leave the rest of the work to be done.
LEMMA CallStepsKeep ==
    ASSUME EntriesApart, InStep, NEW seen, NEW cache, InHand(epTodo, seen, cache),
           AllBalanced(endpointsMap, epTodo, seen), StepAddEndpoint \/ StepDeleteEndpoint
    PROVE  /\ InStep' /\ proc' = proc /\ EndpointCallsAllowed
           /\ InHand(epTodo', seen, cache) /\ AllBalanced(endpointsMap', epTodo', seen)
<1> DEFINE o == Head(epTodo)
           place == <<o.addr, o.local>>
           before == Places(endpointsMap[o.spn])
<1>1. epTodo # <<>> /\ proc = "running" /\ o.op \in {"add", "delete"}
      /\ (StepAddEndpoint => o.op = "add") /\ (StepDeleteEndpoint => o.op = "delete")
  BY DEF StepAddEndpoint, StepDeleteEndpoint, EpStep
<1>2. epTodo \in Seq(EndpointOp) /\ Once(epTodo)
  BY DEF InHand
<1>3. o \in EndpointOp /\ 1 \in DOMAIN epTodo /\ epTodo[1] = o
  BY <1>1, <1>2, PendingTail
<1> HIDE DEF o
<1>4. IsCall(o) /\ o.spn \in ServicePortName /\ o.addr \in Addr /\ o.local \in BOOLEAN
  BY <1>1, <1>3, EndpointOpFields DEF IsCall
<1>5. IsEntry(o.spn, o.addr, o.local)
  BY <1>3, <1>4 DEF InHand, OnEntries
<1>6. InHand(Tail(epTodo), seen, cache)
  BY <1>1, <1>4, InHandTail DEF o
<1>7. ASSUME NEW spn \in ServicePortName
      PROVE  /\ Balanced(Places(endpointsMap[spn]), epTodo, Asked(seen, spn), spn)
             /\ AreEntries(spn, Places(endpointsMap[spn]))
  BY DEF AllBalanced
<1>8. CASE StepAddEndpoint
  <2>1. ASSUME NEW i \in DOMAIN endpointsMap[o.spn], endpointsMap[o.spn][i].addr = o.addr
        PROVE  FALSE
    <3> DEFINE local == endpointsMap[o.spn][i].local
    <3>1. <<o.addr, local>> \in before
      BY <2>1 DEF Places
    <3> HIDE DEF local
    <3>2. IsEntry(o.spn, o.addr, local)
      BY <1>4, <1>7, <3>1 DEF AreEntries
    <3>3. local = o.local
      BY <1>5, <3>2 DEF IsEntry, EntriesApart
    <3>4. <<o.addr, o.local>> \in Pending(epTodo, "add", o.spn)
      BY <1>1, <1>3, <1>8 DEF Pending
    <3> QED BY <1>4, <1>7, <3>1, <3>3, <3>4 DEF Balanced
  <2>2. /\ InStep' /\ proc' = proc /\ epTodo' = Tail(epTodo)
        /\ AddEndpoint(o.spn, o.addr, o.local)
        /\ PlacesBecome(o.spn, before \cup {place})
    BY <1>4, <1>8, <2>1, AddStepKeepsStep DEF o
  <2>3. EndpointCallsAllowed
    BY <1>1, <1>8, <2>2 DEF EndpointCallsAllowed, o
  <2>4. ASSUME NEW spn \in ServicePortName
        PROVE  /\ Balanced(Places(endpointsMap'[spn]), epTodo', Asked(seen, spn), spn)
               /\ AreEntries(spn, Places(endpointsMap'[spn]))
    <3>1. IF spn = o.spn THEN Balanced(Places(endpointsMap[spn]) \cup {place}, Tail(epTodo), Asked(seen, spn), spn)
          ELSE Balanced(Places(endpointsMap[spn]), Tail(epTodo), Asked(seen, spn), spn)
      <4>1. o.op = "add"
        BY <1>1, <1>8
      <4> QED BY <1>1, <1>2, <1>7, <4>1, BalancedAfterAdd DEF o
    <3>2. Places(endpointsMap'[spn]) = IF spn = o.spn THEN Places(endpointsMap[spn]) \cup {place}
                                       ELSE Places(endpointsMap[spn])
      BY <2>2 DEF PlacesBecome
    <3>3. Balanced(Places(endpointsMap'[spn]), epTodo', Asked(seen, spn), spn)
      BY <2>2, <3>1, <3>2
    <3>4. AreEntries(spn, Places(endpointsMap'[spn]))
      BY <1>5, <1>7, <3>2 DEF AreEntries
    <3> QED BY <3>3, <3>4
  <2> QED BY <1>6, <2>2, <2>3, <2>4 DEF AllBalanced
<1>9. CASE StepDeleteEndpoint
  <2>2. /\ InStep' /\ proc' = proc /\ epTodo' = Tail(epTodo)
        /\ DeleteEndpoint(o.spn, o.addr, o.local)
        /\ PlacesBecome(o.spn, before \ {place})
    BY <1>4, <1>9, DeleteStepKeepsStep DEF o
  <2>3. EndpointCallsAllowed
    BY <1>1, <1>9, <2>2 DEF EndpointCallsAllowed, o
  <2>4. ASSUME NEW spn \in ServicePortName
        PROVE  /\ Balanced(Places(endpointsMap'[spn]), epTodo', Asked(seen, spn), spn)
               /\ AreEntries(spn, Places(endpointsMap'[spn]))
    <3>1. IF spn = o.spn THEN Balanced(Places(endpointsMap[spn]) \ {place}, Tail(epTodo), Asked(seen, spn), spn)
          ELSE Balanced(Places(endpointsMap[spn]), Tail(epTodo), Asked(seen, spn), spn)
      <4>1. o.op = "delete"
        BY <1>1, <1>9
      <4> QED BY <1>1, <1>2, <1>7, <4>1, BalancedAfterDelete DEF o
    <3>2. Places(endpointsMap'[spn]) = IF spn = o.spn THEN Places(endpointsMap[spn]) \ {place}
                                       ELSE Places(endpointsMap[spn])
      BY <2>2 DEF PlacesBecome
    <3>3. Balanced(Places(endpointsMap'[spn]), epTodo', Asked(seen, spn), spn)
      BY <2>2, <3>1, <3>2
    <3>4. AreEntries(spn, Places(endpointsMap'[spn]))
      BY <1>7, <3>2 DEF AreEntries
    <3> QED BY <3>3, <3>4
  <2> QED BY <1>6, <2>2, <2>3, <2>4 DEF AllBalanced
<1> QED BY <1>8, <1>9

\* The store at the end of a handler.
LEMMA StoreStepKeeps ==
    ASSUME NEW ops, NEW seen, NEW cache, EpTyped(seen), EpTyped(cache), InHand(ops, seen, cache),
           NEW eps, AllBalanced(eps, ops, seen), ops # <<>>, Head(ops).op = "store"
    PROVE  LET after == [cache EXCEPT ![Head(ops).ep] = Head(ops).obj]
           IN  EpTyped(after) /\ InHand(Tail(ops), seen, after) /\ AllBalanced(eps, Tail(ops), seen)
<1> DEFINE x == Head(ops)
           t == Tail(ops)
           after == [cache EXCEPT ![x.ep] = x.obj]
<1>1. ops \in Seq(EndpointOp) /\ Once(ops)
  BY DEF InHand
<1>2. x \in EndpointOp /\ x.op = "store" /\ 1 \in DOMAIN ops /\ ops[1] = x
  BY <1>1, PendingTail
<1>3. Len(ops) = 1 /\ x.obj = seen[x.ep]
  BY <1>2 DEF InHand, StoresNoneBefore
<1>4. t = <<>>
  <2>1. t \in Seq(EndpointOp) /\ Len(t) = 0
    BY <1>1, <1>3, HeadTailProperties
  <2> QED BY <2>1, EmptySeq
<1>5. \A kind \in {"add", "delete"} : \A spn : Pending(ops, kind, spn) = Pending(t, kind, spn)
  <2>1. ASSUME NEW kind \in {"add", "delete"}, NEW spn
        PROVE  Pending(ops, kind, spn) = Pending(t, kind, spn)
    <3>1. Pending(ops, kind, spn) = Pending(t, kind, spn) \cup
            IF x.op = kind /\ x.spn = spn THEN {<<x.addr, x.local>>} ELSE {}
      BY <1>1, PendingTail
    <3>2. x.op # kind
      BY <1>2
    <3> HIDE DEF x, t
    <3> QED BY <3>1, <3>2
  <2> QED BY <2>1
<1>6. x.ep \in EpObject
  BY <1>2, EndpointOpFields
<1> HIDE DEF x, t
<1>7. seen[x.ep] \in EpVersions[x.ep] \cup {Nil}
  BY <1>6 DEF EpTyped
<1>8. EpTyped(after) /\ after[x.ep] = x.obj /\ \A o \in EpObject : o # x.ep => after[o] = cache[o]
  <2>1. x.obj \in EpVersions[x.ep] \cup {Nil}
    BY <1>3, <1>7
  <2>2. EpTyped(after)
    BY <1>6, <2>1, EpTypedExcept
  <2> QED BY <1>6, <2>2 DEF EpTyped
<1> HIDE DEF after
<1>9. ASSUME NEW o \in EpObject
      PROVE  after[o] = seen[o]
  <2>1. CASE o = x.ep
    BY <1>3, <1>8, <2>1
  <2>2. CASE o # x.ep
    <3>1. ops[Len(ops)] = x
      BY <1>2, <1>3
    <3>2. ~StoresLast(ops, o, seen[o])
      BY <2>2, <3>1 DEF StoresLast
    <3> QED BY <1>8, <2>2, <3>2 DEF InHand
  <2> QED BY <2>1, <2>2
<1>10. InHand(t, seen, after)
  <2>1. t \in Seq(EndpointOp) /\ DOMAIN t = {}
    BY <1>4
  <2>2. Once(t) /\ OnEntries(t) /\ StoresNoneBefore(t) /\ AddsFirst(t)
    BY <2>1 DEF Once, OnEntries, StoresNoneBefore, AddsFirst
  <2> QED BY <1>9, <2>1, <2>2 DEF InHand
<1>11. AllBalanced(eps, t, seen)
  BY <1>5 DEF AllBalanced, Balanced
<1> QED BY <1>8, <1>10, <1>11 DEF after, t, x

\* An event adds its operations to the work in hand.
LEMMA EventInHand ==
    ASSUME NEW seen, NEW cache, EpTyped(seen), EpTyped(cache), InHand(<<>>, seen, cache),
           NEW o \in EpObject, NEW new \in EpVersions[o] \cup {Nil}, Conditioned(new),
           NEW ops, Turns(ops, o, seen[o], new), NEW after,
           after = IF seen[o] = Nil THEN [cache EXCEPT ![o] = new] ELSE cache
    PROVE  EpTyped(after) /\ InHand(ops, [seen EXCEPT ![o] = new], after)
<1> DEFINE seen2 == [seen EXCEPT ![o] = new]
<1>1. seen2[o] = new /\ \A p \in EpObject : p # o => seen2[p] = seen[p]
  BY DEF EpTyped
<1>2. EpTyped(after) /\ (seen[o] = Nil => after[o] = new) /\ \A p \in EpObject : p # o => after[p] = cache[p]
  <2>1. EpTyped([cache EXCEPT ![o] = new])
    BY EpTypedExcept
  <2>2. CASE seen[o] = Nil
    <3>1. EpTyped(after)
      BY <2>1, <2>2
    <3> QED BY <2>2, <3>1 DEF EpTyped
  <2> QED BY <2>2
<1>3. \A p \in EpObject : cache[p] = seen[p]
  BY DEF InHand, StoresLast
<1> HIDE DEF seen2
<1>4. \A k \in DOMAIN ops : ops[k].op = "store" => ops[k].obj = seen2[ops[k].ep]
  <2>1. ASSUME NEW k \in DOMAIN ops, ops[k].op = "store"
        PROVE  ops[k].obj = seen2[ops[k].ep]
    <3>1. k = Len(ops)
      BY <2>1 DEF Turns, StoresNoneBefore
    <3>2. StoresLast(ops, o, new)
      BY <2>1 DEF Turns, IsCall
    <3> QED BY <1>1, <3>1, <3>2 DEF StoresLast
  <2> QED BY <2>1
<1>5. ASSUME NEW p \in EpObject
      PROVE  after[p] = seen2[p] \/ StoresLast(ops, p, seen2[p])
  <2>1. CASE p # o
    BY <1>1, <1>2, <1>3, <2>1
  <2>2. CASE p = o
    BY <1>1, <1>2, <2>2 DEF Turns
  <2> QED BY <2>1, <2>2
<1>6. ASSUME NEW p \in EpObject
      PROVE  Conditioned(seen2[p])
  BY <1>1 DEF InHand
<1>7. InHand(ops, seen2, after)
  BY <1>4, <1>5, <1>6 DEF InHand, Turns
<1> QED BY <1>2, <1>7 DEF seen2

\* The operations of the handler an event calls: they turn the old object into
\* the new one, or the handler is about to panic.
LEMMA EventTurns ==
    ASSUME EntriesApart, NEW o \in EpObject, NEW old \in EpVersions[o] \cup {Nil},
           NEW new \in EpVersions[o] \cup {Nil}, old # new, Conditioned(old), NEW ops,
           ops = IF old = Nil THEN AddOps(new) ELSE IF new = Nil THEN DeleteOps(o, old) ELSE UpdateOps(o, new, old)
    PROVE  IF Conditioned(new) THEN Turns(ops, o, old, new) ELSE ops = <<PanicEpOp>>
<1>1. CASE new = Nil
  <2>1. Conditioned(new)
    BY <1>1 DEF Conditioned
  <2>2. ops = DeleteOps(o, old) /\ old \in EpVersions[o] \ {Nil}
    BY <1>1
  <2> QED BY <1>1, <2>1, <2>2, DeleteOpsTurn
<1>2. CASE new # Nil /\ ~Conditioned(new)
  <2>1. EndpointSlice /\ SlicePanics(new)
    BY <1>2 DEF Conditioned
  <2> QED BY <1>2, <2>1 DEF AddOps, UpdateOps, AddEndpointSliceOps, UpdateEndpointSliceOps
<1>3. CASE new # Nil /\ Conditioned(new)
  <2>1. CASE old = Nil
    BY <1>3, <2>1, AddOpsTurn
  <2>2. CASE old # Nil
    BY <1>3, <2>2, UpdateOpsTurn
  <2> QED BY <2>1, <2>2
<1> QED BY <1>1, <1>2, <1>3

\* An event of the endpoints informer.
LEMMA DeliverKeeps ==
    ASSUME EntriesApart, EpInv, NEW o \in EpObject, DeliverEndpoints(o), boot' = boot
    PROVE  EpInv'
<1> DEFINE old == seenEp[o]
           new == apiEp[o]
<1>1. /\ proc = "running" /\ epTodo = <<>> /\ old # new /\ UNCHANGED vars /\ apiEp' = apiEp
      /\ seenEp' = [seenEp EXCEPT ![o] = new]
      /\ epCache' = IF old = Nil THEN [epCache EXCEPT ![o] = new] ELSE epCache
  BY DEF DeliverEndpoints
<1>2. InHand(<<>>, seenEp, epCache) /\ AllBalanced(endpointsMap, <<>>, seenEp)
  BY <1>1 DEF EpInv
<1>3. EpTyped(seenEp) /\ EpTyped(epCache) /\ EpTyped(apiEp) /\ InStep
  BY <1>1 DEF EpInv
<1>4. epCache[o] = old /\ Conditioned(old)
  BY <1>2 DEF InHand, StoresLast
<1>5. epTodo' = IF old = Nil THEN AddOps(new) ELSE IF new = Nil THEN DeleteOps(o, old) ELSE UpdateOps(o, new, old)
  BY <1>4 DEF DeliverEndpoints
<1>6. old \in EpVersions[o] \cup {Nil} /\ new \in EpVersions[o] \cup {Nil}
  BY <1>3 DEF EpTyped
<1>7. InStep'
  BY <1>1, <1>3, StopKeepsStep DEF vars, InStep, TypeOK
<1>8. EpTyped(seenEp')
  BY <1>1, <1>3, <1>6, EpTypedExcept
<1>9. epTodo' = <<PanicEpOp>> \/ (Conditioned(new) /\ Turns(epTodo', o, old, new))
  BY <1>1, <1>4, <1>5, <1>6, EventTurns
<1>10. EpTyped(epCache')
  <2>1. EpTyped([epCache EXCEPT ![o] = new])
    BY <1>3, <1>6, EpTypedExcept
  <2> QED BY <1>1, <1>3, <2>1
<1>11. ASSUME Conditioned(new), Turns(epTodo', o, old, new)
       PROVE  InHand(epTodo', seenEp', epCache') /\ AllBalanced(endpointsMap', epTodo', seenEp')
  <2>1. InHand(epTodo', seenEp', epCache')
    BY <1>1, <1>2, <1>3, <1>6, <1>11, EventInHand
  <2>2. AllBalanced(endpointsMap, epTodo', [seenEp EXCEPT ![o] = new])
    BY <1>2, <1>3, <1>6, <1>11, TurnBalances
  <2> QED BY <1>1, <2>1, <2>2 DEF vars
<1>12. (boot = <<>>)' /\ EpTyped(apiEp)'
  BY <1>1, <1>3 DEF EpInv
<1>13. epTodo' = <<PanicEpOp>> \/ (InHand(epTodo', seenEp', epCache') /\ AllBalanced(endpointsMap', epTodo', seenEp'))
  BY <1>9, <1>11
<1> QED BY <1>7, <1>8, <1>10, <1>12, <1>13 DEF EpInv

\* A step that leaves the endpoints in place and the endpoints side alone.
LEMMA OthersKeep ==
    ASSUME EpInv, UNCHANGED <<epVars, boot>>, proc' = "running" => proc = "running" /\ InStep' /\ PlacesStay
    PROVE  EpInv'
<1>1. /\ apiEp' = apiEp /\ seenEp' = seenEp /\ epCache' = epCache /\ epTodo' = epTodo /\ boot' = boot
  BY DEF epVars
<1>2. ASSUME PlacesStay, AllBalanced(endpointsMap, epTodo, seenEp)
      PROVE  AllBalanced(endpointsMap', epTodo, seenEp)
  BY <1>2 DEF AllBalanced, PlacesStay
<1>3. (EpTyped(apiEp) /\ EpTyped(seenEp) /\ EpTyped(epCache) /\ boot = <<>>)'
  BY <1>1 DEF EpInv
<1>4. ASSUME proc' = "running"
      PROVE  \/ epTodo' = <<PanicEpOp>>
             \/ InHand(epTodo', seenEp', epCache') /\ AllBalanced(endpointsMap', epTodo', seenEp')
  BY <1>1, <1>2, <1>4 DEF EpInv
<1> QED BY <1>3, <1>4 DEF EpInv

\* A process that has just been started has nothing in hand.
LEMMA StartBalanced ==
    ASSUME NEW objs, objs = [o \in EpObject |-> Nil],
           NEW eps, eps = [spn \in ServicePortName |-> <<>>]
    PROVE  EpTyped(objs) /\ InHand(<<>>, objs, objs) /\ AllBalanced(eps, <<>>, objs)
<1>1. \A o \in EpObject : objs[o] = Nil
  OBVIOUS
<1>2. EpTyped(objs)
  BY DEF EpTyped
<1>3. InHand(<<>>, objs, objs)
  BY <1>1 DEF InHand, Once, OnEntries, StoresNoneBefore, AddsFirst, Conditioned
<1>4. ASSUME NEW spn \in ServicePortName
      PROVE  /\ Balanced(Places(eps[spn]), <<>>, Asked(objs, spn), spn)
             /\ AreEntries(spn, Places(eps[spn]))
  <2>1. Places(eps[spn]) = {}
    BY DEF Places
  <2>2. Asked(objs, spn) = {}
    BY <1>1 DEF Asked, Live
  <2>3. Pending(<<>>, "add", spn) = {} /\ Pending(<<>>, "delete", spn) = {}
    BY DEF Pending
  <2> QED BY <2>1, <2>2, <2>3 DEF Balanced, AreEntries
<1> QED BY <1>2, <1>3, <1>4 DEF AllBalanced

\* A process that bootstraps nothing starts balanced.
LEMMA EpInitially ==
    ASSUME Bootstrap = Nil, NFInit
    PROVE  EpInv
<1>1. InStep
  BY StartInStep DEF NFInit, PortInv, InStep
<1>2. /\ apiEp = [o \in EpObject |-> Nil] /\ seenEp = [o \in EpObject |-> Nil]
      /\ epCache = [o \in EpObject |-> Nil] /\ epTodo = <<>> /\ boot = <<>>
      /\ endpointsMap = [spn \in ServicePortName |-> <<>>]
  BY DEF NFInit, FirstEpCache, BootstrapOps, Init
<1>3. EpTyped(apiEp) /\ InHand(<<>>, apiEp, apiEp) /\ AllBalanced(endpointsMap, <<>>, apiEp)
  BY <1>2, StartBalanced
<1>4. seenEp = apiEp /\ epCache = apiEp
  BY <1>2
<1> QED BY <1>1, <1>2, <1>3, <1>4 DEF EpInv

\* So does one that is restarted.
LEMMA EpAfterRestart ==
    ASSUME Bootstrap = Nil, EpInv, RestartProcess
    PROVE  EpInv'
<1>1. InStep'
  BY RestartInStep DEF RestartProcess, PortInv, InStep
<1>2. /\ apiEp' = apiEp /\ seenEp' = [o \in EpObject |-> Nil]
      /\ epCache' = [o \in EpObject |-> Nil] /\ epTodo' = <<>> /\ boot' = <<>>
      /\ endpointsMap' = [spn \in ServicePortName |-> <<>>]
  BY DEF RestartProcess, FirstEpCache, BootstrapOps, Restart
<1>3. EpTyped(seenEp') /\ InHand(<<>>, seenEp', seenEp') /\ AllBalanced(endpointsMap', <<>>, seenEp')
  BY <1>2, StartBalanced
<1>4. epCache' = seenEp' /\ EpTyped(apiEp')
  BY <1>2 DEF EpInv
<1>5. EpTyped(epCache') /\ InHand(epTodo', seenEp', epCache') /\ AllBalanced(endpointsMap', epTodo', seenEp')
  BY <1>2, <1>3, <1>4
<1> QED BY <1>1, <1>2, <1>3, <1>4, <1>5 DEF EpInv

\* The invariant is inductive as long as the service handlers keep to the
\* contract of Proxy.
LEMMA EpInvStep ==
    ASSUME EntriesApart, Bootstrap = Nil, EndpointSlice => ~Tombstones,
           EpInv, NFNext, ServiceCallsSurvived
    PROVE  EpInv'
<1>0. boot = <<>> /\ EpTyped(apiEp) /\ EpTyped(seenEp) /\ EpTyped(epCache) /\ (proc = "running" => InStep)
  BY DEF EpInv
<1>1. ASSUME UNCHANGED <<serviceMap, endpointsMap, svcChain, epChain, affinityMap, sets>>,
             proc' = proc \/ proc' \in {"panicked", "killed"}
      PROVE  proc' = "running" => proc = "running" /\ InStep' /\ PlacesStay
  BY <1>0, <1>1, StopKeepsStep
<1>2. ASSUME NEW s \in Service, ChangeService(s) \/ ServiceEvent(s)
      PROVE  EpInv'
  <2>1. UNCHANGED <<epVars, boot>> /\ (UNCHANGED vars \/ Stop("panicked"))
    BY <1>2 DEF ChangeService, ServiceEvent, DeliverService, DeliverServiceTombstone
  <2>2. proc' = "running" => proc = "running" /\ InStep' /\ PlacesStay
    BY <1>1, <2>1 DEF vars, Stop
  <2> QED BY <2>1, <2>2, OthersKeep
<1>3. ASSUME NEW o \in EpObject, ChangeEndpoints(o)
      PROVE  EpInv'
  <2>1. PICK obj \in EpVersions[o] : apiEp' = [apiEp EXCEPT ![o] = obj]
    BY <1>3 DEF ChangeEndpoints
  <2>2. UNCHANGED <<vars, seenEp, epCache, epTodo, boot>>
    BY <1>3 DEF ChangeEndpoints
  <2>3. EpTyped(apiEp')
    BY <1>0, <2>1, EpTypedExcept
  <2>4. proc' = "running" => InStep'
    BY <1>1, <2>2 DEF vars
  <2>5. endpointsMap' = endpointsMap /\ proc' = proc
    BY <2>2 DEF vars
  <2> QED BY <2>2, <2>3, <2>4, <2>5 DEF EpInv
<1>4. ASSUME NEW o \in EpObject, EndpointsEvent(o)
      PROVE  EpInv'
  <2>1. CASE DeliverEndpoints(o)
    BY <1>4, <2>1, DeliverKeeps DEF EndpointsEvent
  <2>2. CASE Tombstones /\ DeliverEndpointsTombstone(o)
    <3>1. /\ Stop("panicked") /\ seenEp' = [seenEp EXCEPT ![o] = Nil]
          /\ UNCHANGED <<apiEp, epCache, boot>>
      BY <1>4, <2>2 DEF DeliverEndpointsTombstone, EndpointsEvent
    <3>2. EpTyped(seenEp')
      BY <1>0, <3>1, EpTypedExcept
    <3>3. proc' = "panicked"
      BY <3>1 DEF Stop
    <3> QED BY <1>0, <3>1, <3>2, <3>3 DEF EpInv
  <2> QED BY <1>4, <2>1, <2>2 DEF EndpointsEvent
<1>5. CASE ServiceStep
  <2>1. proc = "running"
    BY <1>5 DEF ServiceStep, SvcHandler, SvcStep, StepAddPort, StepDeletePort, StepChangePort, StepAddElement,
       StepRemoveElement, StepAffinity, StepStore, StepPanic
  <2>2. proc' = "running" => InStep' /\ PlacesStay
    BY <1>0, <1>5, <2>1, ServiceHandlersKeepStep DEF ServiceStep
  <2> QED BY <1>5, <2>1, <2>2, OthersKeep DEF ServiceStep
<1>6. CASE EndpointsStep
  <2>1. proc = "running" /\ epTodo # <<>> /\ UNCHANGED <<apiEp, seenEp, boot>>
    BY <1>6 DEF EndpointsStep, EpHandler, EpStep, StepAddEndpoint, StepDeleteEndpoint, StepStoreEndpoints,
       StepPanicEndpoints
  <2>2. CASE StepPanicEndpoints
    <3>1. proc' = "panicked" /\ UNCHANGED epCache
      BY <2>2 DEF StepPanicEndpoints, Stop
    <3> QED BY <1>0, <2>1, <3>1 DEF EpInv
  <2>3. CASE ~StepPanicEndpoints
    <3>1. Head(epTodo).op \in {"add", "delete", "store"}
      BY <1>6, <2>3 DEF EndpointsStep, EpHandler, EpStep, StepAddEndpoint, StepDeleteEndpoint, StepStoreEndpoints
    <3>2. epTodo # <<PanicEpOp>>
      BY <3>1 DEF PanicEpOp
    <3>3. InHand(epTodo, seenEp, epCache) /\ AllBalanced(endpointsMap, epTodo, seenEp)
      BY <2>1, <3>2 DEF EpInv
    <3>4. CASE StepAddEndpoint \/ StepDeleteEndpoint
      <4>1. InStep' /\ InHand(epTodo', seenEp, epCache) /\ AllBalanced(endpointsMap', epTodo', seenEp)
        BY <1>0, <2>1, <3>3, <3>4, CallStepsKeep
      <4>2. UNCHANGED epCache
        BY <3>4 DEF StepAddEndpoint, StepDeleteEndpoint
      <4> QED BY <1>0, <2>1, <4>1, <4>2 DEF EpInv
    <3>5. CASE StepStoreEndpoints
      <4>1. /\ epCache' = [epCache EXCEPT ![Head(epTodo).ep] = Head(epTodo).obj]
            /\ epTodo' = Tail(epTodo) /\ UNCHANGED vars /\ Head(epTodo).op = "store"
        BY <3>5 DEF StepStoreEndpoints, EpStep
      <4>2. EpTyped(epCache') /\ InHand(epTodo', seenEp, epCache') /\ AllBalanced(endpointsMap, epTodo', seenEp)
        BY <1>0, <2>1, <3>3, <4>1, StoreStepKeeps
      <4>3. (proc' = "running" => InStep') /\ endpointsMap' = endpointsMap
        BY <1>1, <4>1 DEF vars
      <4> QED BY <1>0, <2>1, <4>2, <4>3 DEF EpInv
    <3> QED BY <1>6, <2>3, <3>4, <3>5 DEF EndpointsStep, EpHandler
  <2> QED BY <2>2, <2>3
<1>7. CASE StepBootstrap
  BY <1>0, <1>7 DEF StepBootstrap
<1>8. CASE KillProcess
  <2>1. UNCHANGED <<epVars, boot>> /\ Stop("killed")
    BY <1>8 DEF KillProcess, Kill
  <2>2. proc' = "running" => proc = "running" /\ InStep' /\ PlacesStay
    BY <1>1, <2>1 DEF Stop
  <2> QED BY <2>1, <2>2, OthersKeep
<1>9. CASE RestartProcess
  BY <1>9, EpAfterRestart
<1>10. CASE Done
  <2>1. UNCHANGED <<epVars, boot>> /\ UNCHANGED vars
    BY <1>10 DEF Done, nfVars
  <2>2. proc' = "running" => proc = "running" /\ InStep' /\ PlacesStay
    BY <1>1, <2>1 DEF vars
  <2> QED BY <2>1, <2>2, OthersKeep
<1> QED BY <1>2, <1>3, <1>4, <1>5, <1>6, <1>7, <1>8, <1>9, <1>10 DEF NFNext

\* Nothing happens.
LEMMA EpInvStutters ==
    ASSUME EpInv, UNCHANGED nfVars
    PROVE  EpInv'
<1>1. UNCHANGED <<epVars, boot>> /\ UNCHANGED vars
  BY DEF nfVars
<1>2. proc' = "running" => proc = "running" /\ InStep' /\ PlacesStay
  BY <1>1, StopKeepsStep DEF vars, EpInv
<1> QED BY <1>1, <1>2, OthersKeep

\* The invariant holds in every reachable state of a proxy that bootstraps
\* nothing, whatever the two informers deliver and however the process ends and
\* restarts, as long as the service handlers keep to the contract of Proxy.
THEOREM EpInvariant ==
    ASSUME EntriesApart, Bootstrap = Nil, EndpointSlice => ~Tombstones
    PROVE  NFSpec /\ [][ServiceCallsSurvived]_nfVars => []EpInv
<1>1. NFInit => EpInv
  BY EpInitially
<1>2. EpInv /\ [NFNext]_nfVars /\ [ServiceCallsSurvived]_nfVars => EpInv'
  BY EpInvStep, EpInvStutters
<1> QED BY <1>1, <1>2, PTL DEF NFSpec

\* The addresses of places.
AddressesAt(places) == {p[1] : p \in places}

\* The addresses the objects ask for are those of the places they ask for.
LEMMA AskedAddressesAt ==
    ASSUME NEW objs, NEW spn
    PROVE  AddressesIn(objs, spn) = AddressesAt(Asked(objs, spn))
<1>1. ASSUME NEW o \in EpObject, objs[o] # Nil, NEW i \in DOMAIN objs[o], objs[o][i].name = spn,
             EndpointSlice => objs[o][i].ready
      PROVE  objs[o][i].addr \in AddressesAt(Asked(objs, spn))
  <2>1. <<objs[o][i].addr, objs[o][i].local>> \in Live(objs[o], spn)
    BY <1>1 DEF Live, LiveIn, Chosen
  <2>2. <<objs[o][i].addr, objs[o][i].local>> \in Asked(objs, spn)
    BY <2>1 DEF Asked
  <2> QED BY <2>2 DEF AddressesAt
<1>2. ASSUME NEW p \in Asked(objs, spn)
      PROVE  p[1] \in AddressesIn(objs, spn)
  <2>1. PICK o \in EpObject : p \in Live(objs[o], spn)
    BY DEF Asked
  <2>2. objs[o] # Nil /\ p \in Chosen(objs[o], LiveIn(objs[o]), spn)
    BY <2>1 DEF Live
  <2>3. PICK i \in LiveIn(objs[o]) : objs[o][i].name = spn /\ p = <<objs[o][i].addr, objs[o][i].local>>
    BY <2>2 DEF Chosen
  <2>4. p[1] = objs[o][i].addr
    BY <2>3
  <2> QED BY <2>2, <2>3, <2>4 DEF AddressesIn, LiveIn
<1>3. AddressesIn(objs, spn) \subseteq AddressesAt(Asked(objs, spn))
  BY <1>1 DEF AddressesIn
<1>4. AddressesAt(Asked(objs, spn)) \subseteq AddressesIn(objs, spn)
  BY <1>2 DEF AddressesAt
<1> QED BY <1>3, <1>4

\* The addresses of endpoints are those of their places.
LEMMA AddressesAtPlaces ==
    ASSUME NEW eps
    PROVE  AddressesAt(Places(eps)) = AddrsOf(eps)
<1>1. ASSUME NEW i \in DOMAIN eps
      PROVE  eps[i].addr \in AddressesAt(Places(eps))
  <2>1. <<eps[i].addr, eps[i].local>> \in Places(eps) /\ <<eps[i].addr, eps[i].local>>[1] = eps[i].addr
    BY DEF Places
  <2> QED BY <2>1 DEF AddressesAt
<1>2. ASSUME NEW p \in Places(eps)
      PROVE  p[1] \in AddrsOf(eps)
  <2>1. PICK i \in DOMAIN eps : p = <<eps[i].addr, eps[i].local>>
    BY DEF Places
  <2> QED BY <2>1 DEF AddrsOf
<1> QED BY <1>1, <1>2 DEF AddressesAt, AddrsOf

\* Once all events are handled, the proxy knows exactly the endpoints the objects
\* of the cluster ask for, after any sequence of adds, updates, deletes, crashes
\* and restarts.
THEOREM EndpointsAlwaysAsAsked ==
    ASSUME EntriesApart, Bootstrap = Nil, EndpointSlice => ~Tombstones
    PROVE  NFSpec /\ [][ServiceCallsSurvived]_nfVars => []EndpointsAsAsked
<1>1. EpInv => EndpointsAsAsked
  <2> SUFFICES ASSUME EpInv, Quiet, NEW spn \in ServicePortName
               PROVE  {endpointsMap[spn][i].addr : i \in DOMAIN endpointsMap[spn]} = AskedAddresses(spn)
    BY DEF EndpointsAsAsked
  <2>1. epTodo = <<>> /\ proc = "running" /\ seenEp = apiEp
    BY DEF Quiet
  <2>2. AllBalanced(endpointsMap, <<>>, apiEp)
    BY <2>1 DEF EpInv
  <2>3. Pending(<<>>, "add", spn) = {} /\ Pending(<<>>, "delete", spn) = {}
    BY DEF Pending
  <2>4. Places(endpointsMap[spn]) = Asked(apiEp, spn)
    BY <2>2, <2>3 DEF AllBalanced, Balanced
  <2> QED BY <2>4, AskedAddressesAt, AddressesAtPlaces DEF AskedAddresses, AddrsOf
<1> QED BY <1>1, EpInvariant, PTL

\* The endpoints handlers keep to the contract of Proxy: no address is added
\* twice and the loop of deleteEndpoint ends with its first match.  With the
\* service handlers the whole proxy does.
THEOREM ContractKept ==
    ASSUME EntriesApart, Bootstrap = Nil, EndpointSlice => ~Tombstones
    PROVE  NFSpec /\ [][ServiceCallsAllowed]_nfVars => KeepsContract
<1>1. EpInv => EndpointCallsAllowed
  <2> SUFFICES ASSUME EpInv PROVE EndpointCallsAllowed
    OBVIOUS
  <2>1. CASE StepAddEndpoint \/ StepDeleteEndpoint
    <3>1. proc = "running" /\ Head(epTodo).op \in {"add", "delete"}
      BY <2>1 DEF StepAddEndpoint, StepDeleteEndpoint, EpStep
    <3>2. epTodo # <<PanicEpOp>>
      BY <3>1 DEF PanicEpOp
    <3>3. InStep /\ InHand(epTodo, seenEp, epCache) /\ AllBalanced(endpointsMap, epTodo, seenEp)
      BY <3>1, <3>2 DEF EpInv
    <3> QED BY <2>1, <3>3, CallStepsKeep
  <2>2. CASE ~(StepAddEndpoint \/ StepDeleteEndpoint)
    BY <2>2 DEF EndpointCallsAllowed
  <2> QED BY <2>1, <2>2
<1>2. EpInv /\ [ServiceCallsAllowed]_nfVars => [ServiceCallsAllowed /\ EndpointCallsAllowed]_nfVars
  BY <1>1
<1>3. [ServiceCallsAllowed]_nfVars => [ServiceCallsSurvived]_nfVars
  BY DEF ServiceCallsSurvived
<1> QED BY <1>2, <1>3, EpInvariant, PTL DEF KeepsContract

(***************************************************************************)
(* What the kernel does with a connection.                                 *)
(***************************************************************************)
\* The addresses behind the chain of a port that is in step are those of its
\* endpoints.
LEMMA ServedOf ==
    ASSUME NEW w, PortOK(w), w.svc # Nil
    PROVE  {a \in Addr : /\ JumpsTo(w.sc[SvcID(w.svc)], a) /\ w.ec[a] # Nil
                         /\ \E i \in DOMAIN w.ec[a] : w.ec[a][i].kind = "dnat"} = AddrsOf(w.eps)
<1> DEFINE c == w.sc[SvcID(w.svc)]
           aff == HasAff(w.svc)
           id == SvcID(w.svc)
<1>1. w.eps \in Seq(EndpointInfo) /\ ChainOK(w.svc, w.eps, c) /\ EndpointsOK(aff, id, w.eps, w.ec)
  BY DEF PortOK, Typed
<1> HIDE DEF c, aff, id
<1>2. ASSUME NEW a \in Addr, w.ec[a] # Nil
      PROVE  a \in AddrsOf(w.eps)
  BY <1>1, <1>2 DEF EndpointsOK, AddrsOf
<1>3. ASSUME NEW i \in DOMAIN w.eps
      PROVE  LET a == w.eps[i].addr IN
             /\ a \in Addr /\ JumpsTo(c, a) /\ w.ec[a] # Nil
             /\ \E k \in DOMAIN w.ec[a] : w.ec[a][k].kind = "dnat"
  <2> DEFINE a == w.eps[i].addr
             e == w.ec[a]
  <2>1. a \in Addr
    BY <1>1, EndpointsType DEF EndpointInfo
  <2>2. JumpsTo(c, a)
    <3>1. w.eps # <<>>
      OBVIOUS
    <3>2. <<i, a>> \in Targets(w.eps)
      BY DEF Targets
    <3>3. PICK k \in {2, 3} : Len(c) = k /\ c[k] = LoadBalanceRule(w.svc.ruleID[k], w.eps)
      BY <1>1, <3>1 DEF ChainOK
    <3>4. c # Nil /\ k \in DOMAIN c
      <4>1. c # Nil /\ c \in Seq(RuleType)
        BY <1>1, NilAssumption DEF ChainOK, Remembers
      <4> QED BY <3>3, <4>1, LenProperties
    <3>5. c[k].kind = "lb" /\ c[k].to = Targets(w.eps)
      BY <3>3 DEF LoadBalanceRule, Rule
    <3>6. <<i, a>>[2] = a
      OBVIOUS
    <3> QED BY <3>2, <3>4, <3>5, <3>6 DEF JumpsTo
  <2>3. EndpointOK(aff, id, w.eps[i], e)
    BY <1>1 DEF EndpointsOK
  <2> HIDE DEF a, e
  <2>4. PICK k \in {3, 4} : Len(e) = k /\ e[k] = PlainRule(w.eps[i].ruleID[k], "dnat")
    BY <2>3 DEF EndpointOK
  <2>5. e # Nil /\ k \in DOMAIN e
    <3>1. e # Nil /\ e \in Seq(RuleType)
      BY <2>3, NilAssumption DEF EndpointOK, Remembers
    <3> QED BY <2>4, <3>1, LenProperties
  <2>6. e[k].kind = "dnat"
    BY <2>4 DEF PlainRule, Rule
  <2> QED BY <2>1, <2>2, <2>5, <2>6 DEF a, e
<1> DEFINE S == {a \in Addr : /\ JumpsTo(c, a) /\ w.ec[a] # Nil
                              /\ \E i \in DOMAIN w.ec[a] : w.ec[a][i].kind = "dnat"}
<1>4. S \subseteq AddrsOf(w.eps)
  BY <1>2
<1>5. AddrsOf(w.eps) \subseteq S
  BY <1>3 DEF AddrsOf
<1> QED BY <1>4, <1>5 DEF c

\* The addresses connections to a known port end up at are its endpoints.
ServedByEndpoints ==
    \A spn \in ServicePortName :
        ServedAddresses(spn) = IF serviceMap[spn] = Nil THEN {} ELSE AddrsOf(endpointsMap[spn])

\* They are, while every port is in step.
LEMMA ServedInStep == InStep => ServedByEndpoints
<1> SUFFICES ASSUME InStep, NEW spn \in ServicePortName, serviceMap[spn] # Nil
             PROVE  ServedAddresses(spn) = AddrsOf(endpointsMap[spn])
  BY DEF ServedByEndpoints, ServedAddresses
<1> DEFINE w == Local(spn)
<1>1. /\ PortOK(w) /\ w.svc = serviceMap[spn] /\ w.eps = endpointsMap[spn] /\ w.sc = svcChain[spn]
      /\ w.ec = epChain[spn]
  BY LocalFields DEF InStep
<1> HIDE DEF w
<1>2. {a \in Addr : /\ JumpsTo(w.sc[SvcID(w.svc)], a) /\ w.ec[a] # Nil
                    /\ \E i \in DOMAIN w.ec[a] : w.ec[a][i].kind = "dnat"} = AddrsOf(w.eps)
  BY <1>1, ServedOf
<1> QED BY <1>1, <1>2 DEF ServedAddresses

\* Once all events are handled, a connection to a service port the proxy knows
\* is sent to the addresses the cluster asks for and to no other.
THEOREM AlwaysServedAsAsked ==
    ASSUME EntriesApart, Bootstrap = Nil, EndpointSlice => ~Tombstones
    PROVE  NFSpec /\ [][ServiceCallsSurvived]_nfVars /\ []ServicePortsAsAsked => []ServedAsAsked
<1>1. EpInv /\ EndpointsAsAsked /\ ServicePortsAsAsked => ServedAsAsked
  <2> SUFFICES ASSUME EpInv, EndpointsAsAsked, ServicePortsAsAsked, Quiet, NEW a \in AskedPorts
               PROVE  ServedAddresses(a[1]) = AskedAddresses(a[1])
    BY DEF ServedAsAsked
  <2>1. a[1] \in ServicePortName /\ serviceMap[a[1]] # Nil
    <3>1. <<a[1], SvcID(a[2])>> \in {<<spn, SvcID(serviceMap[spn])>> :
                                       spn \in {spn \in ServicePortName : serviceMap[spn] # Nil}}
      BY DEF ServicePortsAsAsked
    <3> QED BY <3>1
  <2>2. ServedAddresses(a[1]) = AddrsOf(endpointsMap[a[1]])
    BY <2>1, ServedInStep DEF EpInv, ServedByEndpoints, Quiet
  <2> QED BY <2>1, <2>2 DEF EndpointsAsAsked, AddrsOf
<1> QED BY <1>1, EpInvariant, EndpointsAlwaysAsAsked, PTL

\* The same, for the next state.
LEMMA ServedNext == (InStep => ServedByEndpoints)'
BY ServedInStep, PTL

\* A step that leaves spn without an address behind it, though the port is
\* still there, when it had one.
EmptiedBy(spn) ==
    /\ ServedAddresses(spn) # {} /\ ServedAddresses(spn)' = {}
    /\ serviceMap'[spn] # Nil /\ proc' = "running"

\* Only the delete of the last endpoint leaves a port without any, and it comes
\* after all adds.
LEMMA LastDelete ==
    ASSUME EntriesApart, ~EndpointSlice, InStep, NEW seen, NEW cache, InHand(epTodo, seen, cache),
           AllBalanced(endpointsMap, epTodo, seen), StepAddEndpoint \/ StepDeleteEndpoint,
           NEW spn \in ServicePortName, Places(endpointsMap[spn]) # {}, Places(endpointsMap'[spn]) = {}
    PROVE  Asked(seen, spn) = {}
<1> DEFINE o == Head(epTodo)
           place == <<o.addr, o.local>>
<1>1. epTodo # <<>> /\ o.op \in {"add", "delete"} /\ (StepDeleteEndpoint => o.op = "delete")
  BY DEF StepAddEndpoint, StepDeleteEndpoint, EpStep
<1>2. epTodo \in Seq(EndpointOp) /\ Once(epTodo) /\ AddsFirst(epTodo)
  BY DEF InHand
<1>3. o \in EndpointOp /\ 1 \in DOMAIN epTodo /\ epTodo[1] = o
  BY <1>1, <1>2, PendingTail
<1>4. o.spn \in ServicePortName /\ o.addr \in Addr /\ o.local \in BOOLEAN
  BY <1>1, <1>3, EndpointOpFields DEF IsCall
<1>5. Balanced(Places(endpointsMap[spn]), epTodo, Asked(seen, spn), spn)
  BY DEF AllBalanced
<1>6. CASE StepAddEndpoint
  <2>1. EndpointCallsAllowed /\ InStep'
    BY CallStepsKeep
  <2>2. AddEndpoint(o.spn, o.addr, o.local)
    BY <1>6, <2>1 DEF EndpointCallsAllowed
  <2>3. ASSUME NEW i \in DOMAIN endpointsMap[o.spn]
        PROVE  endpointsMap[o.spn][i].addr # o.addr
    BY <2>2, <2>3 DEF AddEndpoint
  <2>4. PlacesBecome(o.spn, Places(endpointsMap[o.spn]) \cup {place})
    BY <1>4, <1>6, <2>3, AddStepKeepsStep
  <2> QED BY <2>4 DEF PlacesBecome
<1>7. CASE StepDeleteEndpoint
  <2>1. PlacesBecome(o.spn, Places(endpointsMap[o.spn]) \ {place})
    BY <1>4, <1>7, DeleteStepKeepsStep
  <2>2. spn = o.spn /\ Places(endpointsMap[spn]) \subseteq {place}
    BY <2>1 DEF PlacesBecome
  <2>3. o.op = "delete"
    BY <1>1, <1>7
  <2>4. place \in Pending(epTodo, "delete", spn)
    BY <1>3, <2>2, <2>3 DEF Pending
  <2>5. Pending(epTodo, "add", spn) = {}
    <3>1. ASSUME NEW j \in DOMAIN epTodo, epTodo[j].op = "add"
          PROVE  FALSE
      <4>1. DOMAIN epTodo = 1..Len(epTodo) /\ Len(epTodo) \in Nat
        BY <1>2, LenProperties
      <4>2. j # 1
        BY <1>3, <2>3, <3>1
      <4>3. 1 < j
        BY <4>1, <4>2
      <4> QED BY <1>2, <1>3, <2>3, <3>1, <4>3 DEF AddsFirst
    <3> QED BY <3>1 DEF Pending
  <2> QED BY <1>5, <2>2, <2>4, <2>5 DEF Balanced
<1> QED BY <1>6, <1>7

\* An update of the endpoints never leaves a service port without any on the
\* way, unless the object itself asks for none: UpdateEndpoints adds before it
\* deletes, and no step of another handler comes between the two that could.
THEOREM EndpointsNeverEmptied ==
    ASSUME EntriesApart, Bootstrap = Nil, ~EndpointSlice
    PROVE  NFSpec /\ [][ServiceCallsSurvived]_nfVars => NeverEmptied
<1>1. ASSUME EpInv, EpInv', NFNext, ServiceCallsSurvived, NEW spn \in ServicePortName, EmptiedBy(spn),
             proc = "running"
      PROVE  AddressesIn(seenEp, spn) = {}
  <2>1. ServedAddresses(spn) = IF serviceMap[spn] = Nil THEN {} ELSE AddrsOf(endpointsMap[spn])
    BY <1>1, ServedInStep DEF EpInv, ServedByEndpoints
  <2>2. (InStep => ServedByEndpoints)'
    BY ServedNext
  <2>3. ServedAddresses(spn)' = IF serviceMap'[spn] = Nil THEN {} ELSE AddrsOf(endpointsMap'[spn])
    BY <1>1, <2>2 DEF EpInv, ServedByEndpoints, EmptiedBy
  <2>4. AddrsOf(endpointsMap[spn]) # {} /\ AddrsOf(endpointsMap'[spn]) = {} /\ proc' = "running"
    BY <1>1, <2>1, <2>3 DEF EmptiedBy
  <2>5. Places(endpointsMap[spn]) # {} /\ Places(endpointsMap'[spn]) = {}
    BY <2>4 DEF Places, AddrsOf
  <2>6. CASE PlacesStay
    BY <2>5, <2>6 DEF PlacesStay
  <2>7. CASE endpointsMap' = endpointsMap
    BY <2>5, <2>7
  <2>8. CASE ServiceStep
    <3>1. PlacesStay
      BY <1>1, <2>8, ServiceHandlersKeepStep DEF ServiceStep, EpInv, EmptiedBy
    <3> QED BY <2>6, <3>1
  <2>9. CASE RestartProcess
    BY <1>1, <2>9 DEF RestartProcess, Restart, EmptiedBy
  <2>10. CASE EndpointsStep
    <3>1. CASE StepStoreEndpoints \/ StepPanicEndpoints
      BY <2>7, <3>1 DEF StepStoreEndpoints, StepPanicEndpoints, Stop, vars
    <3>2. CASE StepAddEndpoint \/ StepDeleteEndpoint
      <4>1. proc = "running" /\ Head(epTodo).op \in {"add", "delete"}
        BY <3>2 DEF StepAddEndpoint, StepDeleteEndpoint, EpStep
      <4>2. epTodo # <<PanicEpOp>>
        BY <4>1 DEF PanicEpOp
      <4>3. InStep /\ InHand(epTodo, seenEp, epCache) /\ AllBalanced(endpointsMap, epTodo, seenEp)
        BY <1>1, <4>1, <4>2 DEF EpInv
      <4>4. Asked(seenEp, spn) = {}
        BY <2>5, <3>2, <4>3, LastDelete
      <4> QED BY <4>4, AskedAddressesAt DEF AddressesAt
    <3> QED BY <2>10, <3>1, <3>2 DEF EndpointsStep, EpHandler
  <2>11. CASE \E s \in Service : ChangeService(s) \/ ServiceEvent(s)
    BY <2>7, <2>11 DEF ChangeService, ServiceEvent, DeliverService, DeliverServiceTombstone, Stop, vars
  <2>12. CASE \E o \in EpObject : ChangeEndpoints(o) \/ EndpointsEvent(o)
    BY <2>7, <2>12 DEF ChangeEndpoints, EndpointsEvent, DeliverEndpoints, DeliverEndpointsTombstone, Stop, vars
  <2>13. CASE StepBootstrap
    BY <1>1, <2>13 DEF StepBootstrap, EpInv
  <2>14. CASE KillProcess \/ Done
    BY <2>7, <2>14 DEF KillProcess, Kill, Stop, Done, nfVars, vars
  <2> QED BY <1>1, <2>8, <2>9, <2>10, <2>11, <2>12, <2>13, <2>14 DEF NFNext
<1>a. ASSUME NFNext, proc # "running", NEW spn \in ServicePortName, EmptiedBy(spn)
      PROVE  FALSE
  <2>1. CASE RestartProcess
    BY <1>a, <2>1 DEF RestartProcess, Restart, EmptiedBy
  <2>2. CASE proc' = proc
    BY <1>a, <2>2 DEF EmptiedBy
  <2>3. CASE ServiceStep \/ EndpointsStep \/ StepBootstrap \/ KillProcess \/ Done
    BY <1>a, <2>3 DEF ServiceStep, SvcHandler, SvcStep, StepAddPort, StepDeletePort, StepChangePort,
       StepAddElement, StepRemoveElement, StepAffinity, StepStore, StepPanic, EndpointsStep, EpHandler, EpStep,
       StepAddEndpoint, StepDeleteEndpoint, StepStoreEndpoints, StepPanicEndpoints, StepBootstrap, KillProcess,
       Kill, Done, Quiet
  <2>4. ASSUME NEW s \in Service, ChangeService(s) \/ ServiceEvent(s)
        PROVE  FALSE
    BY <1>a, <2>2, <2>4 DEF ChangeService, ServiceEvent, DeliverService, DeliverServiceTombstone, vars
  <2>5. ASSUME NEW o \in EpObject, ChangeEndpoints(o) \/ EndpointsEvent(o)
        PROVE  FALSE
    BY <1>a, <2>2, <2>5 DEF ChangeEndpoints, EndpointsEvent, DeliverEndpoints, DeliverEndpointsTombstone, vars
  <2> QED BY <1>a, <2>1, <2>3, <2>4, <2>5 DEF NFNext
<1>2. EpInv /\ EpInv' /\ [NFNext]_nfVars /\ [ServiceCallsSurvived]_nfVars =>
        [\A spn \in ServicePortName :
           (/\ ServedAddresses(spn) # {} /\ ServedAddresses(spn)' = {}
            /\ serviceMap'[spn] # Nil /\ proc' = "running")
           => AddressesIn(seenEp, spn) = {}]_nfVars
  BY <1>1, <1>a DEF EmptiedBy
<1>3. NFSpec /\ [][ServiceCallsSurvived]_nfVars => []EpInv
  BY EpInvariant
<1> QED BY <1>2, <1>3, PTL DEF NFSpec, NeverEmptied
=============================================================================
