-------------------------- MODULE EndpointHandlers --------------------------
(***************************************************************************)
(* The Endpoints or EndpointSlice informer and the handlers of             *)
(* proxy_endpoints.go or proxy_endpointslice.go.  The flag --endpointslice *)
(* chooses between the two; only one of them is started.  Informer and     *)
(* handler work as those of ServiceHandlers.                               *)
(*                                                                         *)
(* An Endpoints object or EndpointSlice is the sequence of the epInfo      *)
(* records processEpSubsets or processEpSlice makes of it, each            *)
(* [name, addr, local, ready] with name a service port.  The addresses of  *)
(* an Endpoints object are added ready or not; in a slice, ready = Nil is  *)
(* an endpoint without the Ready condition.  The service of a slice is     *)
(* that of its label, so several slices may feed one service.              *)
(*                                                                         *)
(* Left out: objects with an empty address or port 0, which the API server *)
(* refuses; the two Endpoints names and the nameless object the update     *)
(* handlers pass over, which belong to no service.                         *)
(***************************************************************************)
EXTENDS Proxy

CONSTANTS
    EndpointSlice,  \* the flag of main
    EpObject        \* the names of the Endpoints objects or slices

\* One epInfo record.
EndpointEntry ==
    [name : ServicePortName, addr : Addr, local : BOOLEAN, ready : BOOLEAN \cup {Nil}]

ASSUME EpAssumption == EndpointSlice \in BOOLEAN /\ Nil \notin Seq(EndpointEntry) \cup BOOLEAN

VARIABLES
    apiEp,      \* the objects in the API server, or Nil
    seenEp,     \* the last objects the informer delivered, or Nil
    epCache,    \* p.cache: the last known objects, or Nil
    epTodo      \* the remaining operations of the handler

epVars == <<apiEp, seenEp, epCache, epTodo>>

(***************************************************************************)
(* Matching.                                                               *)
(***************************************************************************)
SameEndpoint(e, f) ==
    e.name.port = f.name.port /\ e.name.proto = f.name.proto /\ e.addr = f.addr

\* Mutant of isPortInSubset: the search stops at the first address.
isPortFirstInSubset(obj, e) == obj # <<>> /\ SameEndpoint(obj[1], e)

\* isPortInSubset and the second result of isPortInEndpointSlice: neither the
\* node of the address nor the label of the slice is compared.
isPortInSubset(obj, e) == \E i \in DOMAIN obj : SameEndpoint(obj[i], e)

\* Mutant of WasReady: being there is taken for being ready.
WasThere(obj, e) == \E i \in DOMAIN obj : SameEndpoint(obj[i], e)

\* Mutant of WasReady: the search does not stop, so the last endpoint decides.
WasReadyLast(obj, e) == obj # <<>> /\ SameEndpoint(Last(obj), e) /\ Last(obj).ready

\* The first result of isPortInEndpointSlice, of the first match.
WasReady(obj, e) ==
    \E i \in DOMAIN obj : /\ SameEndpoint(obj[i], e) /\ obj[i].ready
                          /\ \A j \in 1..(i - 1) : ~SameEndpoint(obj[j], e)

(***************************************************************************)
(* The operations of the handlers.  An endpoint that cannot be added ends  *)
(* the handler, but for the update of a slice, which goes on.              *)
(***************************************************************************)
AddEpOp(e, ends) ==
    [op |-> "add", spn |-> e.name, addr |-> e.addr, local |-> e.local, ends |-> ends]
DeleteEpOp(e) == [op |-> "delete", spn |-> e.name, addr |-> e.addr, local |-> e.local]
StoreEpOp(o, obj) == [op |-> "store", ep |-> o, obj |-> obj]
PanicEpOp == [op |-> "panic"]

Ready(obj) == Picked(obj, {i \in DOMAIN obj : obj[i].ready})
\* The entries of obj that other does not have.
Missing(obj, other) == Picked(obj, {i \in DOMAIN obj : ~isPortInSubset(other, obj[i])})

AddEpOps(es, ends) == [i \in DOMAIN es |-> AddEpOp(es[i], ends)]
DeleteEpOps(es) == [i \in DOMAIN es |-> DeleteEpOp(es[i])]

\* AddEndpoints, DeleteEndpoints, UpdateEndpoints.
AddEndpointsOps(new) == AddEpOps(new, TRUE)

DeleteEndpointsOps(o, old) == DeleteEpOps(old) \o <<StoreEpOp(o, Nil)>>

\* Mutant of UpdateEndpointsOps: endpoints that are gone are not deleted.
UpdateEndpointsAddingOps(o, new, stored) ==
    AddEpOps(Missing(new, stored), TRUE) \o <<StoreEpOp(o, new)>>

\* Mutant of UpdateEndpointsOps: the endpoints that are gone go first.
UpdateEndpointsDeletingFirstOps(o, new, stored) ==
    DeleteEpOps(Missing(stored, new)) \o AddEpOps(Missing(new, stored), TRUE)
    \o <<StoreEpOp(o, new)>>

UpdateEndpointsOps(o, new, stored) ==
    AddEpOps(Missing(new, stored), TRUE) \o DeleteEpOps(Missing(stored, new))
    \o <<StoreEpOp(o, new)>>

\* processEpSlice dereferences the Ready condition of every endpoint.
SlicePanics(obj) == \E i \in DOMAIN obj : obj[i].ready = Nil

\* AddEndpointSlice, DeleteEndpointSlice, UpdateEndpointSlice.
AddEndpointSliceOps(new) ==
    IF SlicePanics(new) THEN <<PanicEpOp>> ELSE AddEpOps(Ready(new), TRUE)

\* Mutant of DeleteEndpointSliceOps: the slice stays in the cache.
DeleteEndpointSliceKeepingOps(o, old) == DeleteEpOps(Ready(old))

DeleteEndpointSliceOps(o, old) == DeleteEpOps(Ready(old)) \o <<StoreEpOp(o, Nil)>>

\* The first loop of UpdateEndpointSlice: the endpoints of the new slice that
\* become ready are added, those that are no longer ready deleted.
SliceChangeOps(new, stored) ==
    LET changed == Picked(new, {i \in DOMAIN new : new[i].ready # WasReady(stored, new[i])})
    IN  [k \in DOMAIN changed |-> IF changed[k].ready THEN AddEpOp(changed[k], FALSE)
                                  ELSE DeleteEpOp(changed[k])]

UpdateEndpointSliceOps(o, new, stored) ==
    IF SlicePanics(new) THEN <<PanicEpOp>>
    ELSE SliceChangeOps(new, stored) \o DeleteEpOps(Missing(Ready(stored), new))
         \o <<StoreEpOp(o, new)>>

AddOps(new) == IF EndpointSlice THEN AddEndpointSliceOps(new) ELSE AddEndpointsOps(new)
DeleteOps(o, old) ==
    IF EndpointSlice THEN DeleteEndpointSliceOps(o, old) ELSE DeleteEndpointsOps(o, old)
UpdateOps(o, new, stored) ==
    IF EndpointSlice THEN UpdateEndpointSliceOps(o, new, stored)
    ELSE UpdateEndpointsOps(o, new, stored)

(***************************************************************************)
(* The informer.                                                           *)
(***************************************************************************)
\* The add, update and delete handlers of the two controllers.
DeliverEndpoints(o) ==
    LET old == seenEp[o]
        new == apiEp[o]
        stored == IF epCache[o] = Nil THEN old ELSE epCache[o]
    IN  /\ proc = "running" /\ epTodo = <<>> /\ old # new
        /\ seenEp' = [seenEp EXCEPT ![o] = new]
        /\ epCache' = IF old = Nil THEN [epCache EXCEPT ![o] = new] ELSE epCache
        /\ epTodo' = IF old = Nil THEN AddOps(new)
                     ELSE IF new = Nil THEN DeleteOps(o, old)
                     ELSE UpdateOps(o, new, stored)
        /\ UNCHANGED <<vars, apiEp>>

\* A missed delete arrives as a tombstone.  handleDeleteEndpoint goes on with
\* the nil object; handleDeleteEndpointSlice looks for a Service inside the
\* tombstone, finds none and passes the event over.
DeliverEndpointsTombstone(o) ==
    /\ proc = "running" /\ epTodo = <<>>
    /\ seenEp[o] # Nil /\ apiEp[o] = Nil
    /\ seenEp' = [seenEp EXCEPT ![o] = Nil]
    /\ IF EndpointSlice THEN UNCHANGED vars ELSE Stop("panicked")
    /\ UNCHANGED <<apiEp, epCache, epTodo>>

(***************************************************************************)
(* The handlers.                                                           *)
(***************************************************************************)
\* The body of the loop of deleteEndpoint, on a match at arr[n].
DeleteAt(spn, w, arr, n) ==
    LET addr == arr[n].addr
        ids  == arr[n].ruleID
        w1   == updateServiceChain(spn, [w EXCEPT !.eps = RemoveAt(arr, n)])
        w2   == [w1 EXCEPT !.ec[addr] = DeleteChainRules(@, ids)]
    IN  IF w1.res # "ok" THEN w1
        ELSE IF ~DeleteChainRulesOK(w.ec[addr], ids) \/ EpChainBusy(w1, addr)
        THEN [w2 EXCEPT !.res = "error"]
        ELSE [w1 EXCEPT !.ec[addr] = Nil]

\* deleteEndpoint.  The loop ranges over the slice the caller read, while
\* append shifts the rest of its backing array down in place and leaves the
\* last element behind (arr), and goes on behind the first match: with an
\* address that is there twice it differs from Proxy's deleteEndpoint.  The
\* second match ends it, the chain of the address being gone.  Only this
\* goroutine changes the order of endpointsMap, so reading the slice and the
\* locked loop are one step.
deleteEndpointLoop(spn, addr, local, w) ==
    LET matches(eps, from) ==
            {i \in from..Len(eps) : eps[i].addr = addr /\ eps[i].local = local}
        first(S) == CHOOSE i \in S : \A j \in S : i <= j
        n   == first(matches(w.eps, 1))
        arr == Append(RemoveAt(w.eps, n), Last(w.eps))
        w1  == DeleteAt(spn, w, w.eps, n)
    IN  IF matches(w.eps, 1) = {} THEN w
        ELSE IF w1.res # "ok" \/ matches(arr, n + 1) = {} THEN w1
        ELSE DeleteAt(spn, w1, arr, first(matches(arr, n + 1)))

EpStep(kind) ==
    /\ proc = "running"
    /\ epTodo # <<>>
    /\ Head(epTodo).op = kind
    /\ UNCHANGED <<apiEp, seenEp>>

StepAddEndpoint ==
    /\ EpStep("add")
    /\ LET o == Head(epTodo) IN
         \E w \in {addEndpoint(o.spn, o.addr, o.local, Local(o.spn))} :
            /\ Commit(o.spn, w)
            /\ epTodo' = IF w.res # "ok" /\ o.ends THEN <<>> ELSE Tail(epTodo)
    /\ UNCHANGED epCache

\* An endpoint that cannot be deleted is passed over.
StepDeleteEndpoint ==
    /\ EpStep("delete")
    /\ LET o == Head(epTodo) IN
         \E w \in {deleteEndpointLoop(o.spn, o.addr, o.local, Local(o.spn))} : Commit(o.spn, w)
    /\ epTodo' = Tail(epTodo)
    /\ UNCHANGED epCache

StepStoreEndpoints ==
    /\ EpStep("store")
    /\ epCache' = [epCache EXCEPT ![Head(epTodo).ep] = Head(epTodo).obj]
    /\ epTodo' = Tail(epTodo)
    /\ UNCHANGED vars

StepPanicEndpoints ==
    /\ EpStep("panic")
    /\ Stop("panicked")
    /\ UNCHANGED <<epTodo, epCache>>

EpHandler ==
    StepAddEndpoint \/ StepDeleteEndpoint \/ StepStoreEndpoints \/ StepPanicEndpoints
=============================================================================
