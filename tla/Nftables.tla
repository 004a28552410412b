------------------------------ MODULE Nftables ------------------------------
(***************************************************************************)
(* The nftables objects nfproxy programs and the kernel operations it uses *)
(* on them (pkg/nftables/nftables.go and, marked external in the map, the  *)
(* netlink library and the kernel underneath).                             *)
(*                                                                         *)
(* A chain is Nil (it does not exist) or the sequence of its rules.  A     *)
(* rule keeps its handle, its kind, the chains it may jump to and the      *)
(* affinity map it refers to.  A set is a collection of elements; an       *)
(* element is found by its set and key and carries a verdict, the chain it *)
(* jumps to (Nil: a static chain, which always exists).                    *)
(*                                                                         *)
(* Simplifications: one table family; the hash that names a chain is       *)
(* taken to be injective, so a chain is named by what is hashed; an        *)
(* operation fails only for a reason visible in the kernel state.          *)
(***************************************************************************)
EXTENDS Naturals, Sequences, SequencesExt

CONSTANTS
    Nil,        \* "does not exist": no chain, no map, no service, no timeout
    Addr,       \* endpoint addresses, the ip:port pairs behind a service port
    IP,         \* the addresses a service is exposed on
    Port,       \* service ports and node ports
    Timeout     \* session affinity timeouts, in seconds

ASSUME NftAssumption ==
    /\ Port \subseteq Nat \ {0}
    /\ Timeout \subseteq Nat \ {0}
    /\ Nil \notin IP /\ Nil \notin Addr /\ Nil \notin Nat

(***************************************************************************)
(* Rules and chains.                                                       *)
(***************************************************************************)
\* The handles one chain and the rule identifiers remembered for it can use
\* at once (a bound of the model; the kernel never runs out of handles).
MaxHandle == 10
Handles == 1..MaxHandle

RuleKinds == {"counter", "matchact", "lb", "update", "masq", "dnat"}

\* The chain of a service port is named by its hash of name, IP and port.
SvcKey == IP \X Port

RuleType == [h : Handles, kind : RuleKinds, to : SUBSET (Nat \X Addr), map : SvcKey \cup {Nil}]

Rule(h, kind, to, map) == [h |-> h, kind |-> kind, to |-> to, map |-> map]

HandlesOf(c) == {c[i].h : i \in DOMAIN c}

\* A handle the kernel has not given to a rule that is still in use or still
\* remembered, for the next rule of the chain (the last one again should
\* they all be in use, which never happens).
NewHandle(used) ==
    IF Handles \subseteq used THEN MaxHandle ELSE CHOOSE h \in Handles \ used : TRUE

\* Chains().CreateImm: an existing chain is left as it is.
CreateChain(c) == IF c = Nil THEN <<>> ELSE c

HasRule(c, h) == c # Nil /\ h \in HandlesOf(c)

PositionOf(c, h) == CHOOSE p \in DOMAIN c : c[p].h = h

\* Rules().InsertImm with a position: the rule goes before the rule h.
InsertBefore(c, h, r) == InsertAt(c, PositionOf(c, h), r)

\* Rules().DeleteImm of a rule the chain has.
DeleteRule(c, h) == RemoveAt(c, PositionOf(c, h))

\* Mutant of ReplaceRule: the old rule is not deleted.
ReplaceRuleKeepingOld(c, h, r) == InsertBefore(c, h, r)

\* InsertImm before the old rule, then DeleteImm of the old rule.
ReplaceRule(c, h, r) == ReplaceAt(c, PositionOf(c, h), r)

\* deleteChainRules: DeleteImm for each identifier in turn, up to the first
\* one the chain does not have.
DeletedBefore(c, ids) ==
    {ids[j] : j \in {j \in DOMAIN ids : \A k \in 1..j : HasRule(c, ids[k])}}

DeleteChainRules(c, ids) ==
    IF c = Nil THEN Nil
    ELSE IF HandlesOf(c) \subseteq DeletedBefore(c, ids) THEN <<>>
    ELSE SelectSeq(c, LAMBDA r : r.h \notin DeletedBefore(c, ids))

DeleteChainRulesOK(c, ids) == c # Nil /\ \A j \in DOMAIN ids : HasRule(c, ids[j])

(***************************************************************************)
(* Sets.                                                                   *)
(***************************************************************************)
SetNames == {"cluster", "external", "loadbalancer", "nodeport", "markmasq", "noendpoints"}

\* Every element of one set has the same verdict for a given key.
Conflicts(sets, e) == \E x \in sets : x.set = e.set /\ x.key = e.key /\ x.to # e.to

\* AddToSet, AddToNodeportSet: an equal element is already there (EEXIST,
\* nil), one with another verdict refuses the new one (EBUSY, an error).
AddToSet(sets, e) == IF Conflicts(sets, e) THEN sets ELSE sets \cup {e}

\* Several AddToSet calls, given up at the first error.
AddAllToSets(sets, es) ==
    sets \cup {es[j] : j \in {j \in DOMAIN es : \A k \in 1..j : ~Conflicts(sets, es[k])}}

AddAllToSetsOK(sets, es) == \A j \in DOMAIN es : ~Conflicts(sets, es[j])

\* RemoveFromSet, RemoveFromNodeportSet: the element is found by its key, a
\* missing one (ENOENT) is no error.
RemoveFromSets(sets, es) == {x \in sets : \A e \in es : ~(x.set = e.set /\ x.key = e.key)}
=============================================================================
